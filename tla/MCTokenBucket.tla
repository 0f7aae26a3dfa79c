---------------------------- MODULE MCTokenBucket ----------------------------
(* Small instances of TokenBucket for TLC.                                 *)
EXTENDS TokenBucket, TLC

Symmetric == Permutations(Callers)
=============================================================================
