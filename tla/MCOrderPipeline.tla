--------------------------- MODULE MCOrderPipeline ---------------------------
(* Small instances of OrderPipeline for TLC: one request, or two with the  *)
(* same body on a stream each.  The two streams carry tokens and           *)
(* claim different users, so that validateToken makes them one user; a     *)
(* third stream carries an empty token.                                    *)
EXTENDS OrderPipeline, TLC

CONSTANTS r1, r2, s1, s2, s3, u1, u2, b1

FirstStream == r1 :> s1
FirstBody == r1 :> b1
TwoStreams == (r1 :> s1) @@ (r2 :> s2)
SameBody == (r1 :> b1) @@ (r2 :> b1)

Tokens == (s1 :> "token") @@ (s2 :> "token") @@ (s3 :> "empty")
Claims == (s1 :> u1) @@ (s2 :> u2) @@ (s3 :> u2)
NoHeader == s1 :> "absent"
Claim == s1 :> u1
=============================================================================
