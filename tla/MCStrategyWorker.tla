-------------------------- MODULE MCStrategyWorker --------------------------
(* Small instances of StrategyWorker for TLC.                              *)
EXTENDS StrategyWorker, TLC

OneOfEach == <<"valid", "malformed", "missing", "valid", "undecodable">>
TwoThenNone == <<2, 0, 0, 0, 0>>
OneValid == <<"valid">>
TwoOrders == <<2>>
=============================================================================
