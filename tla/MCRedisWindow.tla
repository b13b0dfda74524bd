--------------------------- MODULE MCRedisWindow ---------------------------
(***************************************************************************)
(* Instances of RedisWindow for TLC: two processes on one key.             *)
(***************************************************************************)
EXTENDS RedisWindow, TLC

CONSTANTS a, b

NoSkew == [p \in Procs |-> 0]
AheadSkew == a :> 1 @@ b :> 0
=============================================================================
