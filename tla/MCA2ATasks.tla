----------------------------- MODULE MCA2ATasks -----------------------------
(***************************************************************************)
(* Instances of A2ATasks for TLC.                                          *)
(***************************************************************************)
EXTENDS A2ATasks, TLC

CONSTANTS s, w, h, t1, t2

\* The webhook request and the plain one are made with one id.
MCIdOf == s :> t1 @@ w :> t2 @@ h :> t2
=============================================================================
