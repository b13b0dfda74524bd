---------------------------- MODULE MCCachedTool ----------------------------
(***************************************************************************)
(* Instances of CachedTool for TLC.                                        *)
(***************************************************************************)
EXTENDS CachedTool, TLC

CONSTANTS lookup, search, x, y, c1, c2

\* Every tool has a function name of its own.
OwnNames == lookup :> "lookup" @@ search :> "search"

Symmetry == Permutations(Callers)
=============================================================================
