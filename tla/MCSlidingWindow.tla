-------------------------- MODULE MCSlidingWindow --------------------------
(***************************************************************************)
(* Instances of SlidingWindow for TLC.                                     *)
(***************************************************************************)
EXTENDS SlidingWindow, TLC

CONSTANTS k1, k2, tool, vip

\* k1 is used by direct callers of check(): both arguments, one or none, so
\* the configuration matters; "tool" and "vip" are both prefixes of it.
\* k2 belongs to a tool of rate_limited_tool: one rule, always explicit.
MCCovers == tool :> {k1, k2} @@ vip :> {k1}
MCRules == {[max_calls |-> 1, window |-> 2], [max_calls |-> 2, window |-> 1]}
MCDefault == [max_calls |-> 2, window |-> 2]
MCCallArgs == k1 :> {[max_calls |-> NoArg, window |-> NoArg],
                     [max_calls |-> 1, window |-> NoArg],
                     [max_calls |-> 3, window |-> 1]}
           @@ k2 :> {[max_calls |-> 2, window |-> 2]}
=============================================================================
