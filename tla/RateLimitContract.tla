------------------------- MODULE RateLimitContract -------------------------
(***************************************************************************)
(* What a rate limiter promises to the tools behind it, said without       *)
(* buckets, pruning or Redis: key k may be used Limit[k] times in any      *)
(* Window[k] units of time.  A call is admitted exactly when fewer than    *)
(* Limit[k] admitted calls are younger than Window[k]; a refused call      *)
(* leaves no trace.  The promise is that of RateLimiter.check in           *)
(* framework/rate_limiter.py ("Returns True if allowed, False if rate      *)
(* limit exceeded") for keys whose callers always pass the same limit and  *)
(* window, as EnhancedMCP.rate_limited_tool does; the limiter may serve    *)
(* other keys beside them.                                                 *)
(***************************************************************************)
EXTENDS Integers, FiniteSets

CONSTANTS
  Keys,    (* the keys that are limited                        *)
  Limit,   (* Limit[k]: calls allowed ...                      *)
  Window   (* Window[k]: ... in this much time                 *)

VARIABLES
  now,       (* the clock                                      *)
  admitted,  (* admitted[k]: calls let through since the last reset *)
  answer     (* the last decision given to a caller            *)

vars == <<now, admitted, answer>>

\* The admitted calls of k that still count against its limit.
Recent(k) == {c \in admitted[k] : c.at > now - Window[k]}

NoAnswer == [n |-> 0, key |-> "none", allowed |-> FALSE, limit |-> 0, window |-> 0]

Answer(k, allowed) ==
  answer' = [n |-> answer.n + 1, key |-> k, allowed |-> allowed,
             limit |-> Limit[k], window |-> Window[k]]

Init ==
  /\ now = 0
  /\ admitted = [k \in Keys |-> {}]
  /\ answer = NoAnswer

Admit(k) ==
  /\ Cardinality(Recent(k)) < Limit[k]
  /\ admitted' = [admitted EXCEPT ![k] = @ \cup {[at |-> now, id |-> answer.n + 1]}]
  /\ Answer(k, TRUE)
  /\ UNCHANGED now

Refuse(k) ==
  /\ Cardinality(Recent(k)) >= Limit[k]
  /\ Answer(k, FALSE)
  /\ UNCHANGED <<now, admitted>>

\* reset(key) and reset_all().
Forget(K) ==
  /\ admitted' = [k \in Keys |-> IF k \in K THEN {} ELSE admitted[k]]
  /\ UNCHANGED <<now, answer>>

\* The limiter answers for a key that is not one of these.
Elsewhere ==
  /\ answer' = [NoAnswer EXCEPT !.n = answer.n + 1]
  /\ UNCHANGED <<now, admitted>>

Pass ==
  /\ now' = now + 1
  /\ UNCHANGED <<admitted, answer>>

Next ==
  \/ \E k \in Keys : Admit(k) \/ Refuse(k)
  \/ \E K \in SUBSET Keys : Forget(K)
  \/ Elsewhere
  \/ Pass

Spec == Init /\ [][Next]_vars
=============================================================================
