------------------------------ MODULE MultiLLM ------------------------------
(***************************************************************************)
(* The multi_llm server: tools that route prompts to LLM providers, each   *)
(* behind its own circuit breaker (servers/multi_llm/server.py,            *)
(* providers.py, models.py, router.py).                                    *)
(*                                                                         *)
(* Requests run as asyncio tasks of one process.  A request awaits only    *)
(* inside provider.query (the POST, and the pause before its one retry)    *)
(* and in get_second_opinion, which checks every breaker first and starts  *)
(* one task per closed one; everything between two awaits is one step.     *)
(*                                                                         *)
(* Time is relative: a breaker carries the time left until _open_until,    *)
(* and the cache entry of query_cheap (one prompt, cached_tool with        *)
(* ttl=300) the time left until it expires.  So time has no bound.         *)
(*                                                                         *)
(* History fields of a breaker: streak, the failed queries since the last  *)
(* success; probing, whether no query completed since a cooldown was over. *)
(***************************************************************************)
EXTENDS Integers, FiniteSets, Sequences

CONSTANTS
  Providers,   (* the configured providers                                 *)
  Cheap, Best, (* CHEAP_PRIORITY and BEST_PRIORITY, configured ones only   *)
  Requests,    (* the tasks that may run at once                           *)
  Kinds,       (* the tools in use                                         *)
  Threshold,   (* failure_threshold                                        *)
  Cooldown,    (* cooldown_seconds                                         *)
  CacheTTL     (* ttl of query_cheap                                       *)

AllKinds == {"model", "cheap", "best", "second"}

ASSUME MultiLLMAssumption ==
  /\ Cheap \in Seq(Providers) /\ Best \in Seq(Providers)
  /\ Kinds \subseteq AllKinds
  /\ Threshold \in Nat \ {0} /\ Cooldown \in Nat \ {0} /\ CacheTTL \in Nat

VARIABLES
  breaker,   (* breaker[p]: the CircuitBreaker of p                        *)
  kind,      (* kind[r]: the tool r runs, or "none"                        *)
  leg,       (* leg[r][p]: how far the query of r to p has come            *)
  at,        (* at[r]: position of r in its priority list                  *)
  cheap      (* time left of the cached answer of query_cheap, or Never    *)

vars == <<breaker, kind, leg, at, cheap>>

-----------------------------------------------------------------------------
(* CircuitBreaker                                                          *)

Never == -1   \* _open_until = 0.0; no cached answer

Closed(b) == [failures |-> 0, left |-> Never, streak |-> b.streak, probing |-> b.probing]

\* What is_open returns, ...
IsOpen(b) == b.left > 0

\* Mutant of Checked: a look at an open breaker starts its cooldown anew.
CheckedRearms(b) ==
  IF b.left = 0 THEN [Closed(b) EXCEPT !.probing = TRUE]
  ELSE IF b.left > 0 THEN [b EXCEPT !.left = Cooldown] ELSE b

\* ... and what it leaves behind: once the cooldown is over it auto-resets.
Checked(b) == IF b.left = 0 THEN [Closed(b) EXCEPT !.probing = TRUE] ELSE b

\* record_failure; more failures than the threshold act alike.
Failed(b) ==
  LET n == IF b.failures < Threshold THEN b.failures + 1 ELSE Threshold
  IN  [failures |-> n,
       left     |-> IF n >= Threshold THEN Cooldown ELSE b.left,
       streak   |-> IF b.streak < Threshold THEN b.streak + 1 ELSE Threshold,
       probing  |-> FALSE]

\* Mutant of Succeeded: a success does not take the failures back.
SucceededKeepsFailures(b) ==
  [failures |-> b.failures, left |-> Never, streak |-> 0, probing |-> FALSE]

\* record_success.
Succeeded(b) == [failures |-> 0, left |-> Never, streak |-> 0, probing |-> FALSE]

CheckAll(b, P) == [p \in Providers |-> IF p \in P THEN Checked(b[p]) ELSE b[p]]

-----------------------------------------------------------------------------
(* Requests                                                                *)

InFlight == {"created", "posting", "reposting"}
NoLegs == [p \in Providers |-> "none"]

Priority(k) == IF k = "cheap" THEN Cheap ELSE Best

Init ==
  /\ breaker = [p \in Providers |->
                  [failures |-> 0, left |-> Never, streak |-> 0, probing |-> FALSE]]
  /\ kind = [r \in Requests |-> "none"]
  /\ leg = [r \in Requests |-> NoLegs]
  /\ at = [r \in Requests |-> 0]
  /\ cheap = Never

\* The tool returns.  cached_tool stores what query_cheap returned, an
\* error string like any other answer.
Return(r, k) ==
  /\ kind' = [kind EXCEPT ![r] = "none"]
  /\ leg' = [leg EXCEPT ![r] = NoLegs]
  /\ at' = [at EXCEPT ![r] = 0]
  /\ cheap' = IF k = "cheap" THEN CacheTTL ELSE cheap

\* The loop of query_cheap and query_best from position i on, with the
\* breakers in state b: skip the open ones, query the first that is not.
RouteFrom(r, k, b, i) ==
  LET seq == Priority(k)
      usable == {j \in i..Len(seq) : ~IsOpen(b[seq[j]])}
  IN  \/ /\ usable = {}
         /\ breaker' = CheckAll(b, {seq[j] : j \in i..Len(seq)})
         /\ Return(r, k)
      \/ \E j \in usable :
           /\ \A l \in usable : j <= l
           /\ breaker' = CheckAll(b, {seq[l] : l \in i..j})
           /\ kind' = [kind EXCEPT ![r] = k]
           /\ leg' = [leg EXCEPT ![r] = [NoLegs EXCEPT ![seq[j]] = "posting"]]
           /\ at' = [at EXCEPT ![r] = j]
           /\ UNCHANGED cheap

\* Mutant of QueryModel: the breaker is not asked.
QueryModelUnchecked(r, p) ==
  /\ kind[r] = "none"
  /\ kind' = [kind EXCEPT ![r] = "model"]
  /\ leg' = [leg EXCEPT ![r][p] = "posting"]
  /\ UNCHANGED <<breaker, at, cheap>>

\* query_model: refuse when the breaker is open, else query.
QueryModel(r, p) ==
  /\ kind[r] = "none"
  /\ breaker' = CheckAll(breaker, {p})
  /\ IF IsOpen(breaker[p])
     THEN UNCHANGED <<kind, leg>>
     ELSE /\ kind' = [kind EXCEPT ![r] = "model"]
          /\ leg' = [leg EXCEPT ![r][p] = "posting"]
  /\ UNCHANGED <<at, cheap>>

\* query_cheap behind cached_tool: a cached answer is served as it is.
QueryCheap(r) ==
  /\ kind[r] = "none"
  /\ cheap = Never
  /\ RouteFrom(r, "cheap", breaker, 1)

QueryBest(r) ==
  /\ kind[r] = "none"
  /\ RouteFrom(r, "best", breaker, 1)

\* get_second_opinion: one task for every provider whose breaker is closed.
GetSecondOpinion(r) ==
  LET available == {p \in Providers : ~IsOpen(breaker[p])}
  IN  /\ kind[r] = "none"
      /\ breaker' = CheckAll(breaker, Providers)
      /\ IF available = {}
         THEN UNCHANGED <<kind, leg>>
         ELSE /\ kind' = [kind EXCEPT ![r] = "second"]
              /\ leg' = [leg EXCEPT ![r] = [p \in Providers |->
                           IF p \in available THEN "created" ELSE "none"]]
      /\ UNCHANGED <<at, cheap>>

\* list_providers asks every breaker, which may auto-reset it.
ListProviders ==
  /\ breaker' = CheckAll(breaker, Providers)
  /\ UNCHANGED <<kind, leg, at, cheap>>

-----------------------------------------------------------------------------
(* Queries                                                                 *)

\* The event loop starts a task that gather created.
StartTask(r, p) ==
  /\ leg[r][p] = "created"
  /\ leg' = [leg EXCEPT ![r][p] = "posting"]
  /\ UNCHANGED <<breaker, kind, at, cheap>>

\* _post_with_retry: 429 or 503, one second, and the POST once more.
Retry(r, p) ==
  /\ leg[r][p] = "posting"
  /\ leg' = [leg EXCEPT ![r][p] = "reposting"]
  /\ UNCHANGED <<breaker, kind, at, cheap>>

\* Mutant of Gathered: the query that just ended counts as running.
GatheredNever(r, p) ==
  LET others == \E q \in Providers : leg[r][q] \in InFlight
  IN  IF others
      THEN /\ leg' = [leg EXCEPT ![r][p] = "done"]
           /\ UNCHANGED <<kind, at, cheap>>
      ELSE Return(r, "second")

\* One answer of get_second_opinion is in; the last one ends it.
Gathered(r, p) ==
  LET others == \E q \in Providers \ {p} : leg[r][q] \in InFlight
  IN  IF others
      THEN /\ leg' = [leg EXCEPT ![r][p] = "done"]
           /\ UNCHANGED <<kind, at, cheap>>
      ELSE Return(r, "second")

Succeed(r, p) ==
  /\ leg[r][p] \in {"posting", "reposting"}
  /\ breaker' = [breaker EXCEPT ![p] = Succeeded(@)]
  /\ IF kind[r] = "second" THEN Gathered(r, p) ELSE Return(r, kind[r])

Fail(r, p) ==
  LET b == [breaker EXCEPT ![p] = Failed(@)]
  IN  /\ leg[r][p] \in {"posting", "reposting"}
      /\ CASE kind[r] = "second" -> breaker' = b /\ Gathered(r, p)
           [] kind[r] = "model" -> breaker' = b /\ Return(r, "model")
           [] OTHER -> RouteFrom(r, kind[r], b, at[r] + 1)

\* The 45 s of get_second_opinion are over, or the caller went away: the
\* queries are cancelled and their breakers told nothing.
Abandon(r) ==
  /\ kind[r] # "none"
  /\ Return(r, "none")
  /\ UNCHANGED breaker

Tick ==
  /\ breaker' = [p \in Providers |->
       [breaker[p] EXCEPT !.left = IF @ > 0 THEN @ - 1 ELSE @]]
  /\ cheap' = IF cheap > 0 THEN cheap - 1 ELSE Never
  /\ UNCHANGED <<kind, leg, at>>

Start(r) ==
  \/ "model" \in Kinds /\ \E p \in Providers : QueryModel(r, p)
  \/ "cheap" \in Kinds /\ QueryCheap(r)
  \/ "best" \in Kinds /\ QueryBest(r)
  \/ "second" \in Kinds /\ GetSecondOpinion(r)

Progress(r, p) == StartTask(r, p) \/ Succeed(r, p) \/ Fail(r, p)

Next ==
  \/ \E r \in Requests :
       \/ Start(r)
       \/ Abandon(r)
       \/ \E p \in Providers : Retry(r, p) \/ Progress(r, p)
  \/ ListProviders
  \/ Tick

\* Time passes, the event loop starts what is ready and every POST ends:
\* the providers' HTTP clients have a 30 s timeout.
Fairness ==
  /\ WF_vars(Tick)
  /\ \A r \in Requests, p \in Providers : WF_vars(Progress(r, p))

Spec == Init /\ [][Next]_vars
FairSpec == Spec /\ Fairness

-----------------------------------------------------------------------------
(* Properties                                                              *)

\* Every variable keeps its type.
TypeOK ==
  /\ breaker \in [Providers -> [failures : 0..Threshold, left : Never..Cooldown,
                                streak : 0..Threshold, probing : BOOLEAN]]
  /\ kind \in [Requests -> AllKinds \cup {"none"}]
  /\ leg \in [Requests -> [Providers -> InFlight \cup {"none", "done"}]]
  /\ at \in [Requests -> 0..(Len(Cheap) + Len(Best))]
  /\ cheap \in Never..CacheTTL

\* A breaker trips only after Threshold failed queries in a row, however
\* the completions of concurrent requests interleave and whatever retries,
\* cancellations and auto-resets lie between them.
TripNeedsFailuresInARow ==
  [][ \A p \in Providers : ~IsOpen(breaker[p]) /\ IsOpen(breaker'[p])
        => breaker'[p].streak >= Threshold ]_vars

\* While a breaker is open the queries to its provider only run out: no
\* tool sends it new ones.
OpenShedsLoad ==
  [][ \A p \in Providers : IsOpen(breaker[p]) /\ IsOpen(breaker'[p])
        => {r \in Requests : leg'[r][p] \in InFlight}
             \subseteq {r \in Requests : leg[r][p] \in InFlight} ]_vars

\* No provider stays shut out: an open breaker, also one that late failures
\* keep extending, eventually lets queries through again.
Recovers == \A p \in Providers : IsOpen(breaker[p]) ~> ~IsOpen(breaker[p])

\* Every tool call ends: the routers run out of providers and a gather ends
\* with its last query.
Answered == \A r \in Requests : kind[r] # "none" ~> kind[r] = "none"

\* ADR-0003: after the cooldown the next request is a probe, "failure
\* restarts the 60s timer".
ProbeFailureReopens ==
  [][ \A p \in Providers :
        breaker[p].probing /\ breaker'[p].failures > breaker[p].failures
          => IsOpen(breaker'[p]) ]_vars
=============================================================================
