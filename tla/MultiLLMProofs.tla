--------------------------- MODULE MultiLLMProofs ---------------------------
(***************************************************************************)
(* Theorems about the multi_llm server, for any providers, priorities,     *)
(* numbers of concurrent requests, thresholds and cooldowns.               *)
(*                                                                         *)
(* A step does one of a few things to a breaker (Turn), and that alone     *)
(* decides when it trips.  That an open breaker sheds load is a matter of  *)
(* the requests: the queries a step adds go to providers whose breaker was *)
(* asked in that step.                                                     *)
(***************************************************************************)
EXTENDS MultiLLM, TLAPS

Breakers == [failures : 0..Threshold, left : Never..Cooldown,
             streak : 0..Threshold, probing : BOOLEAN]

\* What the code counts is no more than the failures in a row: the count is
\* also reset when a cooldown is over, the row is not.
Sound(b) == b.failures <= b.streak

\* The inductive invariant.
IInv ==
  /\ TypeOK
  /\ \A p \in Providers : Sound(breaker[p])

Ticked(b) == [b EXCEPT !.left = IF @ > 0 THEN @ - 1 ELSE @]

\* What a step may make of a breaker.
Turn(b, c) ==
  c \in {b, Checked(b), Failed(b), Checked(Failed(b)), Succeeded(b), Ticked(b)}

\* What a step makes of the breakers.
Turned ==
  /\ breaker' = [p \in Providers |-> breaker'[p]]
  /\ \A p \in Providers : Turn(breaker[p], breaker'[p])

\* What a step leaves of the requests: their types, and no new query to a
\* provider whose breaker is open afterwards.
Requested ==
  /\ kind' \in [Requests -> AllKinds \cup {"none"}]
  /\ leg' \in [Requests -> [Providers -> InFlight \cup {"none", "done"}]]
  /\ at' \in [Requests -> 0..(Len(Cheap) + Len(Best))]
  /\ cheap' \in Never..CacheTTL
  /\ \A r \in Requests, p \in Providers :
       leg'[r][p] \in InFlight => leg[r][p] \in InFlight \/ ~IsOpen(breaker'[p])

-----------------------------------------------------------------------------
(* One breaker                                                             *)

\* Looking at a breaker and recording a query's end keep its type, and the count
\* stays below the row of failures.
LEMMA TurnsSound ==
  ASSUME NEW b \in Breakers, Sound(b), NEW c, Turn(b, c)
  PROVE  c \in Breakers /\ Sound(c)
<1> USE MultiLLMAssumption DEF Breakers, Sound, Never
<1>1. ASSUME NEW d \in Breakers, Sound(d)
      PROVE  Checked(d) \in Breakers /\ Sound(Checked(d))
  <2>1. CASE d.left = 0
    <3>1. Checked(d) = [failures |-> 0, left |-> Never, streak |-> d.streak, probing |-> TRUE]
      BY <2>1 DEF Checked, Closed
    <3> QED  BY <1>1, <3>1
  <2>2. CASE d.left # 0
    BY <1>1, <2>2 DEF Checked
  <2> QED  BY <2>1, <2>2
<1>2. Failed(b) \in Breakers /\ Sound(Failed(b))
  BY DEF Failed
<1>3. Succeeded(b) \in Breakers /\ Sound(Succeeded(b))
  BY DEF Succeeded
<1>4. Ticked(b) \in Breakers /\ Sound(Ticked(b))
  BY DEF Ticked
<1> QED  BY <1>1, <1>2, <1>3, <1>4 DEF Turn

\* Only a failure that completes a row opens a breaker.
LEMMA TurnsTrip ==
  ASSUME NEW b \in Breakers, Sound(b), NEW c, Turn(b, c), ~IsOpen(b), IsOpen(c)
  PROVE  c.streak >= Threshold
<1> USE MultiLLMAssumption DEF Breakers, Sound, Never, IsOpen
<1>1. c \in {Failed(b), Checked(Failed(b))}
  <2>1. ~IsOpen(Checked(b))
    BY DEF Checked, Closed
  <2>2. ~IsOpen(Succeeded(b)) /\ ~IsOpen(Ticked(b))
    BY DEF Succeeded, Ticked
  <2> QED  BY <2>1, <2>2 DEF Turn
<1>2. Failed(b).left > 0 => Failed(b).streak >= Threshold
  BY DEF Failed
<1>3. Checked(Failed(b)).streak = Failed(b).streak /\ (Checked(Failed(b)).left > 0 => Failed(b).left > 0)
  <2>1. Failed(b) \in Breakers
    BY DEF Failed
  <2> QED  BY <2>1 DEF Checked, Closed
<1> QED  BY <1>1, <1>2, <1>3

\* Asking a breaker that is not open does not open it.
LEMMA CheckedStaysShut ==
  ASSUME NEW b \in Breakers, ~IsOpen(b)
  PROVE  ~IsOpen(Checked(b))
BY DEF Breakers, IsOpen, Checked, Closed, Never

-----------------------------------------------------------------------------
(* The requests                                                            *)

\* The priority lists hold providers.
LEMMA Priorities ==
  ASSUME NEW k
  PROVE  /\ Priority(k) \in Seq(Providers)
         /\ Len(Priority(k)) \in 0..(Len(Cheap) + Len(Best))
BY MultiLLMAssumption DEF Priority

\* Nothing happens to them.
LEMMA Idle ==
  ASSUME TypeOK, UNCHANGED <<kind, leg, at, cheap>>
  PROVE  Requested
BY DEF TypeOK, Requested

\* The tool returns.
LEMMA Returns ==
  ASSUME TypeOK, NEW r \in Requests, NEW k, Return(r, k)
  PROVE  Requested
BY MultiLLMAssumption DEF TypeOK, Return, Requested, NoLegs, InFlight, Never, AllKinds

\* The loop of the routers, from breakers b on: it asks some of them and
\* queries a provider whose breaker was not open.
LEMMA Routes ==
  ASSUME TypeOK, NEW r \in Requests, NEW k \in AllKinds \cup {"none"},
         NEW b \in [Providers -> Breakers], NEW i \in Nat \ {0}, RouteFrom(r, k, b, i)
  PROVE  Requested /\ \E P \in SUBSET Providers : breaker' = CheckAll(b, P)
<1> DEFINE seq == Priority(k)
           usable == {j \in i..Len(seq) : ~IsOpen(b[seq[j]])}
<1>1. seq \in Seq(Providers) /\ Len(seq) \in 0..(Len(Cheap) + Len(Best))
  BY Priorities
<1>2. Len(Cheap) \in Nat /\ Len(Best) \in Nat
  BY MultiLLMAssumption
<1>3. \A j \in i..Len(seq) : j \in 1..Len(seq) /\ seq[j] \in Providers
  BY <1>1
<1>4. CASE usable = {}
  <2>1. breaker' = CheckAll(b, {seq[j] : j \in i..Len(seq)}) /\ Return(r, k)
    BY <1>4 DEF RouteFrom
  <2>2. {seq[j] : j \in i..Len(seq)} \in SUBSET Providers
    BY <1>3
  <2> QED  BY <2>1, <2>2, Returns
<1>5. CASE usable # {}
  <2>1. PICK j \in usable :
          /\ breaker' = CheckAll(b, {seq[l] : l \in i..j})
          /\ kind' = [kind EXCEPT ![r] = k]
          /\ leg' = [leg EXCEPT ![r] = [NoLegs EXCEPT ![seq[j]] = "posting"]]
          /\ at' = [at EXCEPT ![r] = j]
          /\ UNCHANGED cheap
    BY <1>5 DEF RouteFrom
  <2>2. j \in i..Len(seq) /\ seq[j] \in Providers /\ j \in 0..(Len(Cheap) + Len(Best))
    BY <1>1, <1>2, <1>3
  <2>3. {seq[l] : l \in i..j} \in SUBSET Providers
    BY <1>1, <2>2
  <2>4. ~IsOpen(breaker'[seq[j]])
    <3>1. breaker'[seq[j]] = Checked(b[seq[j]])
      BY <2>1, <2>2 DEF CheckAll
    <3> QED  BY <2>2, <3>1, CheckedStaysShut
  <2>5. Requested
    BY <2>1, <2>2, <2>4 DEF TypeOK, Requested, NoLegs, InFlight
  <2> QED  BY <2>1, <2>3, <2>5
<1> QED  BY <1>4, <1>5

\* One answer of get_second_opinion, or the last one.
LEMMA Gathers ==
  ASSUME TypeOK, NEW r \in Requests, NEW p \in Providers, Gathered(r, p)
  PROVE  Requested
<1>1. CASE Return(r, "second")
  BY <1>1, Returns
<1>2. CASE leg' = [leg EXCEPT ![r][p] = "done"] /\ UNCHANGED <<kind, at, cheap>>
  BY <1>2 DEF TypeOK, Requested, InFlight
<1> QED  BY <1>1, <1>2 DEF Gathered

-----------------------------------------------------------------------------
(* The steps                                                               *)

\* Asking some of the breakers, after one of them may have been turned.
LEMMA Asked ==
  ASSUME TypeOK, NEW P \in SUBSET Providers, breaker' = CheckAll(breaker, P)
  PROVE  Turned
BY DEF CheckAll, Turned, Turn

\* What a step does to each breaker is a turn.
LEMMA StepsAreTurns ==
  ASSUME IInv, [Next]_vars
  PROVE  Turned /\ Requested
<1> USE DEF IInv
<1>0. breaker \in [Providers -> Breakers]
  BY DEF TypeOK, Breakers
<1>1. ASSUME NEW r \in Requests, NEW p \in Providers, QueryModel(r, p)
      PROVE  Turned /\ Requested
  <2>1. Turned
    BY <1>1, Asked DEF QueryModel
  <2>2. CASE IsOpen(breaker[p])
    <3>1. UNCHANGED <<kind, leg, at, cheap>>
      BY <1>1, <2>2 DEF QueryModel
    <3> QED  BY <2>1, <3>1, Idle
  <2>3. CASE ~IsOpen(breaker[p])
    <3>1. ~IsOpen(breaker'[p])
      BY <1>0, <1>1, <2>3, CheckedStaysShut DEF QueryModel, CheckAll
    <3>2. /\ kind' = [kind EXCEPT ![r] = "model"]
          /\ leg' = [leg EXCEPT ![r][p] = "posting"]
          /\ UNCHANGED <<at, cheap>>
      BY <1>1, <2>3 DEF QueryModel
    <3> QED  BY <2>1, <3>1, <3>2 DEF TypeOK, Requested, AllKinds, InFlight
  <2> QED  BY <2>1, <2>2, <2>3
<1>2. ASSUME NEW r \in Requests, NEW k \in {"cheap", "best"}, RouteFrom(r, k, breaker, 1)
      PROVE  Turned /\ Requested
  <2>1. Requested /\ \E P \in SUBSET Providers : breaker' = CheckAll(breaker, P)
    BY <1>0, <1>2, Routes DEF AllKinds
  <2> QED  BY <2>1, Asked
<1>3. ASSUME NEW r \in Requests, GetSecondOpinion(r)
      PROVE  Turned /\ Requested
  <2> DEFINE available == {p \in Providers : ~IsOpen(breaker[p])}
  <2>1. Turned
    BY <1>3, Asked DEF GetSecondOpinion
  <2>2. CASE available = {}
    <3>1. UNCHANGED <<kind, leg, at, cheap>>
      BY <1>3, <2>2 DEF GetSecondOpinion
    <3> QED  BY <2>1, <3>1, Idle
  <2>3. CASE available # {}
    <3>1. \A p \in available : ~IsOpen(breaker'[p])
      BY <1>0, <1>3, CheckedStaysShut DEF GetSecondOpinion, CheckAll
    <3>2. /\ kind' = [kind EXCEPT ![r] = "second"]
          /\ leg' = [leg EXCEPT ![r] = [p \in Providers |->
                       IF p \in available THEN "created" ELSE "none"]]
          /\ UNCHANGED <<at, cheap>>
      BY <1>3, <2>3 DEF GetSecondOpinion
    <3> HIDE DEF available
    <3> QED  BY <2>1, <3>1, <3>2 DEF TypeOK, Requested, AllKinds, InFlight
  <2> QED  BY <2>1, <2>2, <2>3
<1>4. CASE ListProviders
  BY <1>4, Asked DEF ListProviders, TypeOK, Requested
<1>5. ASSUME NEW r \in Requests, NEW p \in Providers, StartTask(r, p) \/ Retry(r, p)
      PROVE  Turned /\ Requested
  <2>1. Turned
    BY <1>0, <1>5 DEF StartTask, Retry, Turned, Turn
  <2>2. PICK s \in {"posting", "reposting"} :
          leg[r][p] \in InFlight /\ leg' = [leg EXCEPT ![r][p] = s] /\ UNCHANGED <<kind, at, cheap>>
    BY <1>5 DEF StartTask, Retry, InFlight
  <2>3. Requested
    BY <2>2 DEF TypeOK, Requested, InFlight
  <2> QED  BY <2>1, <2>3
<1>6. ASSUME NEW r \in Requests, NEW p \in Providers, Succeed(r, p)
      PROVE  Turned /\ Requested
  <2>1. Turned
    BY <1>0, <1>6 DEF Succeed, Turned, Turn
  <2>2. Requested
    BY <1>6, Gathers, Returns DEF Succeed
  <2> QED  BY <2>1, <2>2
<1>7. ASSUME NEW r \in Requests, NEW p \in Providers, Fail(r, p)
      PROVE  Turned /\ Requested
  <2> DEFINE b == [breaker EXCEPT ![p] = Failed(@)]
  <2>1. CASE breaker' = b /\ (Gathered(r, p) \/ Return(r, "model"))
    <3>1. Turned
      BY <1>0, <2>1 DEF Turned, Turn
    <3> QED  BY <2>1, <3>1, Gathers, Returns
  <2>2. CASE RouteFrom(r, kind[r], b, at[r] + 1)
    <3>1. b \in [Providers -> Breakers]
      <4>1. Turn(breaker[p], Failed(breaker[p]))
        BY DEF Turn
      <4> QED  BY <1>0, <4>1, TurnsSound
    <3>2. at[r] + 1 \in Nat \ {0} /\ kind[r] \in AllKinds \cup {"none"}
      BY MultiLLMAssumption DEF TypeOK
    <3>3. Requested /\ \E P \in SUBSET Providers : breaker' = CheckAll(b, P)
      BY <2>2, <3>1, <3>2, Routes
    <3>4. Turned
      BY <1>0, <3>3 DEF CheckAll, Turned, Turn
    <3> QED  BY <3>3, <3>4
  <2> QED  BY <1>7, <2>1, <2>2 DEF Fail
<1>8. ASSUME NEW r \in Requests, Abandon(r)
      PROVE  Turned /\ Requested
  BY <1>0, <1>8, Returns DEF Abandon, Turned, Turn
<1>9. CASE Tick
  <2>1. Turned
    BY <1>9 DEF Tick, Turned, Turn, Ticked
  <2>2. Requested
    BY <1>9, MultiLLMAssumption DEF Tick, TypeOK, Requested, Never
  <2> QED  BY <2>1, <2>2
<1>10. CASE UNCHANGED vars
  BY <1>0, <1>10 DEF vars, TypeOK, Requested, Turned, Turn
<1> QED
  BY <1>1, <1>2, <1>3, <1>4, <1>5, <1>6, <1>7, <1>8, <1>9, <1>10
     DEF Next, Start, Progress, QueryCheap, QueryBest

-----------------------------------------------------------------------------
(* The theorems                                                            *)

\* The invariant holds in the beginning.
LEMMA Initial == Init => IInv
BY MultiLLMAssumption DEF Init, IInv, TypeOK, Sound, NoLegs, Never

\* Every step keeps the invariant.
LEMMA Inductive == IInv /\ [Next]_vars => IInv'
<1> SUFFICES ASSUME IInv, [Next]_vars PROVE IInv'
  OBVIOUS
<1>1. Turned /\ Requested
  BY StepsAreTurns
<1>2. \A p \in Providers : breaker'[p] \in Breakers /\ Sound(breaker'[p])
  <2> TAKE p \in Providers
  <2>1. breaker[p] \in Breakers /\ Sound(breaker[p])
    BY DEF IInv, TypeOK, Breakers
  <2> QED  BY <1>1, <2>1, TurnsSound DEF Turned
<1>3. breaker' \in [Providers -> Breakers]
  BY <1>1, <1>2 DEF Turned
<1> QED  BY <1>1, <1>2, <1>3 DEF IInv, TypeOK, Requested, Breakers

\* The invariant holds in every reachable state.
LEMMA Invariance == Spec => []IInv
BY Initial, Inductive, PTL DEF Spec

\* The counters of a breaker stay within the threshold and the cooldown, and a
\* request within the priority lists.
THEOREM TypeCorrect == Spec => []TypeOK
<1>1. IInv => TypeOK
  BY DEF IInv
<1> QED  BY <1>1, Invariance, PTL

\* A breaker trips only after Threshold failed queries in a row, for any number
\* of concurrent requests, retries and cancellations.
THEOREM TripsInARow == Spec => TripNeedsFailuresInARow
<1>1. IInv /\ [Next]_vars =>
        \A p \in Providers : ~IsOpen(breaker[p]) /\ IsOpen(breaker'[p])
          => breaker'[p].streak >= Threshold
  <2> SUFFICES ASSUME IInv, [Next]_vars, NEW p \in Providers,
                      ~IsOpen(breaker[p]), IsOpen(breaker'[p])
               PROVE  breaker'[p].streak >= Threshold
    OBVIOUS
  <2>1. breaker[p] \in Breakers /\ Sound(breaker[p])
    BY DEF IInv, TypeOK, Breakers
  <2>2. Turn(breaker[p], breaker'[p])
    BY StepsAreTurns DEF Turned
  <2> QED  BY <2>1, <2>2, TurnsTrip
<1> QED  BY <1>1, Invariance, PTL DEF Spec, TripNeedsFailuresInARow

\* While a breaker is open, no tool sends its provider a new query.
THEOREM ShedsLoad == Spec => OpenShedsLoad
<1>1. IInv /\ [Next]_vars =>
        \A p \in Providers : IsOpen(breaker[p]) /\ IsOpen(breaker'[p])
          => {r \in Requests : leg'[r][p] \in InFlight}
               \subseteq {r \in Requests : leg[r][p] \in InFlight}
  BY StepsAreTurns DEF Requested
<1> QED  BY <1>1, Invariance, PTL DEF Spec, OpenShedsLoad
=============================================================================
