------------------------- MODULE RedisWindowProofs -------------------------
(***************************************************************************)
(* Theorems about the limiter that processes share over Redis, for any     *)
(* number of processes, limit, window, skews and faults.                   *)
(*                                                                         *)
(* The bound speaks of the calls that were let through, Redis counts its   *)
(* markers.  The link (Remembered) is that every call that was let through *)
(* and that is inside the window of the fastest clock still has its        *)
(* marker: a prune uses a cutoff that is no later than that clock's, the   *)
(* set expires a window after the last pipeline, and the ZREM of a refused *)
(* call takes out a marker of its own (Owned).                             *)
(***************************************************************************)
EXTENDS RedisWindow, FiniteSetTheorems, TLAPS

Markers == [at : Nat, id : Nat]
Commands == {"idle", "ping", "pipeline", "zrem", "count", "delete", "keys"}
Jobs == [op : AllOps \cup {"none"}, at : Nat, id : Nat]

Recording(p) == job[p].op = "record"

TypeInv ==
  /\ now \in Nat /\ expireAt \in Nat /\ calls \in Nat /\ faults \in Nat
  /\ zset \in SUBSET Markers /\ IsFiniteSet(zset)
  /\ pc \in [Procs -> Commands]
  /\ job \in [Procs -> Jobs]
  /\ passed \in SUBSET Markers
  /\ fallback \in [Procs -> SUBSET Markers]
  /\ localPassed \in [Procs -> SUBSET Markers]

\* What a process awaits fits what it does; no clock it read is ahead of the
\* fastest there is now, and the set never lives longer than a window.
Clocks ==
  /\ \A p \in Procs : pc[p] \in {"pipeline", "zrem"} => Recording(p)
  /\ \A p \in Procs : pc[p] = "ping" => job[p].op \in AllOps
  /\ \A p \in Procs : job[p].at <= now + MaxSkew
  /\ expireAt <= now + Window

\* A call under way has an id of its own.
Owned ==
  /\ \A m \in passed : m.id <= calls
  /\ \A p \in Procs : Recording(p) =>
       /\ job[p].id <= calls
       /\ \A m \in passed : m.id # job[p].id
       /\ \A q \in Procs : Recording(q) /\ job[q].id = job[p].id => p = q

\* A call that was let through and that some clock may still see has its marker
\* in the set, and the set outlives it.
Remembered ==
  \A m \in passed :
    /\ m.at <= expireAt + MaxSkew - Window
    /\ m.at > now + MaxSkew - Window => m \in zset

\* A fallback window holds what it let through inside the window.
Local ==
  \A p \in Procs :
    /\ IsFiniteSet(fallback[p]) /\ Cardinality(fallback[p]) <= Limit
    /\ \A m \in localPassed[p] : m.at > now - Window => m \in fallback[p]

\* While nothing breaks, a marker is that of a call that was let through or of
\* one whose ZREM is under way.
Quiet ==
  faults = 0 => \A m \in zset : m \in passed \/ \E p \in Procs : pc[p] = "zrem" /\ m = Marker(p)

\* The inductive invariant.
IInv == TypeInv /\ Clocks /\ Owned /\ Remembered /\ SharedBound /\ Local /\ Quiet

-----------------------------------------------------------------------------
(* Kinds of steps                                                          *)

\* What a command does to the set, its time to live and the calls let through.
Adds(p) == Recording(p) /\ PipelineEffect(p)
Removes(p) == Recording(p) /\ zset' = zset \ {Marker(p)} /\ UNCHANGED <<expireAt, passed>>
Prunes(p) == zset' = After(zset, job[p].at - Window) /\ UNCHANGED <<expireAt, passed>>
Drops == zset' = {} /\ passed' = {} /\ UNCHANGED expireAt
Spares == UNCHANGED <<redis, passed>>

\* A process begins a call, or issues the first command of one.
Starts(p) ==
  /\ \E op \in AllOps, at \in Nat, id \in Nat, where \in Commands \ {"idle", "zrem"} :
       /\ at <= now + MaxSkew
       /\ where = "pipeline" => op = "record"
       /\ job' = [job EXCEPT ![p] = [op |-> op, at |-> at, id |-> id]]
       /\ pc' = [pc EXCEPT ![p] = where]
       /\ op = "record" =>
            \/ calls' = calls + 1 /\ id = calls'
            \/ Recording(p) /\ UNCHANGED calls /\ id = job[p].id
  /\ pc[p] # "zrem"
  /\ calls' \in {calls, calls + 1}
  /\ Spares /\ UNCHANGED <<now, fallback, localPassed, faults>>

\* A command ends, and the process hears of it or not.
Ends(p) ==
  /\ \/ /\ Adds(p) /\ Cardinality(zset') <= Limit
        /\ passed' = passed \cup {Marker(p)} /\ Finish(p)
     \/ Adds(p) /\ UNCHANGED passed /\ Continue(p, "zrem")
     \/ Removes(p) /\ Finish(p)
     \/ /\ Prunes(p) \/ Drops \/ Spares
        /\ pc[p] # "zrem" /\ (Finish(p) \/ Continue(p, "delete"))
     \/ /\ (Adds(p) /\ UNCHANGED passed) \/ Removes(p) \/ Prunes(p) \/ Drops \/ Spares
        /\ Finish(p) /\ faults' = faults + 1
  /\ faults' \in {faults, faults + 1}
  /\ UNCHANGED <<fallback, localPassed>> \/ FallbackAnswer(p)
  /\ UNCHANGED <<now, calls>>

\* Every step is a tick, the start of a command, or its end.
LEMMA Kinds ==
  ASSUME IInv, [Next]_vars
  PROVE  UNCHANGED vars \/ Tick \/ \E p \in Procs : Starts(p) \/ Ends(p)
<1> USE RedisWindowAssumption DEF IInv
<1>1. ASSUME NEW p \in Procs, NEW op \in Ops, Begin(p, op)
      PROVE  Starts(p)
  <2>1. op \in AllOps /\ calls' \in {calls, calls + 1} /\ calls' \in Nat
    BY <1>1 DEF Begin, TypeInv
  <2>2. Command(op) \in Commands \ {"idle", "zrem"} /\ (Command(op) = "pipeline" => op = "record")
    BY <2>1 DEF Command, AllOps, Commands
  <2>3. Clock(p) \in Nat /\ Clock(p) <= now + MaxSkew
    BY DEF Clock, TypeInv
  <2>4. pc[p] = "idle" /\ Spares /\ UNCHANGED <<now, fallback, localPassed, faults>>
    BY <1>1 DEF Begin, Awaiting, Spares, redis, history
  <2>5. op = "record" => calls' = calls + 1
    BY <1>1 DEF Begin
  <2>6. CASE client[p]
    BY <1>1, <2>1, <2>2, <2>3, <2>4, <2>5, <2>6 DEF Begin, Issue, Starts
  <2>7. CASE ~client[p]
    <3>1. /\ job' = [job EXCEPT ![p] = [op |-> op, at |-> 0, id |-> calls']]
          /\ pc' = [pc EXCEPT ![p] = "ping"]
      BY <1>1, <2>7 DEF Begin
    <3>2. 0 <= now + MaxSkew /\ 0 \in Nat /\ "ping" \in Commands \ {"idle", "zrem"}
      BY DEF TypeInv, Commands
    <3> QED  BY <2>1, <2>4, <2>5, <3>1, <3>2 DEF Starts
  <2> QED  BY <2>6, <2>7
<1>2. ASSUME NEW p \in Procs, Connect(p)
      PROVE  Starts(p)
  <2> DEFINE op == job[p].op
  <2>1. pc[p] = "ping" /\ op \in AllOps /\ job[p].id \in Nat
    BY <1>2 DEF Connect, Awaiting, Clocks, TypeInv, Jobs
  <2>2. Command(op) \in Commands \ {"idle", "zrem"} /\ (Command(op) = "pipeline" => op = "record")
    BY <2>1 DEF Command, AllOps, Commands
  <2>3. Clock(p) \in Nat /\ Clock(p) <= now + MaxSkew
    BY DEF Clock, TypeInv
  <2>4. Spares /\ UNCHANGED <<now, fallback, localPassed, faults, calls>>
    BY <1>2 DEF Connect, Spares, redis, history
  <2> QED  BY <1>2, <2>1, <2>2, <2>3, <2>4 DEF Connect, Issue, Starts, Recording
<1>3. ASSUME NEW p \in Procs, Pipeline(p)
      PROVE  Ends(p)
  <2>1. Adds(p) /\ UNCHANGED <<now, calls, faults, fallback, localPassed>>
    BY <1>3 DEF Pipeline, Awaiting, Adds, Clocks
  <2>2. CASE Cardinality(zset') > Limit
    BY <1>3, <2>1, <2>2 DEF Pipeline, Ends
  <2>3. CASE ~(Cardinality(zset') > Limit)
    <3>1. Cardinality(zset') <= Limit
      <4>1. IsFiniteSet(zset')
        <5>1. After(zset, job[p].at - Window) \in SUBSET zset /\ IsFiniteSet(zset)
          BY DEF After, TypeInv
        <5>2. IsFiniteSet(After(zset, job[p].at - Window))
          BY <5>1, FS_Subset
        <5> QED  BY <2>1, <5>2, FS_AddElement DEF Adds, PipelineEffect
      <4> QED  BY <2>3, <4>1, FS_CardinalityType
    <3> QED  BY <1>3, <2>1, <2>3, <3>1 DEF Pipeline, Ends
  <2> QED  BY <2>2, <2>3
<1>4. ASSUME NEW p \in Procs, Zrem(p)
      PROVE  Ends(p)
  BY <1>4 DEF Zrem, Awaiting, Clocks, Removes, Ends, history
<1>5. ASSUME NEW p \in Procs, Count(p) \/ Delete(p) \/ ListKeys(p)
      PROVE  Ends(p)
  <2>1. pc[p] # "zrem" /\ UNCHANGED <<now, calls, faults, fallback, localPassed>>
    BY <1>5 DEF Count, Delete, ListKeys, Awaiting, history
  <2>2. Prunes(p) \/ Drops \/ Spares
    BY <1>5 DEF Count, Delete, ListKeys, Prunes, Drops, Spares, redis, history
  <2>3. Finish(p) \/ Continue(p, "delete")
    BY <1>5 DEF Count, Delete, ListKeys
  <2> QED  BY <2>1, <2>2, <2>3 DEF Ends
<1>6. ASSUME NEW p \in Procs, UnheardEffect(p)
      PROVE  (Adds(p) /\ UNCHANGED passed) \/ Removes(p) \/ Prunes(p) \/ Drops
  BY <1>6 DEF UnheardEffect, Awaiting, Adds, Removes, Prunes, Drops, Clocks
<1>7. ASSUME NEW p \in Procs, NEW kind \in ErrorKinds, CommandLost(p, kind) \/ ReplyLost(p, kind)
      PROVE  Ends(p)
  <2>1. /\ (Adds(p) /\ UNCHANGED passed) \/ Removes(p) \/ Prunes(p) \/ Drops \/ Spares
        /\ Broken(p, kind)
    BY <1>6, <1>7 DEF CommandLost, ReplyLost, Spares
  <2>2. /\ UNCHANGED <<fallback, localPassed>> \/ FallbackAnswer(p)
        /\ Finish(p) /\ faults' = faults + 1 /\ UNCHANGED <<now, calls>>
    BY <2>1 DEF Broken
  <2> QED  BY <2>1, <2>2 DEF Ends
<1>8. ASSUME NEW p \in Procs, Cancel(p)
      PROVE  Ends(p)
  <2>1. (Adds(p) /\ UNCHANGED passed) \/ Removes(p) \/ Prunes(p) \/ Drops \/ Spares
    BY <1>6, <1>8 DEF Cancel, Spares
  <2> QED  BY <1>8, <2>1 DEF Cancel, Ends
<1> QED
  BY <1>1, <1>2, <1>3, <1>4, <1>5, <1>7, <1>8 DEF Next

-----------------------------------------------------------------------------
(* The invariant                                                           *)

\* The invariant holds in the beginning.
LEMMA Initial == Init => IInv
<1> SUFFICES ASSUME Init PROVE IInv
  OBVIOUS
<1> USE RedisWindowAssumption DEF Init
<1>1. TypeInv /\ Clocks /\ Owned /\ Remembered /\ Quiet
  BY FS_EmptySet DEF TypeInv, Clocks, Owned, Remembered, Quiet, Markers, Commands, Jobs,
                     NoJob, Recording
<1>2. SharedBound
  <2>1. After(passed, now + MaxSkew - Window) = {}
    BY DEF After
  <2> QED  BY <2>1, FS_EmptySet DEF SharedBound
<1>3. Local
  BY FS_EmptySet DEF Local
<1> QED  BY <1>1, <1>2, <1>3 DEF IInv

\* Pruning keeps a finite set of markers.
LEMMA Pruned ==
  ASSUME NEW S \in SUBSET Markers, IsFiniteSet(S), NEW c
  PROVE  /\ After(S, c) \in SUBSET Markers
         /\ IsFiniteSet(After(S, c)) /\ Cardinality(After(S, c)) <= Cardinality(S)
<1>1. After(S, c) \in SUBSET S
  BY DEF After
<1> QED  BY <1>1, FS_Subset

\* What a record call adds to the set.
LEMMA MarkerType ==
  ASSUME TypeInv, NEW p \in Procs
  PROVE  Marker(p) \in Markers /\ Marker(p).at = job[p].at /\ Marker(p).id = job[p].id
BY DEF TypeInv, Jobs, Marker, Markers

\* The set after a command.
LEMMA SetType ==
  ASSUME TypeInv, NEW p \in Procs, Adds(p) \/ Removes(p) \/ Prunes(p) \/ Drops \/ Spares
  PROVE  zset' \in SUBSET Markers /\ IsFiniteSet(zset')
<1> USE DEF TypeInv
<1>1. CASE Adds(p)
  <2> DEFINE kept == After(zset, job[p].at - Window)
  <2>1. kept \in SUBSET Markers /\ IsFiniteSet(kept)
    BY Pruned
  <2>2. zset' = kept \cup {Marker(p)} /\ Marker(p) \in Markers
    BY <1>1, MarkerType DEF Adds, PipelineEffect
  <2> HIDE DEF kept
  <2> QED  BY <2>1, <2>2, FS_AddElement
<1>2. CASE Removes(p)
  BY <1>2, FS_RemoveElement DEF Removes
<1>3. CASE Prunes(p)
  BY <1>3, Pruned DEF Prunes
<1>4. CASE Drops \/ Spares
  BY <1>4, FS_EmptySet DEF Drops, Spares, redis
<1> QED  BY <1>1, <1>2, <1>3, <1>4

\* What the fallback window answers.
LEMMA FallbackType ==
  ASSUME TypeInv, NEW p \in Procs, UNCHANGED <<fallback, localPassed>> \/ FallbackAnswer(p)
  PROVE  fallback' \in [Procs -> SUBSET Markers] /\ localPassed' \in [Procs -> SUBSET Markers]
<1> DEFINE kept == After(fallback[p], now - Window)
           call == [at |-> now, id |-> job[p].id]
<1>1. kept \in SUBSET Markers /\ call \in Markers
  BY DEF TypeInv, After, Markers, Jobs
<1> HIDE DEF kept, call
<1>2. CASE fallback' = [fallback EXCEPT ![p] = kept \cup {call}]
            /\ localPassed' = [localPassed EXCEPT ![p] = @ \cup {call}]
  BY <1>1, <1>2 DEF TypeInv
<1>3. CASE fallback' = [fallback EXCEPT ![p] = kept] /\ UNCHANGED localPassed
  BY <1>1, <1>3 DEF TypeInv
<1>4. CASE fallback' = [fallback EXCEPT ![p] = {}] /\ localPassed' = [localPassed EXCEPT ![p] = {}]
  BY <1>4 DEF TypeInv
<1>5. CASE UNCHANGED <<fallback, localPassed>>
  BY <1>5 DEF TypeInv
<1> QED
  BY <1>2, <1>3, <1>4, <1>5 DEF FallbackAnswer, kept, call

\* Every kind of step keeps the types and the clocks.
LEMMA TypesKept ==
  ASSUME IInv, Tick \/ \E p \in Procs : Starts(p) \/ Ends(p)
  PROVE  TypeInv' /\ Clocks'
<1> USE RedisWindowAssumption DEF IInv
<1>1. CASE Tick
  <2>1. zset' \in SUBSET Markers /\ IsFiniteSet(zset')
    BY <1>1, FS_EmptySet DEF Tick, TypeInv
  <2>2. /\ now' = now + 1
        /\ UNCHANGED <<expireAt, pc, job, calls, faults, passed, fallback, localPassed>>
    BY <1>1 DEF Tick, tasks, history
  <2>3. TypeInv'
    BY <2>1, <2>2 DEF TypeInv
  <2>4. Clocks'
    BY <2>2 DEF Clocks, TypeInv, Jobs, Recording
  <2> QED  BY <2>3, <2>4
<1>2. ASSUME NEW p \in Procs, Starts(p)
      PROVE  TypeInv' /\ Clocks'
  <2>1. PICK op \in AllOps, at \in Nat, id \in Nat, where \in Commands \ {"idle", "zrem"} :
          /\ at <= now + MaxSkew
          /\ where = "pipeline" => op = "record"
          /\ job' = [job EXCEPT ![p] = [op |-> op, at |-> at, id |-> id]]
          /\ pc' = [pc EXCEPT ![p] = where]
    BY <1>2 DEF Starts
  <2>2. UNCHANGED <<zset, expireAt, passed, now, fallback, localPassed, faults>> /\ calls' \in Nat
    BY <1>2 DEF Starts, Spares, redis, TypeInv
  <2>3. [op |-> op, at |-> at, id |-> id] \in Jobs
    BY DEF Jobs
  <2>4. TypeInv'
    BY <2>1, <2>2, <2>3 DEF TypeInv
  <2>5. Clocks'
    BY <2>1, <2>2 DEF Clocks, TypeInv, Recording, Commands
  <2> QED  BY <2>4, <2>5
<1>3. ASSUME NEW p \in Procs, Ends(p)
      PROVE  TypeInv' /\ Clocks'
  <2>1. UNCHANGED <<now, calls>> /\ faults' \in Nat
    BY <1>3 DEF Ends, TypeInv
  <2>2. zset' \in SUBSET Markers /\ IsFiniteSet(zset')
    BY <1>3, SetType DEF Ends
  <2>3. fallback' \in [Procs -> SUBSET Markers] /\ localPassed' \in [Procs -> SUBSET Markers]
    BY <1>3, FallbackType DEF Ends
  <2>4. passed' \in SUBSET Markers
    BY <1>3, MarkerType DEF Ends, Adds, Removes, Prunes, Drops, Spares, TypeInv
  <2>5. expireAt' \in {expireAt, now + Window}
    BY <1>3 DEF Ends, Adds, PipelineEffect, Removes, Prunes, Drops, Spares, redis
  <2>6. \/ Finish(p)
        \/ Continue(p, "zrem") /\ Recording(p)
        \/ Continue(p, "delete")
    BY <1>3 DEF Ends, Adds
  <2>7. pc' \in [Procs -> Commands] /\ job' \in [Procs -> Jobs]
    BY <2>6 DEF Finish, Continue, NoJob, TypeInv, Commands, Jobs, AllOps
  <2>8. TypeInv'
    BY <2>1, <2>2, <2>3, <2>4, <2>5, <2>7 DEF TypeInv
  <2>9. \A q \in Procs : job'[q].at <= now + MaxSkew
    BY <2>6 DEF Finish, Continue, NoJob, TypeInv, Clocks
  <2>10. \A q \in Procs : /\ pc'[q] \in {"pipeline", "zrem"} => job'[q].op = "record"
                          /\ pc'[q] = "ping" => job'[q].op \in AllOps
    BY <2>6 DEF Finish, Continue, NoJob, TypeInv, Clocks, Recording
  <2>11. Clocks'
    BY <2>1, <2>5, <2>9, <2>10 DEF Clocks, Recording, TypeInv
  <2> QED  BY <2>8, <2>11
<1> QED  BY <1>1, <1>2, <1>3

\* Ids stay unique.
LEMMA OwnedKept ==
  ASSUME IInv, Tick \/ \E p \in Procs : Starts(p) \/ Ends(p)
  PROVE  Owned'
<1> USE DEF IInv
<1>1. CASE Tick
  BY <1>1 DEF Tick, tasks, history, Owned, Recording
<1>2. ASSUME NEW p \in Procs, Starts(p)
      PROVE  Owned'
  <2>1. PICK op \in AllOps, at \in Nat, id \in Nat :
          /\ job' = [job EXCEPT ![p] = [op |-> op, at |-> at, id |-> id]]
          /\ op = "record" =>
               \/ calls' = calls + 1 /\ id = calls'
               \/ Recording(p) /\ UNCHANGED calls /\ id = job[p].id
    BY <1>2 DEF Starts
  <2>2. UNCHANGED passed /\ calls' \in {calls, calls + 1} /\ calls \in Nat
    BY <1>2 DEF Starts, Spares, TypeInv
  <2>3. \A m \in passed : m.id <= calls /\ m.id \in Nat
    BY DEF Owned, TypeInv, Markers
  <2>4. \A q \in Procs \ {p} : job'[q] = job[q] /\ job[q].id \in Nat
    BY <2>1 DEF TypeInv, Jobs
  <2>5. job'[p].op = op /\ job'[p].id = id
    BY <2>1 DEF TypeInv
  <2>6. CASE calls' = calls + 1 /\ id = calls'
    BY <2>2, <2>3, <2>4, <2>5, <2>6 DEF Owned, Recording
  <2>7. CASE op # "record"
    BY <2>2, <2>3, <2>4, <2>5, <2>7 DEF Owned, Recording
  <2>8. CASE Recording(p) /\ UNCHANGED calls /\ id = job[p].id
    BY <2>2, <2>3, <2>4, <2>5, <2>8 DEF Owned, Recording
  <2> QED  BY <2>1, <2>6, <2>7, <2>8
<1>3. ASSUME NEW p \in Procs, Ends(p)
      PROVE  Owned'
  <2>1. UNCHANGED calls
    BY <1>3 DEF Ends
  <2>2. CASE UNCHANGED job /\ passed' \in SUBSET passed
    BY <2>1, <2>2 DEF Owned, Recording
  <2>3. CASE Finish(p)
    <3>1. ~Recording(p)' /\ \A q \in Procs \ {p} : job'[q] = job[q]
      BY <2>3 DEF Finish, NoJob, Recording, TypeInv
    <3>2. \A m \in passed' : m \in passed \/ (Recording(p) /\ m.id = job[p].id)
      <4>1. passed' \subseteq passed \/ (Recording(p) /\ passed' = passed \cup {Marker(p)})
        BY <1>3 DEF Ends, Adds, Removes, Prunes, Drops, Spares
      <4>2. Marker(p).id = job[p].id
        BY MarkerType
      <4> QED  BY <4>1, <4>2
    <3> QED  BY <2>1, <3>1, <3>2 DEF Owned, Recording
  <2>4. Finish(p) \/ (UNCHANGED job /\ passed' \in SUBSET passed)
    BY <1>3 DEF Ends, Continue, Adds, Removes, Prunes, Drops, Spares
  <2> QED  BY <2>2, <2>3, <2>4
<1> QED  BY <1>1, <1>2, <1>3

\* Calls that were let through are remembered.
LEMMA RememberedKept ==
  ASSUME IInv, Tick \/ \E p \in Procs : Starts(p) \/ Ends(p)
  PROVE  Remembered'
<1> USE RedisWindowAssumption DEF IInv
<1>0. /\ now \in Nat /\ expireAt \in Nat
      /\ \A m \in passed : m.at \in Nat
  BY DEF TypeInv, Markers
<1>1. CASE Tick
  <2>1. now' = now + 1 /\ zset' = (IF now' >= expireAt THEN {} ELSE zset) /\ UNCHANGED <<expireAt, passed>>
    BY <1>1 DEF Tick, history
  <2> QED  BY <1>0, <2>1 DEF Remembered
<1>2. ASSUME NEW p \in Procs, Starts(p)
      PROVE  Remembered'
  BY <1>2 DEF Starts, Spares, redis, Remembered
<1>3. ASSUME NEW p \in Procs, Ends(p)
      PROVE  Remembered'
  <2>1. UNCHANGED now /\ job[p].at \in Nat /\ job[p].at <= now + MaxSkew /\ expireAt <= now + Window
    BY <1>3 DEF Ends, TypeInv, Jobs, Clocks
  <2>2. \A m \in passed : m.at > now + MaxSkew - Window => m \in After(zset, job[p].at - Window)
    BY <1>0, <2>1 DEF Remembered, After
  <2>3. CASE Adds(p)
    <3>1. zset' = After(zset, job[p].at - Window) \cup {Marker(p)} /\ expireAt' = now + Window
      BY <2>3 DEF Adds, PipelineEffect
    <3>2. \A m \in passed' : m \in passed \/ m = Marker(p)
      BY <1>3, <2>3 DEF Ends, Removes, Prunes, Drops, Spares
    <3>3. \A m \in passed' : m.at <= now + MaxSkew
      BY <1>0, <2>1, <3>2, MarkerType DEF Remembered
    <3>4. \A m \in passed' : m.at \in Nat
      BY <1>0, <2>1, <3>2, MarkerType
    <3>5. \A m \in passed' : m.at <= expireAt' + MaxSkew - Window
      BY <1>0, <3>1, <3>3, <3>4
    <3>6. \A m \in passed' : m.at > now + MaxSkew - Window => m \in zset'
      BY <2>2, <3>1, <3>2
    <3> QED  BY <2>1, <3>5, <3>6 DEF Remembered
  <2>4. CASE Removes(p)
    <3>1. Marker(p) \notin passed
      BY <2>4, MarkerType DEF Removes, Owned
    <3> QED  BY <2>1, <2>4, <3>1 DEF Removes, Remembered
  <2>5. CASE Prunes(p)
    BY <2>1, <2>2, <2>5 DEF Prunes, Remembered
  <2>6. CASE Drops
    BY <2>6 DEF Drops, Remembered
  <2>7. CASE Spares
    BY <2>1, <2>7 DEF Spares, redis, Remembered
  <2> QED  BY <1>3, <2>3, <2>4, <2>5, <2>6, <2>7 DEF Ends
<1> QED  BY <1>1, <1>2, <1>3

\* The bound: a call is let through only when the set, with its marker in it, has
\* at most Limit markers, and the calls that count are among them.
LEMMA BoundKept ==
  ASSUME IInv, Tick \/ \E p \in Procs : Starts(p) \/ Ends(p), TypeInv', Remembered'
  PROVE  SharedBound'
<1> USE RedisWindowAssumption DEF IInv
<1> DEFINE Counted == After(passed, now + MaxSkew - Window)
<1>0. IsFiniteSet(Counted) /\ Counted \subseteq zset
  <2>1. Counted \in SUBSET zset
    BY DEF After, Remembered
  <2> QED  BY <2>1, FS_Subset DEF TypeInv
<1>1. CASE Counted' \subseteq Counted
  <2>1. IsFiniteSet(Counted') /\ Cardinality(Counted') <= Cardinality(Counted)
    BY <1>0, <1>1, FS_Subset
  <2>2. Cardinality(Counted') \in Nat /\ Cardinality(Counted) \in Nat
    BY <1>0, <2>1, FS_CardinalityType
  <2> QED  BY <2>1, <2>2 DEF SharedBound
<1>2. CASE Cardinality(zset') <= Limit
  <2>1. Counted' \in SUBSET zset' /\ IsFiniteSet(zset')
    BY DEF After, Remembered, TypeInv
  <2>2. IsFiniteSet(Counted') /\ Cardinality(Counted') <= Cardinality(zset')
    BY <2>1, FS_Subset
  <2>3. Cardinality(Counted') \in Nat /\ Cardinality(zset') \in Nat
    BY <2>1, <2>2, FS_CardinalityType
  <2> QED  BY <1>2, <2>2, <2>3 DEF SharedBound
<1>3. CASE Tick
  <2>1. now' = now + 1 /\ UNCHANGED passed /\ now \in Nat /\ \A m \in passed : m.at \in Nat
    BY <1>3 DEF Tick, history, TypeInv, Markers
  <2>2. Counted' \subseteq Counted
    BY <2>1 DEF After
  <2> QED  BY <1>1, <2>2
<1>4. ASSUME NEW p \in Procs, Starts(p)
      PROVE  SharedBound'
  BY <1>1, <1>4 DEF Starts, Spares, After
<1>5. ASSUME NEW p \in Procs, Ends(p)
      PROVE  SharedBound'
  <2>1. Cardinality(zset') <= Limit \/ passed' \subseteq passed
    BY <1>5 DEF Ends, Removes, Prunes, Drops, Spares
  <2>2. UNCHANGED now
    BY <1>5 DEF Ends
  <2> QED  BY <1>1, <1>2, <2>1, <2>2 DEF After
<1> QED  BY <1>3, <1>4, <1>5

\* The fallbacks keep their bound.
LEMMA LocalKept ==
  ASSUME IInv, Tick \/ \E p \in Procs : Starts(p) \/ Ends(p)
  PROVE  Local'
<1> USE RedisWindowAssumption DEF IInv
<1>0. /\ now \in Nat
      /\ \A q \in Procs : \A m \in localPassed[q] \cup fallback[q] : m.at \in Nat
  BY DEF TypeInv, Markers
<1>1. CASE Tick
  <2>1. now' = now + 1 /\ UNCHANGED <<fallback, localPassed>>
    BY <1>1 DEF Tick, history
  <2> QED  BY <1>0, <2>1 DEF Local
<1>2. ASSUME NEW p \in Procs, Starts(p)
      PROVE  Local'
  BY <1>2 DEF Starts, Local
<1>3. ASSUME NEW p \in Procs, Ends(p)
      PROVE  Local'
  <2> DEFINE kept == After(fallback[p], now - Window)
             call == [at |-> now, id |-> job[p].id]
  <2>0. UNCHANGED now
    BY <1>3 DEF Ends
  <2>1. /\ IsFiniteSet(kept) /\ Cardinality(kept) \in Nat /\ Cardinality(kept) <= Limit
        /\ \A m \in localPassed[p] : m.at > now - Window => m \in kept
    <3>1. IsFiniteSet(kept) /\ Cardinality(kept) <= Cardinality(fallback[p])
      BY Pruned DEF TypeInv, Local
    <3>2. Cardinality(kept) \in Nat /\ Cardinality(fallback[p]) \in Nat
      BY <3>1, FS_CardinalityType DEF Local
    <3> QED  BY <1>0, <3>1, <3>2 DEF Local, After
  <2> HIDE DEF kept, call
  <2>2. CASE /\ Cardinality(kept) < Limit
             /\ fallback' = [fallback EXCEPT ![p] = kept \cup {call}]
             /\ localPassed' = [localPassed EXCEPT ![p] = @ \cup {call}]
    <3>1. IsFiniteSet(kept \cup {call}) /\ Cardinality(kept \cup {call}) <= Limit
      <4>1. /\ IsFiniteSet(kept \cup {call})
            /\ Cardinality(kept \cup {call}) = IF call \in kept THEN Cardinality(kept) ELSE Cardinality(kept) + 1
        BY <2>1, FS_AddElement
      <4> QED  BY <2>1, <2>2, <4>1
    <3> QED  BY <2>0, <2>1, <2>2, <3>1 DEF Local, TypeInv
  <2>3. CASE fallback' = [fallback EXCEPT ![p] = kept] /\ UNCHANGED localPassed
    BY <2>0, <2>1, <2>3 DEF Local, TypeInv
  <2>4. CASE fallback' = [fallback EXCEPT ![p] = {}] /\ localPassed' = [localPassed EXCEPT ![p] = {}]
    BY <2>0, <2>4, FS_EmptySet DEF Local, TypeInv
  <2>5. CASE UNCHANGED <<fallback, localPassed>>
    BY <2>0, <2>5 DEF Local
  <2> QED
    BY <1>3, <2>2, <2>3, <2>4, <2>5 DEF Ends, FallbackAnswer, kept, call
<1> QED  BY <1>1, <1>2, <1>3

\* Without faults only calls let through or under way leave markers.
LEMMA QuietKept ==
  ASSUME IInv, Tick \/ \E p \in Procs : Starts(p) \/ Ends(p)
  PROVE  Quiet'
<1> USE DEF IInv
<1> SUFFICES ASSUME faults' = 0, NEW m \in zset'
             PROVE  m \in passed' \/ \E q \in Procs : pc'[q] = "zrem" /\ m = Marker(q)'
  BY DEF Quiet
<1>1. CASE Tick
  <2>1. m \in zset /\ UNCHANGED <<passed, pc, job, faults>>
    BY <1>1 DEF Tick, tasks, history
  <2> QED  BY <2>1 DEF Quiet, Marker
<1>2. ASSUME NEW p \in Procs, Starts(p)
      PROVE  m \in passed' \/ \E q \in Procs : pc'[q] = "zrem" /\ m = Marker(q)'
  <2>1. m \in zset /\ UNCHANGED <<passed, faults>> /\ pc[p] # "zrem"
    BY <1>2 DEF Starts, Spares, redis
  <2>2. \A q \in Procs \ {p} : pc'[q] = pc[q] /\ job'[q] = job[q]
    BY <1>2 DEF Starts, TypeInv
  <2> QED  BY <2>1, <2>2 DEF Quiet, Marker
<1>3. ASSUME NEW p \in Procs, Ends(p)
      PROVE  m \in passed' \/ \E q \in Procs : pc'[q] = "zrem" /\ m = Marker(q)'
  <2>1. faults = 0 /\ faults' # faults + 1
    BY <1>3 DEF Ends, TypeInv
  <2>2. \A q \in Procs \ {p} : pc'[q] = pc[q] /\ Marker(q)' = Marker(q)
    BY <1>3 DEF Ends, Finish, Continue, TypeInv, Marker
  <2>3. CASE Adds(p) /\ passed' = passed \cup {Marker(p)} /\ Finish(p)
    <3>1. m = Marker(p) \/ m \in zset
      BY <2>3 DEF Adds, PipelineEffect, After
    <3>2. pc[p] = "zrem" => Marker(p) \in passed'
      BY <2>3
    <3> QED  BY <2>1, <2>2, <2>3, <3>1, <3>2 DEF Quiet
  <2>4. CASE Adds(p) /\ UNCHANGED passed /\ Continue(p, "zrem")
    <3>1. m = Marker(p) \/ m \in zset
      BY <2>4 DEF Adds, PipelineEffect, After
    <3>2. pc'[p] = "zrem" /\ Marker(p)' = Marker(p)
      BY <2>4 DEF Continue, Marker, TypeInv
    <3> QED  BY <2>1, <2>2, <2>4, <3>1, <3>2 DEF Quiet
  <2>5. CASE Removes(p) /\ Finish(p)
    <3>1. m \in zset /\ m # Marker(p) /\ UNCHANGED passed
      BY <2>5 DEF Removes
    <3> QED  BY <2>1, <2>2, <3>1 DEF Quiet
  <2>6. CASE (Prunes(p) \/ Drops \/ Spares) /\ pc[p] # "zrem"
    <3>1. m \in zset /\ UNCHANGED passed
      BY <2>6 DEF Prunes, Drops, Spares, redis, After
    <3> QED  BY <2>1, <2>2, <2>6, <3>1 DEF Quiet
  <2> QED  BY <1>3, <2>1, <2>3, <2>4, <2>5, <2>6 DEF Ends
<1> QED  BY <1>1, <1>2, <1>3

\* Every step keeps the invariant.
LEMMA Inductive == IInv /\ [Next]_vars => IInv'
<1> SUFFICES ASSUME IInv, [Next]_vars PROVE IInv'
  OBVIOUS
<1>1. CASE UNCHANGED vars
  BY <1>1 DEF IInv, vars, TypeInv, Clocks, Owned, Remembered, SharedBound, Local, Quiet,
              Recording, Marker, After
<1>2. CASE Tick \/ \E p \in Procs : Starts(p) \/ Ends(p)
  BY <1>2, TypesKept, OwnedKept, RememberedKept, BoundKept, LocalKept, QuietKept DEF IInv
<1> QED  BY <1>1, <1>2, Kinds

\* The invariant holds in every reachable state.
LEMMA Invariance == Spec => []IInv
BY Initial, Inductive, PTL DEF Spec

-----------------------------------------------------------------------------
(* The theorems                                                            *)

\* Redis lets no more than Limit calls through inside a window shortened by the
\* largest skew, for any number of processes, any interleaving of their
\* commands, and any commands, replies and tasks lost.
THEOREM SharedLimit == Spec => []SharedBound
<1>1. IInv => SharedBound
  BY DEF IInv
<1> QED  BY <1>1, Invariance, PTL

\* The fallback window of a process lets no more than Limit calls through
\* inside a window.
THEOREM FallbackLimit == Spec => []FallbackBound
<1>1. IInv => FallbackBound
  <2> SUFFICES ASSUME IInv, NEW p \in Procs
               PROVE  Cardinality(After(localPassed[p], now - Window)) <= Limit
    BY DEF FallbackBound
  <2> DEFINE recent == After(localPassed[p], now - Window)
  <2>1. recent \in SUBSET fallback[p] /\ IsFiniteSet(fallback[p])
    BY DEF IInv, Local, After
  <2>2. IsFiniteSet(recent) /\ Cardinality(recent) <= Cardinality(fallback[p])
    BY <2>1, FS_Subset
  <2>3. Cardinality(recent) \in Nat /\ Cardinality(fallback[p]) \in Nat
    BY <2>1, <2>2, FS_CardinalityType
  <2>4. Cardinality(fallback[p]) <= Limit /\ Limit \in Nat
    BY RedisWindowAssumption DEF IInv, Local
  <2> QED  BY <2>2, <2>3, <2>4
<1> QED  BY <1>1, Invariance, PTL

\* When nothing breaks, refused calls leave nothing behind.
THEOREM RefusedLeaveNothing == Spec => []QuietMeansClean
<1>1. IInv => QuietMeansClean
  BY DEF IInv, Quiet, QuietMeansClean
<1> QED  BY <1>1, Invariance, PTL
=============================================================================
