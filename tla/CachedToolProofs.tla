-------------------------- MODULE CachedToolProofs --------------------------
(***************************************************************************)
(* What CachedTool promises for any tools, arguments, callers, ttl and     *)
(* length of a run.  The inductive invariant says how old the data behind  *)
(* an entry, or behind a call that has read, may be by now: an entry that  *)
(* has left of its ttl was stored TTL - left ago, by a call that had read  *)
(* no more than MaxRun before.                                             *)
(***************************************************************************)
EXTENDS CachedTool, TLAPS

-----------------------------------------------------------------------------
(* The inductive invariant                                                 *)

\* A call that is not idle is one of a tool with an argument.
CallsNamed ==
  \A c \in Callers : call[c].at # "idle" => call[c].tool \in Tools /\ call[c].arg \in Args

\* The version in force, and those to come, have not been superseded.
FreshUnaged == \A v \in Versions : v >= version => stale[v] = 0

\* What a call has read was in force when its run began, or later.
ReadsYoung ==
  \A c \in Callers : call[c].at = "read" => stale[call[c].version] <= call[c].run

\* An entry has aged no more than its ttl and the run that made it.
EntriesYoung ==
  \A k \in AllKeys :
    Live(store[k]) => stale[store[k].value.version] <= MaxRun + TTL - store[k].left

IInv == TypeOK /\ CallsNamed /\ FreshUnaged /\ ReadsYoung /\ EntriesYoung

-----------------------------------------------------------------------------
(* Every step keeps it                                                     *)

\* The records the variables are made of.
Entries == [value : Value \cup {NoValue}, left : -1..TTL]
Calls == [at : {"idle", "running", "read"}, tool : Tools \cup {"none"},
          arg : Args \cup {"none"}, version : Versions, run : 0..MaxRun]

\* What stands for no entry and for no call is among them.
LEMMA NothingTyped == NoEntry \in Entries /\ NoEntry.left = -1
                      /\ Idle \in Calls /\ Idle.at = "idle"
  <1>1. -1 \in -1..TTL /\ 0 \in 0..MaxRun /\ 0 \in Versions
    BY CachedToolAssumption DEF Versions
  <1> QED BY <1>1 DEF NoEntry, Entries, Idle, Calls

\* The empty store, every call idle, the first version in force.
LEMMA InitIInv == Init => IInv
  <1> SUFFICES ASSUME Init PROVE IInv
    OBVIOUS
  <1> USE CachedToolAssumption DEF Init, Versions
  <1>1. TypeOK
    <2>1. store \in [AllKeys -> Entries] /\ call \in [Callers -> Calls]
      BY NothingTyped
    <2>2. dirty \in BOOLEAN
      OBVIOUS
    <2>3. version \in Versions /\ 0 \in 0..(TTL + MaxRun + 1)
      OBVIOUS
    <2>4. stale \in [Versions -> 0..(TTL + MaxRun + 1)]
      BY <2>3
    <2> QED BY <2>1, <2>2, <2>3, <2>4 DEF TypeOK, Entries, Calls
  <1>2. CallsNamed /\ ReadsYoung
    BY DEF CallsNamed, ReadsYoung, Idle
  <1>3. FreshUnaged
    BY DEF FreshUnaged
  <1>4. EntriesYoung
    BY DEF EntriesYoung, Live, NoEntry
  <1> QED BY <1>1, <1>2, <1>3, <1>4 DEF IInv

\* A call that starts has read nothing yet.
LEMMA MissKeeps ==
  ASSUME IInv, NEW c \in Callers, NEW t \in Tools, NEW a \in Args, Miss(c, t, a)
  PROVE  IInv'
  <1> USE CachedToolAssumption DEF IInv, Miss, Versions
  <1>1. TypeOK'
    BY DEF TypeOK
  <1>2. CallsNamed'
    BY DEF TypeOK, CallsNamed
  <1>3. FreshUnaged'
    BY DEF FreshUnaged
  <1>4. ReadsYoung'
    BY DEF TypeOK, ReadsYoung
  <1>5. EntriesYoung'
    BY DEF EntriesYoung, Live, AllKeys, Key
  <1> QED BY <1>1, <1>2, <1>3, <1>4, <1>5 DEF IInv

\* A call reads the version in force, which is not aged at all.
LEMMA ReadKeeps ==
  ASSUME IInv, NEW c \in Callers, Read(c)
  PROVE  IInv'
  <1> USE CachedToolAssumption DEF IInv, Read, Versions
  <1>1. TypeOK'
    BY DEF TypeOK
  <1>2. CallsNamed'
    BY DEF TypeOK, CallsNamed
  <1>3. FreshUnaged'
    BY DEF FreshUnaged
  <1>4. ReadsYoung'
    <2> SUFFICES ASSUME NEW d \in Callers, call'[d].at = "read"
                 PROVE  stale[call'[d].version] <= call'[d].run
      BY DEF ReadsYoung
    <2>1. CASE d = c
      <3>1. call'[d].version = version /\ call'[d].run = call[c].run
        BY <2>1 DEF TypeOK
      <3>2. stale[version] = 0 /\ call[c].run \in Nat
        BY DEF FreshUnaged, TypeOK
      <3> QED BY <3>1, <3>2
    <2>2. CASE d # c
      BY <2>2 DEF TypeOK, ReadsYoung
    <2> QED BY <2>1, <2>2
  <1>5. EntriesYoung'
    BY DEF EntriesYoung, Live, AllKeys, Key
  <1> QED BY <1>1, <1>2, <1>3, <1>4, <1>5 DEF IInv

\* The entry that is stored is as old as what the call has read.
LEMMA FinishKeeps ==
  ASSUME IInv, NEW c \in Callers, Finish(c)
  PROVE  IInv'
  <1> DEFINE k0 == Key(call[c].tool, call[c].arg)
             value == [tool |-> call[c].tool, arg |-> call[c].arg,
                       version |-> call[c].version]
  <1> USE CachedToolAssumption DEF IInv, Versions
  <1>1. /\ call[c].at = "read" /\ call' = [call EXCEPT ![c] = Idle]
        /\ store' = [store EXCEPT ![k0] = [value |-> value, left |-> TTL]]
        /\ UNCHANGED <<version, dirty, stale>>
    BY DEF Finish
  <1>2. k0 \in AllKeys /\ value \in Value
    BY <1>1 DEF CallsNamed, TypeOK, AllKeys, Value
  <1>3. TypeOK'
    <2>1. store' \in [AllKeys -> [value : Value \cup {NoValue}, left : -1..TTL]]
      BY <1>1, <1>2 DEF TypeOK
    <2>2. call' \in [Callers -> [at : {"idle", "running", "read"}, tool : Tools \cup {"none"},
                                 arg : Args \cup {"none"}, version : Versions, run : 0..MaxRun]]
      BY <1>1 DEF TypeOK, Idle
    <2> QED BY <1>1, <2>1, <2>2 DEF TypeOK
  <1>4. CallsNamed' /\ ReadsYoung'
    BY <1>1 DEF TypeOK, CallsNamed, ReadsYoung, Idle
  <1>5. FreshUnaged'
    BY <1>1 DEF FreshUnaged
  <1>6. EntriesYoung'
    <2> SUFFICES ASSUME NEW k \in AllKeys, store'[k].left >= 0
                 PROVE  stale[store'[k].value.version] <= MaxRun + TTL - store'[k].left
      BY <1>1 DEF EntriesYoung, Live, AllKeys, Key
    <2>1. CASE k = k0
      <3>1. store'[k].value.version = call[c].version /\ store'[k].left = TTL
        BY <2>1, <1>1, <1>2 DEF TypeOK
      <3>2. stale[call[c].version] <= call[c].run /\ call[c].run \in 0..MaxRun
        BY <1>1 DEF ReadsYoung, TypeOK
      <3>3. stale[call[c].version] \in Int
        BY DEF TypeOK
      <3> QED BY <3>1, <3>2, <3>3
    <2>2. CASE k # k0
      <3>1. store'[k] = store[k]
        BY <2>2, <1>1 DEF TypeOK
      <3> QED BY <3>1 DEF EntriesYoung, Live
    <2> QED BY <2>1, <2>2
  <1> QED BY <1>3, <1>4, <1>5, <1>6 DEF IInv

\* A call that breaks is forgotten.
LEMMA BreakKeeps ==
  ASSUME IInv, NEW c \in Callers, Break(c)
  PROVE  IInv'
  <1> USE CachedToolAssumption DEF IInv, Break, Versions
  <1>1. TypeOK'
    BY DEF TypeOK, Idle
  <1>2. CallsNamed' /\ ReadsYoung'
    BY DEF TypeOK, CallsNamed, ReadsYoung, Idle
  <1>3. FreshUnaged'
    BY DEF FreshUnaged
  <1>4. EntriesYoung'
    BY DEF EntriesYoung, Live, AllKeys, Key
  <1> QED BY <1>1, <1>2, <1>3, <1>4 DEF IInv

\* A write supersedes a version only from now on.
LEMMA WriteKeeps ==
  ASSUME IInv, Write
  PROVE  IInv'
  <1> USE CachedToolAssumption DEF IInv, Write, Versions
  <1>1. TypeOK'
    BY DEF TypeOK
  <1>2. CallsNamed' /\ ReadsYoung'
    BY DEF CallsNamed, ReadsYoung
  <1>3. FreshUnaged'
    BY DEF FreshUnaged, TypeOK
  <1>4. EntriesYoung'
    BY DEF EntriesYoung, Live, AllKeys, Key
  <1> QED BY <1>1, <1>2, <1>3, <1>4 DEF IInv

\* An empty store has no entry that could be old.
LEMMA InvalidateKeeps ==
  ASSUME IInv, Invalidate
  PROVE  IInv'
  <1> USE CachedToolAssumption DEF IInv, Invalidate, Versions
  <1>1. TypeOK'
    <2>1. store' \in [AllKeys -> Entries]
      BY NothingTyped
    <2>2. dirty' \in BOOLEAN
      OBVIOUS
    <2> QED BY <2>1, <2>2 DEF TypeOK, Entries, AllKeys, Key
  <1>2. CallsNamed' /\ ReadsYoung'
    BY DEF CallsNamed, ReadsYoung
  <1>3. FreshUnaged'
    BY DEF FreshUnaged
  <1>4. EntriesYoung'
    BY DEF EntriesYoung, Live, NoEntry, AllKeys, Key
  <1> QED BY <1>1, <1>2, <1>3, <1>4 DEF IInv

\* With every unit of time data age by one at most, runs grow by one, and
\* entries lose one of their ttl.
LEMMA TickKeeps ==
  ASSUME IInv, Tick
  PROVE  IInv'
  <1> USE CachedToolAssumption DEF IInv, Versions
  <1>1. \A v \in Versions : /\ stale'[v] \in 0..(TTL + MaxRun + 1)
                            /\ stale'[v] <= stale[v] + 1
                            /\ v >= version => stale'[v] = 0
    BY DEF Tick, Older, TypeOK
  <1>2. \A k \in AllKeys :
          \/ store'[k] = NoEntry
          \/ /\ store[k].left > 0 /\ store'[k].left = store[k].left - 1
             /\ store'[k].value = store[k].value
             /\ store'[k] \in Entries
    <2> SUFFICES ASSUME NEW k \in AllKeys, store'[k] # NoEntry
                 PROVE  /\ store[k].left > 0 /\ store'[k].left = store[k].left - 1
                        /\ store'[k].value = store[k].value
                        /\ store'[k] \in Entries
      OBVIOUS
    <2>1. store[k].left > 0 /\ store'[k] = [store[k] EXCEPT !.left = @ - 1]
      BY DEF Tick
    <2>2. store[k] \in Entries
      BY DEF TypeOK, Entries
    <2>3. store'[k] = [value |-> store[k].value, left |-> store[k].left - 1]
      BY <2>1, <2>2 DEF Entries
    <2>4. store[k].left - 1 \in -1..TTL /\ store[k].value \in Value \cup {NoValue}
      BY <2>1, <2>2 DEF Entries
    <2> QED BY <2>1, <2>3, <2>4 DEF Entries
  <1>3. \A c \in Callers :
          \/ call'[c] = Idle
          \/ /\ call[c].at # "idle" /\ call'[c].at = call[c].at
             /\ call'[c].tool = call[c].tool /\ call'[c].arg = call[c].arg
             /\ call'[c].version = call[c].version /\ call[c].version \in Versions
             /\ call'[c].run = call[c].run + 1 /\ call[c].run \in Nat
             /\ call'[c] \in Calls
    <2> SUFFICES ASSUME NEW c \in Callers, call'[c] # Idle
                 PROVE  /\ call[c].at # "idle" /\ call'[c].at = call[c].at
                        /\ call'[c].tool = call[c].tool /\ call'[c].arg = call[c].arg
                        /\ call'[c].version = call[c].version /\ call[c].version \in Versions
                        /\ call'[c].run = call[c].run + 1 /\ call[c].run \in Nat
                        /\ call'[c] \in Calls
      OBVIOUS
    <2>1. /\ call[c].at # "idle" /\ call[c].run < MaxRun
          /\ call'[c] = [call[c] EXCEPT !.run = @ + 1]
      BY DEF Tick
    <2>2. call[c] \in Calls
      BY DEF TypeOK, Calls
    <2>3. call'[c] = [at |-> call[c].at, tool |-> call[c].tool, arg |-> call[c].arg,
                      version |-> call[c].version, run |-> call[c].run + 1]
      BY <2>1, <2>2 DEF Calls
    <2>4. /\ call[c].run + 1 \in 0..MaxRun /\ call[c].run \in Nat
          /\ call[c].at \in {"idle", "running", "read"} /\ call[c].tool \in Tools \cup {"none"}
          /\ call[c].arg \in Args \cup {"none"} /\ call[c].version \in Versions
      BY <2>1, <2>2 DEF Calls
    <2> QED BY <2>1, <2>3, <2>4 DEF Calls
  <1>4. TypeOK'
    <2>1. store' \in [AllKeys -> Entries]
      <3>1. store' = [k \in AllKeys |-> store'[k]]
        BY DEF Tick, AllKeys, Key
      <3> QED BY <1>2, <3>1, NothingTyped
    <2>2. call' \in [Callers -> Calls]
      <3>1. call' = [c \in Callers |-> call'[c]]
        BY DEF Tick
      <3> QED BY <1>3, <3>1, NothingTyped
    <2>3. stale' \in [Versions -> 0..(TTL + MaxRun + 1)]
      <3>1. stale' = [v \in Versions |-> stale'[v]]
        BY DEF Tick
      <3> QED BY <1>1, <3>1
    <2>4. version' \in Versions /\ dirty' \in BOOLEAN
      BY DEF Tick, TypeOK
    <2> QED BY <2>1, <2>2, <2>3, <2>4 DEF TypeOK, Entries, Calls, AllKeys, Key
  <1>5. CallsNamed'
    BY <1>3, NothingTyped DEF CallsNamed
  <1>6. FreshUnaged'
    BY <1>1 DEF FreshUnaged, Tick
  <1>7. ReadsYoung'
    <2> SUFFICES ASSUME NEW c \in Callers, call'[c].at = "read"
                 PROVE  stale'[call'[c].version] <= call'[c].run
      BY DEF ReadsYoung
    <2>1. /\ call[c].at = "read" /\ call'[c].version = call[c].version
          /\ call'[c].run = call[c].run + 1 /\ call[c].version \in Versions
          /\ call[c].run \in Int
      BY <1>3, NothingTyped
    <2>2. stale[call[c].version] <= call[c].run
      BY <2>1 DEF ReadsYoung
    <2>3. stale[call[c].version] \in Int /\ stale'[call[c].version] \in Int
      BY <2>1, <1>1 DEF TypeOK
    <2> QED BY <1>1, <2>1, <2>2, <2>3
  <1>8. EntriesYoung'
    <2> SUFFICES ASSUME NEW k \in AllKeys, store'[k].left >= 0
                 PROVE  stale'[store'[k].value.version] <= MaxRun + TTL - store'[k].left
      BY DEF EntriesYoung, Live, AllKeys, Key
    <2>1. /\ store[k].left > 0 /\ store'[k].left = store[k].left - 1
          /\ store'[k].value = store[k].value
      BY <1>2 DEF NoEntry
    <2>2. store[k].left \in Int /\ store[k].value.version \in Versions
      BY DEF TypeOK, Value, NoValue
    <2>3. stale[store[k].value.version] <= MaxRun + TTL - store[k].left
      BY <2>1, <2>2 DEF EntriesYoung, Live
    <2>4. /\ stale[store[k].value.version] \in Int
          /\ stale'[store[k].value.version] \in Int
      BY <2>2, <1>1 DEF TypeOK
    <2> QED BY <1>1, <2>1, <2>2, <2>3, <2>4
  <1> QED BY <1>4, <1>5, <1>6, <1>7, <1>8 DEF IInv

\* Nothing changes.
LEMMA StutterKeeps == IInv /\ UNCHANGED vars => IInv'
  <1> SUFFICES ASSUME IInv, UNCHANGED <<version, dirty, store, call, stale>> PROVE IInv'
    BY DEF vars
  <1>1. TypeOK'
    BY DEF IInv, TypeOK, AllKeys, Key
  <1>2. CallsNamed' /\ FreshUnaged' /\ ReadsYoung'
    BY DEF IInv, CallsNamed, FreshUnaged, ReadsYoung
  <1>3. EntriesYoung'
    BY DEF IInv, EntriesYoung, Live, AllKeys, Key
  <1> QED BY <1>1, <1>2, <1>3 DEF IInv

\* The inductive invariant of cached_tool over InMemoryCache: it holds in
\* every reachable state, however calls, writes and invalidations overlap.
THEOREM Invariance == Spec => []IInv
  <1>1. IInv /\ [Next]_vars => IInv'
    <2> SUFFICES ASSUME IInv, [Next]_vars PROVE IInv'
      OBVIOUS
    <2>1. ASSUME NEW c \in Callers, NEW t \in Tools, NEW a \in Args,
                 Hit(c, t, a) \/ Miss(c, t, a)
          PROVE  IInv'
      BY <2>1, MissKeeps, StutterKeeps DEF Hit
    <2>2. ASSUME NEW c \in Callers, Read(c) \/ Finish(c) \/ Break(c)
          PROVE  IInv'
      BY <2>2, ReadKeeps, FinishKeeps, BreakKeeps
    <2>3. CASE Write \/ Invalidate \/ Tick
      BY <2>3, WriteKeeps, InvalidateKeeps, TickKeeps
    <2>4. CASE UNCHANGED vars
      BY <2>4, StutterKeeps
    <2> QED BY <2>1, <2>2, <2>3, <2>4 DEF Next
  <1> QED BY <1>1, InitIInv, PTL DEF Spec

-----------------------------------------------------------------------------
(* What follows                                                            *)

\* Every variable keeps its type: entries never get more than their ttl.
THEOREM TypeCorrect == Spec => []TypeOK
  <1>1. IInv => TypeOK
    BY DEF IInv
  <1> QED BY <1>1, Invariance, PTL

\* The answers of cached_tool were true no more than one ttl and one run of
\* the function ago, for any ttl, any run time and any number of callers.
THEOREM StalenessIsBounded == Spec => []StalenessBounded
  <1>1. IInv => StalenessBounded
    <2> SUFFICES ASSUME IInv, NEW k \in AllKeys, Live(store[k])
                 PROVE  stale[store[k].value.version] <= TTL + MaxRun
      BY DEF StalenessBounded
    <2>1. stale[store[k].value.version] <= MaxRun + TTL - store[k].left
      BY DEF IInv, EntriesYoung
    <2>2. store[k].left \in Int /\ store[k].left >= 0
      BY DEF IInv, TypeOK, Live
    <2>3. store[k].value.version \in Versions
      BY CachedToolAssumption DEF IInv, TypeOK, Value, NoValue, Versions
    <2>4. stale[store[k].value.version] \in Int
      BY <2>3, CachedToolAssumption DEF IInv, TypeOK
    <2> QED BY <2>1, <2>2, <2>4, CachedToolAssumption
  <1> QED BY <1>1, Invariance, PTL

\* The functions behind the tools have names of their own.
OwnNames == \A t, u \in Tools : FuncName[t] = FuncName[u] => t = u

\* As long as no two functions share their __name__, a key of make_key
\* belongs to one tool and one tuple of arguments, and the cache answers a
\* tool with nothing but what it computed for the same arguments.
THEOREM AnswersAreOwn == ASSUME OwnNames PROVE Spec => []OwnAnswer
  <1>1. Init => OwnAnswer
    BY DEF Init, OwnAnswer, Live, NoEntry, AllKeys
  <1>2. IInv /\ OwnAnswer /\ [Next]_vars => OwnAnswer'
    <2> SUFFICES ASSUME IInv, OwnAnswer, [Next]_vars,
                        NEW t \in Tools, NEW a \in Args, Live(store'[Key(t, a)])
                 PROVE  store'[Key(t, a)].value.tool = t /\ store'[Key(t, a)].value.arg = a
      BY DEF OwnAnswer, Live, Key
    <2>0. Key(t, a) \in AllKeys
      BY DEF AllKeys
    <2>1. CASE store'[Key(t, a)] = store[Key(t, a)]
      BY <2>1 DEF OwnAnswer, Live
    <2>2. ASSUME NEW c \in Callers, Finish(c)
          PROVE  store'[Key(t, a)].value.tool = t /\ store'[Key(t, a)].value.arg = a
      <3>1. call[c].tool \in Tools /\ call[c].arg \in Args
        BY <2>2 DEF Finish, IInv, CallsNamed
      <3>2. CASE Key(t, a) = Key(call[c].tool, call[c].arg)
        <4>1. call[c].tool = t /\ call[c].arg = a
          BY <3>1, <3>2, OwnNames DEF Key, OwnNames
        <4> QED BY <4>1, <2>0, <2>2 DEF Finish, IInv, TypeOK
      <3>3. CASE Key(t, a) # Key(call[c].tool, call[c].arg)
        <4>1. store'[Key(t, a)] = store[Key(t, a)]
          BY <3>3, <2>0, <2>2 DEF Finish, IInv, TypeOK
        <4> QED BY <4>1 DEF OwnAnswer, Live
      <3> QED BY <3>2, <3>3
    <2>3. CASE Invalidate
      BY <2>3, <2>0 DEF Invalidate, Live, NoEntry, AllKeys, Key
    <2>4. CASE Tick
      <3>1. store'[Key(t, a)] = IF store[Key(t, a)].left > 0
                                THEN [store[Key(t, a)] EXCEPT !.left = @ - 1] ELSE NoEntry
        BY <2>4, <2>0 DEF Tick
      <3>2. store[Key(t, a)].left > 0 /\ store[Key(t, a)].left \in Int
        BY <3>1, <2>0, CachedToolAssumption DEF Live, NoEntry, IInv, TypeOK
      <3>3. store'[Key(t, a)].value = store[Key(t, a)].value
        BY <3>1, <3>2, <2>0 DEF IInv, TypeOK
      <3>4. Live(store[Key(t, a)])
        BY <3>2 DEF Live
      <3> QED BY <3>3, <3>4 DEF OwnAnswer
    <2>5. CASE UNCHANGED store
      BY <2>1, <2>5
    <2> QED BY <2>2, <2>3, <2>4, <2>5 DEF Next, Hit, Miss, Read, Break, Write, vars
  <1> QED BY <1>1, <1>2, Invariance, PTL DEF Spec
=============================================================================
