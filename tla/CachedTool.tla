----------------------------- MODULE CachedTool -----------------------------
(***************************************************************************)
(* EnhancedMCP.cached_tool (framework/base_server.py) over CacheLayer and  *)
(* InMemoryCache (framework/caching.py), called by concurrent tasks, with  *)
(* the data the tools read changing underneath.                            *)
(*                                                                         *)
(* InMemoryCache never awaits, so a call looks its key up and, on a miss,  *)
(* starts the function in one step, and stores and returns the result in   *)
(* another; the function itself runs in between, with everything else.     *)
(*                                                                         *)
(* The key is made from the name of the function and the arguments, not    *)
(* from the name the tool is registered under.                             *)
(*                                                                         *)
(* ADR-0002 tells tools that write to invalidate "by calling               *)
(* cache.delete(key) after a write operation": Write, then Invalidate.     *)
(*                                                                         *)
(* Time is relative: an entry carries the time left until expires_at.      *)
(* History: stale[v], how long version v of the data has been superseded.  *)
(***************************************************************************)
EXTENDS Integers, FiniteSets

CONSTANTS
  Tools,       (* registered tools                                         *)
  FuncName,    (* FuncName[t]: __name__ of the function behind t           *)
  Args,        (* arguments a tool is called with                          *)
  Nones,       (* versions of the data for which a tool returns None       *)
  Callers,     (* concurrent tool calls                                    *)
  TTL,         (* ttl of the tools                                         *)
  MaxRun,      (* bound: no function runs longer                           *)
  MaxVersion   (* bound: writes to the data                                *)

ASSUME CachedToolAssumption ==
  /\ TTL \in Nat /\ MaxRun \in Nat /\ MaxVersion \in Nat

VARIABLES
  version,   (* of the data the tools read                                 *)
  dirty,     (* a write was made, the cache not yet told                   *)
  store,     (* InMemoryCache._store                                       *)
  call,      (* call[c]: the call caller c is in                           *)
  stale      (* history                                                    *)

vars == <<version, dirty, store, call, stale>>

-----------------------------------------------------------------------------
Versions == 0..MaxVersion

\* Mutant of Key: the arguments are left out.
KeyWithoutArgs(t, a) == <<FuncName[t], "any">>

\* CacheLayer.make_key.
Key(t, a) == <<FuncName[t], a>>
AllKeys == {Key(t, a) : t \in Tools, a \in Args}

Value == [tool : Tools, arg : Args, version : Versions]
NoValue == [tool |-> "none", arg |-> "none", version |-> 0]
NoEntry == [value |-> NoValue, left |-> -1]
Idle == [at |-> "idle", tool |-> "none", arg |-> "none", version |-> 0, run |-> 0]

\* An entry is served until the clock is past expires_at; a None that is there
\* passes for a miss.
Live(entry) == entry.left >= 0
Served(entry) == Live(entry) /\ entry.value.version \notin Nones

Init ==
  /\ version = 0 /\ dirty = FALSE
  /\ store = [k \in AllKeys |-> NoEntry]
  /\ call = [c \in Callers |-> Idle]
  /\ stale = [v \in Versions |-> 0]

\* Mutant of Hit: being served gives an entry a new ttl.
HitRefreshes(c, t, a) ==
  /\ call[c].at = "idle"
  /\ Served(store[Key(t, a)])
  /\ store' = [store EXCEPT ![Key(t, a)].left = TTL]
  /\ UNCHANGED <<version, dirty, call, stale>>

\* An authenticated HTTP call is Forbidden before the cache is looked at and
\* changes nothing.  Any other call is served from the cache, ...
Hit(c, t, a) ==
  /\ call[c].at = "idle"
  /\ Served(store[Key(t, a)])
  /\ UNCHANGED vars

\* ... or runs the function; get() has dropped an expired entry.
Miss(c, t, a) ==
  /\ call[c].at = "idle"
  /\ ~Served(store[Key(t, a)])
  /\ call' = [call EXCEPT ![c] = [at |-> "running", tool |-> t, arg |-> a,
                                  version |-> 0, run |-> 0]]
  /\ UNCHANGED <<version, dirty, store, stale>>

\* The function reads its data at some point of its run.
Read(c) ==
  /\ call[c].at = "running"
  /\ call' = [call EXCEPT ![c].at = "read", ![c].version = version]
  /\ UNCHANGED <<version, dirty, store, stale>>

\* It returns: the result is stored with a full ttl and handed over.
Finish(c) ==
  LET t == call[c].tool
      a == call[c].arg
      value == [tool |-> t, arg |-> a, version |-> call[c].version]
  IN  /\ call[c].at = "read"
      /\ store' = [store EXCEPT ![Key(t, a)] = [value |-> value, left |-> TTL]]
      /\ call' = [call EXCEPT ![c] = Idle]
      /\ UNCHANGED <<version, dirty, stale>>

\* It raises or is cancelled: nothing is stored.
Break(c) ==
  /\ call[c].at # "idle"
  /\ call' = [call EXCEPT ![c] = Idle]
  /\ UNCHANGED <<version, dirty, store, stale>>

\* A tool changes the data ...
Write ==
  /\ version < MaxVersion /\ ~dirty
  /\ version' = version + 1
  /\ dirty' = TRUE
  /\ UNCHANGED <<store, call, stale>>

\* ... and deletes what the cache holds about it.
Invalidate ==
  /\ dirty
  /\ dirty' = FALSE
  /\ store' = [k \in AllKeys |-> NoEntry]
  /\ UNCHANGED <<version, call, stale>>

Older(n) == IF n > TTL + MaxRun THEN n ELSE n + 1

Tick ==
  /\ \A c \in Callers : call[c].run < MaxRun
  /\ store' = [k \in AllKeys |->
       IF store[k].left > 0 THEN [store[k] EXCEPT !.left = @ - 1] ELSE NoEntry]
  /\ call' = [c \in Callers |->
       IF call[c].at = "idle" THEN Idle ELSE [call[c] EXCEPT !.run = @ + 1]]
  /\ stale' = [v \in Versions |-> IF v < version THEN Older(stale[v]) ELSE 0]
  /\ UNCHANGED <<version, dirty>>

Next ==
  \/ \E c \in Callers :
       \/ \E t \in Tools, a \in Args : Hit(c, t, a) \/ Miss(c, t, a)
       \/ Read(c) \/ Finish(c) \/ Break(c)
  \/ Write \/ Invalidate \/ Tick

Spec == Init /\ [][Next]_vars

-----------------------------------------------------------------------------
(* Properties                                                              *)

\* Every variable keeps its type.
TypeOK ==
  /\ version \in Versions /\ dirty \in BOOLEAN
  /\ store \in [AllKeys -> [value : Value \cup {NoValue}, left : -1..TTL]]
  /\ call \in [Callers -> [at : {"idle", "running", "read"}, tool : Tools \cup {"none"},
                           arg : Args \cup {"none"}, version : Versions, run : 0..MaxRun]]
  /\ stale \in [Versions -> 0..(TTL + MaxRun + 1)]

\* "Cached results do not reflect external state changes until TTL expires"
\* and no longer: what the cache serves was true no more than one ttl and
\* one run of the function ago, whatever calls overlap and overtake.
StalenessBounded ==
  \A k \in AllKeys : Live(store[k]) => stale[store[k].value.version] <= TTL + MaxRun

\* A call is served what its own tool computed for its own arguments
\* ("cached_tool keys on the tool name and arguments"), provided that the
\* tools have function names of their own.
OwnAnswer ==
  \A t \in Tools, a \in Args :
    LET entry == store[Key(t, a)]
    IN  Live(entry) => entry.value.tool = t /\ entry.value.arg = a

=============================================================================
