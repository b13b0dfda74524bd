----------------------------- MODULE RedisCache -----------------------------
(***************************************************************************)
(* RedisCache (framework/caching.py): processes share the entries of one   *)
(* Redis and each has a store in memory to fall back to.                   *)
(*                                                                         *)
(* A connection can break at any command.  The client is cached once a     *)
(* ping was answered; what breaks before it, and the builtin errors after  *)
(* it, lead to the fallback when that is allowed.  The error classes of    *)
(* redis-py are not among them and are raised.                             *)
(*                                                                         *)
(* A value is the number of the write that made it.  Time is relative: an  *)
(* entry carries its age.                                                  *)
(***************************************************************************)
EXTENDS Integers, FiniteSets

CONSTANTS
  Procs, CacheKeys,
  Fallback,     (* Fallback[p]: fallback_to_memory of process p            *)
  TTL,
  MaxWrites     (* bound: writes                                           *)

VARIABLES
  redis,     (* the entries "mcp:<key>" of Redis                           *)
  memory,    (* memory[p]: the store of process p's _fallback              *)
  client,    (* client[p]: _client is set                                  *)
  clearing,  (* clearing[p]: the keys a clear() has listed, and is to delete *)
  writes,    (* history: the number of writes                              *)
  latest,    (* history: the last write of a key that was not deleted      *)
  broken,    (* history: a command has failed                              *)
  answer     (* the last answer of get                                     *)

vars == <<redis, memory, client, clearing, writes, latest, broken, answer>>

Absent == 0
NoEntry == [value |-> Absent, age |-> 0]
Empty == [k \in CacheKeys |-> NoEntry]
NotClearing == {"not clearing"}
NoAnswer == [value |-> Absent, age |-> 0, latest |-> Absent, sure |-> FALSE]

Init ==
  /\ redis = Empty /\ memory = [p \in Procs |-> Empty]
  /\ client = [p \in Procs |-> FALSE]
  /\ clearing = [p \in Procs |-> NotClearing]
  /\ writes = 0 /\ latest = [k \in CacheKeys |-> Absent]
  /\ broken = FALSE /\ answer = NoAnswer

-----------------------------------------------------------------------------
\* What becomes of a command of process p: Redis answers; the memory is used
\* instead; or the call raises.  When the connection breaks after the ping,
\* Redis may have executed the command (effect) all the same.
Outcome(p, path, effect) ==
  /\ path = "redis" => effect
  /\ path = "memory" => Fallback[p]
  /\ \/ client' = [client EXCEPT ![p] = TRUE]
     \/ /\ ~client[p] /\ ~effect /\ (path = "raise" => ~Fallback[p])
        /\ UNCHANGED client
  /\ broken' = (broken \/ path # "redis")

\* The stores after entry e has been put under key k.
Put(p, k, e, path, effect) ==
  /\ redis' = IF effect THEN [redis EXCEPT ![k] = e] ELSE redis
  /\ memory' = IF path = "memory" THEN [memory EXCEPT ![p][k] = e] ELSE memory

Set(p, k, path, effect) ==
  /\ writes < MaxWrites
  /\ Outcome(p, path, effect)
  /\ Put(p, k, [value |-> writes + 1, age |-> 0], path, effect)
  /\ writes' = writes + 1 /\ latest' = [latest EXCEPT ![k] = writes + 1]
  /\ UNCHANGED <<clearing, answer>>

Delete(p, k, path, effect) ==
  /\ Outcome(p, path, effect)
  /\ Put(p, k, NoEntry, path, effect)
  /\ latest' = [latest EXCEPT ![k] = Absent]
  /\ UNCHANGED <<clearing, writes, answer>>

\* Mutant: whatever is in memory is served.
LiveAlways(e) == e

\* InMemoryCache.get: an entry is served until the clock is past its end.
Live(e) == IF e.age <= TTL THEN e ELSE NoEntry

Get(p, k, path, effect) ==
  LET e == IF path = "redis" THEN redis[k] ELSE Live(memory[p][k]) IN
  /\ Outcome(p, path, effect)
  /\ memory' = IF path = "memory" THEN [memory EXCEPT ![p][k] = e] ELSE memory
  /\ answer' = IF path = "raise" THEN answer
               ELSE [value |-> e.value, age |-> e.age, latest |-> latest[k], sure |-> ~broken']
  /\ UNCHANGED <<redis, clearing, writes, latest>>

\* clear() lists the keys, and deletes those that it found in a second command.
Clear(p, path, effect) ==
  LET found == {k \in CacheKeys : redis[k] # NoEntry} IN
  /\ clearing[p] = NotClearing
  /\ Outcome(p, path, effect)
  /\ clearing' = [clearing EXCEPT ![p] = IF path = "redis" /\ found # {} THEN found ELSE @]
  /\ memory' = IF path = "memory" THEN [memory EXCEPT ![p] = Empty] ELSE memory
  /\ UNCHANGED <<redis, writes, latest, answer>>

ClearListed(p, path, effect) ==
  /\ clearing[p] # NotClearing /\ client[p]
  /\ Outcome(p, path, effect)
  /\ redis' = [k \in CacheKeys |-> IF effect /\ k \in clearing[p] THEN NoEntry ELSE redis[k]]
  /\ latest' = [k \in CacheKeys |-> IF k \in clearing[p] THEN Absent ELSE latest[k]]
  /\ memory' = IF path = "memory" THEN [memory EXCEPT ![p] = Empty] ELSE memory
  /\ clearing' = [clearing EXCEPT ![p] = NotClearing]
  /\ UNCHANGED <<writes, answer>>

\* Time passes; Redis drops what has reached its ttl, the memory only when it
\* is asked for it.
Tick ==
  /\ redis' = [k \in CacheKeys |-> IF redis[k] = NoEntry \/ redis[k].age + 1 >= TTL THEN NoEntry
                                    ELSE [redis[k] EXCEPT !.age = @ + 1]]
  /\ memory' = [p \in Procs |-> [k \in CacheKeys |->
                  IF memory[p][k] = NoEntry THEN NoEntry
                  ELSE [memory[p][k] EXCEPT !.age = IF @ > TTL THEN @ ELSE @ + 1]]]
  /\ UNCHANGED <<client, clearing, writes, latest, broken, answer>>

Next ==
  \/ \E p \in Procs, path \in {"redis", "memory", "raise"}, effect \in BOOLEAN :
       \/ \E k \in CacheKeys :
            Set(p, k, path, effect) \/ Delete(p, k, path, effect) \/ Get(p, k, path, effect)
       \/ Clear(p, path, effect) \/ ClearListed(p, path, effect)
  \/ Tick

Spec == Init /\ [][Next]_vars

-----------------------------------------------------------------------------
(* Properties                                                              *)

\* A hit is never older than the ttl, from wherever it comes, and as long as no
\* command has failed it is what was last stored under the key and not deleted
\* since, by whichever process.  (RedisCache.get, set, delete, clear)
HitsAreRecent ==
  answer.value # Absent => /\ answer.age <= TTL
                           /\ answer.sure => answer.value = answer.latest
=============================================================================
