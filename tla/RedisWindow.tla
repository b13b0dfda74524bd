---------------------------- MODULE RedisWindow ----------------------------
(***************************************************************************)
(* The shared rate limiter of framework/rate_limiter.py: RateLimiter over  *)
(* RedisSlidingWindow, used by several server processes on one key.        *)
(*                                                                         *)
(* Every call is a conversation with Redis that other processes interleave *)
(* with: (connect,) read the clock, one MULTI/EXEC pipeline that prunes,   *)
(* adds a marker and counts, and, for a call over the limit, a second      *)
(* command that takes the marker out again.  Between the steps the task    *)
(* may be cancelled, the connection may break before or after Redis acted, *)
(* other processes may act, and time passes.                               *)
(*                                                                         *)
(* Redis is external: a sorted set of markers [at, id], a time to live,    *)
(* commands that are atomic.  Its error classes matter: the module catches *)
(* the builtin ConnectionError, TimeoutError and OSError ("transient");    *)
(* redis-py raises classes of its own, derived from RedisError ("client"). *)
(*                                                                         *)
(* History variables: passed, the calls Redis let through since the last   *)
(* reset; localPassed, those a fallback window let through; raised, that   *)
(* some call ended in an exception.                                        *)
(***************************************************************************)
EXTENDS Integers, FiniteSets

CONSTANTS
  Procs,        (* server processes, each with one call at a time          *)
  Limit,        (* max_calls ...                                           *)
  Window,       (* ... per window_seconds                                  *)
  Skew,         (* Skew[p]: how far time.time() of p is ahead of true time *)
  MaxSkew,      (* no clock is further ahead                               *)
  Fallback,     (* fallback_to_memory                                      *)
  Ops,          (* the operations the processes use                        *)
  ErrorKinds,   (* the exceptions a broken command may raise               *)
  MaxTime,      (* bound: the clock                                        *)
  MaxCalls,     (* bound: calls of check()                                 *)
  MaxFaults     (* bound: broken commands and cancelled tasks              *)

AllOps == {"record", "remaining", "reset", "reset_all"}

ASSUME RedisWindowAssumption ==
  /\ Limit \in Nat /\ Window \in Nat \ {0}
  /\ MaxSkew \in Nat /\ Skew \in [Procs -> 0..MaxSkew]
  /\ Fallback \in BOOLEAN
  /\ Ops \subseteq AllOps
  /\ ErrorKinds \subseteq {"transient", "client"}
  /\ MaxTime \in Nat /\ MaxCalls \in Nat /\ MaxFaults \in Nat

VARIABLES
  now,          (* true time, also that of Redis                           *)
  zset,         (* the sorted set mcp:ratelimit:<key>                      *)
  expireAt,     (* when Redis drops it                                     *)
  client,       (* client[p]: p has a cached connection (_client)          *)
  pc,           (* pc[p]: the command p awaits, or "idle"                  *)
  job,          (* job[p]: the operation, the clock p read and its call id *)
  fallback,     (* fallback[p]: the per-process window of p                *)
  calls, faults,                  (* counters                              *)
  passed, localPassed, raised     (* history                               *)

redis == <<zset, expireAt>>
tasks == <<client, pc, job>>
history == <<passed, localPassed, raised>>
vars == <<now, zset, expireAt, client, pc, job, fallback, calls, faults,
          passed, localPassed, raised>>

-----------------------------------------------------------------------------
(* Helpers                                                                 *)

Clock(p) == now + Skew[p]

\* Markers with a score after the cutoff; ZREMRANGEBYSCORE -inf..cutoff
\* removes the others, the cutoff included.
After(S, cutoff) == {m \in S : m.at > cutoff}

Marker(p) == [at |-> job[p].at, id |-> job[p].id]

Awaiting(p, where) == pc[p] = where
NoJob == [op |-> "none", at |-> 0, id |-> 0]

\* The task of p goes on to await another command, or ends.
Continue(p, where) == pc' = [pc EXCEPT ![p] = where] /\ UNCHANGED job
Finish(p) == pc' = [pc EXCEPT ![p] = "idle"] /\ job' = [job EXCEPT ![p] = NoJob]

\* The first command of an operation, once the client is at hand; record
\* and remaining read the clock before they send it.
Command(op) ==
  CASE op = "record" -> "pipeline"
    [] op = "remaining" -> "count"
    [] op = "reset" -> "delete"
    [] op = "reset_all" -> "keys"

Issue(p, op, id) ==
  /\ job' = [job EXCEPT ![p] = [op |-> op, at |-> Clock(p), id |-> id]]
  /\ pc' = [pc EXCEPT ![p] = Command(op)]

-----------------------------------------------------------------------------
Init ==
  /\ now = 0
  /\ zset = {} /\ expireAt = 0
  /\ client = [p \in Procs |-> FALSE]
  /\ pc = [p \in Procs |-> "idle"]
  /\ job = [p \in Procs |-> NoJob]
  /\ fallback = [p \in Procs |-> {}]
  /\ calls = 0 /\ faults = 0
  /\ passed = {} /\ localPassed = [p \in Procs |-> {}]
  /\ raised = FALSE

\* An operation starts; without a cached client it first awaits the ping.
Begin(p, op) ==
  /\ Awaiting(p, "idle")
  /\ IF op = "record" THEN calls < MaxCalls /\ calls' = calls + 1 ELSE UNCHANGED calls
  /\ IF client[p]
     THEN Issue(p, op, calls')
     ELSE /\ job' = [job EXCEPT ![p] = [op |-> op, at |-> 0, id |-> calls']]
          /\ pc' = [pc EXCEPT ![p] = "ping"]
  /\ UNCHANGED <<now, redis, client, fallback, faults, history>>

\* _get_client: the ping is answered, the client is kept for good.
Connect(p) ==
  /\ Awaiting(p, "ping")
  /\ client' = [client EXCEPT ![p] = TRUE]
  /\ Issue(p, job[p].op, job[p].id)
  /\ UNCHANGED <<now, redis, fallback, calls, faults, history>>

-----------------------------------------------------------------------------
(* What Redis does                                                         *)

\* Prune, add, count, expire: one transaction.
PipelineEffect(p) ==
  /\ zset' = After(zset, job[p].at - Window) \cup {Marker(p)}
  /\ expireAt' = now + Window

\* Mutant of Pipeline: ZCARD is queued before ZADD.
PipelineCountFirst(p) ==
  /\ Awaiting(p, "pipeline")
  /\ PipelineEffect(p)
  /\ IF Cardinality(After(zset, job[p].at - Window)) > Limit
     THEN Continue(p, "zrem") /\ UNCHANGED passed
     ELSE Finish(p) /\ passed' = passed \cup {Marker(p)}
  /\ UNCHANGED <<now, client, fallback, calls, faults, localPassed, raised>>

Pipeline(p) ==
  /\ Awaiting(p, "pipeline")
  /\ PipelineEffect(p)
  /\ IF Cardinality(zset') > Limit
     THEN Continue(p, "zrem") /\ UNCHANGED passed
     ELSE Finish(p) /\ passed' = passed \cup {Marker(p)}
  /\ UNCHANGED <<now, client, fallback, calls, faults, localPassed, raised>>

\* Mutant of Zrem: the refused call keeps its marker.
ZremForgotten(p) ==
  /\ Awaiting(p, "zrem")
  /\ Finish(p)
  /\ UNCHANGED <<now, redis, client, fallback, calls, faults, history>>

\* The marker of a call over the limit is removed, the call refused.
Zrem(p) ==
  /\ Awaiting(p, "zrem")
  /\ zset' = zset \ {Marker(p)}
  /\ Finish(p)
  /\ UNCHANGED <<now, expireAt, client, fallback, calls, faults, history>>

\* remaining() prunes too.
Count(p) ==
  /\ Awaiting(p, "count")
  /\ zset' = After(zset, job[p].at - Window)
  /\ Finish(p)
  /\ UNCHANGED <<now, expireAt, client, fallback, calls, faults, history>>

\* reset_all() lists the keys and then deletes those it found.
ListKeys(p) ==
  /\ Awaiting(p, "keys")
  /\ IF zset = {} THEN Finish(p) ELSE Continue(p, "delete")
  /\ UNCHANGED <<now, redis, client, fallback, calls, faults, history>>

\* A reset forgets the calls that were let through.
Delete(p) ==
  /\ Awaiting(p, "delete")
  /\ zset' = {}
  /\ passed' = {}
  /\ Finish(p)
  /\ UNCHANGED <<now, expireAt, client, fallback, calls, faults, localPassed, raised>>

-----------------------------------------------------------------------------
(* What goes wrong                                                         *)

\* Mutant of FallbackAnswer: the limit is compared with <=.
FallbackAnswerOneMore(p) ==
  LET kept == After(fallback[p], now - Window)
      call == [at |-> now, id |-> job[p].id]
      ok   == Cardinality(kept) <= Limit
  IN  CASE job[p].op = "record" ->
             /\ fallback' = [fallback EXCEPT ![p] = IF ok THEN kept \cup {call} ELSE kept]
             /\ localPassed' = [localPassed EXCEPT ![p] = IF ok THEN @ \cup {call} ELSE @]
        [] job[p].op \in {"reset", "reset_all"} ->
             /\ fallback' = [fallback EXCEPT ![p] = {}]
             /\ localPassed' = [localPassed EXCEPT ![p] = {}]
        [] OTHER -> UNCHANGED <<fallback, localPassed>>

\* The per-process window answers in place of Redis: InMemorySlidingWindow.
FallbackAnswer(p) ==
  LET kept == After(fallback[p], now - Window)
      call == [at |-> now, id |-> job[p].id]
  IN  CASE job[p].op = "record" /\ Cardinality(kept) < Limit ->
             /\ fallback' = [fallback EXCEPT ![p] = kept \cup {call}]
             /\ localPassed' = [localPassed EXCEPT ![p] = @ \cup {call}]
        [] job[p].op = "record" /\ Cardinality(kept) >= Limit ->
             /\ fallback' = [fallback EXCEPT ![p] = kept]
             /\ UNCHANGED localPassed
        [] job[p].op \in {"reset", "reset_all"} ->
             /\ fallback' = [fallback EXCEPT ![p] = {}]
             /\ localPassed' = [localPassed EXCEPT ![p] = {}]
        [] OTHER -> UNCHANGED <<fallback, localPassed>>

\* _get_client falls back on any exception, the commands on transient ones.
Broken(p, kind) ==
  /\ faults < MaxFaults
  /\ faults' = faults + 1
  /\ IF Fallback /\ (Awaiting(p, "ping") \/ kind = "transient")
     THEN FallbackAnswer(p) /\ UNCHANGED raised
     ELSE raised' = TRUE /\ UNCHANGED <<fallback, localPassed>>
  /\ Finish(p)
  /\ UNCHANGED <<now, client, calls>>

\* The command never reached Redis.
CommandLost(p, kind) ==
  /\ pc[p] # "idle"
  /\ Broken(p, kind)
  /\ UNCHANGED <<redis, passed>>

\* Redis carries the command out, but the task does not hear of it.
UnheardEffect(p) ==
  \/ /\ Awaiting(p, "pipeline")
     /\ PipelineEffect(p)
     /\ UNCHANGED passed
  \/ /\ Awaiting(p, "zrem")
     /\ zset' = zset \ {Marker(p)}
     /\ UNCHANGED <<expireAt, passed>>
  \/ /\ Awaiting(p, "count")
     /\ zset' = After(zset, job[p].at - Window)
     /\ UNCHANGED <<expireAt, passed>>
  \/ /\ Awaiting(p, "delete")
     /\ zset' = {}
     /\ passed' = {}
     /\ UNCHANGED expireAt

\* The reply to a command that Redis carried out is lost.
ReplyLost(p, kind) == UnheardEffect(p) /\ Broken(p, kind)

\* The task of the tool call is cancelled while it awaits Redis, which may
\* still carry a sent command out.
Cancel(p) ==
  /\ pc[p] # "idle"
  /\ faults < MaxFaults
  /\ faults' = faults + 1
  /\ UNCHANGED <<redis, passed>> \/ UnheardEffect(p)
  /\ Finish(p)
  /\ UNCHANGED <<now, client, fallback, calls, localPassed, raised>>

\* Time passes; Redis drops the set when its time to live is over.
Tick ==
  /\ now < MaxTime
  /\ now' = now + 1
  /\ zset' = IF now' >= expireAt THEN {} ELSE zset
  /\ UNCHANGED <<expireAt, tasks, fallback, calls, faults, history>>

Next ==
  \/ \E p \in Procs : \/ \E op \in Ops : Begin(p, op)
                      \/ Connect(p) \/ Pipeline(p) \/ Zrem(p) \/ Count(p)
                      \/ ListKeys(p) \/ Delete(p) \/ Cancel(p)
                      \/ \E kind \in ErrorKinds : CommandLost(p, kind) \/ ReplyLost(p, kind)
  \/ Tick

Spec == Init /\ [][Next]_vars

-----------------------------------------------------------------------------
(* Properties                                                              *)

\* The processes together never have more than Limit calls let through by
\* Redis inside one window: with exact clocks inside the window that ends
\* now, with skewed ones inside the window shortened by the largest skew
\* ("clock skew between instances shifts window edges by the skew amount"),
\* whatever is delayed, lost or cancelled, and although EXPIRE drops the set.
SharedBound == Cardinality(After(passed, now + MaxSkew - Window)) <= Limit

\* With the fallback a process adds its own limit to the shared one and
\* nothing more: in any window at most Limit calls per process come through
\* fallback windows on top of those Redis let through.
FallbackBound ==
  \A p \in Procs : Cardinality(After(localPassed[p], now - Window)) <= Limit

\* When nothing breaks, a refused call leaves no marker once it has
\* returned: what the set holds while no call is under way are admitted
\* calls ("rejected calls do not stretch the window").
QuietMeansClean ==
  faults = 0 /\ (\A p \in Procs : pc[p] = "idle") => zset \subseteq passed

\* The documentation: fallback_to_memory=True falls back to a per-process
\* window "instead of raising".
FallbackNeverRaises == Fallback => ~raised
=============================================================================
