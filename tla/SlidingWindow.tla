--------------------------- MODULE SlidingWindow ---------------------------
(***************************************************************************)
(* The per-process rate limiter of framework/rate_limiter.py: a            *)
(* RateLimiter without a backend, over one InMemorySlidingWindow.          *)
(*                                                                         *)
(* The limiter keeps one list of timestamps per key and prunes it with     *)
(* the window of the call at hand; limit and window come from the          *)
(* arguments of the call or, for an argument that is None, from the first  *)
(* configured prefix of the key.  Nothing in check() awaits on this path,  *)
(* so a check is one atomic step.                                          *)
(*                                                                         *)
(* A list of timestamps is a set of calls [at, id] here: no code looks at  *)
(* the order of the list, and two calls may have the same timestamp.  A    *)
(* key without a bucket is a key with an empty one.                        *)
(*                                                                         *)
(* History variables (they influence nothing): admitted, the calls that    *)
(* were let through since the key was last reset; narrowest and widest,    *)
(* the smallest window and the largest limit a record() of the key has     *)
(* used since then.                                                        *)
(***************************************************************************)
EXTENDS Integers, FiniteSets, Sequences

CONSTANTS
  Keys,       (* rate-limit keys, "tool:caller"                            *)
  Prefixes,   (* the prefixes an operator may configure                    *)
  Covers,     (* Covers[p]: the keys that start with p                     *)
  Rules,      (* the [max_calls, window] rules an operator may configure   *)
  Default,    (* RateLimitConfig() of the limiter                          *)
  CallArgs,   (* CallArgs[k]: the [max_calls, window] arguments callers pass *)
  NoArg,      (* None                                                      *)
  MaxWindow,  (* no window is longer                                       *)
  MaxTime,    (* bound: the clock                                          *)
  MaxCalls    (* bound: calls of check()                                   *)

Rule == [max_calls : Nat, window : 0..MaxWindow]
Args == [max_calls : Nat \cup {NoArg}, window : (0..MaxWindow) \cup {NoArg}]

ASSUME SlidingWindowAssumption ==
  /\ Covers \in [Prefixes -> SUBSET Keys]
  /\ Rules \subseteq Rule
  /\ Default \in Rule
  /\ CallArgs \in [Keys -> SUBSET Args]
  /\ NoArg \notin Int
  /\ MaxWindow \in Nat /\ MaxTime \in Nat /\ MaxCalls \in Nat

VARIABLES
  now,        (* time.monotonic()                                          *)
  bucket,     (* _buckets[k].timestamps                                    *)
  configs,    (* _configs, a dict: entries in order of first insertion     *)
  answer,     (* the last decision returned by check()                     *)
  admitted, narrowest, widest   (* history                                 *)

history == <<admitted, narrowest, widest>>
vars == <<now, bucket, configs, answer, admitted, narrowest, widest>>

-----------------------------------------------------------------------------
(* Helpers                                                                 *)

\* Mutant of Active: a call exactly at the cutoff still counts.
ActiveAtCutoff(S, window) == {c \in S : c.at >= now - window}

\* The calls of S made after the cutoff of a window that ends now.
Active(S, window) == {c \in S : c.at > now - window}

\* _get_config: the first configured prefix of the key, else the default.
\* A set with one element.
ConfigOf(k) ==
  LET matching == {i \in DOMAIN configs : k \in Covers[configs[i].prefix]}
  IN  IF matching = {} THEN {Default}
      ELSE {configs[i].rule : i \in {j \in matching : \A l \in matching : j <= l}}

\* _resolve: explicit arguments win, each on its own.
Resolve(k, args) ==
  {[max_calls |-> IF args.max_calls = NoArg THEN cfg.max_calls ELSE args.max_calls,
    window    |-> IF args.window = NoArg THEN cfg.window ELSE args.window]
     : cfg \in ConfigOf(k)}

-----------------------------------------------------------------------------
NoAnswer == [n |-> 0, key |-> "none", allowed |-> FALSE, limit |-> 0, window |-> 0]

Init ==
  /\ now = 0
  /\ bucket = [k \in Keys |-> {}]
  /\ configs = <<>>
  /\ answer = NoAnswer
  /\ admitted = [k \in Keys |-> {}]
  /\ narrowest = [k \in Keys |-> MaxWindow]
  /\ widest = [k \in Keys |-> 0]

\* Mutant of Record: the limit is compared with <=.
RecordOneMore(k, rule) ==
  LET kept == Active(bucket[k], rule.window)
      call == [at |-> now, id |-> answer.n + 1]
      ok   == Cardinality(kept) <= rule.max_calls
  IN  /\ bucket' = [bucket EXCEPT ![k] = IF ok THEN kept \cup {call} ELSE kept]
      /\ admitted' = IF ok THEN [admitted EXCEPT ![k] = @ \cup {call}] ELSE admitted
      /\ answer' = [n |-> answer.n + 1, key |-> k, allowed |-> ok,
                    limit |-> rule.max_calls, window |-> rule.window]
      /\ narrowest' = [narrowest EXCEPT ![k] = IF rule.window < @ THEN rule.window ELSE @]
      /\ widest' = [widest EXCEPT ![k] = IF rule.max_calls > @ THEN rule.max_calls ELSE @]

\* Mutant of Record: a refused call is remembered too.
RecordRefused(k, rule) ==
  LET kept == Active(bucket[k], rule.window)
      call == [at |-> now, id |-> answer.n + 1]
      ok   == Cardinality(kept) < rule.max_calls
  IN  /\ bucket' = [bucket EXCEPT ![k] = kept \cup {call}]
      /\ admitted' = IF ok THEN [admitted EXCEPT ![k] = @ \cup {call}] ELSE admitted
      /\ answer' = [n |-> answer.n + 1, key |-> k, allowed |-> ok,
                    limit |-> rule.max_calls, window |-> rule.window]
      /\ narrowest' = [narrowest EXCEPT ![k] = IF rule.window < @ THEN rule.window ELSE @]
      /\ widest' = [widest EXCEPT ![k] = IF rule.max_calls > @ THEN rule.max_calls ELSE @]

\* InMemorySlidingWindow.record: prune, then refuse or append.
Record(k, rule) ==
  LET kept == Active(bucket[k], rule.window)
      call == [at |-> now, id |-> answer.n + 1]
  IN  /\ \/ /\ Cardinality(kept) < rule.max_calls
            /\ bucket' = [bucket EXCEPT ![k] = kept \cup {call}]
            /\ admitted' = [admitted EXCEPT ![k] = @ \cup {call}]
            /\ answer' = [n |-> answer.n + 1, key |-> k, allowed |-> TRUE,
                          limit |-> rule.max_calls, window |-> rule.window]
         \/ /\ Cardinality(kept) >= rule.max_calls
            /\ bucket' = [bucket EXCEPT ![k] = kept]
            /\ answer' = [n |-> answer.n + 1, key |-> k, allowed |-> FALSE,
                          limit |-> rule.max_calls, window |-> rule.window]
            /\ UNCHANGED admitted
      /\ narrowest' = [narrowest EXCEPT ![k] = IF rule.window < @ THEN rule.window ELSE @]
      /\ widest' = [widest EXCEPT ![k] = IF rule.max_calls > @ THEN rule.max_calls ELSE @]

\* RateLimiter.check.
Check(k) ==
  /\ answer.n < MaxCalls
  /\ \E args \in CallArgs[k] : \E rule \in Resolve(k, args) : Record(k, rule)
  /\ UNCHANGED <<now, configs>>

\* RateLimiter.configure: a dict keeps the position of a key it overwrites.
Configure(p, rule) ==
  /\ configs' = IF \E i \in DOMAIN configs : configs[i].prefix = p
                THEN [i \in DOMAIN configs |->
                        IF configs[i].prefix = p THEN [prefix |-> p, rule |-> rule]
                        ELSE configs[i]]
                ELSE Append(configs, [prefix |-> p, rule |-> rule])
  /\ UNCHANGED <<now, bucket, answer, history>>

\* reset(key) drops one bucket, reset_all() all of them.
Forget(K) ==
  /\ bucket' = [k \in Keys |-> IF k \in K THEN {} ELSE bucket[k]]
  /\ admitted' = [k \in Keys |-> IF k \in K THEN {} ELSE admitted[k]]
  /\ narrowest' = [k \in Keys |-> IF k \in K THEN MaxWindow ELSE narrowest[k]]
  /\ widest' = [k \in Keys |-> IF k \in K THEN 0 ELSE widest[k]]
  /\ UNCHANGED <<now, configs, answer>>

Reset(k) == Forget({k})
ResetAll == Forget(Keys)

Tick ==
  /\ now < MaxTime
  /\ now' = now + 1
  /\ UNCHANGED <<bucket, configs, answer, history>>

Next ==
  \/ \E k \in Keys : Check(k) \/ Reset(k)
  \/ \E p \in Prefixes, rule \in Rules : Configure(p, rule)
  \/ ResetAll
  \/ Tick

Spec == Init /\ [][Next]_vars

-----------------------------------------------------------------------------
(* Properties                                                              *)

Call == [at : Nat, id : Nat]

\* Every variable keeps its type; ids and timestamps never run ahead of the
\* counters they are drawn from.
TypeOK ==
  /\ now \in 0..MaxTime
  /\ bucket \in [Keys -> SUBSET Call]
  /\ configs \in Seq([prefix : Prefixes, rule : Rules])
  /\ answer \in [n : 0..MaxCalls, key : Keys \cup {"none"}, allowed : BOOLEAN,
                 limit : Nat, window : 0..MaxWindow]
  /\ admitted \in [Keys -> SUBSET Call]
  /\ narrowest \in [Keys -> 0..MaxWindow]
  /\ widest \in [Keys -> Nat]

\* However callers mix limits and windows on one key (explicit arguments, a
\* configuration changed while calls are remembered), the calls admitted
\* within the narrowest window used on the key never exceed the largest
\* limit used on it.  record() prunes with the window of the call at hand,
\* so nothing stronger holds when windows differ.
WindowBound ==
  \A k \in Keys :
    Cardinality({c \in admitted[k] : c.at > now - narrowest[k]}) <= widest[k]

\* The inductive strengthening of WindowBound: a bucket holds admitted calls
\* only, all of those inside the narrowest window, and never more than the
\* largest limit.
BucketHoldsAdmitted == \A k \in Keys : bucket[k] \subseteq admitted[k]

BucketHoldsRecent ==
  \A k \in Keys : \A c \in admitted[k] : c.at > now - narrowest[k] => c \in bucket[k]

BucketBounded == \A k \in Keys : Cardinality(bucket[k]) <= widest[k]

AdmittedFinite == \A k \in Keys : IsFiniteSet(admitted[k])

Inv ==
  /\ TypeOK
  /\ BucketHoldsAdmitted
  /\ BucketHoldsRecent
  /\ BucketBounded
  /\ AdmittedFinite

\* check() says "rate limit exceeded" only to a call that finds its limit
\* really used up by admitted calls inside its own window: a refusal never
\* counts an earlier refusal, nor a call that has left the window.
RefusedOnlyWhenFull ==
  [][ answer'.n > answer.n /\ ~answer'.allowed =>
        Cardinality({c \in admitted[answer'.key] : c.at > now - answer'.window})
          >= answer'.limit ]_vars

\* The keys whose callers always pass the same limit and window, as the
\* wrapper of rate_limited_tool does.
ToolKeys == {k \in Keys : \E args \in CallArgs[k] :
               CallArgs[k] = {args} /\ args.max_calls # NoArg /\ args.window # NoArg}

RuleOf(k) == CHOOSE args \in CallArgs[k] : TRUE

\* They get the abstract limiter, whatever the other keys, which share the
\* limiter and its configuration, are used for.
Contract == INSTANCE RateLimitContract WITH
  Keys     <- ToolKeys,
  Limit    <- [k \in ToolKeys |-> RuleOf(k).max_calls],
  Window   <- [k \in ToolKeys |-> RuleOf(k).window],
  admitted <- [k \in ToolKeys |-> admitted[k]],
  answer   <- IF answer.key \in ToolKeys THEN answer ELSE [NoAnswer EXCEPT !.n = answer.n]

ImplementsContract == Contract!Spec
=============================================================================
