------------------------ MODULE SlidingWindowProofs ------------------------
(***************************************************************************)
(* Proofs about SlidingWindow, for every set of keys, every configuration  *)
(* and every mix of limits and windows.                                    *)
(***************************************************************************)
EXTENDS SlidingWindow, FiniteSetTheorems, TLAPS

\* Pruning keeps a finite part of the bucket.
LEMMA ActiveSubset ==
  ASSUME NEW S, NEW w, IsFiniteSet(S)
  PROVE  /\ Active(S, w) \subseteq S
         /\ IsFiniteSet(Active(S, w))
         /\ Cardinality(Active(S, w)) \in Nat
         /\ Cardinality(Active(S, w)) <= Cardinality(S)
<1>1. Active(S, w) \in SUBSET S
  BY DEF Active
<1>. QED
  BY <1>1, FS_Subset, FS_CardinalityType

\* Whatever the configuration, a call is judged by a well-formed rule.
LEMMA ResolveType ==
  ASSUME TypeOK, NEW k \in Keys, NEW args \in CallArgs[k], NEW rule \in Resolve(k, args)
  PROVE  rule \in Rule
<1>1. args \in Args
  BY SlidingWindowAssumption
<1>2. ConfigOf(k) \subseteq Rule
  <2>1. \A i \in DOMAIN configs : configs[i].rule \in Rules
    <3>. DEFINE Entry == [prefix : Prefixes, rule : Rules]
    <3>1. configs \in Seq(Entry)
      BY DEF TypeOK
    <3>2. \A i \in DOMAIN configs : configs[i] \in Entry
      <4>. HIDE DEF Entry
      <4>. QED
        BY <3>1
    <3>. QED
      BY <3>2
  <2>2. Default \in Rule /\ Rules \subseteq Rule
    BY SlidingWindowAssumption
  <2>. QED
    BY <2>1, <2>2 DEF ConfigOf
<1>3. PICK cfg \in ConfigOf(k) :
        rule = [max_calls |-> IF args.max_calls = NoArg THEN cfg.max_calls ELSE args.max_calls,
                window    |-> IF args.window = NoArg THEN cfg.window ELSE args.window]
  BY DEF Resolve
<1>. QED
  BY <1>1, <1>2, <1>3 DEF Args, Rule

\* A fresh limiter satisfies the inductive invariant.
LEMMA InitInv == Init => Inv
<1>. SUFFICES ASSUME Init PROVE Inv
  OBVIOUS
<1>1. TypeOK
  BY SlidingWindowAssumption DEF Init, TypeOK, NoAnswer
<1>2. BucketHoldsAdmitted /\ BucketHoldsRecent
  BY DEF Init, BucketHoldsAdmitted, BucketHoldsRecent
<1>3. BucketBounded /\ AdmittedFinite
  BY FS_EmptySet DEF Init, BucketBounded, AdmittedFinite
<1>. QED
  BY <1>1, <1>2, <1>3 DEF Inv

\* check() preserves it, whether record() appends the call or refuses it:
\* pruning with the call's window loses no call inside the narrowest one.
LEMMA CheckInv ==
  ASSUME Inv, NEW k \in Keys, Check(k)
  PROVE  Inv'
<1>. USE SlidingWindowAssumption
<1>0. PICK args \in CallArgs[k] : \E rule \in Resolve(k, args) : Record(k, rule)
  BY DEF Check
<1>1. PICK rule \in Resolve(k, args) : Record(k, rule)
  BY <1>0
<1>2. rule \in Rule
  BY ResolveType DEF Inv
<1>3. rule.max_calls \in Nat /\ rule.window \in 0..MaxWindow
  BY <1>2 DEF Rule
<1>. DEFINE kept == Active(bucket[k], rule.window)
            call == [at |-> now, id |-> answer.n + 1]
<1>4. /\ answer.n < MaxCalls /\ now' = now /\ configs' = configs
  BY DEF Check
<1>5. /\ bucket[k] \subseteq Call /\ admitted[k] \subseteq Call /\ call \in Call
      /\ now \in 0..MaxTime /\ now \in Nat
  BY DEF Inv, TypeOK, Call
<1>6. IsFiniteSet(bucket[k]) /\ IsFiniteSet(admitted[k])
  BY FS_Subset DEF Inv, BucketHoldsAdmitted, AdmittedFinite
<1>7. /\ kept \subseteq bucket[k] /\ IsFiniteSet(kept)
      /\ Cardinality(kept) \in Nat
      /\ Cardinality(kept) <= Cardinality(bucket[k])
      /\ Cardinality(bucket[k]) \in Nat
  BY <1>6, ActiveSubset, FS_CardinalityType
<1>8. /\ IsFiniteSet(kept \cup {call}) /\ IsFiniteSet(admitted[k] \cup {call})
      /\ Cardinality(kept \cup {call}) \in Nat
      /\ Cardinality(kept \cup {call}) <= Cardinality(kept) + 1
  <2>. HIDE DEF kept, call
  <2>1. IsFiniteSet(admitted[k] \cup {call})
    BY <1>6, FS_AddElement
  <2>2. /\ IsFiniteSet(kept \cup {call})
        /\ Cardinality(kept \cup {call}) =
             IF call \in kept THEN Cardinality(kept) ELSE Cardinality(kept) + 1
    BY <1>7, FS_AddElement
  <2>. QED
    BY <1>7, <2>1, <2>2
<1>9. /\ narrowest' = [narrowest EXCEPT ![k] = IF rule.window < @ THEN rule.window ELSE @]
      /\ widest' = [widest EXCEPT ![k] = IF rule.max_calls > @ THEN rule.max_calls ELSE @]
  BY <1>1 DEF Record
<1>10. /\ narrowest \in [Keys -> 0..MaxWindow] /\ narrowest' \in [Keys -> 0..MaxWindow]
       /\ widest \in [Keys -> Nat] /\ widest' \in [Keys -> Nat]
  <2>1. narrowest \in [Keys -> 0..MaxWindow] /\ widest \in [Keys -> Nat]
    BY DEF Inv, TypeOK
  <2>. QED
    BY <2>1, <1>3, <1>9
<1>11. /\ narrowest'[k] <= rule.window /\ narrowest'[k] <= narrowest[k]
       /\ widest'[k] >= rule.max_calls /\ widest'[k] >= widest[k]
       /\ \A j \in Keys \ {k} : narrowest'[j] = narrowest[j] /\ widest'[j] = widest[j]
  BY <1>3, <1>9, <1>10
\* What survives the pruning: everything the narrowest window still covers.
<1>12. \A c \in admitted[k] : c.at > now - narrowest'[k] => c \in kept
  <2>. SUFFICES ASSUME NEW c \in admitted[k], c.at > now - narrowest'[k]
                PROVE  c \in kept
    OBVIOUS
  <2>1. c.at \in Nat
    BY <1>5 DEF Call
  <2>2. c.at > now - narrowest[k] /\ c.at > now - rule.window
    BY <2>1, <1>3, <1>5, <1>10, <1>11
  <2>3. c \in bucket[k]
    BY <2>2 DEF Inv, BucketHoldsRecent
  <2>. QED
    BY <2>2, <2>3 DEF Active
<1>A. CASE /\ Cardinality(kept) < rule.max_calls
           /\ bucket' = [bucket EXCEPT ![k] = kept \cup {call}]
           /\ admitted' = [admitted EXCEPT ![k] = @ \cup {call}]
           /\ answer' = [n |-> answer.n + 1, key |-> k, allowed |-> TRUE,
                         limit |-> rule.max_calls, window |-> rule.window]
  <2>. DEFINE more == kept \cup {call}
  <2>0. /\ bucket \in [Keys -> SUBSET Call] /\ admitted \in [Keys -> SUBSET Call]
        /\ more \subseteq Call /\ admitted[k] \cup {call} \subseteq Call
    BY <1>5, <1>7 DEF Inv, TypeOK
  <2>1. /\ bucket'[k] = more /\ admitted'[k] = admitted[k] \cup {call}
        /\ \A j \in Keys \ {k} : bucket'[j] = bucket[j] /\ admitted'[j] = admitted[j]
    BY <1>A, <2>0
  <2>2. TypeOK'
    <3>1. answer' \in [n : 0..MaxCalls, key : Keys \cup {"none"}, allowed : BOOLEAN,
                       limit : Nat, window : 0..MaxWindow]
      BY <1>A, <1>3, <1>4 DEF Inv, TypeOK
    <3>2. bucket' \in [Keys -> SUBSET Call] /\ admitted' \in [Keys -> SUBSET Call]
      BY <1>A, <2>0
    <3>. QED
      BY <3>1, <3>2, <1>4, <1>10 DEF Inv, TypeOK
  <2>3. BucketHoldsAdmitted'
    BY <2>1, <1>7 DEF Inv, BucketHoldsAdmitted
  <2>4. BucketHoldsRecent'
    <3>. SUFFICES ASSUME NEW j \in Keys, NEW c \in admitted'[j], c.at > now - narrowest'[j]
                  PROVE  c \in bucket'[j]
      BY <1>4 DEF BucketHoldsRecent
    <3>1. CASE j = k
      BY <3>1, <2>1, <1>12
    <3>2. CASE j # k
      BY <3>2, <2>1, <1>11 DEF Inv, BucketHoldsRecent
    <3>. QED
      BY <3>1, <3>2
  <2>5. BucketBounded'
    <3>1. Cardinality(more) <= widest'[k]
      BY <1>A, <1>3, <1>7, <1>8, <1>10, <1>11
    <3>. QED
      BY <3>1, <2>1, <1>11 DEF Inv, BucketBounded
  <2>6. AdmittedFinite'
    BY <2>1, <1>8 DEF Inv, AdmittedFinite
  <2>. QED
    BY <2>2, <2>3, <2>4, <2>5, <2>6 DEF Inv
<1>B. CASE /\ Cardinality(kept) >= rule.max_calls
           /\ bucket' = [bucket EXCEPT ![k] = kept]
           /\ answer' = [n |-> answer.n + 1, key |-> k, allowed |-> FALSE,
                         limit |-> rule.max_calls, window |-> rule.window]
           /\ UNCHANGED admitted
  <2>0. /\ bucket \in [Keys -> SUBSET Call] /\ admitted \in [Keys -> SUBSET Call]
        /\ kept \subseteq Call
    BY <1>5, <1>7 DEF Inv, TypeOK
  <2>1. /\ bucket'[k] = kept /\ admitted' = admitted
        /\ \A j \in Keys \ {k} : bucket'[j] = bucket[j]
    BY <1>B, <2>0
  <2>2. TypeOK'
    <3>1. answer' \in [n : 0..MaxCalls, key : Keys \cup {"none"}, allowed : BOOLEAN,
                       limit : Nat, window : 0..MaxWindow]
      BY <1>B, <1>3, <1>4 DEF Inv, TypeOK
    <3>2. bucket' \in [Keys -> SUBSET Call] /\ admitted' \in [Keys -> SUBSET Call]
      BY <1>B, <2>0
    <3>. QED
      BY <3>1, <3>2, <1>4, <1>10 DEF Inv, TypeOK
  <2>3. BucketHoldsAdmitted'
    BY <2>1, <1>7 DEF Inv, BucketHoldsAdmitted
  <2>4. BucketHoldsRecent'
    <3>. SUFFICES ASSUME NEW j \in Keys, NEW c \in admitted[j], c.at > now - narrowest'[j]
                  PROVE  c \in bucket'[j]
      BY <1>4, <2>1 DEF BucketHoldsRecent
    <3>1. CASE j = k
      BY <3>1, <2>1, <1>12
    <3>2. CASE j # k
      BY <3>2, <2>1, <1>11 DEF Inv, BucketHoldsRecent
    <3>. QED
      BY <3>1, <3>2
  <2>5. BucketBounded'
    <3>1. Cardinality(bucket[k]) <= widest[k]
      BY DEF Inv, BucketBounded
    <3>2. Cardinality(kept) <= widest'[k]
      BY <3>1, <1>7, <1>10, <1>11
    <3>. QED
      BY <3>2, <2>1, <1>11 DEF Inv, BucketBounded
  <2>6. AdmittedFinite'
    BY <2>1 DEF Inv, AdmittedFinite
  <2>. QED
    BY <2>2, <2>3, <2>4, <2>5, <2>6 DEF Inv
<1>. QED
  BY <1>1, <1>A, <1>B DEF Record

\* configure() preserves it: only future calls see the new rule.
LEMMA ConfigureInv ==
  ASSUME Inv, NEW p \in Prefixes, NEW rule \in Rules, Configure(p, rule)
  PROVE  Inv'
<1>. DEFINE Entry == [prefix : Prefixes, rule : Rules]
            entry == [prefix |-> p, rule |-> rule]
<1>1. configs \in Seq(Entry) /\ entry \in Entry
  BY DEF Inv, TypeOK
<1>2. configs' \in Seq(Entry)
  <2>1. CASE configs' = Append(configs, entry)
    <3>. HIDE DEF Entry, entry
    <3>. QED
      BY <1>1, <2>1
  <2>2. CASE configs' = [i \in DOMAIN configs |->
                           IF configs[i].prefix = p THEN entry ELSE configs[i]]
    <3>. HIDE DEF Entry, entry
    <3>1. DOMAIN configs = 1..Len(configs) /\ Len(configs) \in Nat
      BY <1>1
    <3>2. \A i \in 1..Len(configs) : configs'[i] \in Entry
      BY <1>1, <2>2, <3>1
    <3>. QED
      BY <2>2, <3>1, <3>2
  <2>. QED
    BY <2>1, <2>2 DEF Configure
<1>3. UNCHANGED <<now, bucket, answer, admitted, narrowest, widest>>
  BY DEF Configure, history
<1>. QED
  BY <1>2, <1>3 DEF Inv, TypeOK, BucketHoldsAdmitted, BucketHoldsRecent,
                    BucketBounded, AdmittedFinite

\* reset(key) and reset_all() preserve it.
LEMMA ForgetInv ==
  ASSUME Inv, NEW K \in SUBSET Keys, Forget(K)
  PROVE  Inv'
<1>. USE SlidingWindowAssumption
<1>1. TypeOK'
  BY DEF Forget, Inv, TypeOK
<1>2. BucketHoldsAdmitted' /\ BucketHoldsRecent'
  BY DEF Forget, Inv, BucketHoldsAdmitted, BucketHoldsRecent
<1>3. BucketBounded' /\ AdmittedFinite'
  BY FS_EmptySet DEF Forget, Inv, BucketBounded, AdmittedFinite
<1>. QED
  BY <1>1, <1>2, <1>3 DEF Inv

\* Time only shrinks what is recent.
LEMMA TickInv == Inv /\ Tick => Inv'
<1>. SUFFICES ASSUME Inv, Tick PROVE Inv'
  OBVIOUS
<1>1. TypeOK'
  BY SlidingWindowAssumption DEF Tick, Inv, TypeOK, history
<1>2. BucketHoldsRecent'
  <2>. SUFFICES ASSUME NEW k \in Keys, NEW c \in admitted[k], c.at > now' - narrowest[k]
                PROVE  c \in bucket[k]
    BY DEF Tick, history, BucketHoldsRecent
  <2>1. /\ c.at \in Nat /\ now \in Nat /\ narrowest[k] \in Nat
    BY SlidingWindowAssumption DEF Inv, TypeOK, Call
  <2>2. c.at > now - narrowest[k]
    BY <2>1 DEF Tick
  <2>. QED
    BY <2>2 DEF Inv, BucketHoldsRecent
<1>3. BucketHoldsAdmitted' /\ BucketBounded' /\ AdmittedFinite'
  BY DEF Tick, history, Inv, BucketHoldsAdmitted, BucketBounded, AdmittedFinite
<1>. QED
  BY <1>1, <1>2, <1>3 DEF Inv

\* Every operation, and the passing of time, preserves it.
LEMMA NextInv == Inv /\ [Next]_vars => Inv'
<1>. SUFFICES ASSUME Inv, [Next]_vars PROVE Inv'
  OBVIOUS
<1>1. ASSUME NEW k \in Keys, Check(k) PROVE Inv'
  BY <1>1, CheckInv
<1>2. ASSUME NEW k \in Keys, Reset(k) PROVE Inv'
  BY <1>2, ForgetInv DEF Reset
<1>3. ASSUME NEW p \in Prefixes, NEW rule \in Rules, Configure(p, rule) PROVE Inv'
  BY <1>3, ConfigureInv
<1>4. ASSUME ResetAll PROVE Inv'
  BY <1>4, ForgetInv DEF ResetAll
<1>5. ASSUME Tick PROVE Inv'
  BY <1>5, TickInv
<1>6. ASSUME UNCHANGED vars PROVE Inv'
  BY <1>6 DEF vars, Inv, TypeOK, BucketHoldsAdmitted, BucketHoldsRecent,
              BucketBounded, AdmittedFinite
<1>. QED
  BY <1>1, <1>2, <1>3, <1>4, <1>5, <1>6 DEF Next

\* The inductive invariant holds in every reachable state of the limiter.
THEOREM Invariance == Spec => []Inv
<1>. QED
  BY InitInv, NextInv, PTL DEF Spec

\* Every variable of the limiter keeps its type.
THEOREM TypeCorrect == Spec => []TypeOK
<1>1. Inv => TypeOK
  BY DEF Inv
<1>. QED
  BY <1>1, Invariance, PTL

\* However limits and windows are mixed on a key, the calls admitted within
\* the narrowest window used on it never exceed the largest limit used on it.
THEOREM AdmittedBounded == Spec => []WindowBound
<1>1. Inv => WindowBound
  <2>. SUFFICES ASSUME Inv, NEW k \in Keys
                PROVE  Cardinality({c \in admitted[k] : c.at > now - narrowest[k]}) <= widest[k]
    BY DEF WindowBound
  <2>. DEFINE recent == {c \in admitted[k] : c.at > now - narrowest[k]}
  <2>1. recent \in SUBSET bucket[k]
    BY DEF Inv, BucketHoldsRecent
  <2>2. IsFiniteSet(bucket[k])
    BY FS_Subset DEF Inv, BucketHoldsAdmitted, AdmittedFinite
  <2>3. /\ Cardinality(recent) <= Cardinality(bucket[k])
        /\ Cardinality(recent) \in Nat /\ Cardinality(bucket[k]) \in Nat
    BY <2>1, <2>2, FS_Subset, FS_CardinalityType
  <2>4. Cardinality(bucket[k]) <= widest[k] /\ widest[k] \in Nat
    BY DEF Inv, BucketBounded, TypeOK
  <2>. QED
    BY <2>3, <2>4
<1>. QED
  BY <1>1, Invariance, PTL

\* A refusal is only ever given when admitted calls inside the caller's own
\* window use its limit up.
THEOREM RefusalJustified == Spec => RefusedOnlyWhenFull
<1>. DEFINE Justified ==
       answer'.n > answer.n /\ ~answer'.allowed =>
         Cardinality({c \in admitted[answer'.key] : c.at > now - answer'.window})
           >= answer'.limit
<1>1. ASSUME Inv, NEW k \in Keys, Check(k) PROVE Justified
  <2>0. PICK args \in CallArgs[k] : \E rule \in Resolve(k, args) : Record(k, rule)
    BY <1>1 DEF Check
  <2>1. PICK rule \in Resolve(k, args) : Record(k, rule)
    BY <2>0
  <2>2. rule.max_calls \in Nat
    BY <1>1, ResolveType DEF Inv, Rule
  <2>. DEFINE kept == Active(bucket[k], rule.window)
              recent == {c \in admitted[k] : c.at > now - rule.window}
  <2>3. CASE answer' = [n |-> answer.n + 1, key |-> k, allowed |-> TRUE,
                        limit |-> rule.max_calls, window |-> rule.window]
    BY <2>3
  <2>4. CASE /\ Cardinality(kept) >= rule.max_calls
             /\ answer' = [n |-> answer.n + 1, key |-> k, allowed |-> FALSE,
                           limit |-> rule.max_calls, window |-> rule.window]
    <3>1. kept \in SUBSET recent /\ recent \in SUBSET admitted[k]
      BY <1>1 DEF Active, Inv, BucketHoldsAdmitted
    <3>2. IsFiniteSet(recent)
      BY <1>1, <3>1, FS_Subset DEF Inv, AdmittedFinite
    <3>3. /\ Cardinality(kept) <= Cardinality(recent)
          /\ Cardinality(kept) \in Nat /\ Cardinality(recent) \in Nat
      BY <3>1, <3>2, FS_Subset, FS_CardinalityType
    <3>4. Cardinality(recent) >= rule.max_calls
      BY <2>2, <2>4, <3>3
    <3>. QED
      BY <2>4, <3>4
  <2>. QED
    BY <2>1, <2>3, <2>4 DEF Record
<1>2. ASSUME Inv, [Next]_vars PROVE [Justified]_vars
  <2>1. ASSUME UNCHANGED answer PROVE Justified
    BY <1>2, <2>1 DEF Inv, TypeOK
  <2>. QED
    BY <1>1, <1>2, <2>1 DEF Next, Reset, ResetAll, Forget, Configure, Tick
<1>. QED
  BY <1>2, Invariance, PTL DEF Spec, RefusedOnlyWhenFull

-----------------------------------------------------------------------------
(* Keys with one explicit rule get the abstract limiter.                   *)

\* A call on such a key is judged by the rule of the key.
LEMMA FixedResolve ==
  ASSUME NEW k \in ToolKeys, NEW args \in CallArgs[k], NEW rule \in Resolve(k, args)
  PROVE  /\ rule.max_calls = RuleOf(k).max_calls
         /\ rule.window = RuleOf(k).window
<1>1. args = RuleOf(k) /\ args.max_calls # NoArg /\ args.window # NoArg
  BY DEF ToolKeys, RuleOf
<1>. QED
  BY <1>1 DEF Resolve

\* That rule is well formed.
LEMMA RuleOfType ==
  ASSUME NEW k \in ToolKeys
  PROVE  RuleOf(k).window \in 0..MaxWindow /\ RuleOf(k).max_calls \in Nat
<1>1. k \in Keys /\ RuleOf(k) \in CallArgs[k]
  BY DEF ToolKeys, RuleOf
<1>2. RuleOf(k).max_calls # NoArg /\ RuleOf(k).window # NoArg
  BY DEF ToolKeys, RuleOf
<1>3. RuleOf(k) \in Args
  BY <1>1, SlidingWindowAssumption
<1>. QED
  BY <1>2, <1>3 DEF Args

\* So no record() of k ever uses a window narrower than the one of k.
WideEnough == \A k \in ToolKeys : RuleOf(k).window <= narrowest[k]

\* Hence after pruning the bucket is exactly what the contract counts.
LEMMA BucketIsRecent ==
  ASSUME Inv, WideEnough, NEW k \in ToolKeys
  PROVE  Active(bucket[k], RuleOf(k).window)
           = {c \in admitted[k] : c.at > now - RuleOf(k).window}
<1>1. k \in Keys /\ RuleOf(k).window \in Nat
  BY RuleOfType, SlidingWindowAssumption DEF ToolKeys
<1>2. narrowest[k] \in Nat /\ now \in Nat /\ \A c \in admitted[k] : c.at \in Nat
  BY <1>1, SlidingWindowAssumption DEF Inv, TypeOK, Call
<1>3. \A c \in admitted[k] : c.at > now - RuleOf(k).window => c.at > now - narrowest[k]
  BY <1>1, <1>2 DEF WideEnough
<1>. QED
  BY <1>1, <1>3 DEF Active, Inv, BucketHoldsAdmitted, BucketHoldsRecent

\* WideEnough holds of a fresh limiter ...
LEMMA InitWideEnough == Init => WideEnough
<1>. SUFFICES ASSUME Init, NEW k \in ToolKeys PROVE RuleOf(k).window <= narrowest[k]
  BY DEF WideEnough
<1>1. k \in Keys /\ RuleOf(k).window \in 0..MaxWindow
  BY RuleOfType DEF ToolKeys
<1>. QED
  BY <1>1, SlidingWindowAssumption DEF Init

\* ... and every operation preserves it: a call uses the key's own window.
LEMMA NextWideEnough ==
  ASSUME Inv, WideEnough, [Next]_vars
  PROVE  WideEnough'
<1>1. \A k \in ToolKeys : k \in Keys /\ RuleOf(k).window \in 0..MaxWindow
  BY RuleOfType DEF ToolKeys
<1>2. ASSUME NEW k \in Keys, Check(k) PROVE WideEnough'
  <2>0. PICK args \in CallArgs[k] : \E rule \in Resolve(k, args) : Record(k, rule)
    BY <1>2 DEF Check
  <2>1. PICK rule \in Resolve(k, args) : Record(k, rule)
    BY <2>0
  <2>2. k \in ToolKeys => rule.window = RuleOf(k).window
    BY FixedResolve
  <2>3. narrowest' = [narrowest EXCEPT ![k] = IF rule.window < @ THEN rule.window ELSE @]
    BY <2>1 DEF Record
  <2>4. narrowest \in [Keys -> 0..MaxWindow]
    BY DEF Inv, TypeOK
  <2>. QED
    BY <1>1, <2>2, <2>3, <2>4, SlidingWindowAssumption DEF WideEnough
<1>3. ASSUME NEW K \in SUBSET Keys, Forget(K) PROVE WideEnough'
  BY <1>1, <1>3, SlidingWindowAssumption DEF Forget, WideEnough
<1>4. ASSUME UNCHANGED narrowest PROVE WideEnough'
  BY <1>4 DEF WideEnough
<1>. QED
  BY <1>2, <1>3, <1>4 DEF Next, Reset, ResetAll, Configure, Tick, history, vars

\* The contract's own copy of the cardinality operator.
LEMMA SameCardinality == ASSUME NEW S PROVE Contract!Cardinality(S) = Cardinality(S)
  BY DEF Contract!Cardinality, Cardinality, Contract!IsFiniteSet, IsFiniteSet

\* What the contract sees of the variables of the limiter.
ToolAdmitted == [k \in ToolKeys |-> admitted[k]]
ToolAnswer == IF answer.key \in ToolKeys THEN answer ELSE [NoAnswer EXCEPT !.n = answer.n]

\* A check() on a key of a tool is Admit or Refuse.
LEMMA ToolCheckRefines ==
  ASSUME Inv, WideEnough, NEW k \in ToolKeys, Check(k)
  PROVE  Contract!Admit(k) \/ Contract!Refuse(k)
<1>. USE DEF ToolAdmitted, ToolAnswer
<1>0. k \in Keys /\ now' = now /\ DOMAIN admitted = Keys
  BY DEF ToolKeys, Check, Inv, TypeOK
<1>1. PICK args \in CallArgs[k] : \E rule \in Resolve(k, args) : Record(k, rule)
  BY <1>0 DEF Check
<1>2. PICK rule \in Resolve(k, args) : Record(k, rule)
  BY <1>1
<1>3. rule.window = RuleOf(k).window /\ rule.max_calls = RuleOf(k).max_calls
  BY FixedResolve
<1>4. Active(bucket[k], rule.window) = Contract!Recent(k)
  BY <1>3, BucketIsRecent DEF Contract!Recent
<1>5. ToolAnswer.n = answer.n
  BY DEF NoAnswer
<1>6. CASE /\ Cardinality(Active(bucket[k], rule.window)) < rule.max_calls
           /\ admitted' = [admitted EXCEPT ![k] = @ \cup {[at |-> now, id |-> answer.n + 1]}]
           /\ answer' = [n |-> answer.n + 1, key |-> k, allowed |-> TRUE,
                         limit |-> rule.max_calls, window |-> rule.window]
  <2>1. Cardinality(Contract!Recent(k)) < [j \in ToolKeys |-> RuleOf(j).max_calls][k]
    BY <1>3, <1>4, <1>6
  <2>2. Contract!Answer(k, TRUE)
    BY <1>3, <1>5, <1>6 DEF Contract!Answer
  <2>3. ToolAdmitted' = [ToolAdmitted EXCEPT ![k] = @ \cup {[at |-> now, id |-> ToolAnswer.n + 1]}]
    BY <1>0, <1>5, <1>6 DEF ToolKeys
  <2>. QED
    BY <2>1, <2>2, <2>3, <1>0, SameCardinality DEF Contract!Admit
<1>7. CASE /\ Cardinality(Active(bucket[k], rule.window)) >= rule.max_calls
           /\ answer' = [n |-> answer.n + 1, key |-> k, allowed |-> FALSE,
                         limit |-> rule.max_calls, window |-> rule.window]
           /\ UNCHANGED admitted
  <2>1. Cardinality(Contract!Recent(k)) >= [j \in ToolKeys |-> RuleOf(j).max_calls][k]
    BY <1>3, <1>4, <1>7
  <2>2. Contract!Answer(k, FALSE)
    BY <1>3, <1>5, <1>7 DEF Contract!Answer
  <2>. QED
    BY <2>1, <2>2, <1>0, <1>7, SameCardinality DEF Contract!Refuse
<1>. QED
  BY <1>2, <1>6, <1>7 DEF Record

\* A check() on any other key is Elsewhere.
LEMMA OtherCheckRefines ==
  ASSUME Inv, NEW k \in Keys \ ToolKeys, Check(k)
  PROVE  Contract!Elsewhere
<1>1. PICK args \in CallArgs[k] : \E rule \in Resolve(k, args) : Record(k, rule)
  BY DEF Check
<1>2. PICK rule \in Resolve(k, args) : Record(k, rule)
  BY <1>1
<1>3. now' = now /\ admitted \in [Keys -> SUBSET Call]
  BY DEF Check, Inv, TypeOK
<1>4. answer'.key = k /\ answer'.n = answer.n + 1
  BY <1>2 DEF Record
<1>5. \A j \in ToolKeys : admitted'[j] = admitted[j]
  BY <1>2, <1>3 DEF Record, ToolKeys
<1>6. ToolAdmitted' = ToolAdmitted
  BY <1>5 DEF ToolAdmitted
<1>7. ToolAnswer.n = answer.n
  BY DEF ToolAnswer, NoAnswer
<1>8. ToolAnswer' = [NoAnswer EXCEPT !.n = answer.n + 1]
  BY <1>4 DEF ToolAnswer, NoAnswer
<1>. QED
  BY <1>3, <1>6, <1>7, <1>8
  DEF ToolAdmitted, ToolAnswer, NoAnswer, Contract!NoAnswer, Contract!Elsewhere

\* Every step of the limiter is a step of the contract or leaves its
\* variables alone: reset() and reset_all() are Forget, configure() is
\* invisible.
LEMMA StepRefines ==
  ASSUME Inv, WideEnough, [Next]_vars
  PROVE  [Contract!Next]_(Contract!vars)
<1>1. ASSUME NEW k \in Keys, Check(k)
      PROVE  (\E j \in ToolKeys : Contract!Admit(j) \/ Contract!Refuse(j)) \/ Contract!Elsewhere
  BY <1>1, ToolCheckRefines, OtherCheckRefines
<1>2. ASSUME NEW K \in SUBSET Keys, Forget(K)
      PROVE  \E L \in SUBSET ToolKeys : Contract!Forget(L)
  <2>1. WITNESS K \cap ToolKeys \in SUBSET ToolKeys
  <2>. QED
    BY <1>2 DEF Forget, Contract!Forget, ToolKeys
<1>3. ASSUME Tick PROVE Contract!Pass
  BY <1>3 DEF Tick, history, Contract!Pass
<1>4. ASSUME NEW p \in Prefixes, NEW rule \in Rules, Configure(p, rule)
      PROVE  UNCHANGED Contract!vars
  BY <1>4 DEF Configure, history, Contract!vars
<1>5. ASSUME UNCHANGED vars PROVE UNCHANGED Contract!vars
  BY <1>5 DEF vars, Contract!vars
<1>6. ASSUME NEW k \in Keys, Reset(k) PROVE \E L \in SUBSET ToolKeys : Contract!Forget(L)
  BY <1>2, <1>6 DEF Reset
<1>7. ASSUME ResetAll PROVE \E L \in SUBSET ToolKeys : Contract!Forget(L)
  BY <1>2, <1>7 DEF ResetAll
<1>. QED
  BY <1>1, <1>3, <1>4, <1>5, <1>6, <1>7 DEF Next, Contract!Next

\* For the keys of rate_limited_tool, whose callers always pass one limit and
\* one window, the limiter is the abstract one: it admits a call iff fewer
\* than the limit were admitted within the window, whatever else it serves.
THEOREM Refinement == Spec => ImplementsContract
<1>1. Init => Contract!Init
  BY DEF Init, Contract!Init, NoAnswer, Contract!NoAnswer, ToolKeys
<1>2. Init => WideEnough
  BY InitWideEnough
<1>3. Inv /\ WideEnough /\ [Next]_vars => WideEnough'
  BY NextWideEnough
<1>4. Inv /\ WideEnough /\ [Next]_vars => [Contract!Next]_(Contract!vars)
  BY StepRefines
<1>. QED
  BY <1>1, <1>2, <1>3, <1>4, Invariance, PTL DEF Spec, Contract!Spec, ImplementsContract
=============================================================================
