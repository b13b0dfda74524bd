--------------------------- MODULE GatewayProofs ---------------------------
(***************************************************************************)
(* Theorems about guarded tool calls, for any number of concurrent calls,  *)
(* sessions, tokens, keys and tools.                                       *)
(*                                                                         *)
(* A step moves at most one call (Moves).  The calls that a caller is      *)
(* charged with and the calls the limiter has admitted for its key are in  *)
(* a one-to-one correspondence (Numbered), so that the limiter's bound is  *)
(* that of the caller, and its refusals are justified by the caller's own  *)
(* calls.                                                                  *)
(***************************************************************************)
EXTENDS Gateway, SequenceTheorems, FiniteSetTheorems, TLAPS

Callers == Ids \cup ApiKeys \cup {Nobody}
Places == {"new", "verify", "queued", "signing", "body", "over"}
Outcomes == {"ok", "error", "forbidden", "unauthorized", "rate_limited"}
Entry == [call : Calls, outcome : Outcomes]
Span == [name : {FuncName[f] : f \in Tools}, subject : Callers, outcome : Outcomes]

\* What call c asks is well formed.
Asked(c) ==
  /\ req[c].token \in Tokens \cup {Nobody}
  /\ req[c].tool \in Tools /\ req[c].arg \in Args[req[c].tool]

TypeInv ==
  /\ pc \in [Calls -> Places]
  /\ req = [c \in Calls |-> req[c]]
  /\ ctx \in [Calls -> Calls \cup {Nobody}]
  /\ who \in [Calls -> Callers] /\ attrs = who
  /\ passed \in [Calls -> Nat \cup {-1}]
  /\ ended \in Seq(Entry)
  /\ now \in Nat

\* What is true of a call where it stands.
Standing ==
  \A c \in Calls :
    /\ pc[c] = "new" => req[c] = Nobody
    /\ pc[c] # "new" => Asked(c)
    /\ pc[c] = "signing" => Guard[req[c].tool] = "jwt"
    /\ pc[c] \in {"signing", "body"} => ctx[c] = c
    /\ passed[c] >= 0 => pc[c] \in {"body", "over"} /\ Guard[req[c].tool] = "limited"

\* What has ended is over.
Over == \A i \in DOMAIN ended : pc[ended[i].call] = "over"

\* The spans, before the oldest are dropped.
Told == [i \in DOMAIN ended |->
           [name |-> FuncName[req[ended[i].call].tool], subject |-> who[ended[i].call],
            outcome |-> ended[i].outcome]]

\* The admitted calls of a key inside the window.
Recent(k) == {m \in admitted[k] : m.at > now - Window}

LimiterInv ==
  /\ answer.n \in Nat
  /\ admitted \in [RateKeys -> SUBSET [at : Nat, id : Nat]]
  /\ \A k \in RateKeys : IsFiniteSet(admitted[k]) /\ Cardinality(Recent(k)) <= MaxCalls

\* The calls that passed the limiter, with numbers, are those it has admitted.
Numbered(id) ==
  /\ \A c \in Calls : passed[c] >= 0 =>
       [at |-> passed[c], id |-> id[c]] \in admitted[RateKey(c)] /\ id[c] <= answer.n
  /\ \A c, d \in Calls : passed[c] >= 0 /\ passed[d] >= 0 /\ id[c] = id[d] => c = d
  /\ \A k \in RateKeys : \A m \in admitted[k] : \E c \in Calls :
       passed[c] >= 0 /\ RateKey(c) = k /\ m = [at |-> passed[c], id |-> id[c]]

Counted == \E id \in [Calls -> Nat] : Numbered(id)

\* The inductive invariant.
IInv == TypeInv /\ Standing /\ Over /\ SpansTell /\ LimiterInv /\ Counted

-----------------------------------------------------------------------------
(* Steps                                                                   *)

\* Call c alone moves; it may end, and it may be let pass by the limiter.
Apart(c) ==
  \A d \in Calls \ {c} :
    /\ pc'[d] = pc[d] /\ req'[d] = req[d] /\ ctx'[d] = ctx[d]
    /\ who'[d] = who[d] /\ passed'[d] = passed[d]

Quietly == UNCHANGED <<spans, ended>>

Charges(c) ==
  /\ pc[c] = "queued" /\ Guard[req[c].tool] = "limited"
  /\ \/ Limiter!Admit(RateKey(c)) /\ passed' = [passed EXCEPT ![c] = now]
     \/ Limiter!Refuse(RateKey(c)) /\ UNCHANGED passed

Moves(c) ==
  /\ pc' \in [Calls -> Places] /\ req' = [d \in Calls |-> req'[d]]
  /\ ctx' \in [Calls -> Calls \cup {Nobody}]
  /\ who' \in [Calls -> Callers] /\ attrs' = who'
  /\ Apart(c) /\ pc[c] # "over" /\ pc'[c] # "new"
  /\ pc[c] # "new" => UNCHANGED req
  /\ Asked(c)'
  /\ pc'[c] = "signing" => Guard[req'[c].tool] = "jwt"
  /\ pc'[c] \in {"signing", "body"} => ctx'[c] = c
  /\ pc[c] = "body" => pc'[c] = "over"
  /\ Quietly \/ (pc[c] # "new" /\ \E outcome \in Outcomes : Closes(c, outcome))
  /\ UNCHANGED <<limiter, passed>> \/ (Charges(c) /\ pc'[c] \in {"body", "over"})
  /\ UNCHANGED now

\* No call moves; time may pass.
Rests ==
  /\ UNCHANGED <<limiter, pc, req, telemetry, passed>>
  /\ now' \in {now, now + 1}

\* The ways in which a wrapper goes on.
LEMMA Goes ==
  ASSUME TypeInv, Standing, NEW c \in Calls, pc[c] = "queued", NEW x \in Callers,
         \/ LetsIn(c, x)
         \/ \E outcome \in Outcomes : EndsAtOnce(c, x, outcome)
  PROVE  /\ pc' \in [Calls -> Places] /\ pc'[c] \in {"body", "over"}
         /\ ctx' \in [Calls -> Calls \cup {Nobody}]
         /\ who' \in [Calls -> Callers] /\ attrs' = who'
         /\ \A d \in Calls \ {c} : pc'[d] = pc[d] /\ ctx'[d] = ctx[d] /\ who'[d] = who[d]
         /\ pc'[c] = "body" => ctx'[c] = c
         /\ Quietly \/ (\E outcome \in Outcomes : Closes(c, outcome))
<1> USE DEF TypeInv, Places, TakenFor
<1>1. CASE LetsIn(c, x)
  BY <1>1 DEF LetsIn, Enters, Context, RunsBody, Quietly
<1>2. CASE \E outcome \in Outcomes : EndsAtOnce(c, x, outcome)
  BY <1>2 DEF EndsAtOnce, Closes
<1> QED  BY <1>1, <1>2

\* What Goes says makes a step of c.
LEMMA GoesOn ==
  ASSUME TypeInv, Standing, NEW c \in Calls, pc[c] = "queued", NEW x \in Callers,
         \/ LetsIn(c, x)
         \/ \E outcome \in Outcomes : EndsAtOnce(c, x, outcome),
         UNCHANGED <<now, req>>,
         UNCHANGED <<limiter, passed>> \/ Charges(c)
  PROVE  Moves(c)
<1>1. \A d \in Calls \ {c} : passed'[d] = passed[d]
  BY DEF Charges, limiter, TypeInv
<1>2. Asked(c)'
  BY DEF Standing, Asked
<1> QED  BY <1>1, <1>2, Goes DEF Moves, Apart, TypeInv

\* Who a token stands for.
LEMMA IdentityTypes ==
  ASSUME NEW t \in Tokens
  PROVE  Who(t) \in Ids /\ Principal(t).iss \in Issuers /\ Who(t) \in Callers
BY GatewayAssumption DEF Who, Principal, Claim, Callers

\* Who a call is taken for.
LEMMA SubjectType ==
  ASSUME NEW c \in Calls, Asked(c)
  PROVE  Subject(c) \in Callers
BY IdentityTypes DEF Subject, AccessToken, Asked, Callers

\* Every step is a step of one call, or leaves all calls alone.
LEMMA Kinds ==
  ASSUME IInv, [Next]_vars
  PROVE  Rests \/ \E c \in Calls : Moves(c)
<1> USE DEF IInv
<1>1. ASSUME NEW c \in Calls, NEW f \in Tools, NEW a \in Args[f], NEW where \in {"verify", "queued"},
             NEW s, NEW t \in Tokens \cup {Nobody}, Asks(c, where, s, t, f, a)
      PROVE  Moves(c)
  <2>1. /\ pc[c] = "new" /\ pc' = [pc EXCEPT ![c] = where]
        /\ req' = [req EXCEPT ![c] = [session |-> s, token |-> t, tool |-> f, arg |-> a]]
        /\ UNCHANGED <<now, limiter, ctx, attrs, spans, who, ended, passed>>
    BY <1>1 DEF Asks, telemetry, history
  <2>2. Asked(c)'
    BY <2>1 DEF TypeInv, Asked
  <2> QED  BY <2>1, <2>2 DEF Moves, Apart, TypeInv, Places, Quietly
<1>2. ASSUME NEW c \in Calls, Verified(c)
      PROVE  Moves(c)
  <2>1. /\ pc[c] = "verify" /\ UNCHANGED <<now, limiter, req, telemetry, passed>>
        /\ pc' \in {[pc EXCEPT ![c] = "queued"], [pc EXCEPT ![c] = "over"]}
    BY <1>2 DEF Verified
  <2>2. Asked(c)'
    BY <2>1 DEF Standing, Asked
  <2> QED  BY <2>1, <2>2 DEF Moves, Apart, TypeInv, Places, Quietly, telemetry
<1>3. ASSUME NEW c \in Calls, RateLimited(c)
      PROVE  Moves(c)
  <2>1. pc[c] = "queued" /\ Asked(c) /\ Subject(c) \in Callers
    BY <1>3, SubjectType DEF RateLimited, Standing
  <2>2. \/ LetsIn(c, Subject(c))
        \/ \E outcome \in Outcomes : EndsAtOnce(c, Subject(c), outcome)
    BY <1>3 DEF RateLimited, Outcomes
  <2>3. Charges(c) /\ UNCHANGED <<now, req>>
    BY <1>3 DEF RateLimited, Charges, Limiter!Admit, Limiter!Refuse
  <2> QED  BY <2>1, <2>2, <2>3, GoesOn
<1>4. ASSUME NEW c \in Calls, Cached(c)
      PROVE  Moves(c)
  <2>1. pc[c] = "queued" /\ Asked(c) /\ Subject(c) \in Callers /\ Nobody \in Callers
    BY <1>4, SubjectType DEF Cached, Standing, Callers
  <2>2. \E x \in {Subject(c), Nobody} :
          LetsIn(c, x) \/ \E outcome \in Outcomes : EndsAtOnce(c, x, outcome)
    BY <1>4 DEF Cached, Outcomes
  <2>3. UNCHANGED <<now, req, limiter, passed>>
    BY <1>4 DEF Cached, history
  <2> QED  BY <2>1, <2>2, <2>3, GoesOn
<1>5. ASSUME NEW c \in Calls, KeyAsked(c)
      PROVE  Moves(c)
  <2>1. pc[c] = "queued" /\ Asked(c) /\ req[c].arg \in ApiKeys
    BY <1>5, GatewayAssumption DEF KeyAsked, Standing, Asked
  <2>2. \E x \in {req[c].arg, Nobody} :
          LetsIn(c, x) \/ \E outcome \in Outcomes : EndsAtOnce(c, x, outcome)
    BY <1>5 DEF KeyAsked, Outcomes
  <2>3. UNCHANGED <<now, req, limiter, passed>>
    BY <1>5 DEF KeyAsked, history
  <2>4. req[c].arg \in Callers /\ Nobody \in Callers
    BY <2>1 DEF Callers
  <2> QED  BY <2>1, <2>2, <2>3, <2>4, GoesOn
<1>6. ASSUME NEW c \in Calls, TokenAsked(c)
      PROVE  Moves(c)
  <2>1. Asked(c)'
    BY <1>6 DEF TokenAsked, Standing, Asked
  <2> QED  BY <1>6, <2>1 DEF TokenAsked, history, Enters, Context, Moves, Apart, TypeInv, Places, Quietly
<1>7. ASSUME NEW c \in Calls, TokenChecked(c)
      PROVE  Moves(c)
  <2>1. /\ pc[c] = "signing" /\ Asked(c) /\ ctx[c] = c /\ UNCHANGED <<now, limiter, req, passed>>
    BY <1>7 DEF TokenChecked, history, Standing
  <2>2. req[c].arg \in Tokens
    BY <2>1, GatewayAssumption DEF Standing, Asked
  <2>3. \E x \in {Nobody, Who(req[c].arg)} : Annotates(c, x)
    BY <1>7 DEF TokenChecked
  <2>4. who' \in [Calls -> Callers] /\ attrs' = who' /\ \A d \in Calls \ {c} : who'[d] = who[d]
    BY <2>1, <2>2, <2>3, GatewayAssumption, IdentityTypes DEF Annotates, Context, TypeInv, Callers
  <2>5. \/ RunsBody(c) /\ UNCHANGED ctx
        \/ (\E outcome \in Outcomes : Closes(c, outcome)) /\ Exits(c)
    BY <1>7 DEF TokenChecked, Outcomes
  <2>6. Asked(c)'
    BY <2>1 DEF Asked
  <2>7. /\ pc' \in [Calls -> Places] /\ pc'[c] \in {"body", "over"}
        /\ \A d \in Calls \ {c} : pc'[d] = pc[d] /\ ctx'[d] = ctx[d]
        /\ ctx' \in [Calls -> Calls \cup {Nobody}]
        /\ pc'[c] = "body" => ctx'[c] = c
        /\ Quietly \/ \E outcome \in Outcomes : Closes(c, outcome)
    BY <2>1, <2>5 DEF RunsBody, Closes, Exits, Context, TypeInv, Places, Quietly
  <2> QED  BY <2>1, <2>4, <2>6, <2>7 DEF Moves, Apart, TypeInv
<1>8. ASSUME NEW c \in Calls, NEW outcome \in Outcomes, Ends(c, outcome)
      PROVE  Moves(c)
  <2>1. pc[c] = "body" /\ Asked(c) /\ Closes(c, outcome) /\ Exits(c)
        /\ UNCHANGED <<now, limiter, req, attrs, who, passed>>
    BY <1>8 DEF Ends, history, Standing
  <2>2. Asked(c)'
    BY <2>1 DEF Asked
  <2> QED  BY <2>1, <2>2 DEF Closes, Exits, Context, Moves, Apart, TypeInv, Places
<1>9. ASSUME NEW c \in Calls, Leaves(c)
      PROVE  Moves(c)
  <2>1. pc[c] \in {"verify", "queued", "signing"} /\ Asked(c)
        /\ UNCHANGED <<now, limiter, req, attrs, who, passed>>
    BY <1>9 DEF Leaves, history, Standing
  <2>2. Asked(c)'
    BY <2>1 DEF Asked
  <2>3. CASE pc' = [pc EXCEPT ![c] = "over"] /\ UNCHANGED <<ctx, spans, ended>>
    BY <2>1, <2>2, <2>3 DEF Moves, Apart, TypeInv, Places, Quietly
  <2>4. CASE Closes(c, "error") /\ Exits(c)
    BY <2>1, <2>2, <2>4 DEF Outcomes, Closes, Exits, Context, Moves, Apart, TypeInv, Places
  <2> QED  BY <1>9, <2>3, <2>4 DEF Leaves
<1>10. ASSUME NEW s \in Sessions, NEW t \in Tokens, Initialize(s, t)
       PROVE  Rests
  BY <1>10 DEF Initialize, history, Rests
<1>11. ASSUME NEW k \in ApiKeys, Revoke(k) \/ \E S \in SUBSET Scopes : Register(k, S)
       PROVE  Rests
  BY <1>11 DEF Revoke, Register, history, Rests
<1>12. CASE Tick
  BY <1>12 DEF Tick, Limiter!Pass, Rests, limiter, history
<1>13. CASE UNCHANGED vars
  BY <1>13 DEF vars, history, Rests
<1> QED
  <2>1. ASSUME NEW c \in Calls, NEW f \in Tools, NEW a \in Args[f],
               \/ CallLocally(c, f, a)
               \/ \E s \in Sessions, t \in Tokens : Send(c, s, t, f, a)
        PROVE  Moves(c)
    <3>1. CASE CallLocally(c, f, a)
      BY <1>1, <3>1 DEF CallLocally
    <3>2. CASE \E s \in Sessions, t \in Tokens : Send(c, s, t, f, a)
      BY <1>1, <3>2 DEF Send
    <3> QED  BY <2>1, <3>1, <3>2
  <2>2. ASSUME NEW c \in Calls, \E outcome \in {"ok", "error"} : Ends(c, outcome)
        PROVE  Moves(c)
    BY <1>8, <2>2 DEF Outcomes
  <2>3. ASSUME Next
        PROVE  \/ \E s \in Sessions, t \in Tokens : Initialize(s, t)
               \/ \E c \in Calls : Moves(c)
               \/ \E k \in ApiKeys : Revoke(k) \/ \E S \in SUBSET Scopes : Register(k, S)
               \/ Tick
    BY <1>2, <1>3, <1>4, <1>5, <1>6, <1>7, <1>9, <2>1, <2>2, <2>3 DEF Next
  <2> QED  BY <1>10, <1>11, <1>12, <1>13, <2>3

-----------------------------------------------------------------------------
(* The invariant                                                           *)

\* A step of a call keeps the types, where calls stand, and what is over.
LEMMA TypesKept ==
  ASSUME TypeInv, Standing, Over, NEW c \in Calls, Moves(c)
  PROVE  TypeInv' /\ Standing' /\ Over'
<1>1. passed' \in [Calls -> Nat \cup {-1}]
  BY DEF Moves, Charges, TypeInv
<1>2. ended' \in Seq(Entry)
  <2>1. CASE Quietly
    BY <2>1 DEF Quietly, TypeInv
  <2>2. ASSUME NEW outcome \in Outcomes, Closes(c, outcome)
        PROVE  ended' \in Seq(Entry)
    BY <2>2, AppendProperties DEF Closes, TypeInv, Entry
  <2> QED  BY <2>1, <2>2 DEF Moves
<1>3. now' \in Nat
  BY DEF Moves, TypeInv
<1>4. TypeInv'
  BY <1>1, <1>2, <1>3 DEF Moves, TypeInv
<1>5. ASSUME NEW d \in Calls
      PROVE  /\ pc'[d] = "new" => req'[d] = Nobody
             /\ pc'[d] # "new" => Asked(d)'
             /\ pc'[d] = "signing" => Guard[req'[d].tool] = "jwt"
             /\ pc'[d] \in {"signing", "body"} => ctx'[d] = d
             /\ passed'[d] >= 0 => pc'[d] \in {"body", "over"} /\ Guard[req'[d].tool] = "limited"
  <2>1. CASE d # c
    BY <2>1 DEF Moves, Apart, Standing, Asked
  <2>2. CASE d = c
    <3>1. passed'[c] >= 0 => pc'[c] \in {"body", "over"} /\ Guard[req'[c].tool] = "limited"
      <4>1. CASE UNCHANGED passed
        BY <4>1 DEF Moves, Standing
      <4>2. CASE Charges(c) /\ pc'[c] \in {"body", "over"}
        BY <4>2 DEF Moves, Charges
      <4> QED  BY <4>1, <4>2 DEF Moves
    <3> QED  BY <2>2, <3>1 DEF Moves
  <2> QED  BY <2>1, <2>2
<1>6. Standing'
  BY <1>5 DEF Standing
<1>7. ASSUME NEW i \in DOMAIN ended'
      PROVE  pc'[ended'[i].call] = "over"
  <2>1. ASSUME NEW j \in DOMAIN ended
        PROVE  ended[j].call \in Calls /\ pc'[ended[j].call] = "over"
    <3>1. ended[j].call \in Calls
      <4>1. ended \in Seq(Entry) /\ DOMAIN ended = 1..Len(ended)
        BY LenProperties DEF TypeInv
      <4>2. ended[j] \in Entry
        BY <4>1, ElementOfSeq
      <4> QED  BY <4>2 DEF Entry
    <3> QED  BY <3>1 DEF Over, Moves, Apart
  <2>2. CASE Quietly
    BY <2>1, <2>2 DEF Quietly
  <2>3. ASSUME NEW outcome \in Outcomes, Closes(c, outcome)
        PROVE  pc'[ended'[i].call] = "over"
    <3> DEFINE e == [call |-> c, outcome |-> outcome]
    <3>1. ended' = Append(ended, e) /\ e \in Entry /\ pc'[c] = "over"
      BY <2>3 DEF Closes, Entry, TypeInv
    <3>2. /\ Len(ended') = Len(ended) + 1 /\ DOMAIN ended' = 1..Len(ended')
          /\ DOMAIN ended = 1..Len(ended) /\ Len(ended) \in Nat
          /\ \A j \in 1..Len(ended) : ended'[j] = ended[j]
          /\ ended'[Len(ended) + 1] = e
      BY <3>1, <1>2, AppendProperties, LenProperties DEF TypeInv
    <3>3. CASE i = Len(ended) + 1
      BY <3>1, <3>2, <3>3
    <3>4. CASE i # Len(ended) + 1
      <4>1. i \in DOMAIN ended /\ ended'[i] = ended[i]
        BY <3>2, <3>4
      <4> QED  BY <4>1, <2>1
    <3> QED  BY <3>3, <3>4
  <2> QED  BY <2>2, <2>3 DEF Moves
<1>8. Over'
  BY <1>7 DEF Over
<1> QED  BY <1>4, <1>6, <1>8

\* What is dropped before an append would be dropped after it.
LEMMA DropEarly ==
  ASSUME NEW S, NEW s \in Seq(S), NEW x \in S, NEW n \in Nat \ {0}
  PROVE  LastOf(Append(LastOf(s, n), x), n) = LastOf(Append(s, x), n)
<1> DEFINE d == Len(s) - n
           l == SubSeq(s, d + 1, Len(s))
           a == Append(s, x)
           b == Append(l, x)
<1>1. CASE Len(s) <= n
  BY <1>1, LenProperties DEF LastOf
<1>2. CASE Len(s) > n
  <2>0. Len(s) \in Nat /\ d \in Nat \ {0} /\ \A i \in 1..Len(s) : s[i] \in S
    BY <1>2, LenProperties, ElementOfSeq
  <2>1. l \in Seq(S) /\ Len(l) = n /\ \A i \in 1..n : l[i] = s[d + i]
    <3>1. \A i \in (d + 1)..Len(s) : s[i] \in S
      BY <2>0
    <3> HIDE DEF d
    <3>2. /\ l \in Seq(S)
          /\ Len(l) = IF d + 1 <= Len(s) THEN Len(s) - (d + 1) + 1 ELSE 0
          /\ \A i \in 1..(Len(s) - (d + 1) + 1) : l[i] = s[d + 1 + i - 1]
      BY <3>1, <2>0, SubSeqProperties
    <3>3. n = Len(s) - d
      BY <2>0 DEF d
    <3> QED  BY <3>2, <3>3, <2>0
  <2>2. LastOf(s, n) = l
    BY <1>2 DEF LastOf
  <2> HIDE DEF l
  <2>3. /\ a \in Seq(S) /\ Len(a) = Len(s) + 1
        /\ \A i \in 1..Len(s) : a[i] = s[i]
        /\ a[Len(s) + 1] = x
    BY AppendProperties
  <2>4. /\ b \in Seq(S) /\ Len(b) = n + 1
        /\ \A i \in 1..n : b[i] = l[i]
        /\ b[n + 1] = x
    BY <2>1, AppendProperties
  <2> HIDE DEF a, b
  <2> DEFINE u == SubSeq(b, 2, n + 1)
             v == SubSeq(a, d + 2, Len(s) + 1)
  <2>5. LastOf(b, n) = u
    BY <2>4 DEF LastOf
  <2>6. LastOf(a, n) = v
    BY <2>3, <2>0, <1>2 DEF LastOf
  <2>7. u \in Seq(S) /\ Len(u) = n /\ \A i \in 1..n : u[i] = b[i + 1]
    <3>1. \A i \in 2..(n + 1) : b[i] \in S
      BY <2>4, ElementOfSeq
    <3>2. /\ u \in Seq(S)
          /\ Len(u) = IF 2 <= n + 1 THEN n + 1 - 2 + 1 ELSE 0
          /\ \A i \in 1..(n + 1 - 2 + 1) : u[i] = b[2 + i - 1]
      BY <3>1, SubSeqProperties
    <3> QED  BY <3>2
  <2>8. v \in Seq(S) /\ Len(v) = n /\ \A i \in 1..n : v[i] = a[d + i + 1]
    <3>1. \A i \in (d + 2)..(Len(s) + 1) : a[i] \in S
      BY <2>0, <2>3, ElementOfSeq
    <3>2. n = Len(s) - d
      BY <2>0
    <3> HIDE DEF d
    <3>3. /\ v \in Seq(S)
          /\ Len(v) = IF d + 2 <= Len(s) + 1 THEN Len(s) + 1 - (d + 2) + 1 ELSE 0
          /\ \A i \in 1..(Len(s) + 1 - (d + 2) + 1) : v[i] = a[d + 2 + i - 1]
      BY <3>1, <2>0, SubSeqProperties
    <3> QED  BY <3>2, <3>3, <2>0
  <2>9. ASSUME NEW i \in 1..n
        PROVE  u[i] = v[i]
    <3>1. u[i] = b[i + 1] /\ v[i] = a[d + i + 1]
      BY <2>7, <2>8
    <3>2. CASE i = n
      BY <3>1, <3>2, <2>3, <2>4, <2>0
    <3>3. CASE i # n
      <4>1. i + 1 \in 1..n /\ d + i + 1 \in 1..Len(s)
        BY <3>3, <2>0
      <4>2. b[i + 1] = s[d + (i + 1)] /\ a[d + i + 1] = s[d + i + 1]
        BY <4>1, <2>1, <2>3, <2>4
      <4>3. d + (i + 1) = d + i + 1
        BY <2>0
      <4> QED  BY <3>1, <4>2, <4>3
    <3> QED  BY <3>2, <3>3
  <2> HIDE DEF u, v
  <2>10. u = v
    BY <2>7, <2>8, <2>9, SeqEqual
  <2> QED  BY <2>2, <2>5, <2>6, <2>10 DEF a, b
<1>3. Len(s) \in Nat
  BY LenProperties
<1> QED  BY <1>1, <1>2, <1>3

\* The spans told so far are a sequence, one for each call that ended.
LEMMA ToldType ==
  ASSUME TypeInv, Standing, Over
  PROVE  /\ Told \in Seq(Span) /\ Len(Told) = Len(ended) /\ Len(ended) \in Nat
         /\ DOMAIN ended = 1..Len(ended)
         /\ \A i \in 1..Len(ended) : ended[i] \in Entry /\ ended[i].call \in Calls
<1>1. /\ ended \in Seq(Entry) /\ Len(ended) \in Nat /\ DOMAIN ended = 1..Len(ended)
  BY LenProperties DEF TypeInv
<1>2. \A i \in 1..Len(ended) : ended[i] \in Entry /\ ended[i].call \in Calls
  <2>1. \A i \in 1..Len(ended) : ended[i] \in Entry
    BY <1>1, ElementOfSeq
  <2> QED  BY <2>1 DEF Entry
<1>3. ASSUME NEW i \in 1..Len(ended)
      PROVE  [name |-> FuncName[req[ended[i].call].tool], subject |-> who[ended[i].call],
              outcome |-> ended[i].outcome] \in Span
  <2>1. ended[i] \in Entry /\ ended[i].call \in Calls /\ pc[ended[i].call] = "over"
    BY <1>1, <1>2 DEF Over
  <2>2. Asked(ended[i].call)
    BY <2>1 DEF Standing
  <2> QED  BY <2>1, <2>2 DEF Span, Asked, TypeInv, Entry
<1>4. Told \in [1..Len(ended) -> Span]
  BY <1>1, <1>3 DEF Told
<1>5. Told \in Seq(Span)
  BY <1>1, <1>4
<1>6. Len(Told) = Len(ended)
  BY <1>1, <1>4, <1>5, LenProperties
<1> QED  BY <1>1, <1>2, <1>5, <1>6

\* A call that ends adds its own span.
LEMMA SpansKept ==
  ASSUME TypeInv, Standing, Over, SpansTell, NEW c \in Calls, Moves(c)
  PROVE  SpansTell'
<1>1. TypeInv' /\ Standing' /\ Over'
  BY TypesKept
<1>2. spans = LastOf(Told, MaxSpans)
  BY DEF SpansTell, Told
<1>3. SUFFICES spans' = LastOf(Told', MaxSpans)
  BY DEF SpansTell, Told
<1>4. ASSUME NEW i \in 1..Len(ended)
      PROVE  /\ ended[i].call \in Calls
             /\ req'[ended[i].call] = req[ended[i].call] /\ who'[ended[i].call] = who[ended[i].call]
  BY ToldType DEF Over, Moves, Apart
<1>5. CASE Quietly
  <2>1. Told' = Told
    BY <1>4, <1>5, ToldType DEF Told, Quietly
  <2> QED  BY <1>2, <1>5, <2>1 DEF Quietly
<1>6. ASSUME pc[c] # "new", NEW outcome \in Outcomes, Closes(c, outcome)
      PROVE  spans' = LastOf(Told', MaxSpans)
  <2> DEFINE e == [call |-> c, outcome |-> outcome]
             x == [name |-> FuncName[req[c].tool], subject |-> attrs'[c], outcome |-> outcome]
  <2>1. /\ ended' = Append(ended, e) /\ spans' = LastOf(Append(spans, x), MaxSpans)
        /\ e \in Entry /\ UNCHANGED req
    BY <1>6 DEF Closes, Entry, Moves
  <2>2. /\ Len(ended') = Len(ended) + 1
        /\ \A i \in 1..Len(ended) : ended'[i] = ended[i]
        /\ ended'[Len(ended) + 1] = e
    BY <2>1, AppendProperties DEF TypeInv
  <2>3. x \in Span
    BY <1>1, <1>6, <2>1 DEF Span, TypeInv, Standing, Asked
  <2>4. DOMAIN ended' = 1..(Len(ended) + 1)
    BY <1>1, <2>2, LenProperties DEF TypeInv
  <2>5. /\ Append(Told, x) \in Seq(Span) /\ Len(Append(Told, x)) = Len(ended) + 1
        /\ \A i \in 1..Len(ended) : Append(Told, x)[i] = Told[i]
        /\ Append(Told, x)[Len(ended) + 1] = x
    BY <2>3, ToldType, AppendProperties
  <2>6. ASSUME NEW i \in 1..(Len(ended) + 1)
        PROVE  Told'[i] = Append(Told, x)[i]
    <3>1. Told'[i] = [name |-> FuncName[req'[ended'[i].call].tool], subject |-> who'[ended'[i].call],
                      outcome |-> ended'[i].outcome]
      BY <2>4 DEF Told
    <3>2. CASE i = Len(ended) + 1
      BY <1>1, <2>1, <2>2, <2>5, <3>1, <3>2 DEF TypeInv
    <3>3. CASE i # Len(ended) + 1
      <4>1. i \in 1..Len(ended)
        BY <3>3, ToldType
      <4>2. Told[i] = [name |-> FuncName[req[ended[i].call].tool], subject |-> who[ended[i].call],
                       outcome |-> ended[i].outcome]
        BY <4>1, ToldType DEF Told
      <4> QED  BY <1>4, <2>2, <2>5, <3>1, <4>1, <4>2
    <3> QED  BY <3>2, <3>3
  <2>7. Told' = Append(Told, x)
    <3>1. Append(Told, x) \in [1..(Len(ended) + 1) -> Span]
      BY <2>5, LenProperties
    <3>2. DOMAIN Told' = 1..(Len(ended) + 1) /\ Told' = [i \in DOMAIN Told' |-> Told'[i]]
      BY <2>4 DEF Told
    <3> HIDE DEF x
    <3> QED  BY <2>6, <3>1, <3>2
  <2> QED  BY <1>2, <2>1, <2>3, <2>7, ToldType, DropEarly, GatewayAssumption
<1> QED  BY <1>5, <1>6 DEF Moves

\* A limited call is charged to a key the limiter serves.
LEMMA KeyIsLimited ==
  ASSUME NEW c \in Calls, Asked(c), Guard[req[c].tool] = "limited"
  PROVE  RateKey(c) \in RateKeys
<1>1. req[c].tool \in LimitedTools /\ req[c].arg \in Ids \cup {Nobody}
  BY GatewayAssumption DEF Asked, LimitedTools
<1> QED  BY <1>1 DEF RateKey, RateKeys, AccessToken, Asked

\* The contract counts as this module does.
LEMMA SameCardinality ==
  ASSUME NEW S
  PROVE  Limiter!Cardinality(S) = Cardinality(S)
BY DEF Limiter!Cardinality, Cardinality, Limiter!IsFiniteSet, IsFiniteSet

\* One element more makes a set larger by one at most.
LEMMA OneMore ==
  ASSUME NEW S, NEW x, IsFiniteSet(S)
  PROVE  /\ IsFiniteSet(S \cup {x}) /\ Cardinality(S \cup {x}) \in Nat
         /\ Cardinality(S \cup {x}) <= Cardinality(S) + 1
<1>1. Cardinality(S) \in Nat
  BY FS_CardinalityType
<1>2. IsFiniteSet(S \cup {x}) /\ Cardinality(S \cup {x}) \in {Cardinality(S), Cardinality(S) + 1}
  BY FS_AddElement
<1> QED  BY <1>1, <1>2

\* What the limiter does, with the bounds of the tools.
LEMMA LimiterSteps ==
  ASSUME NEW k \in RateKeys
  PROVE  /\ Limiter!Admit(k) =>
              /\ Cardinality(Recent(k)) < MaxCalls
              /\ admitted' = [admitted EXCEPT ![k] = @ \cup {[at |-> now, id |-> answer.n + 1]}]
              /\ answer'.n = answer.n + 1 /\ now' = now
         /\ Limiter!Refuse(k) =>
              /\ Cardinality(Recent(k)) >= MaxCalls
              /\ UNCHANGED <<now, admitted>> /\ answer'.n = answer.n + 1
<1> DEFINE limit == [j \in RateKeys |-> MaxCalls]
           window == [j \in RateKeys |-> Window]
<1>1. limit[k] = MaxCalls /\ window[k] = Window
  OBVIOUS
<1>2. Limiter!Recent(k) = Recent(k)
  BY <1>1 DEF Limiter!Recent, Recent
<1>3. ASSUME Limiter!Admit(k)
      PROVE  /\ Cardinality(Recent(k)) < MaxCalls
             /\ admitted' = [admitted EXCEPT ![k] = @ \cup {[at |-> now, id |-> answer.n + 1]}]
             /\ answer'.n = answer.n + 1 /\ now' = now
  BY <1>1, <1>2, <1>3, SameCardinality DEF Limiter!Admit, Limiter!Answer
<1>4. ASSUME Limiter!Refuse(k)
      PROVE  /\ Cardinality(Recent(k)) >= MaxCalls
             /\ UNCHANGED <<now, admitted>> /\ answer'.n = answer.n + 1
  BY <1>1, <1>2, <1>4, SameCardinality DEF Limiter!Refuse, Limiter!Answer
<1> QED  BY <1>3, <1>4

\* The limiter keeps its bound.
LEMMA LimiterKept ==
  ASSUME IInv, (\E c \in Calls : Moves(c)) \/ Rests
  PROVE  LimiterInv'
<1> USE DEF IInv
<1>1. CASE UNCHANGED limiter /\ now' \in {now, now + 1}
  <2>1. ASSUME NEW k \in RateKeys
        PROVE  IsFiniteSet(admitted'[k]) /\ Cardinality(Recent(k)') <= MaxCalls
    <3>1. Recent(k)' \subseteq Recent(k)
      BY <1>1, GatewayAssumption DEF Recent, limiter, LimiterInv, TypeInv
    <3>2. IsFiniteSet(Recent(k)) /\ Cardinality(Recent(k)) \in Nat
      BY FS_Subset, FS_CardinalityType DEF LimiterInv, Recent
    <3>3. Cardinality(Recent(k)') \in Nat /\ Cardinality(Recent(k)') <= Cardinality(Recent(k))
      BY <3>1, <3>2, FS_Subset, FS_CardinalityType
    <3> QED  BY <1>1, <3>2, <3>3, GatewayAssumption DEF limiter, LimiterInv
  <2> QED  BY <1>1, <2>1 DEF limiter, LimiterInv
<1>2. ASSUME NEW c \in Calls, Charges(c), UNCHANGED now
      PROVE  LimiterInv'
  <2>1. RateKey(c) \in RateKeys
    BY <1>2, KeyIsLimited DEF Charges, Standing
  <2> DEFINE r == RateKey(c)
             m == [at |-> now, id |-> answer.n + 1]
  <2> HIDE DEF r
  <2>2. r \in RateKeys /\ m \in [at : Nat, id : Nat]
    BY <2>1 DEF r, LimiterInv, TypeInv
  <2>3. CASE Limiter!Refuse(r)
    <3>1. UNCHANGED <<now, admitted>> /\ answer'.n = answer.n + 1
      BY <2>2, <2>3, LimiterSteps
    <3>2. \A k : Recent(k)' = Recent(k)
      BY <3>1 DEF Recent
    <3> QED  BY <3>1, <3>2 DEF LimiterInv
  <2>4. CASE Limiter!Admit(r)
    <3>1. /\ Cardinality(Recent(r)) < MaxCalls
          /\ admitted' = [admitted EXCEPT ![r] = @ \cup {m}]
          /\ answer'.n = answer.n + 1 /\ now' = now
      BY <2>2, <2>4, LimiterSteps
    <3> HIDE DEF m
    <3>2. admitted' \in [RateKeys -> SUBSET [at : Nat, id : Nat]]
      BY <2>2, <3>1 DEF LimiterInv
    <3>3. ASSUME NEW k \in RateKeys
          PROVE  IsFiniteSet(admitted'[k]) /\ Cardinality(Recent(k)') <= MaxCalls
      <4>1. IsFiniteSet(Recent(k)) /\ Cardinality(Recent(k)) \in Nat
        BY FS_Subset, FS_CardinalityType DEF LimiterInv, Recent
      <4>2. CASE k # r
        BY <3>1, <4>2 DEF LimiterInv, Recent
      <4>3. CASE k = r
        <5>1. admitted'[k] = admitted[k] \cup {m}
          BY <2>2, <3>1, <4>3 DEF LimiterInv
        <5>2. Recent(k)' \subseteq Recent(k) \cup {m}
          BY <3>1, <5>1 DEF Recent
        <5>3. /\ IsFiniteSet(Recent(k) \cup {m})
              /\ Cardinality(Recent(k) \cup {m}) <= Cardinality(Recent(k)) + 1
          BY <4>1, OneMore
        <5>4. Cardinality(Recent(k)') <= Cardinality(Recent(k) \cup {m})
          BY <5>2, <5>3, FS_Subset
        <5>5. Cardinality(Recent(k)') \in Nat /\ Cardinality(Recent(k) \cup {m}) \in Nat
          BY <5>2, <5>3, FS_Subset, FS_CardinalityType
        <5>6. IsFiniteSet(admitted'[k])
          BY <5>1, OneMore DEF LimiterInv
        <5> QED  BY <3>1, <4>1, <4>3, <5>3, <5>4, <5>5, <5>6, GatewayAssumption
      <4> QED  BY <4>2, <4>3
    <3>4. answer'.n \in Nat
      BY <3>1 DEF LimiterInv
    <3> QED  BY <3>2, <3>3, <3>4 DEF LimiterInv
  <2> QED  BY <1>2, <2>3, <2>4 DEF Charges, r
<1> QED  BY <1>1, <1>2 DEF Moves, Rests

\* With a new number for the call it admits.
LEMMA CountedKept ==
  ASSUME IInv, (\E c \in Calls : Moves(c)) \/ Rests
  PROVE  Counted'
<1> USE DEF IInv
<1>0. PICK id \in [Calls -> Nat] : Numbered(id)
  BY DEF Counted
<1>1. ASSUME NEW d \in Calls, passed[d] >= 0
      PROVE  pc[d] \in {"body", "over"} /\ Asked(d) /\ RateKey(d) \in RateKeys
  <2>1. pc[d] \in {"body", "over"} /\ Guard[req[d].tool] = "limited" /\ Asked(d)
    BY <1>1 DEF Standing
  <2> QED  BY <2>1, KeyIsLimited
<1>2. CASE Rests
  BY <1>0, <1>2 DEF Counted, Numbered, Rests, limiter, RateKey, AccessToken
<1>3. ASSUME NEW c \in Calls, Moves(c)
      PROVE  Counted'
  <2>1. ASSUME NEW d \in Calls, passed[d] >= 0
        PROVE  RateKey(d)' = RateKey(d) /\ (d # c => passed'[d] = passed[d])
    BY <1>1, <1>3, <2>1 DEF Moves, Apart, RateKey, AccessToken
  <2>2. CASE UNCHANGED <<limiter, passed>>
    <3>1. Numbered(id)'
      BY <1>0, <2>1, <2>2 DEF Numbered, limiter
    <3> QED  BY <3>1 DEF Counted
  <2>3. CASE Charges(c)
    <3> DEFINE r == RateKey(c)
               m == [at |-> now, id |-> answer.n + 1]
    <3>1. pc[c] = "queued" /\ UNCHANGED <<now, req>> /\ r \in RateKeys /\ ~(passed[c] >= 0)
      BY <1>3, <2>3, KeyIsLimited DEF Charges, Standing, Moves
    <3>2. RateKey(c)' = r
      BY <3>1 DEF RateKey, AccessToken
    <3> HIDE DEF r
    <3>3. CASE Limiter!Refuse(r) /\ UNCHANGED passed
      <4>1. UNCHANGED admitted /\ answer'.n = answer.n + 1 /\ answer.n \in Nat
        BY <3>1, <3>3, LimiterSteps DEF LimiterInv
      <4>2. Numbered(id)'
        BY <1>0, <2>1, <3>3, <4>1 DEF Numbered
      <4> QED  BY <4>2 DEF Counted
    <3>4. CASE Limiter!Admit(r) /\ passed' = [passed EXCEPT ![c] = now]
      <4>1. /\ admitted' = [admitted EXCEPT ![r] = @ \cup {m}]
            /\ answer'.n = answer.n + 1 /\ answer.n \in Nat /\ now \in Nat
        BY <3>1, <3>4, LimiterSteps DEF LimiterInv, TypeInv
      <4>2. PICK new \in [Calls -> Nat] :
              new[c] = answer.n + 1 /\ \A d \in Calls \ {c} : new[d] = id[d]
        <5>1. [id EXCEPT ![c] = answer.n + 1] \in [Calls -> Nat]
          BY <4>1
        <5> QED  BY <5>1
      <4>3. passed'[c] = now /\ \A d \in Calls \ {c} : passed'[d] = passed[d]
        BY <3>4 DEF TypeInv
      <4>4. /\ \A k \in RateKeys : admitted[k] \subseteq admitted'[k]
            /\ \A k \in RateKeys \ {r} : admitted'[k] = admitted[k]
            /\ admitted'[r] = admitted[r] \cup {m}
        BY <3>1, <4>1 DEF LimiterInv
      <4>5. ASSUME NEW d \in Calls, passed'[d] >= 0
            PROVE  [at |-> passed'[d], id |-> new[d]] \in admitted'[RateKey(d)'] /\ new[d] <= answer'.n
        <5>1. CASE d = c
          BY <3>2, <4>1, <4>2, <4>3, <4>4, <5>1
        <5>2. CASE d # c
          <6>1. /\ passed[d] >= 0 /\ passed'[d] = passed[d] /\ new[d] = id[d]
                /\ RateKey(d)' = RateKey(d) /\ RateKey(d) \in RateKeys
            BY <1>1, <2>1, <4>2, <4>3, <4>5, <5>2
          <6>2. [at |-> passed[d], id |-> id[d]] \in admitted[RateKey(d)] /\ id[d] <= answer.n
            BY <1>0, <6>1 DEF Numbered
          <6> QED  BY <4>1, <4>4, <6>1, <6>2
        <5> QED  BY <5>1, <5>2
      <4>6. ASSUME NEW d \in Calls, NEW e \in Calls,
                   passed'[d] >= 0, passed'[e] >= 0, new[d] = new[e]
            PROVE  d = e
        <5>1. \A f \in Calls \ {c} : passed'[f] >= 0 => new[f] = id[f] /\ id[f] <= answer.n
          BY <1>0, <4>2, <4>3 DEF Numbered
        <5>2. CASE d # c /\ e # c
          BY <1>0, <4>3, <4>6, <5>1, <5>2 DEF Numbered
        <5>3. CASE d = c \/ e = c
          BY <4>1, <4>2, <4>6, <5>1, <5>3
        <5> QED  BY <5>2, <5>3
      <4>7. ASSUME NEW k \in RateKeys, NEW x \in admitted'[k]
            PROVE  \E d \in Calls :
                     passed'[d] >= 0 /\ RateKey(d)' = k /\ x = [at |-> passed'[d], id |-> new[d]]
        <5>1. CASE x \in admitted[k]
          <6>1. PICK d \in Calls :
                  passed[d] >= 0 /\ RateKey(d) = k /\ x = [at |-> passed[d], id |-> id[d]]
            BY <1>0, <5>1 DEF Numbered
          <6>2. d # c
            BY <3>1, <6>1
          <6> QED  BY <2>1, <4>2, <4>3, <6>1, <6>2
        <5>2. CASE x = m /\ k = r
          BY <3>2, <4>1, <4>2, <4>3, <5>2
        <5> QED  BY <4>4, <5>1, <5>2
      <4>8. Numbered(new)'
        BY <4>2, <4>5, <4>6, <4>7 DEF Numbered
      <4> QED  BY <4>2, <4>8 DEF Counted
    <3> QED  BY <2>3, <3>3, <3>4 DEF Charges, r
  <2> QED  BY <1>3, <2>2, <2>3 DEF Moves
<1> QED  BY <1>2, <1>3

\* The invariant holds in the beginning ...
LEMMA Initial ==
  ASSUME Init
  PROVE  IInv
<1>1. TypeInv /\ Standing /\ Over
  BY DEF Init, TypeInv, Standing, Over, Places, Callers
<1>2. SpansTell
  BY GatewayAssumption DEF Init, SpansTell, LastOf
<1>3. LimiterInv
  BY FS_EmptySet, GatewayAssumption DEF Init, LimiterInv, Limiter!NoAnswer, Recent
<1>4. Counted
  <2>1. PICK id \in [Calls -> Nat] : \A c \in Calls : id[c] = 0
    <3>1. [c \in Calls |-> 0] \in [Calls -> Nat]
      OBVIOUS
    <3> QED  BY <3>1
  <2>2. Numbered(id)
    BY DEF Init, Numbered
  <2> QED  BY <2>2 DEF Counted
<1> QED  BY <1>1, <1>2, <1>3, <1>4 DEF IInv

\* ... and every step keeps it.
LEMMA Inductive ==
  ASSUME IInv, [Next]_vars
  PROVE  IInv'
<1>1. CASE Rests
  <2>1. TypeInv' /\ Standing' /\ Over'
    BY <1>1 DEF IInv, Rests, telemetry, TypeInv, Standing, Over, Asked
  <2>2. SpansTell'
    BY <1>1 DEF IInv, Rests, telemetry, SpansTell
  <2> QED  BY <1>1, <2>1, <2>2, LimiterKept, CountedKept DEF IInv
<1>2. ASSUME NEW c \in Calls, Moves(c)
      PROVE  IInv'
  BY <1>2, TypesKept, SpansKept, LimiterKept, CountedKept DEF IInv
<1> QED  BY <1>1, <1>2, Kinds

\* The inductive invariant holds in every reachable state.
THEOREM Invariance == Spec => []IInv
<1>1. Init => IInv
  BY Initial
<1>2. IInv /\ [Next]_vars => IInv'
  BY Inductive
<1> QED  BY <1>1, <1>2, PTL DEF Spec

-----------------------------------------------------------------------------
(* Budgets                                                                 *)

\* Two calls are charged to one key when they are of one caller and of tools
\* with one function name, and only then.
LEMMA KeyIsCaller ==
  ASSUME NEW c \in Calls, NEW d \in Calls, Asked(c), Asked(d)
  PROVE  RateKey(c) = RateKey(d) <=> SameCaller(c, d)
<1>1. \A t \in Tokens : Principal(t).kind \in {"sub", "client"} /\ t # Nobody
  BY GatewayAssumption DEF Principal
<1>2. CASE req[c].token = Nobody \/ req[d].token = Nobody
  BY <1>1, <1>2 DEF RateKey, AccessToken, SameCaller, LocalKey, VerifiedKey, Asked
<1>3. CASE req[c].token # Nobody /\ req[d].token # Nobody
  <2>1. \A t, u \in Tokens :
          Principal(t) = Principal(u) <=>
            /\ Principal(t).iss = Principal(u).iss /\ Principal(t).who = Principal(u).who
            /\ Principal(t).kind = Principal(u).kind
    BY DEF Principal
  <2> QED  BY <1>3, <2>1 DEF RateKey, AccessToken, SameCaller, VerifiedKey, Asked
<1> QED  BY <1>2, <1>3

\* A caller has used what the limiter holds against its key.
LEMMA CountsAgree ==
  ASSUME IInv, NEW c \in Calls, pc[c] # "new", Guard[req[c].tool] = "limited"
  PROVE  /\ RateKey(c) \in RateKeys
         /\ Cardinality(Charged(c)) = Cardinality(Recent(RateKey(c)))
         /\ Cardinality(Charged(c)) \in Nat
<1> DEFINE r == RateKey(c)
<1> USE DEF IInv
<1>0. PICK id \in [Calls -> Nat] : Numbered(id)
  BY DEF Counted
<1>1. Asked(c) /\ r \in RateKeys
  BY KeyIsLimited DEF Standing
<1>2. IsFiniteSet(Recent(r)) /\ Cardinality(Recent(r)) \in Nat
  BY <1>1, FS_Subset, FS_CardinalityType DEF LimiterInv, Recent
<1> DEFINE g == [d \in Charged(c) |-> [at |-> passed[d], id |-> id[d]]]
<1>3. ASSUME NEW d \in Calls, passed[d] >= 0
      PROVE  RateKey(d) = r <=> SameCaller(c, d)
  BY <1>1, <1>3, KeyIsCaller DEF Standing
<1> HIDE DEF r
<1>4. ASSUME NEW d \in Charged(c)
      PROVE  g[d] \in Recent(r) /\ d \in Calls /\ passed[d] >= 0
  <2>1. d \in Calls /\ passed[d] >= 0 /\ passed[d] > now - Window /\ RateKey(d) = r
    BY <1>3, <1>4 DEF Charged
  <2>2. [at |-> passed[d], id |-> id[d]] \in admitted[r]
    BY <1>0, <2>1 DEF Numbered
  <2> QED  BY <1>4, <2>1, <2>2 DEF Recent
<1>5. ASSUME NEW m \in Recent(r)
      PROVE  \E d \in Charged(c) : g[d] = m
  <2>1. m \in admitted[r] /\ m.at > now - Window
    BY DEF Recent
  <2>2. PICK d \in Calls :
          passed[d] >= 0 /\ RateKey(d) = r /\ m = [at |-> passed[d], id |-> id[d]]
    BY <1>0, <1>1, <2>1 DEF Numbered
  <2>3. d \in Charged(c)
    BY <1>3, <2>1, <2>2 DEF Charged
  <2> QED  BY <2>2, <2>3
<1>6. ASSUME NEW d \in Charged(c), NEW e \in Charged(c), g[d] = g[e]
      PROVE  d = e
  <2>1. id[d] = id[e]
    BY <1>6
  <2> QED  BY <1>0, <1>4, <2>1 DEF Numbered
<1>7. g \in [Charged(c) -> Recent(r)]
  BY <1>4
<1> HIDE DEF g
<1>8. g \in Injection(Charged(c), Recent(r)) /\ g \in Surjection(Charged(c), Recent(r))
  BY <1>5, <1>6, <1>7 DEF Injection, IsInjective, Surjection
<1>9. Cardinality(Charged(c)) = Cardinality(Recent(r))
  BY <1>2, <1>8, FS_Injection
<1> QED  BY <1>1, <1>2, <1>9 DEF r

\* No caller's calls of the tools with one function name pass more than
\* max_calls times within a window, whatever tokens and sessions it uses and
\* whatever it passes as its id (EnhancedMCP.rate_limited_tool).
THEOREM BudgetBound == Spec => []BudgetPerCaller
<1>1. ASSUME IInv, NEW c \in Calls, req[c] # Nobody
      PROVE  Cardinality(Charged(c)) <= MaxCalls
  <2>1. pc[c] # "new"
    BY <1>1 DEF IInv, Standing
  <2>2. CASE Guard[req[c].tool] = "limited"
    BY <1>1, <2>1, <2>2, CountsAgree DEF IInv, LimiterInv
  <2>3. CASE \E d \in Charged(c) : TRUE
    <3>1. PICK d \in Charged(c) : TRUE
      BY <2>3
    <3>2. /\ d \in Calls /\ pc[d] # "new" /\ Guard[req[d].tool] = "limited"
          /\ SameCaller(c, d)
      BY <1>1, <3>1 DEF Charged, IInv, Standing, Places
    <3>3. Charged(c) = Charged(d)
      BY <3>2 DEF Charged, SameCaller
    <3> QED  BY <1>1, <3>2, <3>3, CountsAgree DEF IInv, LimiterInv
  <2>4. CASE Charged(c) = {}
    BY <2>4, FS_EmptySet, GatewayAssumption
  <2> QED  BY <2>2, <2>3, <2>4
<1>2. IInv => BudgetPerCaller
  BY <1>1 DEF BudgetPerCaller
<1> QED  BY <1>2, Invariance, PTL

\* What ended last is told apart.
LEMMA AppendDiffers ==
  ASSUME TypeInv, NEW e \in Entry, ended' = Append(ended, e)
  PROVE  /\ ended' # ended
         /\ \A d \in Entry : ended' = Append(ended, d) => d = e
<1>1. Len(Append(ended, e)) = Len(ended) + 1 /\ Len(ended) \in Nat
  BY AppendProperties, LenProperties DEF TypeInv
<1>2. \A d \in Entry : Append(ended, d) = Append(ended, e) => d = e
  BY AppendInjective DEF TypeInv
<1> QED  BY <1>1, <1>2

\* A call that ends as refused is refused by the limiter.
LEMMA Refusals ==
  ASSUME IInv, [Next]_vars, NEW c \in Calls,
         ended' = Append(ended, [call |-> c, outcome |-> "rate_limited"])
  PROVE  /\ pc[c] = "queued" /\ Guard[req[c].tool] = "limited"
         /\ Limiter!Refuse(RateKey(c))
<1> DEFINE e == [call |-> c, outcome |-> "rate_limited"]
<1> USE DEF IInv
<1>1. e \in Entry /\ ended' # ended /\ \A d \in Entry : ended' = Append(ended, d) => d = e
  BY AppendDiffers DEF Entry, Outcomes
<1>2. ASSUME NEW d \in Calls, NEW outcome \in Outcomes, Closes(d, outcome)
      PROVE  d = c /\ outcome = "rate_limited"
  <2>1. [call |-> d, outcome |-> outcome] \in Entry /\ ended' = Append(ended, [call |-> d, outcome |-> outcome])
    BY <1>2 DEF Closes, Entry
  <2>2. [call |-> d, outcome |-> outcome] = e
    BY <1>1, <2>1
  <2> QED  BY <2>2
<1>3. \A o \in {"ok", "error", "forbidden", "unauthorized"} : o \in Outcomes /\ o # "rate_limited"
  BY DEF Outcomes
<1>4. ASSUME NEW d \in Calls, NEW o \in {"ok", "error", "forbidden", "unauthorized"}, Closes(d, o)
      PROVE  FALSE
  BY <1>2, <1>3, <1>4
<1>5. ASSUME NEW d \in Calls, RateLimited(d)
      PROVE  /\ pc[c] = "queued" /\ Guard[req[c].tool] = "limited"
             /\ Limiter!Refuse(RateKey(c))
  <2>1. \/ Limiter!Refuse(RateKey(d)) /\ Closes(d, "rate_limited")
        \/ UNCHANGED ended
        \/ Closes(d, "forbidden")
    BY <1>5 DEF RateLimited, LetsIn, RunsBody, EndsAtOnce
  <2>2. Limiter!Refuse(RateKey(d)) /\ Closes(d, "rate_limited")
    BY <1>1, <1>4, <2>1
  <2>3. d = c
    BY <1>2, <2>2 DEF Outcomes
  <2> QED  BY <1>5, <2>2, <2>3 DEF RateLimited
<1>6. ASSUME NEW d \in Calls, Cached(d) \/ KeyAsked(d) \/ TokenChecked(d) \/ Leaves(d)
                              \/ \E outcome \in {"ok", "error"} : Ends(d, outcome)
      PROVE  FALSE
  <2>1. CASE Cached(d)
    BY <1>1, <1>4, <2>1 DEF Cached, LetsIn, RunsBody, EndsAtOnce
  <2>2. CASE KeyAsked(d)
    BY <1>1, <1>4, <2>2 DEF KeyAsked, LetsIn, RunsBody, EndsAtOnce
  <2>3. CASE TokenChecked(d)
    BY <1>1, <1>4, <2>3 DEF TokenChecked, RunsBody
  <2>4. CASE Leaves(d)
    BY <1>1, <1>4, <2>4 DEF Leaves
  <2>5. CASE \E outcome \in {"ok", "error"} : Ends(d, outcome)
    BY <1>1, <1>4, <2>5 DEF Ends
  <2> QED  BY <1>6, <2>1, <2>2, <2>3, <2>4, <2>5
<1>7. ASSUME NEW d \in Calls, Verified(d) \/ TokenAsked(d)
      PROVE  FALSE
  BY <1>1, <1>7 DEF Verified, TokenAsked, telemetry
<1>8. ASSUME NEW d \in Calls, NEW f \in Tools, NEW a \in Args[f],
             \/ CallLocally(d, f, a)
             \/ \E s \in Sessions, t \in Tokens : Send(d, s, t, f, a)
      PROVE  FALSE
  BY <1>1, <1>8 DEF CallLocally, Send, Asks, telemetry
<1>9. ASSUME \/ \E s \in Sessions, t \in Tokens : Initialize(s, t)
             \/ \E k \in ApiKeys : Revoke(k) \/ \E S \in SUBSET Scopes \ {{}} : Register(k, S)
             \/ Tick \/ UNCHANGED vars
      PROVE  FALSE
  BY <1>1, <1>9 DEF Initialize, Revoke, Register, Tick, vars, telemetry
<1> QED  BY <1>5, <1>6, <1>7, <1>8, <1>9 DEF Next

\* A caller is refused only when its own calls, of the tools whose functions
\* have the name of this one's, have used the budget up: not for those of
\* another issuer with the same subject, nor of a client named like a subject
\* (rate_key in base_server.py is made of func.__name__ and the identity).
THEOREM RefusalsAreOwn == Spec => RefusedForOwn
<1>1. ASSUME IInv, [Next]_vars, NEW c \in Calls,
             ended' = Append(ended, [call |-> c, outcome |-> "rate_limited"])
      PROVE  Cardinality(Charged(c)) >= MaxCalls
  <2>1. /\ pc[c] = "queued" /\ Guard[req[c].tool] = "limited"
        /\ Limiter!Refuse(RateKey(c))
    BY <1>1, Refusals
  <2>2. RateKey(c) \in RateKeys /\ Cardinality(Charged(c)) = Cardinality(Recent(RateKey(c)))
    BY <1>1, <2>1, CountsAgree
  <2> QED  BY <2>1, <2>2, LimiterSteps
<1>2. IInv /\ [Next]_vars =>
        [ \A c \in Calls :
            ended' = Append(ended, [call |-> c, outcome |-> "rate_limited"])
              => Cardinality(Charged(c)) >= MaxCalls ]_vars
  BY <1>1
<1> QED  BY <1>2, Invariance, PTL DEF Spec, RefusedForOwn

-----------------------------------------------------------------------------
(* Spans and guards                                                        *)

\* Every call that reached its wrapper leaves one span with its own caller
\* and outcome, in the order in which the calls end (telemetry.py).
THEOREM SpansHold == Spec => []SpansTell
<1>1. IInv => SpansTell
  BY DEF IInv
<1> QED  BY <1>1, Invariance, PTL

\* Every call that has come through verification over HTTP was vouched for.
VouchInv ==
  /\ session = [s \in Sessions |-> session[s]]
  /\ verified = [c \in Calls |-> verified[c]]
  /\ \A c \in Calls : pc[c] \in {"verify", "queued", "signing"} /\ req[c].token # Nobody =>
       /\ req[c].session \in Sessions /\ session[req[c].session] # Nobody
       /\ pc[c] # "verify" => Vouched(c)

\* Steps that change neither a session nor what was verified, and bring no
\* call to its wrapper, keep it.
LEMMA VouchRests ==
  ASSUME VouchInv, UNCHANGED <<session, verified>>, UNCHANGED req,
         \A c \in Calls : pc'[c] # pc[c] => pc'[c] \notin {"verify", "queued"}
                                            /\ (pc'[c] = "signing" => pc[c] = "queued")
  PROVE  VouchInv'
BY DEF VouchInv, Vouched, Principal, Who

\* Every step keeps it.
LEMMA VouchKept ==
  ASSUME IInv, VouchInv, [Next]_vars
  PROVE  VouchInv'
<1> USE DEF IInv
<1>1. ASSUME NEW s \in Sessions, NEW t \in Tokens, Initialize(s, t)
      PROVE  VouchInv'
  <2>1. /\ session[s] = Nobody /\ session' = [session EXCEPT ![s] = t]
        /\ UNCHANGED <<pc, req, verified>> /\ t # Nobody
    BY <1>1, GatewayAssumption DEF Initialize, history
  <2>2. \A u \in Sessions : session[u] # Nobody => session'[u] = session[u] /\ session'[u] # Nobody
    BY <2>1 DEF VouchInv
  <2>3. session' = [u \in Sessions |-> session'[u]]
    BY <2>1 DEF VouchInv
  <2>4. ASSUME NEW c \in Calls, pc[c] \in {"verify", "queued", "signing"}, req[c].token # Nobody
        PROVE  /\ session'[req[c].session] # Nobody
               /\ pc[c] # "verify" => Vouched(c)'
    BY <2>1, <2>2, <2>4 DEF VouchInv, Vouched, Principal, Who
  <2> QED  BY <2>1, <2>3, <2>4 DEF VouchInv
<1>2. ASSUME NEW c \in Calls, NEW f \in Tools, NEW a \in Args[f], CallLocally(c, f, a)
      PROVE  VouchInv'
  <2>1. /\ UNCHANGED <<session, verified>> /\ req'[c].token = Nobody
        /\ \A d \in Calls \ {c} : pc'[d] = pc[d] /\ req'[d] = req[d]
    BY <1>2 DEF CallLocally, Asks, history, TypeInv
  <2> QED  BY <2>1 DEF VouchInv, Vouched, Principal, Who
<1>3. ASSUME NEW c \in Calls, NEW f \in Tools, NEW a \in Args[f],
             NEW s \in Sessions, NEW t \in Tokens, Send(c, s, t, f, a)
      PROVE  VouchInv'
  <2>1. /\ UNCHANGED <<session, verified>> /\ session[s] # Nobody
        /\ pc'[c] = "verify" /\ req'[c].session = s
        /\ \A d \in Calls \ {c} : pc'[d] = pc[d] /\ req'[d] = req[d]
    BY <1>3 DEF Send, Asks, history, TypeInv
  <2> QED  BY <2>1 DEF VouchInv, Vouched, Principal, Who
<1>4. ASSUME NEW c \in Calls, Verified(c)
      PROVE  VouchInv'
  <2>1. /\ pc[c] = "verify" /\ UNCHANGED <<session, req, now>> /\ now \in Nat
        /\ \A d \in Calls \ {c} : pc'[d] = pc[d]
    BY <1>4 DEF Verified, TypeInv
  <2>2. /\ \A d \in Calls \ {c} : verified'[d] = verified[d]
        /\ verified' = [d \in Calls |-> verified'[d]]
    BY <1>4 DEF Verified, VouchInv
  <2>3. CASE pc'[c] = "over" /\ verified' = verified
    BY <2>1, <2>3 DEF VouchInv, Vouched, Principal, Who
  <2>4. CASE pc'[c] # "over"
    <3>1. req[c].token # Nobody => Vouched(c)'
      <4>1. /\ verified'[c] = now /\ now < Claims[req[c].token].exp + 0
            /\ EndpointScope \in Claims[req[c].token].scopes
            /\ Principal(req[c].token) = Principal(session[req[c].session])
        BY <1>4, <2>4 DEF Verified, Verifies, VouchInv, TypeInv
      <4>2. req[c].token # Nobody => Claims[req[c].token].exp \in Nat
        BY <2>1, GatewayAssumption DEF Standing, Asked, Claim
      <4> QED  BY <2>1, <4>1, <4>2 DEF Vouched, Principal, Who
    <3>2. ASSUME NEW d \in Calls, d # c
          PROVE  Vouched(d)' = Vouched(d)
      BY <2>1, <2>2, <3>2 DEF Vouched, Principal, Who
    <3> QED  BY <2>1, <2>2, <3>1, <3>2 DEF VouchInv
  <2> QED  BY <1>4, <2>3, <2>4 DEF Verified, TypeInv
<1>5. ASSUME NEW c \in Calls,
             \/ RateLimited(c) \/ Cached(c) \/ KeyAsked(c) \/ TokenAsked(c)
             \/ TokenChecked(c) \/ Leaves(c) \/ \E outcome \in {"ok", "error"} : Ends(c, outcome)
      PROVE  VouchInv'
  <2>1. UNCHANGED <<session, req, verified>>
    BY <1>5 DEF RateLimited, Cached, KeyAsked, TokenAsked, TokenChecked, Leaves, Ends, history
  <2>2. \/ \E place \in {"body", "over"} : pc' = [pc EXCEPT ![c] = place]
        \/ pc[c] = "queued" /\ pc' = [pc EXCEPT ![c] = "signing"]
    <3>1. CASE RateLimited(c)
      BY <3>1 DEF RateLimited, LetsIn, EndsAtOnce, RunsBody, Closes
    <3>2. CASE Cached(c)
      BY <3>2 DEF Cached, LetsIn, EndsAtOnce, RunsBody, Closes
    <3>3. CASE KeyAsked(c)
      BY <3>3 DEF KeyAsked, LetsIn, EndsAtOnce, RunsBody, Closes
    <3>4. CASE TokenAsked(c)
      BY <3>4 DEF TokenAsked
    <3>5. CASE TokenChecked(c)
      BY <3>5 DEF TokenChecked, RunsBody, Closes
    <3>6. CASE Leaves(c)
      BY <3>6 DEF Leaves, Closes
    <3>7. CASE \E outcome \in {"ok", "error"} : Ends(c, outcome)
      BY <3>7 DEF Ends, Closes
    <3> QED  BY <1>5, <3>1, <3>2, <3>3, <3>4, <3>5, <3>6, <3>7
  <2> QED  BY <2>1, <2>2, VouchRests DEF TypeInv
<1>6. CASE \/ \E k \in ApiKeys : Revoke(k) \/ \E S \in SUBSET Scopes \ {{}} : Register(k, S)
           \/ Tick \/ UNCHANGED vars
  BY <1>6, VouchRests DEF Revoke, Register, Tick, vars, history
<1> QED  BY <1>1, <1>2, <1>3, <1>4, <1>5, <1>6 DEF Next

\* The function is called from the wrapper.
LEMMA ReachedFrom ==
  ASSUME IInv, [Next]_vars, NEW c \in Calls, pc[c] # "body", pc'[c] = "body"
  PROVE  pc[c] \in {"queued", "signing"}
<1> USE DEF IInv
<1>1. \A d \in Calls : pc' = [pc EXCEPT ![d] = "body"] => d = c
  BY DEF TypeInv
<1>2. ASSUME NEW d \in Calls, NEW place \in {"verify", "queued", "signing", "over"}
      PROVE  pc' # [pc EXCEPT ![d] = place]
  BY DEF TypeInv
<1>3. ASSUME NEW d \in Calls, RateLimited(d) \/ Cached(d) \/ KeyAsked(d) \/ TokenChecked(d)
      PROVE  pc[c] \in {"queued", "signing"}
  BY <1>1, <1>2, <1>3 DEF RateLimited, Cached, KeyAsked, TokenChecked, LetsIn, RunsBody, EndsAtOnce, Closes
<1>4. ASSUME NEW d \in Calls, Leaves(d) \/ Verified(d) \/ TokenAsked(d)
                              \/ \E outcome \in {"ok", "error"} : Ends(d, outcome)
      PROVE  FALSE
  BY <1>2, <1>4 DEF Leaves, Verified, TokenAsked, Ends, Closes
<1>5. ASSUME NEW d \in Calls, NEW f \in Tools, NEW a \in Args[f],
             \/ CallLocally(d, f, a)
             \/ \E s \in Sessions, t \in Tokens : Send(d, s, t, f, a)
      PROVE  FALSE
  BY <1>2, <1>5 DEF CallLocally, Send, Asks
<1>6. ASSUME \/ \E s \in Sessions, t \in Tokens : Initialize(s, t)
             \/ \E k \in ApiKeys : Revoke(k) \/ \E S \in SUBSET Scopes \ {{}} : Register(k, S)
             \/ Tick \/ UNCHANGED vars
      PROVE  FALSE
  BY <1>6 DEF Initialize, Revoke, Register, Tick, vars
<1> QED  BY <1>3, <1>4, <1>5, <1>6 DEF Next

\* A function behind a guard is called over HTTP only for a bearer that was
\* good when the request was verified, and in any case only for what its guard
\* allows at that moment (auth_tool, rate_limited_tool and cached_tool).
THEOREM GuardsHold == Spec => BodyIsAllowed
<1>1. ASSUME IInv, [Next]_vars, NEW c \in Calls, pc[c] # "body", pc'[c] = "body"
      PROVE  GuardAllows(c)
  <2> USE DEF IInv
  <2>1. \A d \in Calls : pc' = [pc EXCEPT ![d] = "body"] => d = c
    BY <1>1 DEF TypeInv
  <2>2. ASSUME NEW d \in Calls, NEW place \in {"verify", "queued", "signing", "over"}
        PROVE  pc' # [pc EXCEPT ![d] = place]
    BY <1>1 DEF TypeInv
  <2>3. pc' # pc
    BY <1>1
  <2>4. ASSUME NEW d \in Calls, RateLimited(d)
        PROVE  GuardAllows(c)
    <3>1. pc' = [pc EXCEPT ![d] = "body"] /\ HasScope(d) /\ Guard[req[d].tool] = "limited"
      BY <2>2, <2>4 DEF RateLimited, LetsIn, RunsBody, EndsAtOnce, Closes
    <3> QED  BY <2>1, <3>1 DEF HasScope, AccessToken, GuardAllows
  <2>5. ASSUME NEW d \in Calls, Cached(d)
        PROVE  GuardAllows(c)
    <3>1. pc' = [pc EXCEPT ![d] = "body"] /\ req[d].token = Nobody /\ Guard[req[d].tool] = "cached"
      BY <2>2, <2>5 DEF Cached, LetsIn, RunsBody, EndsAtOnce, Closes, AccessToken
    <3> QED  BY <2>1, <3>1 DEF GuardAllows
  <2>6. ASSUME NEW d \in Calls, KeyAsked(d)
        PROVE  GuardAllows(c)
    <3>1. /\ pc' = [pc EXCEPT ![d] = "body"] /\ Guard[req[d].tool] = "api_key"
          /\ keys[req[d].arg] # Nobody /\ keys[req[d].arg].active
          /\ Scope[req[d].tool] \in keys[req[d].arg].scopes \cup {Nobody}
      BY <2>2, <2>6 DEF KeyAsked, LetsIn, RunsBody, EndsAtOnce, Closes
    <3> QED  BY <2>1, <3>1 DEF GuardAllows
  <2>7. ASSUME NEW d \in Calls, TokenChecked(d)
        PROVE  GuardAllows(c)
    <3>1. /\ pc[d] = "signing" /\ pc' = [pc EXCEPT ![d] = "body"] /\ Verifies(req[d].arg, Leeway)
          /\ Scope[req[d].tool] \in Claims[req[d].arg].scopes \cup {Nobody}
      BY <2>2, <2>7 DEF TokenChecked, RunsBody, Closes
    <3>2. d = c /\ Guard[req[c].tool] = "jwt"
      BY <1>1, <2>1, <3>1 DEF Standing
    <3> QED  BY <3>1, <3>2 DEF GuardAllows, Verifies
  <2>8. ASSUME NEW d \in Calls, Leaves(d) \/ Verified(d) \/ TokenAsked(d)
                                \/ \E outcome \in {"ok", "error"} : Ends(d, outcome)
        PROVE  FALSE
    BY <2>2, <2>8 DEF Leaves, Verified, TokenAsked, Ends, Closes
  <2>9. ASSUME NEW d \in Calls, NEW f \in Tools, NEW a \in Args[f],
               \/ CallLocally(d, f, a)
               \/ \E s \in Sessions, t \in Tokens : Send(d, s, t, f, a)
        PROVE  FALSE
    BY <2>2, <2>9 DEF CallLocally, Send, Asks
  <2>10. ASSUME \/ \E s \in Sessions, t \in Tokens : Initialize(s, t)
                \/ \E k \in ApiKeys : Revoke(k) \/ \E S \in SUBSET Scopes \ {{}} : Register(k, S)
                \/ Tick \/ UNCHANGED vars
         PROVE  FALSE
    BY <2>3, <2>10 DEF Initialize, Revoke, Register, Tick, vars
  <2> QED  BY <1>1, <2>4, <2>5, <2>6, <2>7, <2>8, <2>9, <2>10 DEF Next
<1>2. ASSUME IInv, VouchInv, [Next]_vars, NEW c \in Calls, pc[c] # "body", pc'[c] = "body",
             req[c].token # Nobody
      PROVE  Vouched(c)
  <2>1. pc[c] \in {"queued", "signing"}
    BY <1>2, ReachedFrom
  <2> QED  BY <1>2, <2>1 DEF VouchInv
<1>3. IInv /\ VouchInv /\ [Next]_vars =>
        [ \A c \in Calls : pc[c] # "body" /\ pc'[c] = "body" =>
            /\ GuardAllows(c)
            /\ req[c].token # Nobody => Vouched(c) ]_vars
  BY <1>1, <1>2
<1>4. Init => VouchInv
  BY DEF Init, VouchInv
<1>5. IInv /\ VouchInv /\ [Next]_vars => VouchInv'
  BY VouchKept
<1> QED  BY <1>3, <1>4, <1>5, Invariance, PTL DEF Spec, BodyIsAllowed
=============================================================================
