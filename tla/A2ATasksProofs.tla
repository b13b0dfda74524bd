--------------------------- MODULE A2ATasksProofs ---------------------------
(***************************************************************************)
(* What A2ATasks promises for any number of requests of any kind, also     *)
(* when several ask for one task id: what concerns the table is then said  *)
(* of a request only while it is alone with its id.  The inductive         *)
(* invariant ties where a request stands to what is stored under its id,   *)
(* to how far its client has been told, and to what may still arrive late. *)
(***************************************************************************)
EXTENDS A2ATasks, TLAPS

Told1 == Statuses \ {"none"}
Entries == [status : Told1, late : BOOLEAN]

-----------------------------------------------------------------------------
(* The inductive invariant                                                 *)

\* What is stored for request r while it stands where it stands.
StoredIs(r) ==
  /\ pc[r] \in {"final", "over"} => outcome[r] \in Final
  /\ Alone(r) =>
       /\ pc[r] = "new" => tasks[IdOf[r]] = "none"
       /\ pc[r] = "submitted" => tasks[IdOf[r]] = "submitted"
       /\ pc[r] \in {"working", "tool"} => tasks[IdOf[r]] = "working"
       /\ pc[r] \in {"final", "over"} => tasks[IdOf[r]] = outcome[r]

\* Nothing told (t), or that may still be told late (l), ranks above k.
UpTo(t, l, k) ==
  /\ \A n \in DOMAIN t : Rank[t[n].status] <= k
  /\ \A s \in l : Rank[s] <= k

\* What was told ranks below what is being told next.
ToldBefore(r) ==
  /\ pc[r] \in {"new", "submitted"} => told[r] = <<>> /\ late[r] = {}
  /\ pc[r] = "working" => UpTo(told[r], late[r], 1)
  /\ pc[r] \in {"tool", "final"} => UpTo(told[r], late[r], 2)
  /\ Alone(r) => UpTo(told[r], late[r], Rank[tasks[IdOf[r]]])

\* Nothing is told twice, and in time only what is news.
Rising(t) ==
  \A m, n \in DOMAIN t : m < n =>
    /\ Rank[t[m].status] # Rank[t[n].status]
    /\ t[n].late \/ Rank[t[m].status] < Rank[t[n].status]

InOrder(r) ==
  /\ Rising(told[r])
  /\ \A n \in DOMAIN told[r] : \A s \in late[r] : Rank[told[r][n].status] # Rank[s]
  /\ \A s, u \in late[r] : Rank[s] = Rank[u] => s = u
  /\ r \notin Webhooks => late[r] = {} /\ \A n \in DOMAIN told[r] : ~told[r][n].late

\* A stream is told everything.
AllTold(r) ==
  r \in Streams =>
    /\ pc[r] = "working" => Len(told[r]) = 1
    /\ pc[r] \in {"tool", "final"} => Len(told[r]) = 2
    /\ pc[r] = "over" => Len(told[r]) = 3

\* A request that tells its client nothing under way skips those states.
PlainSkips(r) ==
  r \notin Streams \cup Webhooks =>
    /\ pc[r] \notin {"submitted", "working", "final"}
    /\ pc[r] = "tool" => told[r] = <<>>

Good(r) == StoredIs(r) /\ ToldBefore(r) /\ InOrder(r) /\ AllTold(r) /\ PlainSkips(r)

IInv == TypeOK /\ \A r \in Requests : Good(r)

-----------------------------------------------------------------------------
(* Lemmas                                                                  *)

\* The ranks of the states a task goes through.
LEMMA Ranks ==
  /\ Rank["none"] = 0 /\ Rank["submitted"] = 1 /\ Rank["working"] = 2
  /\ Rank["completed"] = 3 /\ Rank["failed"] = 3
  /\ \A s \in Statuses : Rank[s] \in 0..3
  BY DEF Rank, Statuses, Final

\* What a client was told and may still be told are states.
LEMMA KnownRanks ==
  ASSUME TypeOK, NEW r \in Requests
  PROVE  /\ told[r] \in Seq(Entries) /\ late[r] \subseteq Told1
         /\ \A n \in DOMAIN told[r] : told[r][n] \in Entries /\ Rank[told[r][n].status] \in 0..3
         /\ \A s \in late[r] : Rank[s] \in 0..3
  <1>1. told[r] \in Seq(Entries) /\ late[r] \subseteq Told1
    BY DEF TypeOK, Entries, Told1
  <1>2. \A n \in DOMAIN told[r] : told[r][n] \in Entries
    BY <1>1
  <1>3. \A e \in Entries : e.status \in Statuses
    BY DEF Entries, Told1
  <1> QED BY <1>1, <1>2, <1>3, Ranks DEF Told1

\* A step of r.
Apart(r) ==
  /\ \A i \in TaskIds \ {IdOf[r]} : tasks'[i] = tasks[i]
  /\ \A q \in Requests \ {r} : /\ pc'[q] = pc[q] /\ outcome'[q] = outcome[q]
                               /\ told'[q] = told[q] /\ late'[q] = late[q]
  /\ pc'[r] # "new"

\* A step that concerns one request leaves the others as they are: either
\* they have another id, or they are not alone with theirs.
LEMMA OthersKept ==
  ASSUME IInv, NEW r \in Requests, Apart(r), NEW q \in Requests \ {r}
  PROVE  Good(q)'
  <1>1. IdOf[q] \in TaskIds /\ IdOf[r] \in TaskIds
    BY A2ATasksAssumption
  <1>2. /\ pc'[q] = pc[q] /\ outcome'[q] = outcome[q]
        /\ told'[q] = told[q] /\ late'[q] = late[q]
    BY DEF Apart
  <1>3. CASE IdOf[q] = IdOf[r]
    <2>1. ~Alone(q)'
      BY <1>3 DEF Alone, Apart
    <2> QED BY <1>2, <2>1
            DEF IInv, Good, StoredIs, ToldBefore, UpTo, InOrder, Rising, AllTold, PlainSkips
  <1>4. CASE IdOf[q] # IdOf[r]
    <2>1. tasks'[IdOf[q]] = tasks[IdOf[q]]
      BY <1>1, <1>4 DEF Apart
    <2>2. Alone(q)' = Alone(q)
      BY <1>4 DEF Alone, Apart
    <2> QED BY <1>2, <2>1, <2>2
            DEF IInv, Good, StoredIs, ToldBefore, UpTo, InOrder, Rising, AllTold, PlainSkips
  <1> QED BY <1>3, <1>4

\* Nor does a step of a request change whether it is alone.
LEMMA SelfAlone ==
  ASSUME TypeOK, NEW r \in Requests, NEW p, pc' = [pc EXCEPT ![r] = p]
  PROVE  Alone(r)' = Alone(r) /\ pc'[r] = p
  BY DEF Alone, TypeOK

\* A bound may be widened.
LEMMA UpToMore ==
  ASSUME NEW t \in Seq(Entries), NEW l \in SUBSET Told1, NEW j \in 0..3, NEW k \in 0..3,
         j <= k, UpTo(t, l, j)
  PROVE  UpTo(t, l, k)
  <1>1. \A n \in DOMAIN t : t[n] \in Entries
    OBVIOUS
  <1>2. \A n \in DOMAIN t : Rank[t[n].status] \in 0..3
    BY <1>1, Ranks DEF Entries, Told1
  <1>3. \A s \in l : Rank[s] \in 0..3
    BY Ranks DEF Told1
  <1> QED BY <1>2, <1>3 DEF UpTo

\* An entry more that differs in rank from all before, and ranks above them
\* when it comes in time, keeps the order.
LEMMA OneEntryMore ==
  ASSUME NEW t \in Seq(Entries), NEW e \in Entries, Rising(t),
         \A n \in DOMAIN t : /\ Rank[t[n].status] # Rank[e.status]
                             /\ e.late \/ Rank[t[n].status] < Rank[e.status]
  PROVE  /\ Append(t, e) \in Seq(Entries) /\ Len(Append(t, e)) = Len(t) + 1
         /\ Rising(Append(t, e))
         /\ \A n \in DOMAIN Append(t, e) :
              Append(t, e)[n] = e \/ \E m \in DOMAIN t : Append(t, e)[n] = t[m]
  <1> DEFINE u == Append(t, e)
  <1>1. u \in Seq(Entries) /\ Len(u) = Len(t) + 1
    OBVIOUS
  <1>2. /\ DOMAIN u = 1..(Len(t) + 1) /\ DOMAIN t = 1..Len(t) /\ Len(t) \in Nat
        /\ u[Len(t) + 1] = e /\ \A n \in 1..Len(t) : u[n] = t[n]
    OBVIOUS
  <1> HIDE DEF u
  <1>3. ASSUME NEW m \in DOMAIN u, NEW n \in DOMAIN u, m < n
        PROVE  /\ Rank[u[m].status] # Rank[u[n].status]
               /\ u[n].late \/ Rank[u[m].status] < Rank[u[n].status]
    <2>1. m \in DOMAIN t /\ u[m] = t[m]
      BY <1>2, <1>3
    <2>2. CASE n = Len(t) + 1
      BY <2>1, <2>2, <1>2
    <2>3. CASE n \in 1..Len(t)
      BY <2>1, <2>3, <1>2, <1>3 DEF Rising
    <2> QED BY <2>2, <2>3, <1>2
  <1>4. Rising(u)
    BY <1>3 DEF Rising
  <1> QED BY <1>1, <1>2, <1>4 DEF u

\* The empty dictionary; every request is new.
LEMMA InitIInv == Init => IInv
  <1> SUFFICES ASSUME Init PROVE IInv
    OBVIOUS
  <1>1. TypeOK
    BY DEF Init, TypeOK, Statuses, Points
  <1>2. ASSUME NEW r \in Requests
        PROVE  Good(r)
    <2>1. IdOf[r] \in TaskIds
      BY A2ATasksAssumption
    <2>2. tasks[IdOf[r]] = "none" /\ pc[r] = "new" /\ told[r] = <<>> /\ late[r] = {}
      BY <2>1 DEF Init
    <2> QED BY <2>2
            DEF Good, StoredIs, ToldBefore, UpTo, InOrder, Rising, AllTold, PlainSkips
  <1> QED BY <1>1, <1>2 DEF IInv

\* What Tells does for a client that is told, or not told in time, a state
\* that ranks above all it may know.
LEMMA ToldAdds ==
  ASSUME IInv, NEW r \in Requests, NEW s \in Told1, Tells(r, s),
         NEW k \in 0..2, UpTo(told[r], late[r], k), Rank[s] = k + 1
  PROVE  /\ told' \in [Requests -> Seq(Entries)] /\ late' \in [Requests -> SUBSET Told1]
         /\ \A q \in Requests \ {r} : told'[q] = told[q] /\ late'[q] = late[q]
         /\ UpTo(told'[r], late'[r], Rank[s]) /\ InOrder(r)'
         /\ r \in Streams => Len(told'[r]) = Len(told[r]) + 1
         /\ r \notin Streams \cup Webhooks => told'[r] = Append(told[r], Told(s, FALSE))
  <1> USE DEF IInv
  <1>1. /\ told \in [Requests -> Seq(Entries)] /\ late \in [Requests -> SUBSET Told1]
        /\ told[r] \in Seq(Entries) /\ late[r] \subseteq Told1
        /\ \A n \in DOMAIN told[r] : Rank[told[r][n].status] \in 0..3 /\ Rank[told[r][n].status] <= k
        /\ \A u \in late[r] : Rank[u] \in 0..3 /\ Rank[u] <= k
        /\ Rank[s] \in 0..3
    BY KnownRanks, Ranks DEF TypeOK, Entries, Told1, UpTo
  <1>2. InOrder(r)
    BY DEF Good
  <1>3. CASE told' = [told EXCEPT ![r] = Append(told[r], Told(s, FALSE))] /\ late' = late
    <2> DEFINE e == Told(s, FALSE)
    <2>1. e \in Entries /\ e.status = s /\ e.late = FALSE
      BY DEF Told, Entries
    <2>2. told'[r] = Append(told[r], e) /\ late'[r] = late[r]
      BY <1>1, <1>3
    <2> HIDE DEF e
    <2>3. \A n \in DOMAIN told[r] : /\ Rank[told[r][n].status] # Rank[e.status]
                                    /\ e.late \/ Rank[told[r][n].status] < Rank[e.status]
      BY <1>1, <2>1
    <2>4. /\ told'[r] \in Seq(Entries) /\ Len(told'[r]) = Len(told[r]) + 1 /\ Rising(told'[r])
          /\ \A n \in DOMAIN told'[r] : told'[r][n] = e \/ \E m \in DOMAIN told[r] : told'[r][n] = told[r][m]
      BY <1>1, <1>2, <2>1, <2>2, <2>3, OneEntryMore DEF InOrder
    <2>5. told' \in [Requests -> Seq(Entries)]
      BY <1>1, <1>3, <2>2, <2>4 DEF e
    <2>6. UpTo(told'[r], late'[r], Rank[s])
      <3>1. ASSUME NEW n \in DOMAIN told'[r] PROVE Rank[told'[r][n].status] <= Rank[s]
        <4>1. CASE told'[r][n] = e
          BY <1>1, <2>1, <4>1
        <4>2. CASE \E m \in DOMAIN told[r] : told'[r][n] = told[r][m]
          <5>1. PICK m \in DOMAIN told[r] : told'[r][n] = told[r][m]
            BY <4>2
          <5>2. Rank[told[r][m].status] \in 0..3 /\ Rank[told[r][m].status] <= k
            BY <1>1
          <5> QED BY <5>1, <5>2
        <4> QED BY <2>4, <4>1, <4>2
      <3>2. \A u \in late'[r] : Rank[u] <= Rank[s]
        BY <1>1, <2>2
      <3> QED BY <3>1, <3>2 DEF UpTo
    <2>7. InOrder(r)'
      BY <1>1, <1>2, <2>1, <2>2, <2>4 DEF InOrder, Rising
    <2> QED BY <1>1, <1>3, <2>2, <2>4, <2>5, <2>6, <2>7 DEF e
  <1>4. CASE r \in Webhooks /\ told' = told /\ late' = [late EXCEPT ![r] = late[r] \cup {s}]
    <2>1. r \notin Streams
      BY <1>4, A2ATasksAssumption
    <2>2. late'[r] = late[r] \cup {s}
      BY <1>1, <1>4
    <2>3. late' \in [Requests -> SUBSET Told1]
      BY <1>1, <1>4
    <2>4. UpTo(told'[r], late'[r], Rank[s])
      <3>1. ASSUME NEW n \in DOMAIN told'[r] PROVE Rank[told'[r][n].status] <= Rank[s]
        <4>1. told'[r] = told[r]
          BY <1>4
        <4>2. Rank[told[r][n].status] \in 0..3 /\ Rank[told[r][n].status] <= k
          BY <1>1, <4>1
        <4> QED BY <4>1, <4>2
      <3>2. \A u \in late'[r] : Rank[u] <= Rank[s]
        BY <1>1, <2>2
      <3> QED BY <3>1, <3>2 DEF UpTo
    <2>5. InOrder(r)'
      BY <1>1, <1>2, <1>4, <2>2 DEF InOrder, Rising
    <2> QED BY <1>1, <1>4, <2>1, <2>3, <2>4, <2>5
  <1> QED BY <1>3, <1>4 DEF Tells

-----------------------------------------------------------------------------
(* Every step keeps the invariant                                          *)

\* The submitted status is stored before anything is told.
LEMMA SubmitKeeps ==
  ASSUME IInv, NEW r \in Requests, Submit(r)
  PROVE  IInv'
  <1>0. IdOf[r] \in TaskIds
    BY A2ATasksAssumption
  <1>1. /\ pc[r] = "new" /\ pc' = [pc EXCEPT ![r] = "submitted"]
        /\ tasks' = [tasks EXCEPT ![IdOf[r]] = "submitted"]
        /\ outcome' = outcome /\ told' = told /\ late' = late
    BY DEF Submit, GoesTo, Store
  <1>2. TypeOK'
    BY <1>1 DEF IInv, TypeOK, Statuses, Points, Busy
  <1>3. /\ tasks'[IdOf[r]] = "submitted" /\ pc'[r] = "submitted"
        /\ told'[r] = <<>> /\ late'[r] = {}
    BY <1>0, <1>1 DEF IInv, TypeOK, Good, ToldBefore
  <1>4. Good(r)'
    BY <1>3 DEF Good, StoredIs, ToldBefore, UpTo, InOrder, Rising, AllTold, PlainSkips, Submit
  <1>5. Apart(r) /\ \A q \in Requests \ {r} : Good(q)'
    <2>1. Apart(r)
      BY <1>1, A2ATasksAssumption DEF Apart, IInv, TypeOK
    <2> QED BY <2>1, OthersKept
  <1> QED BY <1>2, <1>4, <1>5 DEF IInv

\* The client was told of the submitted status; working is stored.
LEMMA WorkKeeps ==
  ASSUME IInv, NEW r \in Requests, Work(r)
  PROVE  IInv'
  <1>0. IdOf[r] \in TaskIds /\ "submitted" \in Told1
    BY A2ATasksAssumption DEF Statuses, Told1
  <1>1. /\ pc[r] = "submitted" /\ pc' = [pc EXCEPT ![r] = "working"]
        /\ tasks' = [tasks EXCEPT ![IdOf[r]] = "working"]
        /\ outcome' = outcome /\ Tells(r, "submitted") /\ told[r] = <<>> /\ late[r] = {}
    BY DEF Work, GoesTo, Store, IInv, Good, ToldBefore
  <1>2. UpTo(told[r], late[r], 0) /\ Rank["submitted"] = 0 + 1
    BY <1>1, Ranks DEF UpTo
  <1>3. /\ told' \in [Requests -> Seq(Entries)] /\ late' \in [Requests -> SUBSET Told1]
        /\ \A q \in Requests \ {r} : told'[q] = told[q] /\ late'[q] = late[q]
        /\ UpTo(told'[r], late'[r], 1) /\ InOrder(r)'
        /\ r \in Streams => Len(told'[r]) = Len(told[r]) + 1
    <2>1. 0 \in 0..2 /\ "submitted" \in Told1 /\ Rank["submitted"] = 1
      BY <1>0, <1>2
    <2>2. UpTo(told'[r], late'[r], Rank["submitted"])
      BY <1>1, <1>2, <2>1, ToldAdds
    <2> QED BY <1>1, <1>2, <2>1, <2>2, ToldAdds
  <1>4. TypeOK'
    BY <1>1, <1>3 DEF IInv, TypeOK, Statuses, Points, Busy, Entries, Told1
  <1>5. tasks'[IdOf[r]] = "working" /\ pc'[r] = "working"
    BY <1>0, <1>1 DEF IInv, TypeOK
  <1>6. Good(r)'
    <2>1. UpTo(told'[r], late'[r], 2)
      BY <1>3, UpToMore
    <2>2. r \in Streams \cup Webhooks
      BY <1>1 DEF IInv, Good, PlainSkips
    <2>3. r \in Streams => Len(told'[r]) = 1
      BY <1>1, <1>3
    <2> QED BY <1>3, <1>5, <2>1, <2>2, <2>3, Ranks DEF Good, StoredIs, ToldBefore, AllTold, PlainSkips
  <1>7. Apart(r) /\ \A q \in Requests \ {r} : Good(q)'
    <2>1. Apart(r)
      BY <1>1, <1>3, A2ATasksAssumption DEF Apart, IInv, TypeOK
    <2> QED BY <2>1, OthersKept
  <1> QED BY <1>4, <1>6, <1>7 DEF IInv

\* The client was told of the working status; nothing is stored.
LEMMA InvokeKeeps ==
  ASSUME IInv, NEW r \in Requests, Invoke(r)
  PROVE  IInv'
  <1>0. IdOf[r] \in TaskIds /\ "working" \in Told1
    BY A2ATasksAssumption DEF Statuses, Told1
  <1>1. /\ pc[r] = "working" /\ pc' = [pc EXCEPT ![r] = "tool"]
        /\ tasks' = tasks /\ outcome' = outcome /\ Tells(r, "working")
        /\ Alone(r) => tasks[IdOf[r]] = "working"
    BY DEF Invoke, GoesTo, IInv, Good, StoredIs
  <1>2. UpTo(told[r], late[r], 1) /\ Rank["working"] = 1 + 1
    BY <1>1, Ranks DEF IInv, Good, ToldBefore
  <1>3. /\ told' \in [Requests -> Seq(Entries)] /\ late' \in [Requests -> SUBSET Told1]
        /\ \A q \in Requests \ {r} : told'[q] = told[q] /\ late'[q] = late[q]
        /\ UpTo(told'[r], late'[r], 2) /\ InOrder(r)'
        /\ r \in Streams => Len(told'[r]) = Len(told[r]) + 1
    <2>1. 1 \in 0..2 /\ "working" \in Told1 /\ Rank["working"] = 2
      BY <1>0, <1>2
    <2>2. UpTo(told'[r], late'[r], Rank["working"])
      BY <1>1, <1>2, <2>1, ToldAdds
    <2> QED BY <1>1, <1>2, <2>1, <2>2, ToldAdds
  <1>4. TypeOK'
    BY <1>1, <1>3 DEF IInv, TypeOK, Statuses, Points, Busy, Entries, Told1
  <1>5. pc'[r] = "tool" /\ (Alone(r)' => tasks'[IdOf[r]] = "working")
    BY <1>1, SelfAlone DEF IInv
  <1>6. Good(r)'
    <2>1. r \in Streams \cup Webhooks
      BY <1>1 DEF IInv, Good, PlainSkips
    <2>2. ASSUME r \in Streams PROVE Len(told'[r]) = 2
      <3>1. Len(told[r]) = 1
        BY <1>1, <2>2 DEF IInv, Good, AllTold
      <3> QED BY <1>3, <2>2, <3>1
    <2> QED BY <1>3, <1>5, <2>1, <2>2, Ranks DEF Good, StoredIs, ToldBefore, AllTold, PlainSkips
  <1>7. Apart(r) /\ \A q \in Requests \ {r} : Good(q)'
    <2>1. Apart(r)
      BY <1>1, <1>3, A2ATasksAssumption DEF Apart, IInv, TypeOK
    <2> QED BY <2>1, OthersKept
  <1> QED BY <1>4, <1>6, <1>7 DEF IInv

\* A plain request stores working at once and tells nobody.
LEMMA HandleKeeps ==
  ASSUME IInv, NEW r \in Requests, Handle(r)
  PROVE  IInv'
  <1>0. IdOf[r] \in TaskIds
    BY A2ATasksAssumption
  <1>1. /\ pc[r] = "new" /\ pc' = [pc EXCEPT ![r] = "tool"]
        /\ tasks' = [tasks EXCEPT ![IdOf[r]] = "working"]
        /\ outcome' = outcome /\ told' = told /\ late' = late
        /\ r \notin Streams \cup Webhooks
    BY DEF Handle, GoesTo, Store
  <1>2. TypeOK'
    BY <1>1 DEF IInv, TypeOK, Statuses, Points, Busy
  <1>3. tasks'[IdOf[r]] = "working" /\ pc'[r] = "tool" /\ told'[r] = <<>> /\ late'[r] = {}
    BY <1>0, <1>1 DEF IInv, TypeOK, Good, ToldBefore
  <1>4. Good(r)'
    BY <1>1, <1>3 DEF Good, StoredIs, ToldBefore, UpTo, InOrder, Rising, AllTold, PlainSkips
  <1>5. Apart(r) /\ \A q \in Requests \ {r} : Good(q)'
    <2>1. Apart(r)
      BY <1>1, A2ATasksAssumption DEF Apart, IInv, TypeOK
    <2> QED BY <2>1, OthersKept
  <1> QED BY <1>2, <1>4, <1>5 DEF IInv

\* The final status is stored; a plain request returns it in the same step.
LEMMA ToolEndsKeeps ==
  ASSUME IInv, NEW r \in Requests, NEW s \in Final, ToolEnds(r, s)
  PROVE  IInv'
  <1>0. IdOf[r] \in TaskIds /\ s \in Told1 /\ Rank[s] = 3
    BY A2ATasksAssumption, Ranks DEF Statuses, Final, Told1
  <1>1. /\ pc[r] = "tool" /\ tasks' = [tasks EXCEPT ![IdOf[r]] = s]
        /\ outcome' = [outcome EXCEPT ![r] = s] /\ late' = late
    BY DEF ToolEnds, Report, GoesTo, Store
  <1>2. tasks'[IdOf[r]] = s /\ outcome'[r] = s
    BY <1>0, <1>1 DEF IInv, TypeOK
  <1>3. Good(r) /\ UpTo(told[r], late[r], 2)
    BY <1>1 DEF IInv, Good, ToldBefore
  <1>4. CASE r \in Streams \cup Webhooks
    <2>1. pc' = [pc EXCEPT ![r] = "final"] /\ told' = told
      BY <1>4 DEF ToolEnds, Report, GoesTo
    <2>2. TypeOK'
      BY <1>0, <1>1, <2>1 DEF IInv, TypeOK, Points, Busy, Told1
    <2>3. pc'[r] = "final"
      BY <2>1 DEF IInv, TypeOK
    <2>4. Good(r)'
      <3>1. UpTo(told'[r], late'[r], 3) /\ UpTo(told'[r], late'[r], 2)
        <4>1. UpTo(told[r], late[r], 3)
          BY <1>3, KnownRanks, UpToMore DEF IInv
        <4> QED BY <1>1, <1>3, <2>1, <4>1
      <3>2. InOrder(r)' /\ AllTold(r)'
        BY <1>1, <1>3, <2>1, <2>3 DEF Good, InOrder, Rising, AllTold
      <3> QED BY <1>0, <1>2, <1>4, <2>3, <3>1, <3>2 DEF Good, StoredIs, ToldBefore, PlainSkips
    <2>5. Apart(r) /\ \A q \in Requests \ {r} : Good(q)'
      <3>1. Apart(r)
        BY <1>1, <2>1, A2ATasksAssumption DEF Apart, IInv, TypeOK
      <3> QED BY <3>1, OthersKept
    <2> QED BY <2>2, <2>4, <2>5 DEF IInv
  <1>5. CASE r \notin Streams \cup Webhooks
    <2>1. /\ pc' = [pc EXCEPT ![r] = "over"] /\ told[r] = <<>> /\ late[r] = {}
          /\ told' = [told EXCEPT ![r] = Append(told[r], Told(s, FALSE))]
      BY <1>1, <1>3, <1>5 DEF ToolEnds, Report, GoesTo, Good, PlainSkips, InOrder
    <2> DEFINE e == Told(s, FALSE)
    <2>2. e \in Entries /\ e.status = s /\ e.late = FALSE
      BY <1>0 DEF Told, Entries
    <2> HIDE DEF e
    <2>3. /\ DOMAIN told'[r] = {1} /\ told'[r][1] = e /\ told'[r] \in Seq(Entries)
          /\ pc'[r] = "over" /\ late'[r] = {}
      <3>1. told'[r] = Append(told[r], e) /\ pc'[r] = "over" /\ late'[r] = {}
        BY <1>1, <2>1 DEF IInv, TypeOK, e
      <3>2. told'[r] = <<e>>
        BY <2>1, <3>1
      <3> QED BY <2>2, <3>1, <3>2
    <2>6. TypeOK'
      <3>1. told' \in [Requests -> Seq(Entries)]
        BY <2>1, <2>3 DEF IInv, TypeOK, Entries, Told1, e
      <3>2. pc' \in [Requests -> Points] /\ late' = late
        BY <1>1, <2>1 DEF IInv, TypeOK, Points
      <3> QED BY <1>0, <1>1, <3>1, <3>2 DEF IInv, TypeOK, Entries, Told1
    <2>4. Good(r)'
      BY <1>0, <1>2, <1>5, <2>2, <2>3, A2ATasksAssumption
         DEF Good, StoredIs, ToldBefore, UpTo, InOrder, Rising, AllTold, PlainSkips
    <2>5. Apart(r) /\ \A q \in Requests \ {r} : Good(q)'
      <3>1. Apart(r)
        BY <1>1, <2>1, A2ATasksAssumption DEF Apart, IInv, TypeOK
      <3> QED BY <3>1, OthersKept
    <2> QED BY <2>4, <2>5, <2>6 DEF IInv
  <1> QED BY <1>4, <1>5

\* The final status goes out.
LEMMA FinishKeeps ==
  ASSUME IInv, NEW r \in Requests, Finish(r)
  PROVE  IInv'
  <1>0. IdOf[r] \in TaskIds
    BY A2ATasksAssumption
  <1>1. /\ pc[r] = "final" /\ pc' = [pc EXCEPT ![r] = "over"]
        /\ tasks' = tasks /\ outcome' = outcome /\ Tells(r, outcome[r])
        /\ outcome[r] \in Final /\ (Alone(r) => tasks[IdOf[r]] = outcome[r])
    BY DEF Finish, GoesTo, IInv, Good, StoredIs
  <1>2. outcome[r] \in Told1 /\ Rank[outcome[r]] = 2 + 1 /\ UpTo(told[r], late[r], 2)
    BY <1>1, Ranks DEF Statuses, Final, Told1, IInv, Good, ToldBefore
  <1>3. /\ told' \in [Requests -> Seq(Entries)] /\ late' \in [Requests -> SUBSET Told1]
        /\ \A q \in Requests \ {r} : told'[q] = told[q] /\ late'[q] = late[q]
        /\ UpTo(told'[r], late'[r], 3) /\ InOrder(r)'
        /\ r \in Streams => Len(told'[r]) = Len(told[r]) + 1
    <2>1. 2 \in 0..2 /\ Rank[outcome[r]] = 3
      BY <1>2
    <2>2. UpTo(told'[r], late'[r], Rank[outcome[r]])
      BY <1>1, <1>2, <2>1, ToldAdds
    <2> QED BY <1>1, <1>2, <2>1, <2>2, ToldAdds
  <1>4. TypeOK'
    BY <1>1, <1>3 DEF IInv, TypeOK, Points, Entries, Told1
  <1>5. pc'[r] = "over" /\ (Alone(r)' => tasks'[IdOf[r]] = outcome'[r])
    BY <1>1, SelfAlone DEF IInv
  <1>6. Good(r)'
    <2>1. ASSUME r \in Streams PROVE Len(told'[r]) = 3
      <3>1. Len(told[r]) = 2
        BY <1>1, <2>1 DEF IInv, Good, AllTold
      <3> QED BY <1>3, <2>1, <3>1
    <2> QED BY <1>1, <1>2, <1>3, <1>5, <2>1 DEF Good, StoredIs, ToldBefore, AllTold, PlainSkips
  <1>7. Apart(r) /\ \A q \in Requests \ {r} : Good(q)'
    <2>1. Apart(r)
      BY <1>1, <1>3, A2ATasksAssumption DEF Apart, IInv, TypeOK
    <2> QED BY <2>1, OthersKept
  <1> QED BY <1>4, <1>6, <1>7 DEF IInv

\* Whoever leaves leaves what is stored as it is, and may still be told what
\* was going out.
LEMMA LeaveKeeps ==
  ASSUME IInv, NEW r \in Requests, Leave(r)
  PROVE  IInv'
  <1>1. /\ pc' = [pc EXCEPT ![r] = "left"] /\ pc[r] \in Busy
        /\ tasks' = tasks /\ outcome' = outcome
    BY DEF Leave
  <1>2. pc'[r] = "left" /\ Alone(r)' = Alone(r) /\ IdOf[r] \in TaskIds
    BY <1>1, SelfAlone, A2ATasksAssumption DEF IInv
  <1>3. CASE told' = told /\ late' = late
    <2>1. TypeOK'
      BY <1>1, <1>3 DEF IInv, TypeOK, Points
    <2>2. Good(r)'
      BY <1>1, <1>2, <1>3
         DEF IInv, Good, StoredIs, ToldBefore, UpTo, InOrder, Rising, AllTold, PlainSkips
    <2>3. Apart(r) /\ \A q \in Requests \ {r} : Good(q)'
      <3>1. Apart(r)
        BY <1>1, <1>3, A2ATasksAssumption DEF Apart, IInv, TypeOK
      <3> QED BY <3>1, OthersKept
    <2> QED BY <2>1, <2>2, <2>3 DEF IInv
  <1>4. CASE pc[r] # "tool" /\ Tells(r, InHand(r))
    <2> DEFINE s == InHand(r)
    <2>1. \E k \in 0..2 : /\ UpTo(told[r], late[r], k)
                         /\ Rank[s] = k + 1 /\ s \in Told1
      <3>1. CASE pc[r] = "submitted"
        <4>1. UpTo(told[r], late[r], 0) /\ s = "submitted"
          BY <3>1 DEF IInv, Good, ToldBefore, UpTo, InHand
        <4> QED BY <4>1, Ranks DEF Statuses, Told1
      <3>2. CASE pc[r] = "working"
        <4>1. UpTo(told[r], late[r], 1) /\ s = "working"
          BY <3>2 DEF IInv, Good, ToldBefore, InHand
        <4> QED BY <4>1, Ranks DEF Statuses, Told1
      <3>3. CASE pc[r] = "final"
        <4>1. UpTo(told[r], late[r], 2) /\ s = outcome[r] /\ s \in Final
          BY <3>3 DEF IInv, Good, ToldBefore, StoredIs, InHand
        <4> QED BY <4>1, Ranks DEF Statuses, Final, Told1
      <3> QED BY <1>1, <1>4, <3>1, <3>2, <3>3 DEF Busy
    <2>2. Alone(r) => Rank[s] = Rank[tasks[IdOf[r]]]
      BY <1>1, <1>4 DEF IInv, Good, StoredIs, InHand, Busy
    <2> HIDE DEF s
    <2>3. /\ told' \in [Requests -> Seq(Entries)] /\ late' \in [Requests -> SUBSET Told1]
          /\ \A q \in Requests \ {r} : told'[q] = told[q] /\ late'[q] = late[q]
          /\ UpTo(told'[r], late'[r], Rank[s]) /\ InOrder(r)'
      <3>1. Tells(r, s)
        BY <1>4 DEF s
      <3>2. PICK k \in 0..2 : /\ UpTo(told[r], late[r], k)
                              /\ Rank[s] = k + 1 /\ s \in Told1
        BY <2>1
      <3> QED BY <3>1, <3>2, ToldAdds
    <2>4. TypeOK'
      BY <1>1, <2>3 DEF IInv, TypeOK, Points, Entries, Told1
    <2>5. Good(r)'
      BY <1>1, <1>2, <2>2, <2>3 DEF Good, StoredIs, ToldBefore, AllTold, PlainSkips
    <2>6. Apart(r) /\ \A q \in Requests \ {r} : Good(q)'
      <3>1. Apart(r)
        BY <1>1, <2>3, A2ATasksAssumption DEF Apart, IInv, TypeOK
      <3> QED BY <3>1, OthersKept
    <2> QED BY <2>4, <2>5, <2>6 DEF IInv
  <1> QED BY <1>3, <1>4 DEF Leave

\* What arrives late was not told before.
LEMMA ArrivesKeeps ==
  ASSUME IInv, NEW r \in Requests, NEW s \in Statuses, Arrives(r, s)
  PROVE  IInv'
  <1> DEFINE e == Told(s, TRUE)
  <1>1. /\ s \in late[r] /\ told' = [told EXCEPT ![r] = Append(told[r], e)]
        /\ late' = [late EXCEPT ![r] = late[r] \ {s}]
        /\ tasks' = tasks /\ pc' = pc /\ outcome' = outcome
    BY DEF Arrives
  <1>2. Good(r) /\ TypeOK
    BY DEF IInv
  <1>3. e \in Entries /\ e.status = s /\ e.late = TRUE /\ r \in Webhooks
    BY <1>1, <1>2 DEF Told, Entries, TypeOK, Told1, Good, InOrder
  <1> HIDE DEF e
  <1>4. told'[r] = Append(told[r], e) /\ late'[r] = late[r] \ {s}
    BY <1>1, <1>2 DEF TypeOK
  <1>5. \A n \in DOMAIN told[r] : Rank[told[r][n].status] # Rank[e.status]
    BY <1>1, <1>2, <1>3 DEF Good, InOrder
  <1>6. /\ told'[r] \in Seq(Entries) /\ Rising(told'[r])
        /\ \A n \in DOMAIN told'[r] : told'[r][n] = e \/ \E m \in DOMAIN told[r] : told'[r][n] = told[r][m]
    BY <1>2, <1>3, <1>4, <1>5, KnownRanks, OneEntryMore DEF Good, InOrder
  <1>7. TypeOK'
    <2>1. told' \in [Requests -> Seq(Entries)]
      BY <1>1, <1>2, <1>4, <1>6 DEF TypeOK, Entries, Told1
    <2>2. late' \in [Requests -> SUBSET Told1]
      BY <1>1, <1>2 DEF TypeOK, Told1
    <2> QED BY <1>1, <1>2, <2>1, <2>2 DEF TypeOK, Entries, Told1
  <1>8. \A k : UpTo(told[r], late[r], k) => UpTo(told'[r], late'[r], k)
    BY <1>1, <1>3, <1>4, <1>6 DEF UpTo
  <1>9. InOrder(r)'
    <2>1. ASSUME NEW n \in DOMAIN told'[r], NEW u \in late'[r]
          PROVE  Rank[told'[r][n].status] # Rank[u]
      BY <1>1, <1>2, <1>3, <1>4, <1>6 DEF Good, InOrder
    <2>2. \A u, v \in late'[r] : Rank[u] = Rank[v] => u = v
      BY <1>2, <1>4 DEF Good, InOrder
    <2> QED BY <1>3, <1>6, <2>1, <2>2 DEF InOrder
  <1>10. pc[r] \notin {"new", "submitted"} /\ Alone(r)' = Alone(r)
    BY <1>1, <1>2 DEF Good, ToldBefore, Alone
  <1>11. r \notin Streams
    BY <1>3, A2ATasksAssumption
  <1>12. Good(r)'
    BY <1>1, <1>2, <1>3, <1>8, <1>9, <1>10, <1>11
       DEF Good, StoredIs, ToldBefore, AllTold, PlainSkips
  <1>13. \A q \in Requests \ {r} : Good(q)'
    <2>1. Apart(r)
      BY <1>1, <1>2, <1>10 DEF Apart, TypeOK
    <2> QED BY <2>1, OthersKept
  <1> QED BY <1>7, <1>12, <1>13 DEF IInv

\* The inductive invariant of the A2A adapter, for any requests.
THEOREM Invariance == Spec => []IInv
  <1>1. IInv /\ [Next]_vars => IInv'
    <2> SUFFICES ASSUME IInv, [Next]_vars PROVE IInv'
      OBVIOUS
    <2>1. ASSUME NEW r \in Requests, Submit(r) \/ Handle(r) \/ Advance(r) \/ Leave(r)
          PROVE  IInv'
      BY <2>1, SubmitKeeps, HandleKeeps, WorkKeeps, InvokeKeeps, ToolEndsKeeps,
         FinishKeeps, LeaveKeeps DEF Advance
    <2>2. ASSUME NEW r \in Requests, NEW s \in Statuses, Arrives(r, s)
          PROVE  IInv'
      BY <2>2, ArrivesKeeps
    <2>3. CASE UNCHANGED vars
      <3>1. tasks' = tasks /\ pc' = pc /\ outcome' = outcome /\ told' = told /\ late' = late
        BY <2>3 DEF vars
      <3>2. TypeOK'
        BY <3>1 DEF IInv, TypeOK
      <3>3. ASSUME NEW r \in Requests PROVE Good(r)'
        <4>1. Good(r) /\ Alone(r)' = Alone(r)
          BY <3>1 DEF IInv, Alone
        <4> QED BY <3>1, <4>1 DEF Good, StoredIs, ToldBefore, UpTo,
                                  InOrder, Rising, AllTold, PlainSkips
      <3> QED BY <3>2, <3>3 DEF IInv
    <2> QED BY <2>1, <2>2, <2>3 DEF Next
  <1> QED BY <1>1, InitIInv, PTL DEF Spec

-----------------------------------------------------------------------------
(* What follows                                                            *)

\* Every variable keeps its type.
THEOREM TypeCorrect == Spec => []TypeOK
  <1>1. IInv => TypeOK
    BY DEF IInv
  <1> QED BY <1>1, Invariance, PTL

\* A client that is alone with its task id is never told, in time or late, of
\* a state that is not yet stored (stream_task and handle_task store first).
THEOREM ToldIsStored == Spec => []ReportedIsStored
  <1>1. IInv => ReportedIsStored
    BY DEF IInv, Good, ToldBefore, UpTo, ReportedIsStored
  <1> QED BY <1>1, Invariance, PTL

\* Clients are told no state twice, and in time only news, whatever webhooks
\* are lost or late; a stream is told everything, and the end of it is the
\* stored one as long as nobody else uses its id.
THEOREM OrderIsKept == Spec => []ToldInOrder
  <1>1. IInv => ToldInOrder
    BY DEF IInv, Good, StoredIs, InOrder, Rising, AllTold, ToldInOrder
  <1> QED BY <1>1, Invariance, PTL

\* No step of stream_task or handle_task takes a stored status back or from
\* one end to the other, unless two requests have been begun under its id.
THEOREM StatesGoForward == Spec => StateSequence
  <1> DEFINE Shared(i) == \E q, r \in Requests : /\ q # r /\ IdOf[q] = i /\ IdOf[r] = i
                                                 /\ pc'[q] # "new" /\ pc'[r] # "new"
             Forward(i) == \/ Rank[tasks'[i]] > Rank[tasks[i]] \/ tasks'[i] = tasks[i]
                           \/ Shared(i)
  <1>1. IInv /\ [Next]_vars => [\A i \in TaskIds : Forward(i)]_vars
    <2> SUFFICES ASSUME IInv, Next, NEW i \in TaskIds
                 PROVE  Forward(i)
      OBVIOUS
    <2>1. ASSUME NEW r \in Requests, NEW s \in Statuses, Store(r, s), pc'[r] # "new",
                 \A q \in Requests \ {r} : pc'[q] = pc[q],
                 Alone(r) => Rank[s] > Rank[tasks[IdOf[r]]]
          PROVE  Forward(i)
      <3>1. CASE i # IdOf[r]
        BY <2>1, <3>1 DEF Store, IInv, TypeOK
      <3>2. CASE i = IdOf[r] /\ Alone(r)
        BY <2>1, <3>2 DEF Store, IInv, TypeOK
      <3>3. CASE i = IdOf[r] /\ ~Alone(r)
        <4>1. PICK q \in Requests \ {r} : IdOf[q] = i /\ pc[q] # "new"
          BY <3>3 DEF Alone
        <4>2. pc'[q] # "new" /\ pc'[r] # "new"
          BY <2>1, <4>1
        <4>3. Shared(i)
          BY <3>3, <4>1, <4>2
        <4> QED BY <4>3
      <3> QED BY <3>1, <3>2, <3>3
    <2>2. ASSUME UNCHANGED tasks
          PROVE  Forward(i)
      BY <2>2
    <2> HIDE DEF Forward
    <2>3. ASSUME NEW r \in Requests, Submit(r) \/ Handle(r) \/ Advance(r) \/ Leave(r)
          PROVE  Forward(i)
      <3>1. StoredIs(r)
        BY DEF IInv, Good
      <3>2. CASE Submit(r)
        <4>1. /\ Store(r, "submitted") /\ pc' = [pc EXCEPT ![r] = "submitted"]
              /\ Alone(r) => tasks[IdOf[r]] = "none"
          BY <3>1, <3>2 DEF Submit, GoesTo, StoredIs
        <4>2. pc'[r] # "new" /\ \A q \in Requests \ {r} : pc'[q] = pc[q]
          BY <4>1 DEF IInv, TypeOK
        <4> QED BY <2>1, <4>1, <4>2, Ranks DEF Statuses
      <3>3. CASE Handle(r)
        <4>1. /\ Store(r, "working") /\ pc' = [pc EXCEPT ![r] = "tool"]
              /\ Alone(r) => tasks[IdOf[r]] = "none"
          BY <3>1, <3>3 DEF Handle, GoesTo, StoredIs
        <4>2. pc'[r] # "new" /\ \A q \in Requests \ {r} : pc'[q] = pc[q]
          BY <4>1 DEF IInv, TypeOK
        <4> QED BY <2>1, <4>1, <4>2, Ranks DEF Statuses
      <3>4. CASE Work(r)
        <4>1. /\ Store(r, "working") /\ pc' = [pc EXCEPT ![r] = "working"]
              /\ Alone(r) => tasks[IdOf[r]] = "submitted"
          BY <3>1, <3>4 DEF Work, GoesTo, StoredIs
        <4>2. pc'[r] # "new" /\ \A q \in Requests \ {r} : pc'[q] = pc[q]
          BY <4>1 DEF IInv, TypeOK
        <4> QED BY <2>1, <4>1, <4>2, Ranks DEF Statuses
      <3>5. ASSUME NEW s \in Final, ToolEnds(r, s)
            PROVE  Forward(i)
        <4>1. /\ Store(r, s) /\ \E p \in {"final", "over"} : pc' = [pc EXCEPT ![r] = p]
              /\ Alone(r) => tasks[IdOf[r]] = "working"
          BY <3>1, <3>5 DEF ToolEnds, Report, GoesTo, StoredIs
        <4>2. s \in Statuses /\ Rank[s] = 3
          BY Ranks DEF Statuses, Final
        <4>3. pc'[r] # "new" /\ \A q \in Requests \ {r} : pc'[q] = pc[q]
          BY <4>1 DEF IInv, TypeOK
        <4> QED BY <2>1, <4>1, <4>2, <4>3, Ranks
      <3>6. CASE Invoke(r) \/ Finish(r) \/ Leave(r)
        BY <2>2, <3>6 DEF Invoke, Finish, Leave
      <3> QED BY <2>3, <3>2, <3>3, <3>4, <3>5, <3>6 DEF Advance
    <2>4. ASSUME NEW r \in Requests, NEW s \in Statuses, Arrives(r, s)
          PROVE  Forward(i)
      BY <2>2, <2>4 DEF Arrives
    <2> QED BY <2>3, <2>4 DEF Next
  <1> QED BY <1>1, Invariance, PTL DEF Spec, StateSequence
=============================================================================
