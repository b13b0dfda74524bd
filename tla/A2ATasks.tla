------------------------------ MODULE A2ATasks ------------------------------
(***************************************************************************)
(* The A2A adapter (framework/a2a_adapter.py): tasks whose status an agent *)
(* follows through an SSE stream, through webhooks, or by asking.          *)
(*                                                                         *)
(* A request runs one task through stream_task, an async generator that    *)
(* stops at every yield until its consumer asks for more, or through       *)
(* handle_task, which awaits a webhook POST after every change of state    *)
(* or, without a webhook, only the tool.  All requests write the one       *)
(* dictionary _tasks, each under the id its client chose.                  *)
(*                                                                         *)
(* The tool, the consumer of the stream and the webhook receiver are       *)
(* external: a tool returns or raises, a consumer may leave, a POST is     *)
(* received in time, late or never ("fire-and-forget on error"): after 5 s *)
(* the adapter goes on, and what it has sent may still arrive, also behind *)
(* the POSTs that follow.                                                  *)
(***************************************************************************)
EXTENDS Integers, Sequences

CONSTANTS
  Requests,    (* the requests of a run, each made at most once            *)
  TaskIds,     (* ids clients choose from                                  *)
  IdOf,        (* IdOf[r]: the id request r asks for                       *)
  Streams,     (* the requests made through stream_task                    *)
  Webhooks     (* the handle_task requests with a webhook_url              *)

ASSUME A2ATasksAssumption ==
  /\ IdOf \in [Requests -> TaskIds]
  /\ Streams \subseteq Requests /\ Webhooks \subseteq Requests \ Streams

VARIABLES
  tasks,    (* _tasks[i].status, "none" for an id not in the dictionary    *)
  pc,       (* where request r stands                                      *)
  outcome,  (* outcome[r]: the status object of the end of r               *)
  told,     (* told[r]: the states the client of r was told, as they come, *)
            (* and whether each came late                                  *)
  late      (* late[r]: the states in POSTs the adapter has given up and   *)
            (* that may still arrive                                       *)

vars == <<tasks, pc, outcome, told, late>>

Final == {"completed", "failed"}
Statuses == {"none", "submitted", "working"} \cup Final

\* A request is new, busy telling its client a state it has stored, running
\* its tool, over, or abandoned.
Busy == {"submitted", "working", "tool", "final"}
Points == Busy \cup {"new", "over", "left"}

Init ==
  /\ tasks = [i \in TaskIds |-> "none"]
  /\ pc = [r \in Requests |-> "new"]
  /\ outcome = [r \in Requests |-> "none"]
  /\ told = [r \in Requests |-> <<>>]
  /\ late = [r \in Requests |-> {}]

-----------------------------------------------------------------------------
GoesTo(r, from, to) == pc[r] = from /\ pc' = [pc EXCEPT ![r] = to]

\* self._tasks[task_id] = ...
Store(r, status) == tasks' = [tasks EXCEPT ![IdOf[r]] = status]

\* An entry of told.
Told(status, behind) == [status |-> status, late |-> behind]

\* Mutant of Tells: what was not received in time is tried once more.
TellsAgain(r, status) ==
  \/ told' = [told EXCEPT ![r] = Append(@, Told(status, FALSE))] /\ UNCHANGED late
  \/ /\ r \in Webhooks
     /\ told' = [told EXCEPT ![r] = Append(@, Told(status, FALSE))]
     /\ late' = [late EXCEPT ![r] = @ \cup {status}]

\* A yielded event is taken, a POST received in time; or the POST fails or
\* times out, which is only logged.
Tells(r, status) ==
  \/ told' = [told EXCEPT ![r] = Append(@, Told(status, FALSE))] /\ UNCHANGED late
  \/ r \in Webhooks /\ UNCHANGED told /\ late' = [late EXCEPT ![r] = @ \cup {status}]

\* The submitted status is stored and goes out.
Submit(r) ==
  /\ r \in Streams \cup Webhooks
  /\ GoesTo(r, "new", "submitted")
  /\ Store(r, "submitted")
  /\ UNCHANGED <<outcome, told, late>>

\* Mutant of Work: the working status is sent but not stored.
WorkUnstored(r) ==
  /\ GoesTo(r, "submitted", "working")
  /\ Tells(r, "submitted")
  /\ UNCHANGED <<tasks, outcome>>

\* The client has been told; the working status is stored and goes out.
Work(r) ==
  /\ GoesTo(r, "submitted", "working")
  /\ Store(r, "working")
  /\ Tells(r, "submitted")
  /\ UNCHANGED outcome

\* Mutant of Invoke: the status is written once more, an old one.
InvokeStoresOld(r) ==
  /\ GoesTo(r, "working", "tool")
  /\ Store(r, "submitted")
  /\ Tells(r, "working")
  /\ UNCHANGED outcome

\* The client has been told; the tool is called.
Invoke(r) ==
  /\ GoesTo(r, "working", "tool")
  /\ Tells(r, "working")
  /\ UNCHANGED <<tasks, outcome>>

\* handle_task without a webhook awaits nothing before the tool.
Handle(r) ==
  /\ r \notin Streams \cup Webhooks
  /\ GoesTo(r, "new", "tool")
  /\ Store(r, "working")
  /\ UNCHANGED <<outcome, told, late>>

\* After the tool the final status goes out; handle_task without a webhook
\* returns it at once.
Report(r, status) ==
  IF r \in Streams \cup Webhooks
  THEN GoesTo(r, "tool", "final") /\ UNCHANGED told
  ELSE GoesTo(r, "tool", "over") /\ told' = [told EXCEPT ![r] = Append(@, Told(status, FALSE))]

\* Mutant of ToolEnds: an exception leaves the task as it was.
ToolEndsSilently(r, status) ==
  /\ Report(r, status) /\ UNCHANGED late
  /\ IF status = "completed" THEN Store(r, status) ELSE UNCHANGED tasks
  /\ outcome' = [outcome EXCEPT ![r] = status]

\* The tool returned, or raised an Exception; the final status is stored.
ToolEnds(r, status) ==
  /\ Report(r, status) /\ UNCHANGED late
  /\ Store(r, status)
  /\ outcome' = [outcome EXCEPT ![r] = status]

\* The last event or POST is the request's own status.
Finish(r) ==
  /\ GoesTo(r, "final", "over")
  /\ Tells(r, outcome[r])
  /\ UNCHANGED <<tasks, outcome>>

\* The status that is being told.
InHand(r) == IF pc[r] = "final" THEN outcome[r] ELSE pc[r]

\* The client disconnects: the generator is closed, the task cancelled, at
\* the await it is in.  Neither is an Exception, so nothing is stored; what
\* was going out may have been taken, or still arrive.
Leave(r) ==
  /\ pc[r] \in Busy
  /\ pc' = [pc EXCEPT ![r] = "left"]
  /\ \/ pc[r] # "tool" /\ Tells(r, InHand(r))
     \/ UNCHANGED <<told, late>>
  /\ UNCHANGED <<tasks, outcome>>

\* A POST that was given up arrives after all.
Arrives(r, status) ==
  /\ status \in late[r]
  /\ told' = [told EXCEPT ![r] = Append(@, Told(status, TRUE))]
  /\ late' = [late EXCEPT ![r] = @ \ {status}]
  /\ UNCHANGED <<tasks, pc, outcome>>

Advance(r) ==
  \/ Work(r)
  \/ Invoke(r)
  \/ \E status \in Final : ToolEnds(r, status)
  \/ Finish(r)

Next ==
  \E r \in Requests :
    \/ Submit(r) \/ Handle(r) \/ Advance(r) \/ Leave(r)
    \/ \E status \in Statuses : Arrives(r, status)

\* A request in progress makes progress: tools return, POSTs time out after
\* 5 s, and a consumer that has not left reads on.
Fairness == \A r \in Requests : WF_vars(Advance(r))

Spec == Init /\ [][Next]_vars
FairSpec == Spec /\ Fairness

-----------------------------------------------------------------------------
(* Properties                                                              *)

\* Every variable keeps its type.
TypeOK ==
  /\ tasks \in [TaskIds -> Statuses]
  /\ pc \in [Requests -> Points]
  /\ outcome \in [Requests -> Final \cup {"none"}]
  /\ told \in [Requests -> Seq([status : Statuses \ {"none"}, late : BOOLEAN])]
  /\ late \in [Requests -> SUBSET (Statuses \ {"none"})]

Rank == [none |-> 0, submitted |-> 1, working |-> 2, completed |-> 3, failed |-> 3]

\* No other request has been begun under the task id of r.
Alone(r) == \A q \in Requests \ {r} : IdOf[q] = IdOf[r] => pc[q] = "new"

\* Whoever asks for a task after being told of a state, by an event or by a
\* webhook, late or not, finds it in that state or a later one, as long as
\* nobody else uses its id.
ReportedIsStored ==
  \A r \in Requests : Alone(r) =>
    \A n \in DOMAIN told[r] : Rank[told[r][n].status] <= Rank[tasks[IdOf[r]]]

\* No state is told twice, and what is told in time is later than everything
\* the client has been told before: only a POST the adapter had given up can
\* come behind.  Streams are told all three states, and the end that is told
\* is the one stored, as long as nobody else uses the id.
ToldInOrder ==
  \A r \in Requests :
    /\ \A m, n \in DOMAIN told[r] : m < n =>
         /\ Rank[told[r][m].status] # Rank[told[r][n].status]
         /\ told[r][n].late \/ Rank[told[r][m].status] < Rank[told[r][n].status]
    /\ r \notin Webhooks => \A n \in DOMAIN told[r] : ~told[r][n].late
    /\ pc[r] = "over" => /\ Alone(r) => tasks[IdOf[r]] = outcome[r]
                         /\ r \in Streams => Len(told[r]) = 3

\* "State sequence: submitted -> working -> completed | failed": the stored
\* status of a task never goes back, nor from one end to the other, unless a
\* second request has been begun under its id.
StateSequence ==
  [][ \A i \in TaskIds :
        \/ Rank[tasks'[i]] > Rank[tasks[i]] \/ tasks'[i] = tasks[i]
        \/ \E q, r \in Requests : /\ q # r /\ IdOf[q] = i /\ IdOf[r] = i
                                  /\ pc'[q] # "new" /\ pc'[r] # "new" ]_vars

\* Every accepted task reaches its end, unless its client leaves or another
\* request takes its id.
TaskEnds ==
  \A r \in Requests :
    pc[r] # "new" /\ Alone(r)
      ~> pc[r] = "left" \/ tasks[IdOf[r]] \in Final \/ ~Alone(r)
=============================================================================
