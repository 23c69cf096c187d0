------------------------------ MODULE Gateway ------------------------------
(***************************************************************************)
(* How an inbound message becomes work: the gateway                        *)
(* (app/control/gateway.py), the intake of the main agent                  *)
(* (agents/main_agent/application.py) and the follow-up of                 *)
(* app/control/workflow.py, run by the request threads of one API process. *)
(*                                                                         *)
(* A channel delivers a message again until it is answered.  The gateway   *)
(* keeps the answer of a message as its receipt, written last, and does    *)
(* the work of one session's messages under a lock of the process.         *)
(*                                                                         *)
(* Coding, review and the worker, which the other modules describe, are    *)
(* the environment here: PollStarts, TaskEnds, TaskStops.  The execution   *)
(* lane, whose two-step updates ExecutionLane describes, is one object.    *)
(***************************************************************************)
EXTENDS Routing, Queues, FiniteSets

CONSTANTS
  Handlers,      \* request threads of the API process
  Messages,
  Conversations, \* what the messages may be, and where they come from
  Endpoints,     \* the configured endpoints, in their order
  Default,       \* the configured default endpoint
  AutoApprove,   \* worker auto_approve_plan
  None,
  MaxDeliveries, \* bound: deliveries of each message that no fault has undone
  MaxTasks,      \* bound: coding tasks when the worker still starts one
  MaxFaults      \* bound: crashes and exceptions

ASSUME NoneAssumption == None \notin Handlers \cup Messages
ASSUME HandlerAssumption == IsFiniteSet(Handlers)
ASSUME BoundAssumption ==
  /\ {MaxTasks, MaxFaults} \subseteq Nat
  /\ MaxDeliveries \in [Messages -> Nat]
  /\ AutoApprove \in BOOLEAN
ASSUME ConversationAssumption ==
  \A c \in Conversations : \A m \in Messages :
    c[m].channel \in {"feishu", "api"} /\ c[m].issue \in Nat

VARIABLES
  sent,       \* sent[m]: what message m is; it does not change
  deliveries, \* deliveries[m]: how often m was delivered, lost deliveries apart
  acked,      \* the messages that were answered without an error
  receipts,   \* receipts[m]: the row of inbound_receipts
  owner,      \* owner[s]: the thread that holds the lock of session s
  sessions,   \* sessions[s]: the user session's active agent and last turn
  runs,       \* the requests that have a run session
  requests,   \* the requests in the token ledger
  issues,     \* the issues on GitHub, in the order of their numbers
  tasks,      \* the control tasks of type sleep_coding, oldest first
  active,     \* the entry that owns the execution lane
  queued,     \* the entries behind it
  pc,         \* pc[h]: where thread h is
  frame,      \* frame[h]: its local variables
  broken,     \* history: attempts for m that ended after they had created something
  early,      \* history: issues whose task was started before their parent had the lane
  unrecorded, \* history: issues a task of which ended without _record_parent_result and left
              \* the parent in the lane
  faults

lane == <<active, queued>>
ledger == <<runs, requests>>
history == <<broken, early, unrecorded>>
vars == <<sent, deliveries, acked, receipts, owner, sessions, ledger, issues, tasks,
          lane, pc, frame, history, faults>>

Sessions == {sent[m].session : m \in Messages}

----------------------------------------------------------------------------
(* _build_dedupe_key: without an id of its own a message has no receipt.   *)
Keyed(m) == sent[m].message_id \/ sent[m].request_id

(* The request id the client gave, or a fresh one for every attempt.       *)
RequestId(m) ==
  IF sent[m].request_id THEN <<m, 0>> ELSE <<m, Cardinality({r \in runs : r[1] = m}) + 1>>

Routes ==
  [s \in UNION {{c[m] : m \in Messages} : c \in Conversations} |->
     RouteOf(s.says, BindingOf(Endpoints, EndpointOf(Endpoints, s.endpoint, s.source, s.refs, Default)))]

RouteTo(m) == Routes[sent[m]]

(* The lane knows control tasks: the parent of an issue, a coding task.    *)
Parent(i) == <<"parent", i>>
Child(k) == <<"task", k>>
Nobody == <<"none", 0>>

NoReceipt == [request |-> <<None, 0>>, task |-> Nobody, state |-> "none"]

NoFrame == [msg |-> None, request |-> <<None, 0>>, user |-> None, issue |-> 0, task |-> Nobody,
            state |-> "none", cached |-> FALSE, seen |-> "none"]

(* A parent task that find_parent_for_issue finds.                         *)
HasParent(i) == i \in 1..Len(issues) /\ issues[i].parent

(* A coding task that is at its end: completed, failed, needs_attention.   *)
(* Nothing here depends on which of them it is.                            *)
Over(k) == tasks[k].status = "over"

(* _build_main_agent_output: the model answers as it likes; when it is not *)
(* configured or not reached the keywords decide.                          *)
Modes(m) == IF sent[m].model THEN {"chat", "coding_handoff"} ELSE {KeywordMode(sent[m].says)}

(* _resolve_chain_context: a message about an issue that the intake        *)
(* created belongs to the user session of that issue.                      *)
UserSession(m) ==
  LET i == sent[m].issue
  IN IF RouteTo(m).intent = "sleep_coding" /\ HasParent(i)
     THEN sent[issues[i].msg].session ELSE sent[m].session

(* set_active_agent, record_session_turn: the payload is merged.           *)
WithAgent(s, agent) == [sessions EXCEPT ![s].agent = agent]

WithTurn(s, turn) == [sessions EXCEPT ![s].turn = turn]

(* get_or_create_session: one run session per request id.                  *)
WithRun(request) == runs \cup {request}

----------------------------------------------------------------------------
Init ==
  /\ sent \in Conversations
  /\ deliveries = [m \in Messages |-> 0]
  /\ acked = {}
  /\ receipts = [m \in Messages |-> NoReceipt]
  /\ owner = [s \in Sessions |-> None]
  /\ sessions = [s \in Sessions |-> [agent |-> "none", turn |-> NoReceipt]]
  /\ runs = {}
  /\ requests = {}
  /\ issues = <<[msg |-> None, parent |-> FALSE]>>
  /\ tasks = <<>>
  /\ active = Nobody
  /\ queued = <<>>
  /\ pc = [h \in Handlers |-> "idle"]
  /\ frame = [h \in Handlers |-> NoFrame]
  /\ broken = [m \in Messages |-> 0]
  /\ early = {}
  /\ unrecorded = {}
  /\ faults = 0

GoTo(h, where) == pc' = [pc EXCEPT ![h] = where]

(* Steps that touch neither the channel nor the session lock.              *)
SameMessage == UNCHANGED <<sent, deliveries, acked, receipts, owner, history, faults>>

SameWork == UNCHANGED <<sessions, ledger, issues, tasks, lane>>

Lane == Elements(queued) \cup {active}

(* acquire_execution_lane.                                                 *)
Granted(e) == active \in {Nobody, e}

EnterLane(e) ==
  /\ active' = IF Granted(e) THEN e ELSE active
  /\ queued' = IF Granted(e) THEN Without(queued, e)
               ELSE IF e \in Elements(queued) THEN queued ELSE Append(queued, e)

(* The rows of the lane after release_execution_lane(e), if e is in it.    *)
Left(rows, e) ==
  IF rows[1] = e
  THEN IF rows[2] = <<>> THEN <<Nobody, <<>>>> ELSE <<Head(rows[2]), Tail(rows[2])>>
  ELSE <<rows[1], Without(rows[2], e)>>

LeftIn(i) == IF Parent(i) \in Lane THEN unrecorded \cup {i} ELSE unrecorded

(* Mutant: the parent stays in the lane.                                   *)
ReleasedChild(k) == Left(<<active, queued>>, Child(k))

(* _record_parent_result: a coding task, then its parent.                  *)
Released(k) ==
  LET own == Left(<<active, queued>>, Child(k))
  IN IF tasks[k].parent THEN Left(own, Parent(tasks[k].issue)) ELSE own

----------------------------------------------------------------------------
(* The message arrives; a receipt answers it at once.                      *)
Receive(h, m) ==
  /\ pc[h] = "idle"
  /\ m \notin acked
  /\ deliveries[m] < MaxDeliveries[m]
  /\ deliveries' = [deliveries EXCEPT ![m] = @ + 1]
  /\ LET r == receipts[m]
         fresh == [NoFrame EXCEPT !.msg = m]
     IN IF r # NoReceipt
        THEN /\ frame' = [frame EXCEPT ![h] = [fresh EXCEPT !.cached = TRUE, !.task = r.task,
                                                            !.state = r.state]]
             /\ GoTo(h, "answered")
        ELSE frame' = [frame EXCEPT ![h] = fresh] /\ GoTo(h, "lock")
  /\ UNCHANGED <<sent, acked, receipts, owner, history, faults>> /\ SameWork

(* Mutant: every request has a lock of its own.                            *)
LockAlone(h) ==
  LET m == frame[h].msg
  IN /\ pc[h] = "lock"
     /\ receipts[m] = NoReceipt
     /\ owner' = [owner EXCEPT ![sent[m].session] = h]
     /\ GoTo(h, "open")
     /\ UNCHANGED <<sent, deliveries, acked, receipts, frame, history, faults>> /\ SameWork

(* Mutant: the receipt is not looked up again.                             *)
LockUnchecked(h) ==
  /\ pc[h] = "lock"
  /\ owner[sent[frame[h].msg].session] = None
  /\ owner' = [owner EXCEPT ![sent[frame[h].msg].session] = h]
  /\ GoTo(h, "open")
  /\ UNCHANGED <<sent, deliveries, acked, receipts, frame, history, faults>> /\ SameWork

(* The session's lock is free: a second look at the receipts.              *)
Lock(h) ==
  LET m == frame[h].msg
      r == receipts[m]
  IN /\ pc[h] = "lock"
     /\ owner[sent[m].session] = None
     /\ IF r # NoReceipt
        THEN /\ frame' = [frame EXCEPT ![h].cached = TRUE, ![h].task = r.task, ![h].state = r.state]
             /\ GoTo(h, "answered")
             /\ owner' = owner
        ELSE /\ owner' = [owner EXCEPT ![sent[m].session] = h]
             /\ GoTo(h, "open")
             /\ frame' = frame
     /\ UNCHANGED <<sent, deliveries, acked, receipts, history, faults>> /\ SameWork

(* _ensure_sessions, and the handler of the route; a question about tokens *)
(* is answered from the ledger.                                            *)
OpenSessions(h) ==
  LET m == frame[h].msg
      route == RouteTo(m)
      opened == [frame EXCEPT ![h].user = UserSession(m), ![h].request = RequestId(m)]
  IN /\ pc[h] = "open"
     /\ sessions' = WithAgent(UserSession(m), route.agent)
     /\ runs' = WithRun(RequestId(m))
     /\ IF route.intent = "stats_query"
        THEN frame' = [opened EXCEPT ![h].state = "completed"] /\ GoTo(h, "record")
        ELSE frame' = opened /\ GoTo(h, IF route.agent = "ralph" THEN "direct" ELSE "intake")
     /\ SameMessage
     /\ UNCHANGED <<requests, issues, tasks, lane>>

----------------------------------------------------------------------------
(* MainAgentService.intake answers the message itself ...                  *)
Chat(h) ==
  /\ pc[h] = "intake"
  /\ "chat" \in Modes(frame[h].msg)
  /\ sessions' = WithAgent(sent[frame[h].msg].session, "main-agent")
  /\ frame' = [frame EXCEPT ![h].state = "completed"]
  /\ GoTo(h, "record")
  /\ SameMessage
  /\ UNCHANGED <<ledger, issues, tasks, lane>>

(* ... or opens an issue: _create_issue, a tool call of the MCP client.    *)
CreateIssue(h) ==
  /\ pc[h] = "intake"
  /\ "coding_handoff" \in Modes(frame[h].msg)
  /\ sessions' = WithAgent(sent[frame[h].msg].session, "main-agent")
  /\ issues' = Append(issues, [msg |-> frame[h].msg, parent |-> FALSE])
  /\ frame' = [frame EXCEPT ![h].issue = Len(issues) + 1]
  /\ GoTo(h, "parent")
  /\ SameMessage
  /\ UNCHANGED <<ledger, tasks, lane>>

(* The parent task is committed; then the issue is announced, which may    *)
(* fail (Fail) and leaves no trace.                                        *)
CreateParent(h) ==
  /\ pc[h] = "parent"
  /\ issues' = [issues EXCEPT ![frame[h].issue].parent = TRUE]
  /\ GoTo(h, "enter")
  /\ frame' = frame
  /\ SameMessage
  /\ UNCHANGED <<sessions, ledger, tasks, lane>>

(* _handle_general: the parent task asks for the lane.                     *)
EnterAsParent(h) ==
  LET e == Parent(frame[h].issue)
  IN /\ pc[h] = "enter"
     /\ EnterLane(e)
     /\ frame' = [frame EXCEPT ![h].task = e,
                               ![h].state = IF Granted(e) THEN "accepted" ELSE "queued"]
     /\ early' = IF \E k \in 1..Len(tasks) : tasks[k].issue = frame[h].issue
                 THEN early \cup {frame[h].issue} ELSE early
     /\ GoTo(h, "record")
     /\ UNCHANGED <<sent, deliveries, acked, receipts, owner, broken, unrecorded, faults, sessions, ledger,
                    issues, tasks>>

----------------------------------------------------------------------------
(* _handle_sleep_coding.                                                   *)
CheckBusy(h) ==
  /\ pc[h] = "direct"
  /\ IF active # Nobody
     THEN frame' = [frame EXCEPT ![h].state = "running"] /\ GoTo(h, "record")
     ELSE IF sent[frame[h].msg].issue = 0
          THEN frame' = [frame EXCEPT ![h].state = "completed"] /\ GoTo(h, "record")
          ELSE frame' = frame /\ GoTo(h, "start")
  /\ SameMessage /\ SameWork

(* start_task: the control task is committed first, the plan made later.   *)
StartTask(h) ==
  LET i == sent[frame[h].msg].issue
  IN /\ pc[h] = "start"
     /\ i \in 1..Len(issues)
     /\ tasks' = Append(tasks, [issue |-> i, parent |-> HasParent(i), status |-> "created"])
     /\ frame' = [frame EXCEPT ![h].task = Child(Len(tasks) + 1)]
     /\ GoTo(h, "plan")
     /\ SameMessage
     /\ UNCHANGED <<sessions, ledger, issues, lane>>

PlanReady(h) ==
  /\ pc[h] = "plan"
  /\ tasks' = [tasks EXCEPT ![frame[h].task[2]].status = "awaiting_confirmation"]
  /\ GoTo(h, "enter_direct")
  /\ frame' = frame
  /\ SameMessage
  /\ UNCHANGED <<sessions, ledger, issues, lane>>

(* The lane's decision is not looked at.                                   *)
EnterAsTask(h) ==
  /\ pc[h] = "enter_direct"
  /\ EnterLane(frame[h].task)
  /\ frame' = [frame EXCEPT ![h].state = "accepted"]
  /\ GoTo(h, "record")
  /\ SameMessage
  /\ UNCHANGED <<sessions, ledger, issues, tasks>>

----------------------------------------------------------------------------
(* _record_routing_failure writes an event on the task id it is given: the *)
(* domain id of a coding task, which is no control task.                   *)
RefusalRaises(h) == RouteTo(frame[h].msg).refused /\ frame[h].task[1] = "task"

RequestIsKnown(h) == frame[h].request \in requests

(* TokenLedgerService.record_request: one transaction, plain inserts.      *)
RecordRequest(h) ==
  /\ pc[h] = "record"
  /\ ~RefusalRaises(h)
  /\ ~RequestIsKnown(h)
  /\ requests' = requests \cup {frame[h].request}
  /\ GoTo(h, "turn")
  /\ frame' = frame
  /\ SameMessage
  /\ UNCHANGED <<sessions, runs, issues, tasks, lane>>

Answer(h) == [request |-> frame[h].request, task |-> frame[h].task, state |-> frame[h].state]

(* Mutant: the answer "queued" is not kept.                                *)
RecordAnswerUnqueued(h) ==
  LET m == frame[h].msg
  IN /\ pc[h] = "turn"
     /\ sessions' = WithTurn(frame[h].user, Answer(h))
     /\ receipts' = IF Keyed(m) /\ frame[h].state # "queued"
                    THEN [receipts EXCEPT ![m] = Answer(h)] ELSE receipts
     /\ owner' = [owner EXCEPT ![sent[m].session] = None]
     /\ GoTo(h, "answered")
     /\ frame' = frame
     /\ UNCHANGED <<sent, deliveries, acked, history, faults, ledger, issues, tasks, lane>>

(* _record_session_turn, record_inbound_receipt; the lock is given back.   *)
RecordAnswer(h) ==
  LET m == frame[h].msg
  IN /\ pc[h] = "turn"
     /\ sessions' = WithTurn(frame[h].user, Answer(h))
     /\ receipts' = IF Keyed(m) THEN [receipts EXCEPT ![m] = Answer(h)] ELSE receipts
     /\ owner' = [owner EXCEPT ![sent[m].session] = None]
     /\ GoTo(h, "answered")
     /\ frame' = frame
     /\ UNCHANGED <<sent, deliveries, acked, history, faults, ledger, issues, tasks, lane>>

----------------------------------------------------------------------------
(* GatewayWorkflowService.run, continue_gateway_workflow: a direct task is *)
(* approved at once when the configuration says so.  The poll that follows *)
(* a general message is PollStarts; /gateway/message has no follow-up.     *)
Approves(h) ==
  /\ sent[frame[h].msg].channel = "feishu"
  /\ frame[h].state \notin {"queued", "running"}
  /\ RouteTo(frame[h].msg).intent = "sleep_coding"
  /\ frame[h].task # Nobody
  /\ AutoApprove

Leave(h) == GoTo(h, "idle") /\ frame' = [frame EXCEPT ![h] = NoFrame]

Acknowledge(h) == acked' = acked \cup {frame[h].msg} /\ Leave(h)

Reply(h) ==
  /\ pc[h] = "answered"
  /\ ~Approves(h)
  /\ Acknowledge(h)
  /\ UNCHANGED <<sent, deliveries, receipts, owner, history, faults>> /\ SameWork

(* apply_action("approve_plan") reads the status ...                       *)
ReadStatus(h) ==
  /\ pc[h] = "answered"
  /\ Approves(h)
  /\ frame' = [frame EXCEPT ![h].seen = tasks[frame[h].task[2]].status]
  /\ GoTo(h, "approve")
  /\ SameMessage /\ SameWork

(* ... and decides by what it read, whatever the status is by now.  A      *)
(* validation that fails ends the task; a failure of the coding, and a     *)
(* refusal like one, ends it and is raised.  RalphTask has the steps in    *)
(* between.                                                                *)
Approve(h) ==
  LET k == frame[h].task[2]
      asked == frame[h].seen = "awaiting_confirmation"
  IN /\ pc[h] = "approve"
     /\ \/ /\ asked
           /\ tasks' = [tasks EXCEPT ![k].status = "in_review"]
           /\ unrecorded' = unrecorded
           /\ Acknowledge(h)
        \/ /\ tasks' = [tasks EXCEPT ![k].status = "over"]
           /\ unrecorded' = LeftIn(tasks[k].issue)
           /\ \/ asked /\ Acknowledge(h)
              \/ acked' = acked /\ Leave(h)
     /\ UNCHANGED <<sent, deliveries, receipts, owner, broken, early, faults, sessions, ledger, issues, lane>>

----------------------------------------------------------------------------
(* Errors.  An exception leaves the request without an answer and frees    *)
(* the session's lock; what was done stays done.                           *)
Locked(h) == pc[h] \notin {"idle", "lock", "answered", "approve"}

Made(h) == Locked(h) /\ (frame[h].issue # 0 \/ frame[h].task # Nobody)

(* Mutant: an exception leaves the session locked.                         *)
AbandonLocked(h) ==
  /\ owner' = owner
  /\ broken' = IF Made(h) THEN [broken EXCEPT ![frame[h].msg] = @ + 1] ELSE broken
  /\ Leave(h)
  /\ UNCHANGED <<sent, acked, receipts, early, unrecorded>> /\ SameWork

Abandon(h) ==
  /\ owner' = [s \in Sessions |-> IF owner[s] = h THEN None ELSE owner[s]]
  /\ broken' = IF Made(h) THEN [broken EXCEPT ![frame[h].msg] = @ + 1] ELSE broken
  /\ Leave(h)
  /\ UNCHANGED <<sent, acked, receipts, early, unrecorded>> /\ SameWork

(* An issue that does not exist, the refused route of a direct task, the   *)
(* recorded request id.                                                    *)
Raise(h) ==
  /\ \/ pc[h] = "start" /\ sent[frame[h].msg].issue \notin 1..Len(issues)
     \/ pc[h] = "record" /\ (RefusalRaises(h) \/ RequestIsKnown(h))
  /\ UNCHANGED <<faults, deliveries>>
  /\ Abandon(h)

(* GitHub, the model, the channel or a locked database.                    *)
Fail(h) ==
  /\ pc[h] \notin {"idle", "lock", "approve"}
  /\ faults < MaxFaults
  /\ faults' = faults + 1
  /\ deliveries' = [deliveries EXCEPT ![frame[h].msg] = @ - 1]
  /\ Abandon(h)

(* The API process dies and is started again.                              *)
Crash ==
  /\ faults < MaxFaults
  /\ faults' = faults + 1
  /\ deliveries' = [m \in Messages |-> deliveries[m] - Cardinality({h \in Handlers : frame[h].msg = m})]
  /\ owner' = [s \in Sessions |-> None]
  /\ broken' = [m \in Messages |-> broken[m] + Cardinality({h \in Handlers : frame[h].msg = m /\ Made(h)})]
  /\ pc' = [h \in Handlers |-> "idle"]
  /\ frame' = [h \in Handlers |-> NoFrame]
  /\ UNCHANGED <<sent, acked, receipts, early, unrecorded>> /\ SameWork

----------------------------------------------------------------------------
(* The worker starts a task for an issue the intake created (the details   *)
(* are WorkerClaims'): under the lane when the parent task is there.       *)
PollStarts(i) ==
  /\ Len(tasks) < MaxTasks
  /\ issues[i].msg # None
  /\ \A k \in 1..Len(tasks) : tasks[k].issue = i => Over(k)
  /\ IF issues[i].parent THEN Granted(Parent(i)) /\ EnterLane(Parent(i))
     ELSE active = Nobody /\ UNCHANGED lane
  /\ tasks' = Append(tasks, [issue |-> i, parent |-> issues[i].parent,
                             status |-> "awaiting_confirmation"])
  /\ UNCHANGED <<sent, deliveries, acked, receipts, owner, sessions, ledger, issues, pc, frame, history, faults>>

(* Someone approves the plan, the change is coded, reviewed and delivered, *)
(* or handed over by the review loop: the end is recorded, and the task    *)
(* and its parent leave the lane.                                          *)
TaskEnds(k) ==
  /\ tasks[k].status \in {"awaiting_confirmation", "in_review"}
  /\ tasks' = [tasks EXCEPT ![k].status = "over"]
  /\ active' = Released(k)[1]
  /\ queued' = Released(k)[2]
  /\ unrecorded' = IF tasks[k].parent THEN unrecorded \ {tasks[k].issue} ELSE unrecorded
  /\ UNCHANGED <<sent, deliveries, acked, receipts, owner, sessions, ledger, issues, pc, frame, broken,
                 early, faults>>

(* An end nobody records: the operator's mark, a validation that fails.    *)
(* Task and parent stay in the lane.                                       *)
TaskStops(k) ==
  /\ ~Over(k)
  /\ tasks' = [tasks EXCEPT ![k].status = "over"]
  /\ unrecorded' = LeftIn(tasks[k].issue)
  /\ UNCHANGED <<sent, deliveries, acked, receipts, owner, sessions, ledger, issues, lane, pc, frame, broken,
                 early, faults>>

----------------------------------------------------------------------------
Step(h) ==
  \/ Lock(h) \/ OpenSessions(h)
  \/ Chat(h) \/ CreateIssue(h) \/ CreateParent(h) \/ EnterAsParent(h)
  \/ CheckBusy(h) \/ StartTask(h) \/ PlanReady(h) \/ EnterAsTask(h)
  \/ RecordRequest(h) \/ RecordAnswer(h)
  \/ ReadStatus(h) \/ Approve(h) \/ Reply(h) \/ Raise(h)

Next ==
  \/ \E h \in Handlers : Step(h) \/ Fail(h) \/ \E m \in Messages : Receive(h, m)
  \/ Crash
  \/ \E i \in 1..Len(issues) : PollStarts(i)
  \/ \E k \in 1..Len(tasks) : TaskEnds(k) \/ TaskStops(k)

Spec == Init /\ [][Next]_vars

(* A thread goes on, and the channel delivers an unanswered message again. *)
FairSpec ==
  /\ Spec
  /\ \A h \in Handlers : WF_vars(Step(h))
  /\ \A m \in Messages : WF_vars(\E h \in Handlers : Receive(h, m))

----------------------------------------------------------------------------
Places == {"idle", "lock", "open", "intake", "parent", "enter", "direct", "start", "plan",
           "enter_direct", "record", "turn", "answered", "approve"}

Entries == {"none", "parent", "task"} \X Nat

Answers == [request : (Messages \cup {None}) \X Nat,
            task : Entries,
            state : {"none", "completed", "accepted", "queued", "running"}]

TaskStatuses == {"created", "awaiting_confirmation", "in_review", "over"}

(* The agents of the configured endpoints and the two the routes name.     *)
Agents == {"none", "main-agent", "ralph"} \cup {Endpoints[n].agent : n \in 1..Len(Endpoints)}

Frames == [msg : Messages \cup {None}, request : (Messages \cup {None}) \X Nat,
           user : Sessions \cup {None}, issue : Nat, task : Entries,
           state : {"none", "completed", "accepted", "queued", "running"},
           cached : BOOLEAN, seen : TaskStatuses \cup {"none"}]

Typed ==
  /\ sent \in Conversations
  /\ deliveries \in [Messages -> Nat]
  /\ acked \subseteq Messages
  /\ receipts \in [Messages -> Answers]
  /\ owner \in [Sessions -> Handlers \cup {None}]
  /\ sessions \in [Sessions -> [agent : Agents, turn : Answers]]
  /\ runs \subseteq Messages \X Nat /\ IsFiniteSet(runs)
  /\ requests \subseteq runs
  /\ issues \in Seq([msg : Messages \cup {None}, parent : BOOLEAN])
  /\ tasks \in Seq([issue : Nat, parent : BOOLEAN, status : TaskStatuses])
  /\ active \in Entries /\ queued \in Seq(Entries)
  /\ pc \in [Handlers -> Places]
  /\ frame \in [Handlers -> Frames]
  /\ broken \in [Messages -> Nat]
  /\ early \subseteq Nat /\ unrecorded \subseteq Nat
  /\ faults \in 0..MaxFaults

(* An entry of the lane, or nobody, is a task of the registry.             *)
Known(e) ==
  \/ e = Nobody
  \/ e[1] = "parent" /\ HasParent(e[2])
  \/ e[1] = "task" /\ e[2] \in 1..Len(tasks)

(* Tasks are about issues that exist, only the intake makes parents, and   *)
(* the lane and the receipts name tasks that exist.                        *)
ReferencesExist ==
  /\ \A k \in 1..Len(tasks) : tasks[k].issue \in 1..Len(issues)
  /\ \A i \in 1..Len(issues) : issues[i].parent => issues[i].msg \in Messages
  /\ \A e \in Lane : Known(e)
  /\ \A m \in Messages : Known(receipts[m].task)

(* A thread at work for a message holds the lock of the message's session. *)
LocksHeld == \A h \in Handlers : Locked(h) => owner[sent[frame[h].msg].session] = h

(* Every variable has its type, what is referred to exists, and who works  *)
(* has the lock.                                                           *)
TypeOK == Typed /\ ReferencesExist /\ LocksHeld

(* The issues that the handling of a message opened.                       *)
WorkOf(m) == {i \in 1..Len(issues) : issues[i].msg = m}

(* However often and however concurrently a message is delivered, it opens *)
(* one issue, and one more only for each attempt that died after it had    *)
(* opened one (gateway.py:57-72, 150-152).                                 *)
WorkIsDoneOnce == \A m \in Messages : Keyed(m) => Cardinality(WorkOf(m)) <= 1 + broken[m]

(* The answer that a message has got is the answer it keeps: no delivery   *)
(* computes a second one (gateway.py:70-73, 151).                          *)
AnswersAreStable ==
  [][\A m \in Messages : receipts[m] # NoReceipt => receipts'[m] = receipts[m]]_vars

(* A parent that is in the lane, and whose issue was begun, has a task to  *)
(* wait for that has not ended.  Two kinds of parent stay behind: one that *)
(* the intake queued after the worker had begun its issue                  *)
(* (gateway.py:369), and one a task of which ended without                 *)
(* _record_parent_result (automation.py:841-852), by the operator's mark   *)
(* or a failure of the coding.                                             *)
LaneEntriesHaveWork ==
  \A i \in 1..Len(issues) :
    LET begun == {k \in 1..Len(tasks) : tasks[k].issue = i}
    IN (Parent(i) \in Lane /\ begun # {} /\ i \notin early \cup unrecorded)
         => \E k \in begun : ~Over(k)

(* The inductive strengthening.  A thread's locals agree with where it is  *)
(* and with the records: it has made nothing before its first write, the   *)
(* issue it names is the one it opened, and only a request for coding has  *)
(* a coding task.                                                          *)
FrameSound(h) ==
  LET f == frame[h]
  IN /\ f.msg \in Messages <=> pc[h] # "idle"
     /\ pc[h] \in {"lock", "open", "intake", "direct", "start"} => f.issue = 0 /\ f.task = Nobody
     /\ f.issue # 0 => f.issue \in WorkOf(f.msg)
     /\ pc[h] \in {"parent", "enter"} => f.issue # 0
     /\ pc[h] = "enter" => HasParent(f.issue)
     /\ pc[h] \in {"plan", "enter_direct"} => f.task[1] = "task"
     /\ Locked(h) /\ pc[h] # "open" =>
          f.user \in Sessions /\ f.request \in runs /\ f.request[1] = f.msg
     /\ Known(f.task)
     /\ pc[h] \in {"intake", "parent", "enter"} => RouteTo(f.msg).intent # "sleep_coding"
     /\ f.task[1] = "parent" => RouteTo(f.msg).intent # "sleep_coding"
     /\ pc[h] = "approve" => f.task[1] = "task"

(* Who works on a message has found no receipt, and a receipt that names a *)
(* parent is not one of a request for coding.                              *)
ReceiptsSound ==
  /\ \A h \in Handlers : Locked(h) => receipts[frame[h].msg] = NoReceipt
  /\ \A m \in Messages :
       receipts[m].task[1] = "parent" => RouteTo(m).intent # "sleep_coding"

Handling(m) == {h \in Handlers : frame[h].msg = m}

DeliveriesCounted == \A m \in Messages : Cardinality(Handling(m)) <= deliveries[m]

(* The lane's row, as QueueWellFormed of ExecutionLane says it.            *)
LaneSound == NoRepeats(queued) /\ active \notin Elements(queued) /\ Nobody \notin Elements(queued)

(* What a keyed message has created is accounted for: by an attempt that   *)
(* broke off, by the receipt, or by the thread that is at work on it.      *)
WorkCounted ==
  \A m \in Messages :
    Keyed(m) =>
      Cardinality(WorkOf(m)) <=
        broken[m] + (IF receipts[m] # NoReceipt \/ \E h \in Handling(m) : Made(h) THEN 1 ELSE 0)

(* It is a task that will release the parent that has not ended.           *)
ParentsHaveWork ==
  \A i \in 1..Len(issues) :
    LET begun == {k \in 1..Len(tasks) : tasks[k].issue = i}
    IN (Parent(i) \in Lane /\ begun # {} /\ i \notin early \cup unrecorded)
         => \E k \in begun : ~Over(k) /\ tasks[k].parent

GatewayInvariant ==
  /\ TypeOK
  /\ \A h \in Handlers : FrameSound(h)
  /\ ReceiptsSound
  /\ DeliveriesCounted
  /\ LaneSound
  /\ WorkCounted
  /\ ParentsHaveWork

(* Every further delivery may raise: the ledger knows the request id that  *)
(* the client gave, Ralph gets a mention that the endpoint does not allow, *)
(* or an issue to work on that does not exist.                             *)
Poisoned(m) ==
  \/ sent[m].request_id /\ <<m, 0>> \in requests
  \/ RouteTo(m).agent = "ralph" /\ (RouteTo(m).refused \/ sent[m].issue \notin 0..Len(issues))

(* A message that is delivered again until it is answered gets its answer  *)
(* for good.  Excused are a request id of the client that a broken attempt *)
(* has already put into the ledger, a mention that reaches Ralph though    *)
(* its endpoint allows none, and a direct task about an issue that does    *)
(* not exist: each of them raises again (gateway.py:57-152, 433).          *)
MessagesAreAnswered ==
  \A m \in Messages : <>[](IF Keyed(m) THEN receipts[m] # NoReceipt \/ Poisoned(m) ELSE m \in acked)

(* A repeated delivery that its receipt answers does not take a task out   *)
(* of review: delivering a message twice is idempotent (workflow.py:38-42, *)
(* docs/plans/2026-03-25-concurrency-reduction-followup.md:45).            *)
RepeatsAreHarmless ==
  [][\A h \in Handlers : \A k \in 1..Len(tasks) :
       (frame[h].cached /\ pc'[h] # pc[h] /\ tasks[k].status = "in_review")
         => tasks'[k].status = "in_review"]_vars
=============================================================================
