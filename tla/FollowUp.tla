------------------------------ MODULE FollowUp ------------------------------
(***************************************************************************)
(* The follow-up jobs of a coding task in review and what they leave in    *)
(* the records: app/infra/background_jobs.py, control/events.py, the       *)
(* marks of control/automation.py, the control task and its event log      *)
(* (control/task_registry.py, task_store.py, task_events.py), and the      *)
(* operator who acts on what the log tells.                                *)
(*                                                                         *)
(* A process polls, on its schedule or on request, serves the operator, or *)
(* both, and has its own set of active job keys.  The records are shared.  *)
(* A patch of a control task is a read and a later write of the whole row  *)
(* on a connection of its own: what another thread wrote in between is     *)
(* lost.                                                                   *)
(*                                                                         *)
(* What a thread still has to write is its list of writes; its next step   *)
(* is taken when the list is empty.  The loop's decisions are ReviewLoop's *)
(* and the coding, one step here, is RalphTask's; both are given as far as *)
(* they show in the records.                                               *)
(***************************************************************************)
EXTENDS Naturals, Sequences

CONSTANTS
  Processes,
  Handlers,   \* their threads that poll and that serve the operator
  Slots,      \* worker threads of a process's executor
  None,
  MaxRounds,  \* review_max_repair_rounds
  MaxActions, \* bound: what operators do
  MaxFaults   \* bound: crashes and lock timeouts

ASSUME HandlerAssumption == Handlers \subseteq Processes \X {"poll", "operator"}
ASSUME BoundAssumption == {MaxRounds, MaxActions, MaxFaults} \subseteq Nat

Jobs == Processes \X Slots

Threads == Jobs \cup Handlers

ASSUME SlotAssumption == Slots # {} /\ {"poll", "operator"} \cap Slots = {}
VARIABLES
  status,   \* status of the coding task's row
  mark,     \* its background_follow_up_status
  record,   \* the control task and its parent: [status, mark] each
  log,      \* what recovery reads of the control task's events
  rounds,   \* blocking reviews, as far as the limit
  keys,     \* the processes in which the task's job key is active
  pc,       \* pc[t]: where thread t is
  writes,   \* writes[t]: what it has still to write
  snapshot, \* snapshot[t]: the row its patch was computed from
  lost,     \* history: a patch of the control task has overwritten another one
  actions,
  faults

store == <<status, mark, record, log, rounds, lost>>
vars == <<store, keys, pc, writes, snapshot, actions, faults>>

----------------------------------------------------------------------------
Open == {"in_review", "changes_requested"}

Statuses == Open \cup {"approved", "failed", "needs_attention"}

Marks == {"idle", "queued", "processing", "completed", "failed"}

(* The events that follow a patch, each its kind and whether its payload   *)
(* has a domain_task_id.                                                   *)
Events ==
  [kind : {"follow_up", "follow_up.failed", "channel_notified", "result", "review_failed",
           "needs_attention"},
   named : BOOLEAN]

ASSUME NoneAssumption == None \notin Statuses \cup Marks \cup Events

(* The events that recovery prefers, in this order, for a task that needs  *)
(* attention.  worker_timed_out, between them, is WorkerClaims' part.      *)
Preferred == <<"follow_up.failed", "needs_attention">>

Event(kind, named) == [kind |-> kind, named |-> named]

(* A patch of a record, and the event that is appended after it, if any.   *)
Patch(at, newStatus, newMark, event) ==
  [op |-> "patch", at |-> at, status |-> newStatus, mark |-> newMark, event |-> event]

(* The log, as recovery reads it: the last event, and the last event of    *)
(* every preferred kind.                                                   *)
Logged(e) ==
  [last |-> e.named,
   latest |-> [kind \in DOMAIN log.latest |-> IF kind = e.kind THEN <<e.named>> ELSE log.latest[kind]]]

(* _select_recovery_event: does the event it selects name the task?        *)
RecoveryEvent ==
  LET Has(n) == log.latest[Preferred[n]] # <<>>
  IN IF record["control"].status = "needs_attention" /\ \E n \in 1..2 : Has(n)
     THEN log.latest[Preferred[CHOOSE n \in 1..2 : Has(n) /\ \A k \in 1..(n - 1) : ~Has(k)]][1]
     ELSE log.last

----------------------------------------------------------------------------
(* Lists of writes.                                                        *)

(* Mutant: the events of the marks do not name the coding task.            *)
MarkingUnnamed(s) ==
  <<[op |-> "mark", mark |-> s],
    Patch("control", None, s, Event(IF s = "failed" THEN "follow_up.failed" ELSE "follow_up", FALSE))>>

(* _mark_follow_up_state: the row, the control task, its log; the parent   *)
(* gets an event as well.                                                  *)
Marking(s) ==
  <<[op |-> "mark", mark |-> s],
    Patch("control", None, s, Event(IF s = "failed" THEN "follow_up.failed" ELSE "follow_up", TRUE))>>

(* _record_notification: what was sent goes into the payload of both.      *)
Notified ==
  <<Patch("control", None, None, Event("channel_notified", TRUE)), Patch("parent", None, None, None)>>

(* Mutant: what the parent task has come to is written where its mark is.  *)
ResultAsMark(s) == <<Patch("control", s, None, Event("result", TRUE)), Patch("parent", None, s, None)>>

(* _record_parent_result.  Every end is recorded twice, under two names;   *)
(* the second time repeats the first.                                      *)
Result(s) == <<Patch("control", s, None, Event("result", TRUE)), Patch("parent", s, None, None)>>

(* A projection into the control task's payload.                           *)
Projection == <<Patch("control", None, None, None)>>

Init ==
  /\ status = "in_review"
  /\ mark = "idle"
  /\ record = [at \in {"control", "parent"} |->
                 [status |-> IF at = "control" THEN "in_review" ELSE "issue_created", mark |-> "idle"]]
  /\ log = [last |-> TRUE, latest |-> [kind \in {Preferred[1], Preferred[2]} |-> <<>>]]
  /\ rounds = 0
  /\ keys = {}
  /\ pc = [t \in Threads |-> "idle"]
  /\ writes = [t \in Threads |-> <<>>]
  /\ snapshot = [t \in Threads |-> None]
  /\ lost = FALSE
  /\ actions = 0
  /\ faults = 0

----------------------------------------------------------------------------
(* One write after the other.                                              *)
Next1(t) == writes' = [writes EXCEPT ![t] = Tail(@)]

Due(t, op) == writes[t] # <<>> /\ Head(writes[t]).op = op

(* set_background_follow_up_state.                                         *)
SetMark(t) ==
  /\ Due(t, "mark")
  /\ mark' = Head(writes[t]).mark
  /\ Next1(t)
  /\ UNCHANGED <<status, record, log, rounds, lost, keys, pc, snapshot, actions, faults>>

(* update_task reads the row ...                                           *)
ReadRecord(t) ==
  /\ Due(t, "patch")
  /\ snapshot[t] = None
  /\ snapshot' = [snapshot EXCEPT ![t] = record[Head(writes[t]).at]]
  /\ UNCHANGED <<store, keys, pc, writes, actions, faults>>

Or(new, old) == IF new = None THEN old ELSE new

(* ... and writes all of it back; append_event follows.                    *)
WriteRecord(t) ==
  /\ Due(t, "patch")
  /\ snapshot[t] # None
  /\ LET w == Head(writes[t])
     IN /\ record' = [record EXCEPT ![w.at] = [status |-> Or(w.status, snapshot[t].status),
                                               mark |-> Or(w.mark, snapshot[t].mark)]]
        /\ lost' = (lost \/ (w.at = "control" /\ record[w.at] # snapshot[t]))
        /\ log' = IF w.event = None THEN log ELSE Logged(w.event)
  /\ snapshot' = [snapshot EXCEPT ![t] = None]
  /\ Next1(t)
  /\ UNCHANGED <<status, mark, rounds, keys, pc, actions, faults>>

(* A thread that has written everything goes on from here to there.        *)
At(t, here) == pc[t] = here /\ writes[t] = <<>>

Go(t, there) == pc' = [pc EXCEPT ![t] = there] /\ UNCHANGED writes

GoAndWrite(t, there, list) ==
  /\ pc' = [pc EXCEPT ![t] = there]
  /\ writes' = [writes EXCEPT ![t] = list]

(* Ralph's transaction: the row, the control task, an event, at once.      *)
SetTask(s, kind) ==
  /\ status' = s
  /\ record' = [record EXCEPT !["control"].status = s]
  /\ log' = Logged(Event(kind, TRUE))
  /\ UNCHANGED <<mark, rounds, lost>>

(* Mutant: the failure of a loop is escalated without being marked.        *)
RaiseUnmarked(t, first) ==
  IF t \in Jobs
  THEN GoAndWrite(t, IF pc[t] \in {"begin", "failed", "giveUp", "finish"} THEN "finish" ELSE "failed", first)
  ELSE GoAndWrite(t, "idle", <<>>)

(* Where an exception goes.  A job's failure in the loop is marked, then   *)
(* escalated; a failure while marking ends the job.  A request is answered *)
(* with an error, a scheduler that ends is started again.                  *)
Raise(t, first) ==
  IF t \in Jobs
  THEN IF pc[t] \in {"begin", "failed", "giveUp", "finish"} THEN GoAndWrite(t, "finish", <<>>)
       ELSE GoAndWrite(t, "failed", first \o Marking("failed"))
  ELSE GoAndWrite(t, "idle", <<>>)

----------------------------------------------------------------------------
(* A poll resumes a task whose claim shows in_review or changes_requested. *)
(* The claim has shown it since the task came into review and goes on      *)
(* showing it, as it does not follow a task that has a pull request.       *)
Poll(t) ==
  /\ t[2] = "poll" /\ At(t, "idle")
  /\ Go(t, "resume")
  /\ UNCHANGED <<store, keys, snapshot, actions, faults>>

(* resume_task.                                                            *)
Resume(t) ==
  /\ At(t, "resume")
  /\ Go(t, IF status = "changes_requested" THEN "code"
           ELSE IF status = "in_review" THEN "submit" ELSE "idle")
  /\ UNCHANGED <<store, keys, snapshot, actions, faults>>

(* _process_task goes on with the status it has read, as ReviewLoop says.  *)
Decision(s) ==
  CASE s = "in_review" -> "review"
    [] s = "changes_requested" -> IF rounds >= MaxRounds THEN "done" ELSE "code"
    [] s = "approved" -> "deliver"
    [] OTHER -> "done"

(* approve_plan: coding, validation and publication, or a failure.  Then   *)
(* the loop clears the projection of the review; the poll and the operator *)
(* schedule a follow-up.                                                   *)
Code(t) ==
  /\ At(t, "code")
  /\ status = "changes_requested"
  /\ \E s \in {"in_review", "failed"} :
       /\ SetTask(s, "status")
       /\ IF t \in Jobs THEN GoAndWrite(t, Decision(s), Projection)
          ELSE Go(t, IF s \in Open THEN "submit" ELSE "idle")
  /\ UNCHANGED <<keys, snapshot, actions, faults>>

(* An exception of the coding, or a status that approve_plan refuses:      *)
(* _record_execution_failure, which logs no event that recovery prefers.   *)
CodeRaises(t) ==
  /\ At(t, "code")
  /\ SetTask("needs_attention", "status")
  /\ Raise(t, <<>>)
  /\ UNCHANGED <<keys, snapshot, actions, faults>>

FreeSlots(p) == {j \in Slots : pc[<<p, j>>] = "idle"}

(* Mutant: the key is not looked up.                                       *)
SubmitUnchecked(t) ==
  /\ At(t, "submit")
  /\ IF FreeSlots(t[1]) # {}
     THEN /\ keys' = keys \cup {t[1]}
          /\ pc' = [pc EXCEPT ![t] = "submitted",
                              ![<<t[1], CHOOSE j \in FreeSlots(t[1]) : TRUE>>] = "queued"]
          /\ UNCHANGED writes
     ELSE Go(t, "idle") /\ UNCHANGED keys
  /\ UNCHANGED <<store, snapshot, actions, faults>>

(* _schedule_follow_up, publish_follow_up_requested, submit_unique: a      *)
(* request whose key is active is dropped.                                 *)
Submit(t) ==
  /\ At(t, "submit")
  /\ IF t[1] \notin keys
     THEN /\ keys' = keys \cup {t[1]}
          /\ pc' = [pc EXCEPT ![t] = "submitted",
                              ![<<t[1], CHOOSE j \in FreeSlots(t[1]) : TRUE>>] = "queued"]
          /\ UNCHANGED writes
     ELSE Go(t, "idle") /\ UNCHANGED keys
  /\ UNCHANGED <<store, snapshot, actions, faults>>

(* The job is marked as queued when it may have begun, or ended, already.  *)
MarkQueued(t) ==
  /\ At(t, "submitted")
  /\ GoAndWrite(t, "idle", IF mark = "idle" THEN Marking("queued") ELSE <<>>)
  /\ UNCHANGED <<store, keys, snapshot, actions, faults>>

----------------------------------------------------------------------------
(* The job, _run_scheduled_follow_up.                                      *)
StartJob(t) ==
  /\ At(t, "queued")
  /\ GoAndWrite(t, "begin", Marking("processing"))
  /\ UNCHANGED <<store, keys, snapshot, actions, faults>>

BeginLoop(t) ==
  /\ At(t, "begin")
  /\ Go(t, Decision(status))
  /\ UNCHANGED <<store, keys, snapshot, actions, faults>>

(* The reviewer answers: start_review hands the change to the review's own *)
(* control task, the loop projects and notifies ...                        *)
Review(t) ==
  /\ At(t, "review")
  /\ log' = Logged(Event("handoff_to_code_review", FALSE))
  /\ GoAndWrite(t, "verdict", Projection \o Notified)
  /\ UNCHANGED <<status, mark, record, rounds, lost, keys, snapshot, actions, faults>>

(* ... or fails, which is logged, or there is no evidence to review.       *)
ReviewFails(t) ==
  /\ At(t, "review")
  /\ \E first \in {<<>>, <<Patch("control", None, None, Event("review_failed", TRUE))>>} : Raise(t, first)
  /\ UNCHANGED <<store, keys, snapshot, actions, faults>>

(* apply_action, before Ralph is told.                                     *)
Verdict(t, blocking) ==
  /\ At(t, "verdict")
  /\ rounds' = IF blocking /\ rounds < MaxRounds THEN rounds + 1 ELSE rounds
  /\ GoAndWrite(t, IF ~blocking THEN "approve_review"
                   ELSE IF rounds' >= MaxRounds THEN "handoff" ELSE "request_changes", Projection)
  /\ log' = Logged(Event("review_returned", FALSE))
  /\ UNCHANGED <<status, mark, record, lost, keys, snapshot, actions, faults>>

SendBack(t) ==
  /\ At(t, "handoff") \/ At(t, "request_changes")
  /\ status \in {"in_review", "approved"}
  /\ SetTask("changes_requested", "status")
  /\ Go(t, IF pc[t] = "handoff" THEN "suspend" ELSE "code")
  /\ UNCHANGED <<keys, snapshot, actions, faults>>

Approve(t) ==
  /\ At(t, "approve_review")
  /\ status \in Open \cup {"approved"}
  /\ IF status = "approved" THEN UNCHANGED store ELSE SetTask("approved", "status")
  /\ Go(t, "deliver")
  /\ UNCHANGED <<keys, snapshot, actions, faults>>

(* Another thread has moved the task on: Ralph refuses the verdict.        *)
RefuseVerdict(t) ==
  /\ \/ (At(t, "handoff") \/ At(t, "request_changes")) /\ status \notin {"in_review", "approved"}
     \/ At(t, "approve_review") /\ status \notin Open \cup {"approved"}
  /\ Raise(t, <<>>)
  /\ UNCHANGED <<store, keys, snapshot, actions, faults>>

(* mark_needs_attention, the notification, the result.                     *)
Suspend(t) ==
  /\ At(t, "suspend")
  /\ SetTask("needs_attention", "needs_attention")
  /\ GoAndWrite(t, "done", Notified \o Result("needs_attention"))
  /\ UNCHANGED <<keys, snapshot, actions, faults>>

Deliver(t) ==
  /\ At(t, "deliver")
  /\ GoAndWrite(t, "done", IF status = "approved" THEN Notified \o Result("completed") ELSE <<>>)
  /\ UNCHANGED <<store, keys, snapshot, actions, faults>>

EndLoop(t) ==
  /\ At(t, "done")
  /\ GoAndWrite(t, "finish", Marking("completed"))
  /\ UNCHANGED <<store, keys, snapshot, actions, faults>>

(* Mutant: a task that has ended already is not reported.                  *)
EscalateOpenOnly(t) ==
  /\ At(t, "failed")
  /\ Go(t, IF status \in Open THEN "giveUp" ELSE "finish")
  /\ UNCHANGED <<store, keys, snapshot, actions, faults>>

(* The failure is marked: _escalate_follow_up_failure.                     *)
Escalate(t) ==
  /\ At(t, "failed")
  /\ IF status \in Open THEN Go(t, "giveUp")
     ELSE GoAndWrite(t, "finish", Result("needs_attention"))
  /\ UNCHANGED <<store, keys, snapshot, actions, faults>>

GiveUp(t) ==
  /\ At(t, "giveUp")
  /\ SetTask("needs_attention", "needs_attention")
  /\ GoAndWrite(t, "finish", Result("needs_attention"))
  /\ UNCHANGED <<keys, snapshot, actions, faults>>

(* The job returns, and its done-callback gives the key back.              *)
EndJob(t) ==
  /\ At(t, "finish")
  /\ keys' = keys \ {t[1]}
  /\ Go(t, "idle")
  /\ UNCHANGED <<store, snapshot, actions, faults>>

----------------------------------------------------------------------------
(* handle_control_task_action: the operator's action goes to the task that *)
(* recovery finds.                                                         *)
Operate(t) ==
  /\ t[2] = "operator" /\ At(t, "idle")
  /\ actions < MaxActions
  /\ actions' = actions + 1

OperatorApproves(t) ==
  /\ Operate(t)
  /\ RecoveryEvent
  /\ Go(t, "code")
  /\ UNCHANGED <<store, keys, snapshot, faults>>

OperatorResumes(t) ==
  /\ Operate(t)
  /\ RecoveryEvent
  /\ Go(t, "resume")
  /\ UNCHANGED <<store, keys, snapshot, faults>>

OperatorMarks(t) ==
  /\ Operate(t)
  /\ IF RecoveryEvent THEN Go(t, "markTask")
     ELSE GoAndWrite(t, "idle", <<Patch("control", "needs_attention", None,
                                        Event("needs_attention", FALSE))>>)
  /\ UNCHANGED <<store, keys, snapshot, faults>>

MarkTask(t) ==
  /\ At(t, "markTask")
  /\ SetTask("needs_attention", "needs_attention")
  /\ Go(t, "idle")
  /\ UNCHANGED <<keys, snapshot, actions, faults>>

----------------------------------------------------------------------------
Fault == faults < MaxFaults /\ faults' = faults + 1

(* A write finds the database locked beyond its retries.                   *)
WriteRaises(t) ==
  /\ writes[t] # <<>>
  /\ Fault
  /\ Raise(t, <<>>)
  /\ snapshot' = [snapshot EXCEPT ![t] = None]
  /\ UNCHANGED <<store, keys, actions>>

(* A process dies and is started again.                                    *)
Crash(p) ==
  /\ \E t \in Threads : t[1] = p /\ (pc[t] # "idle" \/ writes[t] # <<>>)
  /\ Fault
  /\ LET Reset(f, value) == [t \in Threads |-> IF t[1] = p THEN value ELSE f[t]]
     IN /\ pc' = Reset(pc, "idle")
        /\ writes' = Reset(writes, <<>>)
        /\ snapshot' = Reset(snapshot, None)
  /\ keys' = keys \ {p}
  /\ UNCHANGED <<store, actions>>

Step(t) ==
  \/ SetMark(t) \/ ReadRecord(t) \/ WriteRecord(t)
  \/ Resume(t) \/ Code(t) \/ CodeRaises(t) \/ Submit(t) \/ MarkQueued(t)
  \/ StartJob(t) \/ BeginLoop(t)
  \/ Review(t) \/ ReviewFails(t) \/ \E blocking \in BOOLEAN : Verdict(t, blocking)
  \/ SendBack(t) \/ Approve(t) \/ RefuseVerdict(t) \/ Suspend(t) \/ Deliver(t)
  \/ EndLoop(t) \/ Escalate(t) \/ GiveUp(t) \/ EndJob(t)
  \/ MarkTask(t)

Next ==
  \/ \E t \in Threads : Step(t) \/ WriteRaises(t)
  \/ \E t \in Handlers : Poll(t) \/ OperatorApproves(t) \/ OperatorResumes(t) \/ OperatorMarks(t)
  \/ \E p \in Processes : Crash(p)

Spec == Init /\ [][Next]_vars

(* A thread that has begun goes on.                                        *)
FairSpec == Spec /\ \A t \in Threads : WF_vars(Step(t))

----------------------------------------------------------------------------
(* From its first write to its last.                                       *)
AtWork(t) == pc[t] \notin {"idle", "queued", "finish"} \/ writes[t] # <<>>

(* Where a thread that serves a poll or an operator is, and where a job is. *)
HandlerPlaces == {"idle", "resume", "code", "submit", "submitted", "markTask"}

(* From the start of a job to the end of its loop.                         *)
Running == {"begin", "review", "code", "verdict", "handoff", "request_changes", "approve_review",
            "suspend", "deliver", "done"}

JobPlaces == {"idle", "queued", "failed", "giveUp", "finish"} \cup Running

Records == [status : Statuses \cup {"completed", "issue_created"}, mark : Marks]

Writes ==
  [op : {"mark"}, mark : Marks] \cup
  [op : {"patch"}, at : {"control", "parent"}, status : Statuses \cup {"completed", None},
   mark : Marks \cup {None}, event : Events \cup {None}]

(* The type invariant.                                                     *)
TypeOK ==
  /\ status \in Statuses
  /\ mark \in Marks
  /\ record \in [{"control", "parent"} -> Records]
  /\ log.last \in BOOLEAN
  /\ rounds \in 0..MaxRounds
  /\ keys \subseteq Processes
  /\ pc \in [Threads -> HandlerPlaces \cup JobPlaces]
  /\ writes \in [Threads -> Seq(Writes)]
  /\ snapshot \in [Threads -> Records \cup {None}]
  /\ lost \in BOOLEAN
  /\ actions \in 0..MaxActions /\ faults \in 0..MaxFaults

(* The inductive invariant.  A snapshot belongs to the patch that comes    *)
(* next; a job that is not idle has the key of its process, one that has   *)
(* not begun writes nothing, and "processing" is what a job that begins    *)
(* writes.                                                                 *)
ThreadSound(t) ==
  /\ snapshot[t] # None => Due(t, "patch")
  /\ t \in Handlers => pc[t] \in HandlerPlaces
  /\ t \in Jobs => /\ pc[t] \in JobPlaces
                   /\ pc[t] # "idle" => t[1] \in keys
                   /\ pc[t] \in {"idle", "queued"} => writes[t] = <<>>
  /\ \A i \in 1..Len(writes[t]) : writes[t][i].mark = "processing" => pc[t] = "begin"

(* A job in its loop, or about to write the mark that ends it.             *)
OwesMark(t) == pc[t] \in Running \/ \E i \in 1..Len(writes[t]) : writes[t][i].op = "mark"

OwesPatch(t) ==
  \/ pc[t] \in Running
  \/ \E i \in 1..Len(writes[t]) :
       LET w == writes[t][i] IN w.op = "patch" /\ w.at = "control" /\ w.mark # None

MarksSound ==
  faults = 0 =>
    /\ mark = "processing" => \E t \in Jobs : OwesMark(t)
    /\ record["control"].mark = "processing" /\ ~lost => \E t \in Jobs : OwesPatch(t)

(* A process runs at most one follow-up of the task at a time, also while  *)
(* the poll or an operator asks for another one (background_jobs.py:19-42, *)
(* events.py:61-68).                                                       *)
OneJobPerTask ==
  \A p \in Processes : \A i, j \in Slots :
    (i # j) => pc[<<p, i>>] = "idle" \/ pc[<<p, j>>] = "idle"

FollowUpInvariant == TypeOK /\ (\A t \in Threads : ThreadSound(t)) /\ OneJobPerTask /\ MarksSound

(* Neither the task nor its control task shows "processing" when no job of *)
(* the task is at work any more, unless a fault struck, or, for the        *)
(* control task, a patch was lost (automation.py:316-335, 501-554).        *)
MarksAreTrue ==
  (faults = 0 /\ ~\E t \in Jobs : AtWork(t)) =>
    mark # "processing" /\ (lost \/ record["control"].mark # "processing")

(* The operator's action reaches the coding task whenever no job is at     *)
(* work, unless an operator has marked the control task alone, at a moment *)
(* when it did not, or a fault has cut a job short (task_registry.py:      *)
(* 231-260, 373-385; automation.py:377-465).                               *)
RecoveryReaches ==
  \/ RecoveryEvent
  \/ \E t \in Jobs : AtWork(t)
  \/ log.latest["needs_attention"] = <<FALSE>>
  \/ faults > 0

(* What keeps it so.  A patch leaves an event that names the task, or, if  *)
(* it sets no mark, none, or the one of an operator.  Of the events that   *)
(* recovery prefers, only that one may not name the task; and a last event *)
(* that does not is followed by one that does, the mark's.                 *)
Named(w) ==
  w.op = "patch" =>
    \/ w.event # None /\ w.event.named
    \/ w.mark = None /\ (w.event # None => w.event.kind = "needs_attention")

LatestEvents == [{"follow_up.failed", "needs_attention"} -> {<<>>, <<TRUE>>, <<FALSE>>}]

LogSound ==
  /\ log.latest \in LatestEvents
  /\ log.latest["follow_up.failed"] # <<FALSE>>
  /\ faults = 0 =>
       \/ log.last
       \/ log.latest["needs_attention"] = <<FALSE>>
       \/ \E t \in Jobs : OwesPatch(t)

RecoveryInvariant ==
  (\A t \in Threads : \A i \in 1..Len(writes[t]) : Named(writes[t][i])) /\ LogSound

(* A failed follow-up does not end in silence: the parent task is handed   *)
(* over, whatever status the failure left behind, unless a fault struck    *)
(* (automation.py:316-335, 556-589).                                       *)
FailuresAreEscalated ==
  (mark = "failed") ~> (record["parent"].status = "needs_attention" \/ faults > 0)
=============================================================================
