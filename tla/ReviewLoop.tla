----------------------------- MODULE ReviewLoop -----------------------------
(***************************************************************************)
(* From the first pull request of a coding task to its delivery or its     *)
(* hand-over to a human: the loop of app/control/automation.py with the    *)
(* review service it drives, the worker's poll that restarts it and the    *)
(* operator who acts on the task meanwhile.                                *)
(*                                                                         *)
(* Each process has one background job for the task, which runs the loop,  *)
(* and a thread in front of it.  A scheduler's front polls; another front  *)
(* answers requests, one at a time: a poll, or the operator's approve,     *)
(* resume or mark.  All of them read and write the task's row, its reviews *)
(* and the projection of the latest review on the control task, in         *)
(* transactions of their own; other threads run between any two of them.   *)
(*                                                                         *)
(* Coding is RalphTask's approve_plan seen from outside: the status is     *)
(* read, then the write lock taken and held until the commit.              *)
(***************************************************************************)
EXTENDS Naturals, Sequences, FiniteSets

CONSTANTS
  Processes,   \* the scheduler process, the API process
  Schedulers,  \* those that poll in a loop; the others answer requests
  None,        \* no thread; no verdict or status on the projection
  MaxRounds,   \* review_max_repair_rounds
  MaxChanges,  \* bound: how often coding the change passes
  MaxFaults    \* bound: crashes, lock timeouts and failed polls

ASSUME RoundsAssumption == MaxRounds \in Nat \ {0}
ASSUME BoundAssumption == MaxChanges \in Nat \ {0} /\ MaxFaults \in Nat
ASSUME SchedulerAssumption == Schedulers \subseteq Processes

Threads == Processes \X {"front", "job"}

VARIABLES
  status,     \* status of the coding task
  rev,        \* how many changes were coded: the head of the pull request
  ctl,        \* status of the control task
  reviews,    \* the rows of review_runs, oldest first
  proj,       \* the latest review as the control task's payload shows it
  lane,       \* the task holds the execution lane
  delivered,  \* the changes for which a final delivery was sent
  resumable,  \* the task's claim is in_review or changes_requested
  coder,      \* the thread whose coding transaction holds the write lock
  pc,         \* pc[t]: where thread t is
  frame,      \* frame[t]: what thread t has read and decided
  overlapped, \* history: two threads were at work on the task at once
  faults

store == <<status, rev, ctl, reviews, proj, lane, delivered>>
vars == <<store, resumable, coder, pc, frame, overlapped, faults>>

----------------------------------------------------------------------------
Open == {"in_review", "changes_requested"}

Statuses == Open \cup {"approved", "failed", "needs_attention"}

Verdicts == {"completed", "approved", "changes_requested"}

ASSUME NoneAssumption == None \notin Threads \cup BOOLEAN \cup Statuses \cup Verdicts

Reviews == [rev : Nat, blocking : BOOLEAN, status : Verdicts]

Blocking(rs) == Cardinality({i \in 1..Len(rs) : rs[i].blocking})

NoProjection == [blocking |-> None, status |-> None, count |-> 0]

(* task: the status the loop holds; seen: the status a guard looks at;     *)
(* review: an index of reviews, or 0; head: the change under review.       *)
NoFrame == [task |-> None, seen |-> None, review |-> 0, head |-> 0, goal |-> None]

(* Mutant: the round limit is left to the reviewer.                        *)
DecideUnbounded(taskStatus, blocking, verdict, count) ==
  CASE taskStatus = "changes_requested" -> "rerun_coding"
    [] taskStatus = "in_review" ->
         IF blocking = None THEN "run_review"
         ELSE IF blocking THEN "request_changes" ELSE "approve_review"
    [] taskStatus = "approved" ->
         (CASE verdict = None -> "run_review"
            [] verdict = "completed" -> "approve_review"
            [] verdict = "approved" -> "deliver"
            [] verdict = "changes_requested" -> "handoff")
    [] taskStatus \in {"failed", "needs_attention"} -> "deliver"

(* Mutant: a task in its last round is left where it is.                   *)
DecideStops(taskStatus, blocking, verdict, count) ==
  CASE taskStatus = "changes_requested" ->
         IF count >= MaxRounds THEN "stop" ELSE "rerun_coding"
    [] taskStatus = "in_review" ->
         IF blocking = None THEN "run_review"
         ELSE IF blocking
              THEN IF count >= MaxRounds THEN "stop" ELSE "request_changes"
              ELSE "approve_review"
    [] taskStatus = "approved" ->
         IF verdict = "approved" THEN "deliver" ELSE "approve_review"
    [] taskStatus \in {"failed", "needs_attention"} -> "deliver"

(* _decide_review_loop_step.                                               *)
DecideStep(taskStatus, blocking, verdict, count) ==
  CASE taskStatus = "changes_requested" ->
         IF count >= MaxRounds THEN "stop" ELSE "rerun_coding"
    [] taskStatus = "in_review" ->
         IF blocking = None THEN "run_review"
         ELSE IF blocking
              THEN IF count >= MaxRounds THEN "handoff" ELSE "request_changes"
              ELSE "approve_review"
    [] taskStatus = "approved" ->
         (CASE verdict = None -> "run_review"
            [] verdict = "completed" -> "approve_review"
            [] verdict = "approved" -> "deliver"
            [] verdict = "changes_requested" -> "handoff")
    [] taskStatus \in {"failed", "needs_attention"} -> "deliver"

----------------------------------------------------------------------------
(* The plan was approved, by the poll, a message or the operator; the      *)
(* first change is in review, and the thread that coded it is about to     *)
(* schedule the loop.  The claim says in_review only if the worker itself  *)
(* approved the plan (auto_approve_plan, off by default).                  *)
Init ==
  /\ status = "in_review" /\ ctl = "in_review"
  /\ rev = 1
  /\ reviews = <<>>
  /\ proj = NoProjection
  /\ lane = TRUE
  /\ delivered = {}
  /\ resumable \in BOOLEAN
  /\ coder = None
  /\ \E p \in Processes :
       pc = [t \in Threads |-> IF t = <<p, "front">> THEN "schedule" ELSE "idle"]
  /\ frame = [t \in Threads |-> NoFrame]
  /\ overlapped = FALSE
  /\ faults = 0

GoTo(t, where) == pc' = [pc EXCEPT ![t] = where]

Keep(t, f) == frame' = [frame EXCEPT ![t] = f]

(* A thread that is done forgets what it worked with.                      *)
Finish(t) == GoTo(t, "idle") /\ Keep(t, NoFrame)

Front(t) == t[2] = "front"

(* Where an exception goes.  The job escalates it, once; the scheduler's   *)
(* loop catches nothing and ends; a request answers with an error.         *)
Raise(t) ==
  IF ~Front(t) /\ frame[t].goal # "escalate"
  THEN GoTo(t, "error") /\ Keep(t, [NoFrame EXCEPT !.goal = "escalate"])
  ELSE /\ GoTo(t, IF Front(t) /\ t[1] \in Schedulers THEN "dead" ELSE "idle")
       /\ Keep(t, NoFrame)

(* Ralph sets the task's status and its control task's in one transaction. *)
SetTaskStatus(s) == status' = s /\ ctl' = s

(* A thread in one of these places has read nothing of the task yet.       *)
Resting == {"idle", "schedule", "resume", "queued", "dead"}

(* The history of the instances: did two threads work on the task at once? *)
Watch ==
  overlapped' =
    (overlapped \/ \E t, u \in Threads : t # u /\ pc'[t] \notin Resting /\ pc'[u] \notin Resting)

----------------------------------------------------------------------------
(* process_worker_poll_async: only a claim that says so brings the poll    *)
(* back to the task.  The claim is not synchronised any more once the      *)
(* control task refers to the pull request, but poll_once may overwrite    *)
(* its status with skipped or queued.                                      *)
Poll(t) ==
  /\ Front(t) /\ pc[t] = "idle"
  /\ resumable' \in {resumable, FALSE}
  /\ GoTo(t, IF resumable' THEN "resume" ELSE "idle")
  /\ UNCHANGED <<store, coder, frame, faults>>

(* handle_control_task_action: approve_plan, resume, mark_needs_attention. *)
Operate(t) ==
  /\ Front(t) /\ t[1] \notin Schedulers /\ pc[t] = "idle"
  /\ \E where \in {"code", "resume", "suspend"} : GoTo(t, where)
  /\ UNCHANGED <<store, resumable, coder, frame, faults>>

(* The control task's latest event names no coding task, as between a      *)
(* verdict and its application: the mark is put on the control task alone. *)
MarkControl(t) ==
  /\ Front(t) /\ t[1] \notin Schedulers /\ pc[t] = "idle"
  /\ coder = None
  /\ ctl' = "needs_attention"
  /\ UNCHANGED <<status, rev, reviews, proj, lane, delivered, resumable, coder, pc, frame, faults>>

(* resume_task: what was sent back is coded again, once the event that     *)
(* says so is committed; a task in review is scheduled.                    *)
Resume(t) ==
  /\ pc[t] = "resume"
  /\ GoTo(t, CASE status = "changes_requested" -> "resuming"
               [] status = "in_review" -> "schedule"
               [] OTHER -> "idle")
  /\ UNCHANGED <<store, resumable, coder, frame, faults>>

ResumeCoding(t) ==
  /\ pc[t] = "resuming"
  /\ coder = None
  /\ GoTo(t, "code")
  /\ UNCHANGED <<store, resumable, coder, frame, faults>>

(* _schedule_follow_up: a job for the task that is still running in this   *)
(* process drops the request.                                              *)
Scheduled(t, where) ==
  LET job == <<t[1], "job">>
  IN pc' = [pc EXCEPT ![t] = where, ![job] = IF @ = "idle" THEN "queued" ELSE @]

Schedule(t) ==
  /\ pc[t] = "schedule"
  /\ Scheduled(t, "idle")
  /\ UNCHANGED <<store, resumable, coder, frame, faults>>

(* _run_scheduled_follow_up and run_review_loop: read the task.            *)
BeginLoop(t) ==
  /\ pc[t] = "queued"
  /\ coder = None
  /\ Keep(t, [NoFrame EXCEPT !.task = status])
  /\ GoTo(t, "loop")
  /\ UNCHANGED <<store, resumable, coder, faults>>

----------------------------------------------------------------------------
(* One turn of _process_task: the decision is taken on the status the loop *)
(* holds and on the review it just ran or else the projection.             *)
Decision(t) ==
  LET f == frame[t]
  IN IF f.review # 0
     THEN DecideStep(f.task, reviews[f.review].blocking, "completed", proj.count)
     ELSE DecideStep(f.task, proj.blocking, proj.status, proj.count)

CodeAgain(t) ==
  /\ pc[t] = "loop"
  /\ Decision(t) = "rerun_coding"
  /\ GoTo(t, "code")
  /\ UNCHANGED <<store, resumable, coder, frame, faults>>

(* start_review: the change that is at the head of the pull request now.   *)
BeginReview(t) ==
  /\ pc[t] = "loop"
  /\ Decision(t) = "run_review"
  /\ Keep(t, [frame[t] EXCEPT !.head = rev])
  /\ GoTo(t, "review")
  /\ UNCHANGED <<store, resumable, coder, faults>>

(* The loop carries a verdict out; without a review at hand it takes the   *)
(* latest one.                                                             *)
CarryOut(t) ==
  /\ pc[t] = "loop"
  /\ Decision(t) \in {"request_changes", "handoff", "approve_review"}
  /\ Keep(t, [frame[t] EXCEPT !.review = IF @ = 0 THEN Len(reviews) ELSE @,
                              !.goal = Decision(t)])
  /\ GoTo(t, "mark")
  /\ UNCHANGED <<store, resumable, coder, faults>>

BeginDelivery(t) ==
  /\ pc[t] = "loop"
  /\ Decision(t) = "deliver"
  /\ Keep(t, [frame[t] EXCEPT !.review = Len(reviews)])
  /\ GoTo(t, "deliver")
  /\ UNCHANGED <<store, resumable, coder, faults>>

Stop(t) ==
  /\ pc[t] = "loop"
  /\ Decision(t) = "stop"
  /\ Finish(t)
  /\ UNCHANGED <<store, resumable, coder, faults>>

----------------------------------------------------------------------------
(* Coding, by the loop, the poll or the operator.  A guard of Ralph reads  *)
(* the status before it has the lock.                                      *)
ReadTask(t) ==
  /\ pc[t] \in {"code", "apply"}
  /\ Keep(t, [frame[t] EXCEPT !.seen = status])
  /\ GoTo(t, IF pc[t] = "code" THEN "start" ELSE "applying")
  /\ UNCHANGED <<store, resumable, coder, faults>>

BeginCoding(t) ==
  /\ pc[t] = "start"
  /\ frame[t].seen = "changes_requested"
  /\ coder = None
  /\ coder' = t
  /\ GoTo(t, "coding")
  /\ UNCHANGED <<store, resumable, frame, faults>>

(* approve_plan refuses any other status, and the refusal is a failure.    *)
RefuseCoding(t) ==
  /\ pc[t] = "start"
  /\ frame[t].seen # "changes_requested"
  /\ GoTo(t, "record")
  /\ UNCHANGED <<store, resumable, coder, frame, faults>>

CodingPasses(t) ==
  /\ pc[t] = "coding"
  /\ rev < MaxChanges
  /\ SetTaskStatus("in_review")
  /\ rev' = rev + 1
  /\ coder' = None
  /\ GoTo(t, "coded")
  /\ UNCHANGED <<reviews, proj, lane, delivered, resumable, frame, faults>>

(* Validation fails: committed as failed, with no exception.               *)
CodingFails(t) ==
  /\ pc[t] = "coding"
  /\ SetTaskStatus("failed")
  /\ coder' = None
  /\ GoTo(t, "coded")
  /\ UNCHANGED <<rev, reviews, proj, lane, delivered, resumable, frame, faults>>

(* Coding or publishing raises: rolled back, then recorded.                *)
CodingRaises(t) ==
  /\ pc[t] = "coding"
  /\ coder' = None
  /\ GoTo(t, "record")
  /\ UNCHANGED <<store, resumable, frame, faults>>

RecordFailure(t) ==
  /\ pc[t] = "record"
  /\ coder = None
  /\ SetTaskStatus("needs_attention")
  /\ Raise(t)
  /\ UNCHANGED <<rev, reviews, proj, lane, delivered, resumable, coder, faults>>

(* The result of the coding is read again; a front schedules the loop.     *)
ReadResult(t) ==
  /\ pc[t] = "coded"
  /\ IF Front(t)
     THEN GoTo(t, IF status \in Open THEN "schedule" ELSE "idle") /\ Keep(t, NoFrame)
     ELSE GoTo(t, "clear") /\ Keep(t, [NoFrame EXCEPT !.task = status])
  /\ UNCHANGED <<store, resumable, coder, faults>>

(* _clear_latest_review_projection.                                        *)
ClearProjection(t) ==
  /\ pc[t] = "clear"
  /\ coder = None
  /\ proj' = [proj EXCEPT !.blocking = None, !.status = None]
  /\ GoTo(t, "loop")
  /\ UNCHANGED <<status, rev, ctl, reviews, lane, delivered, resumable, coder, frame, faults>>

----------------------------------------------------------------------------
(* The reviewer answers; the review is committed before the projection.    *)
InsertReview(t, blocking) ==
  /\ pc[t] = "review"
  /\ coder = None
  /\ reviews' = Append(reviews, [rev |-> frame[t].head, blocking |-> blocking,
                                 status |-> "completed"])
  /\ Keep(t, [frame[t] EXCEPT !.review = Len(reviews) + 1])
  /\ GoTo(t, "project")
  /\ UNCHANGED <<status, rev, ctl, proj, lane, delivered, resumable, coder, faults>>

ReviewRaises(t) ==
  /\ pc[t] = "review"
  /\ Raise(t)
  /\ UNCHANGED <<store, resumable, coder, faults>>

(* _sync_parent_review_projection.                                         *)
Project(i, verdict) ==
  proj' = [blocking |-> reviews[i].blocking, status |-> verdict,
           count |-> Blocking(reviews)]

ProjectReview(t) ==
  /\ pc[t] = "project"
  /\ coder = None
  /\ Project(frame[t].review, "completed")
  /\ GoTo(t, "loop")
  /\ UNCHANGED <<status, rev, ctl, reviews, lane, delivered, resumable, coder, frame, faults>>

----------------------------------------------------------------------------
(* Mutant: the row stores the action instead of its status.                *)
VerdictOfAction(g) == g

VerdictOf(g) == IF g = "approve_review" THEN "approved" ELSE "changes_requested"

(* ReviewService.apply_action, in three transactions: the review row, the  *)
(* projection, the task.                                                   *)
MarkReview(t) ==
  /\ pc[t] = "mark"
  /\ coder = None
  /\ reviews' = [reviews EXCEPT ![frame[t].review].status = VerdictOf(frame[t].goal)]
  /\ GoTo(t, "projectVerdict")
  /\ UNCHANGED <<status, rev, ctl, proj, lane, delivered, resumable, coder, frame, faults>>

ProjectVerdict(t) ==
  /\ pc[t] = "projectVerdict"
  /\ coder = None
  /\ Project(frame[t].review, VerdictOf(frame[t].goal))
  /\ GoTo(t, "apply")
  /\ UNCHANGED <<status, rev, ctl, reviews, lane, delivered, resumable, coder, frame, faults>>

(* The statuses Ralph accepts the verdict in.                              *)
Acceptable(g) ==
  IF g = "approve_review" THEN Open ELSE {"in_review", "approved"}

(* The task leaves review: back to Ralph, or to the hand-over.             *)
SendBack(t) ==
  /\ pc[t] = "applying"
  /\ frame[t].goal \in {"request_changes", "handoff"}
  /\ frame[t].seen \in Acceptable(frame[t].goal)
  /\ coder = None
  /\ SetTaskStatus("changes_requested")
  /\ GoTo(t, IF frame[t].goal = "handoff" THEN "comment" ELSE "code")
  /\ UNCHANGED <<rev, reviews, proj, lane, delivered, resumable, coder, frame, faults>>

Approve(t) ==
  /\ pc[t] = "applying"
  /\ frame[t].goal = "approve_review"
  /\ frame[t].seen \in Acceptable("approve_review")
  /\ coder = None
  /\ SetTaskStatus("approved")
  /\ GoTo(t, "comment")
  /\ UNCHANGED <<rev, reviews, proj, lane, delivered, resumable, coder, frame, faults>>

(* What is approved already is not approved again.                         *)
SkipApproval(t) ==
  /\ pc[t] = "applying"
  /\ frame[t].goal = "approve_review"
  /\ frame[t].seen = "approved"
  /\ GoTo(t, "comment")
  /\ UNCHANGED <<store, resumable, coder, frame, faults>>

(* Another thread has moved the task on: Ralph refuses the action.         *)
RefuseVerdict(t) ==
  /\ pc[t] = "applying"
  /\ frame[t].seen \notin Acceptable(frame[t].goal) \cup {"approved"}
  /\ Raise(t)
  /\ UNCHANGED <<store, resumable, coder, faults>>

(* publish_final_result writes the final comment on GitHub; then the task  *)
(* is suspended or read again.                                             *)
Comment(t) ==
  /\ pc[t] = "comment"
  /\ coder = None
  /\ Keep(t, [frame[t] EXCEPT !.task = status])
  /\ GoTo(t, IF frame[t].goal = "handoff" THEN "suspend" ELSE "deliver")
  /\ UNCHANGED <<store, resumable, coder, faults>>

CommentRaises(t) ==
  /\ pc[t] = "comment"
  /\ Raise(t)
  /\ UNCHANGED <<store, resumable, coder, faults>>

(* mark_needs_attention, by the loop or the operator: whatever the status. *)
Suspend(t) ==
  /\ pc[t] = "suspend"
  /\ coder = None
  /\ SetTaskStatus("needs_attention")
  /\ GoTo(t, IF Front(t) THEN "idle" ELSE "handOver")
  /\ UNCHANGED <<rev, reviews, proj, lane, delivered, resumable, coder, frame, faults>>

(* Mutant: an approved task whose loop failed is recorded as completed.    *)
HandOverAsCompleted(t) ==
  /\ pc[t] = "handOver"
  /\ coder = None
  /\ ctl' = IF status = "approved" THEN "completed" ELSE "needs_attention"
  /\ GoTo(t, "release")
  /\ UNCHANGED <<status, rev, reviews, proj, lane, delivered, resumable, coder, frame, faults>>

(* _record_parent_result: the control task, then the lane.                 *)
HandOver(t) ==
  /\ pc[t] = "handOver"
  /\ coder = None
  /\ ctl' = "needs_attention"
  /\ GoTo(t, "release")
  /\ UNCHANGED <<status, rev, reviews, proj, lane, delivered, resumable, coder, frame, faults>>

(* Mutant: the recorded result leaves the task in the lane.                *)
ReleaseNothing(t) ==
  /\ pc[t] = "release"
  /\ coder = None
  /\ Finish(t)
  /\ UNCHANGED <<store, resumable, coder, faults>>

ReleaseLane(t) ==
  /\ pc[t] = "release"
  /\ coder = None
  /\ lane' = FALSE
  /\ Finish(t)
  /\ UNCHANGED <<status, rev, ctl, reviews, proj, delivered, resumable, coder, faults>>

----------------------------------------------------------------------------
(* Mutant: the final delivery is sent for any task the loop ends on.       *)
CanDeliverAnything(t) == frame[t].review # 0

(* _can_publish_final_delivery.                                            *)
CanDeliver(t) ==
  /\ frame[t].task = "approved"
  /\ frame[t].review # 0
  /\ ~reviews[frame[t].review].blocking
  /\ reviews[frame[t].review].status \in {"approved", "completed"}

(* The final delivery is sent ...                                          *)
Deliver(t) ==
  /\ pc[t] = "deliver"
  /\ CanDeliver(t)
  /\ delivered' = delivered \cup {rev}
  /\ GoTo(t, "complete")
  /\ UNCHANGED <<status, rev, ctl, reviews, proj, lane, resumable, coder, frame, faults>>

(* ... and recorded.                                                       *)
Complete(t) ==
  /\ pc[t] = "complete"
  /\ coder = None
  /\ ctl' = "completed"
  /\ GoTo(t, "release")
  /\ UNCHANGED <<status, rev, reviews, proj, lane, delivered, resumable, coder, frame, faults>>

(* Nothing to deliver: the loop returns the task as it is.                 *)
ReturnTask(t) ==
  /\ pc[t] = "deliver"
  /\ ~CanDeliver(t)
  /\ Finish(t)
  /\ UNCHANGED <<store, resumable, coder, faults>>

----------------------------------------------------------------------------
(* _escalate_follow_up_failure: read the task, suspend it unless it has    *)
(* ended, record the result.                                               *)
Escalate(t) ==
  /\ pc[t] = "error"
  /\ coder = None
  /\ GoTo(t, IF status \in Open THEN "suspend" ELSE "handOver")
  /\ UNCHANGED <<store, resumable, coder, frame, faults>>

Fault == faults < MaxFaults /\ faults' = faults + 1

Writing == {"queued", "resuming", "start", "record", "clear", "review", "project", "mark",
            "projectVerdict", "applying", "comment", "suspend", "handOver", "complete", "release",
            "error"}

(* The write lock is not free within busy_timeout.                         *)
LockTimeout(t) ==
  /\ pc[t] \in Writing
  /\ Fault
  /\ IF pc[t] = "start" THEN GoTo(t, "record") /\ UNCHANGED frame ELSE Raise(t)
  /\ UNCHANGED <<store, resumable, coder>>

(* The mark "processing" precedes the job's try.                           *)
JobFails(t) ==
  /\ pc[t] = "queued"
  /\ Fault
  /\ Finish(t)
  /\ UNCHANGED <<store, resumable, coder>>

(* The mark "queued" follows the scheduling.                               *)
ScheduleFails(t) ==
  /\ pc[t] = "schedule"
  /\ Fault
  /\ Scheduled(t, IF t[1] \in Schedulers THEN "dead" ELSE "idle")
  /\ UNCHANGED <<store, resumable, coder, frame>>

(* GitHub does not list the issues: poll_once raises.                      *)
PollRaises(t) ==
  /\ Front(t) /\ pc[t] = "idle"
  /\ Fault
  /\ Raise(t)
  /\ UNCHANGED <<store, resumable, coder>>

(* A process dies and is started again: its threads are gone, SQLite rolls *)
(* its coding transaction back.                                            *)
Crash(p) ==
  /\ \E t \in Threads : t[1] = p /\ pc[t] # "idle"
  /\ Fault
  /\ pc' = [t \in Threads |-> IF t[1] = p THEN "idle" ELSE pc[t]]
  /\ frame' = [t \in Threads |-> IF t[1] = p THEN NoFrame ELSE frame[t]]
  /\ coder' = IF coder # None /\ coder[1] = p THEN None ELSE coder
  /\ UNCHANGED <<store, resumable>>

(* What a thread does once it has begun.                                   *)
Step(t) ==
  \/ Resume(t) \/ ResumeCoding(t) \/ Schedule(t) \/ BeginLoop(t)
  \/ CodeAgain(t) \/ BeginReview(t) \/ CarryOut(t) \/ BeginDelivery(t) \/ Stop(t)
  \/ ReadTask(t) \/ BeginCoding(t) \/ RefuseCoding(t)
  \/ CodingPasses(t) \/ CodingFails(t) \/ CodingRaises(t)
  \/ RecordFailure(t) \/ ReadResult(t) \/ ClearProjection(t)
  \/ \E blocking \in BOOLEAN : InsertReview(t, blocking)
  \/ ReviewRaises(t) \/ ProjectReview(t)
  \/ MarkReview(t) \/ ProjectVerdict(t)
  \/ SendBack(t) \/ Approve(t) \/ SkipApproval(t) \/ RefuseVerdict(t)
  \/ Comment(t) \/ CommentRaises(t) \/ Suspend(t) \/ HandOver(t)
  \/ ReleaseLane(t)
  \/ Deliver(t) \/ Complete(t) \/ ReturnTask(t)
  \/ Escalate(t)

Fails(t) ==
  LockTimeout(t) \/ JobFails(t) \/ ScheduleFails(t) \/ PollRaises(t)

Next ==
  /\ \/ \E t \in Threads : Poll(t) \/ Operate(t) \/ MarkControl(t) \/ Step(t) \/ Fails(t)
     \/ \E p \in Processes : Crash(p)
  /\ Watch

Spec == Init /\ [][Next]_vars

(* A scheduler polls for ever and a thread that has begun goes on; nobody  *)
(* counts on the operator.                                                 *)
FairSpec ==
  /\ Spec
  /\ \A p \in Schedulers : WF_vars(Poll(<<p, "front">>) /\ Watch)
  /\ \A t \in Threads : WF_vars(Step(t) /\ Watch)

----------------------------------------------------------------------------
FrontPlaces ==
  {"idle", "resume", "resuming", "code", "start", "coding", "coded", "record", "schedule",
   "suspend", "dead"}

JobPlaces ==
  {"idle", "queued", "loop", "code", "start", "coding", "coded", "record", "clear",
   "review", "project", "mark", "projectVerdict", "apply", "applying", "comment", "deliver",
   "complete", "suspend", "handOver", "release", "error"}

Goals == {"request_changes", "handoff", "approve_review"}

Frames ==
  [task : Statuses \cup {None}, seen : Statuses \cup {None}, review : Nat, head : Nat,
   goal : Goals \cup {"escalate", None}]

(* The type invariant.                                                     *)
TypeOK ==
  /\ status \in Statuses
  /\ ctl \in Statuses \cup {"completed"}
  /\ rev \in Nat \ {0}
  /\ reviews \in Seq(Reviews)
  /\ proj \in [blocking : BOOLEAN \cup {None}, status : Verdicts \cup {None}, count : Nat]
  /\ lane \in BOOLEAN
  /\ delivered \subseteq 1..rev
  /\ resumable \in BOOLEAN
  /\ coder \in Threads \cup {None}
  /\ pc \in [Threads -> FrontPlaces \cup JobPlaces]
  /\ frame \in [Threads -> Frames]
  /\ \A t \in Threads :
       /\ pc[t] \in IF Front(t) THEN FrontPlaces ELSE JobPlaces
       /\ frame[t].review \in 0..Len(reviews) /\ frame[t].head \in 0..rev
  /\ overlapped \in BOOLEAN
  /\ faults \in 0..MaxFaults

(* Inductive with TypeOK: a review that is shown or judged exists, and the *)
(* loop holds a status.                                                    *)
ReviewsExist ==
  /\ proj.blocking # None \/ proj.status # None => Len(reviews) > 0
  /\ \A t \in Threads :
       /\ pc[t] \in {"project", "mark", "projectVerdict"} => frame[t].review > 0
       /\ pc[t] \in {"loop", "review", "project", "clear"} => frame[t].task \in Statuses

(* docs/architecture/agent-system-overview.md:173, of each change that is  *)
(* sent: its own review passed.  Not so when two threads work on the task  *)
(* at once.                                                                *)
DeliveriesWereReviewed ==
  \A d \in delivered :
    \E i \in 1..Len(reviews) :
      reviews[i].rev = d /\ ~reviews[i].blocking /\ reviews[i].status = "approved"

(* The final delivery is sent only after the review loop has passed        *)
(* (agent-system-overview.md:173, automation.py:648-703).                  *)
(* Whatever the threads do, some change had a review without a blocking    *)
(* finding; and unless two of them worked on the task at once, it was the  *)
(* delivered change itself, and the review was approved.                   *)
DeliveryWasReviewed ==
  /\ delivered # {} => \E i \in 1..Len(reviews) : ~reviews[i].blocking
  /\ overlapped \/ DeliveriesWereReviewed

(* The control task says completed only after a delivery, and, unless two  *)
(* threads worked on the task at once, only for an approved task whose     *)
(* head was delivered (automation.py:648-686).                             *)
CompletedIsTrue ==
  ctl = "completed" =>
    /\ delivered # {}
    /\ overlapped \/ (status = "approved" /\ rev \in delivered)

(* The reviewer and Ralph do not pass the change back and forth for ever:  *)
(* it is coded at most once per round, and a fault costs at most one more  *)
(* (automation.py:467-499), unless two threads worked on the task at once. *)
RepairsAreBounded == overlapped \/ rev <= MaxRounds + faults

(* As long as one thread at a time works on the task, the following is     *)
(* inductive.                                                              *)
Job(p) == <<p, "job">>

Latest == reviews[Len(reviews)]

(* Only what was sent back is coded, by the thread that holds the lock.    *)
CodingSound(t) ==
  /\ coder = t <=> pc[t] = "coding"
  /\ pc[t] = "start" => frame[t].seen = status
  /\ pc[t] = "coding" => status = "changes_requested"

(* What the projection shows is the latest review; what it approves is the *)
(* head; what was sent back is projected so; what is approved is settled.  *)
ProjectionSound ==
  /\ proj.blocking # None =>
       /\ Len(reviews) > 0 /\ Latest.blocking = proj.blocking
       /\ proj.count = Blocking(reviews)
       /\ proj.blocking = FALSE => Latest.rev = rev
  /\ status = "changes_requested" => proj.blocking = TRUE
  /\ status = "approved" =>
       proj.blocking = FALSE /\ proj.status = "approved" /\ Latest.status = "approved"

(* What a thread holds, from place to place.                               *)
FrameSound(t) ==
  LET f == frame[t]
      At(places) == pc[t] \in places
      Last == f.review = Len(reviews)
  IN /\ IF At(Resting) \/ Front(t) THEN f.review = 0 ELSE f.review = 0 \/ Last
     /\ At({"loop"}) =>
          /\ f.task = status
          /\ f.review # 0 => status = "in_review" /\ proj.blocking # None
     /\ At({"review", "project"}) =>
          status = "in_review" /\ f.task = "in_review" /\ f.head = rev /\ proj.blocking = None
     /\ At({"review"}) => f.review = 0
     /\ At({"project"}) => Last /\ f.review > 0 /\ Latest.rev = rev
     /\ At({"mark", "projectVerdict", "apply", "applying"}) =>
          /\ status = "in_review" /\ Last /\ proj.blocking # None
          /\ f.goal \in Goals /\ (f.goal = "approve_review" <=> proj.blocking = FALSE)
          /\ f.goal = "request_changes" => Blocking(reviews) < MaxRounds
     /\ At({"projectVerdict", "apply", "applying"}) => Latest.status = VerdictOf(f.goal)
     /\ At({"apply", "applying"}) => proj.status = VerdictOf(f.goal)
     /\ At({"applying"}) => f.seen = "in_review"
     /\ At({"comment"}) =>
          /\ Last
          /\ \/ f.goal = "handoff" /\ status = "changes_requested"
             \/ f.goal = "approve_review" /\ status = "approved"
     /\ At({"clear"}) => f.task = status /\ f.review = 0
     /\ ~Front(t) =>
          /\ At({"coded", "clear"}) => status \in {"in_review", "failed"} /\ proj.blocking = TRUE
          /\ At({"suspend"}) => status \in Open
     /\ At({"deliver"}) => f.task = status /\ Last
     /\ At({"deliver", "handOver", "release"}) => status \notin Open
     /\ At({"complete"}) => status = "approved" /\ rev \in delivered

DeliveredSound ==
  /\ delivered \subseteq {rev}
  /\ delivered # {} =>
       /\ status \in {"approved", "needs_attention"}
       /\ Len(reviews) > 0 /\ Latest.rev = rev /\ ~Latest.blocking /\ Latest.status = "approved"
  /\ ctl = "completed" => status = "approved" /\ rev \in delivered

(* What is left of the rounds: a change that waits for its next coding has *)
(* paid for it with a blocking review or with a fault.                     *)
RoundsLeft ==
  /\ rev <= MaxRounds + faults
  /\ status = "in_review" /\ proj.blocking = None => rev <= Blocking(reviews) + 1 + faults

RepairsLeft ==
  LET At(places) == \E p \in Processes : pc[Job(p)] \in places
  IN /\ status \in Open /\ proj.blocking = TRUE =>
          IF At({"coded", "clear"})
          THEN Blocking(reviews) < MaxRounds /\ rev <= Blocking(reviews) + 1 + faults
          ELSE rev <= Blocking(reviews) + faults
     /\ At({"project"}) /\ Latest.blocking => rev <= Blocking(reviews) + faults
     /\ At({"code", "start", "coding"}) => Blocking(reviews) < MaxRounds
     /\ status = "changes_requested" /\ (\A p \in Processes : pc[Job(p)] \in {"idle", "queued", "loop"}) =>
          rev < Blocking(reviews) + faults /\ rev < MaxRounds + faults

OneWorks ==
  \A t, u \in Threads : pc[t] \notin Resting /\ pc[u] \notin Resting => t = u

ReviewInvariant ==
  overlapped \/
    (/\ OneWorks /\ ProjectionSound /\ DeliveredSound /\ RoundsLeft /\ RepairsLeft
     /\ \A t \in Threads : CodingSound(t) /\ FrameSound(t))

SchedulerStopped == \E p \in Schedulers : pc[<<p, "front">>] = "dead"

(* The loop ends: a task in review or sent back is approved, failed or     *)
(* handed to a human in the end (agent-system-overview.md:161-163, not     *)
(* "silently stuck").  A process may die on the way, and two threads may   *)
(* work on the task at once, provided that the scheduler goes on polling   *)
(* and the claim brings it back to the task.                               *)
LoopEnds ==
  (status \in Open) ~>
    (status \notin Open \/ SchedulerStopped \/ (~resumable /\ (faults > 0 \/ overlapped)))

(* What is approved is delivered or handed over, and gives the lane back,  *)
(* unless a fault struck or another thread worked on it meanwhile          *)
(* (automation.py:648-686 and 817-859).                                    *)
ApprovedIsSettled ==
  (status = "approved") ~>
    (faults > 0 \/ overlapped \/ (ctl \in {"completed", "needs_attention"} /\ ~lane))

(* A failed or suspended task is not delivered any more, unless two        *)
(* threads work on it at once (automation.py:484-499 and 694-703).         *)
EndIsFinal ==
  [][(status \in {"failed", "needs_attention"} /\ ~overlapped)
       => ctl' # "completed" /\ delivered' = delivered]_vars
=============================================================================
