----------------------------- MODULE RalphTask -----------------------------
(***************************************************************************)
(* The life of one coding task: its row in sleep_coding_tasks, the control *)
(* task that mirrors it, and the operations of app/agents/ralph on them.   *)
(*                                                                         *)
(* An operation reads the row with a SELECT that opens no transaction,     *)
(* checks the status it read, and takes SQLite's write lock at its first   *)
(* UPDATE.  From there to the commit it works on an uncommitted draft, and *)
(* approve_plan holds the lock while it codes, validates and publishes.    *)
(* The status an operation decides on may therefore be stale when it       *)
(* writes; the variable stale records that this has happened.              *)
(*                                                                         *)
(* Some writers touch the control task alone: the operator's mark, the     *)
(* worker that marks it timed out, the control loop that records how the   *)
(* task ended.  The history variable apart says that the control task was  *)
(* last written by one of them.                                            *)
(*                                                                         *)
(* Actors are the threads that call the service: the worker's poll, the    *)
(* review-loop job, the requests of the API.  Transactions of other tasks  *)
(* on the same file are the reason why a lock may time out at any moment.  *)
(***************************************************************************)
EXTENDS Naturals

CONSTANTS
  Actors,     \* threads that call the service
  None,       \* nobody holds the write lock
  MaxFaults   \* bound: crashes and lock timeouts

ASSUME NoneAssumption == None \notin Actors
ASSUME FaultAssumption == MaxFaults \in Nat

VARIABLES
  row,      \* committed row of sleep_coding_tasks
  ctl,      \* committed control task
  draft,    \* [row, ctl] as the open transaction sees them
  writer,   \* who holds SQLite's write lock
  pc,       \* pc[a]: where actor a is
  action,   \* action[a]: the action it applies
  seen,     \* seen[a]: what it read of the row before it had the lock
  prs,      \* pull requests asked of GitHub (create_pull_request)
  stale,    \* an action was decided on a status that had changed
  apart,    \* the control task was last written without the row
  faults

vars == <<row, ctl, draft, writer, pc, action, seen, prs, stale, apart, faults>>

----------------------------------------------------------------------------
(* "absent": not in the table.                                             *)
Statuses == {"absent", "created", "planning", "awaiting_confirmation", "coding",
             "validating", "in_review", "changes_requested", "approved",
             "cancelled", "failed", "needs_attention"}

(* What is written to the control task alone.                              *)
OutsideStatuses == {"needs_attention", "timed_out", "completed"}

Decisions == {"request_changes", "approve_pr", "reject_plan", "cancel_task"}

TaskActions == Decisions \cup {"approve_plan"}

Rows == [status : Statuses, validation : {"pending", "passed", "failed"},
         evidence : BOOLEAN, pr : BOOLEAN]

Controls == [status : Statuses \cup OutsideStatuses, pr : BOOLEAN]

(* What an action looks at in the row that it read.                        *)
Reads == [status : Statuses, pr : BOOLEAN]

NoRow == [status |-> "absent", validation |-> "pending", evidence |-> FALSE, pr |-> FALSE]

NoControl == [status |-> "absent", pr |-> FALSE]

(* Mutant: a change request is accepted for a task that was cancelled.     *)
AllowedFromAnyEnd(act) ==
  CASE act = "approve_plan" -> {"awaiting_confirmation", "changes_requested"}
    [] act = "request_changes" -> {"in_review", "approved", "cancelled", "failed"}
    [] act = "approve_pr" -> {"in_review", "changes_requested"}
    [] act = "reject_plan" -> {"awaiting_confirmation"}
    [] act = "cancel_task" -> {"created", "planning", "awaiting_confirmation",
                               "changes_requested", "in_review"}

(* The statuses an action is accepted from.                                *)
AllowedFrom(act) ==
  CASE act = "approve_plan" -> {"awaiting_confirmation", "changes_requested"}
    [] act = "request_changes" -> {"in_review", "approved"}
    [] act = "approve_pr" -> {"in_review", "changes_requested"}
    [] act = "reject_plan" -> {"awaiting_confirmation"}
    [] act = "cancel_task" -> {"created", "planning", "awaiting_confirmation",
                               "changes_requested", "in_review"}

(* Mutant: a decision sets a status that no reader of the row knows.       *)
TargetOfUnknown(act) ==
  CASE act = "request_changes" -> "changes_requested"
    [] act = "approve_pr" -> "approved"
    [] act \in {"reject_plan", "cancel_task"} -> "rejected"

(* The status a decision sets.                                             *)
TargetOf(act) ==
  CASE act = "request_changes" -> "changes_requested"
    [] act = "approve_pr" -> "approved"
    [] act \in {"reject_plan", "cancel_task"} -> "cancelled"

----------------------------------------------------------------------------
Init ==
  /\ row = NoRow
  /\ ctl = NoControl
  /\ draft = [row |-> NoRow, ctl |-> NoControl]
  /\ writer = None
  /\ pc = [a \in Actors |-> "idle"]
  /\ action = [a \in Actors |-> "approve_plan"]
  /\ seen = [a \in Actors |-> [status |-> "absent", pr |-> FALSE]]
  /\ prs = 0
  /\ stale = FALSE
  /\ apart = FALSE
  /\ faults = 0

(* Where an actor still has a result to record.                            *)
Recording == {"complete", "completed", "handoff", "handed_off"}

GoTo(a, where) == pc' = [pc EXCEPT ![a] = where]

(* The draft after update_status and _sync_control_task.                   *)
SetBoth(r, status) ==
  draft' = [row |-> [r EXCEPT !.status = status],
            ctl |-> [draft.ctl EXCEPT !.status = status]]

(* The first UPDATE takes the write lock; the draft starts from what is    *)
(* committed now, whatever the actor read before.                          *)
TakeLock(a, newRow, newCtl) ==
  /\ writer = None
  /\ writer' = a
  /\ draft' = [row |-> newRow, ctl |-> newCtl]
  /\ apart' = apart

Commit(newRow, newCtl) ==
  /\ row' = newRow
  /\ ctl' = newCtl
  /\ apart' = FALSE
  /\ writer' = None
  /\ draft' = [row |-> NoRow, ctl |-> NoControl]

Rollback ==
  /\ writer' = None
  /\ draft' = [row |-> NoRow, ctl |-> NoControl]
  /\ UNCHANGED <<row, ctl, apart>>

(* A short transaction: lock, update both, commit.                         *)
SetStatus(status) ==
  /\ writer = None
  /\ Commit([row EXCEPT !.status = status], [ctl EXCEPT !.status = status])

(* A transaction of its own that writes the control task only.             *)
SetControl(status) ==
  /\ writer = None
  /\ ctl' = [ctl EXCEPT !.status = status]
  /\ apart' = TRUE
  /\ UNCHANGED <<row, draft, writer>>

----------------------------------------------------------------------------
(* start_task: the control task is committed on its own, before the row.   *)
CreateControl(a) ==
  /\ pc[a] = "idle"
  /\ ctl.status = "absent"
  /\ writer = None
  /\ Commit(row, [status |-> "created", pr |-> FALSE])
  /\ GoTo(a, "insert")
  /\ UNCHANGED <<action, seen, prs, stale, faults>>

(* Insert the row and plan, in one transaction that lasts as long as the   *)
(* planning model call and the GitHub comment.                             *)
InsertTask(a) ==
  /\ pc[a] = "insert"
  /\ TakeLock(a, [NoRow EXCEPT !.status = "planning"], [ctl EXCEPT !.status = "planning"])
  /\ GoTo(a, "plan")
  /\ UNCHANGED <<row, ctl, action, seen, prs, stale, faults>>

PlanReady(a) ==
  /\ pc[a] = "plan"
  /\ Commit([draft.row EXCEPT !.status = "awaiting_confirmation"],
            [draft.ctl EXCEPT !.status = "awaiting_confirmation"])
  /\ GoTo(a, "idle")
  /\ UNCHANGED <<action, seen, prs, stale, faults>>

(* The plan, the comment or the labels fail: the row is rolled back, the   *)
(* control task stays.                                                     *)
PlanFails(a) ==
  /\ pc[a] = "plan"
  /\ Rollback
  /\ GoTo(a, "idle")
  /\ UNCHANGED <<action, seen, prs, stale, faults>>

----------------------------------------------------------------------------
(* apply_action reads the row.                                             *)
ReadRow(a, act) ==
  /\ row.status # "absent"
  /\ action' = [action EXCEPT ![a] = act]
  /\ seen' = [seen EXCEPT ![a] = [status |-> row.status, pr |-> row.pr]]
  /\ GoTo(a, "decide")
  /\ UNCHANGED <<row, ctl, draft, writer, prs, stale, apart, faults>>

ApplyAction(a, act) == pc[a] = "idle" /\ ReadRow(a, act)

(* resume_task: a task with requested changes is coded again; any other    *)
(* committed status returns at once.                                       *)
ResumeTask(a) ==
  /\ pc[a] = "idle"
  /\ row.status = "changes_requested"
  /\ GoTo(a, "resume")
  /\ UNCHANGED <<row, ctl, draft, writer, action, seen, prs, stale, apart, faults>>

ResumeCoding(a) == pc[a] = "resume" /\ ReadRow(a, "approve_plan")

(* Where a failed call goes: only approve_plan records its failure.        *)
AfterError(a) == IF action[a] = "approve_plan" THEN "failure" ELSE "idle"

(* _ensure_status refuses what it read.                                    *)
Refuse(a) ==
  /\ pc[a] = "decide"
  /\ seen[a].status \notin AllowedFrom(action[a])
  /\ GoTo(a, AfterError(a))
  /\ UNCHANGED <<row, ctl, draft, writer, action, seen, prs, stale, apart, faults>>

NoteStaleness(a) == stale' = (stale \/ seen[a].status # row.status)

(* request_changes, approve_pr, reject_plan, cancel_task.                  *)
Decide(a) ==
  /\ pc[a] = "decide"
  /\ action[a] \in Decisions
  /\ seen[a].status \in AllowedFrom(action[a])
  /\ SetStatus(TargetOf(action[a]))
  /\ NoteStaleness(a)
  /\ GoTo(a, "idle")
  /\ UNCHANGED <<action, seen, prs, faults>>

(* handle_approve_plan, up to the draft of the change.                     *)
StartCoding(a) ==
  /\ pc[a] = "decide"
  /\ action[a] = "approve_plan"
  /\ seen[a].status \in AllowedFrom(action[a])
  /\ TakeLock(a, [row EXCEPT !.status = "coding"], [ctl EXCEPT !.status = "coding"])
  /\ NoteStaleness(a)
  /\ GoTo(a, "coding")
  /\ UNCHANGED <<row, ctl, action, seen, prs, faults>>

(* Mutant: the change is not required to leave evidence.                   *)
CodedWithoutEvidence(a) ==
  /\ pc[a] = "coding"
  /\ \E found \in BOOLEAN :
       SetBoth([draft.row EXCEPT !.evidence = found], "validating")
  /\ GoTo(a, "validating")
  /\ UNCHANGED <<row, ctl, writer, action, seen, prs, stale, apart, faults>>

(* The worktree holds a change and its diff is recorded.                   *)
Coded(a) ==
  /\ pc[a] = "coding"
  /\ SetBoth([draft.row EXCEPT !.evidence = TRUE], "validating")
  /\ GoTo(a, "validating")
  /\ UNCHANGED <<row, ctl, writer, action, seen, prs, stale, apart, faults>>

Validate(a, result) ==
  /\ pc[a] = "validating"
  /\ draft' = [draft EXCEPT !.row.validation = result]
  /\ GoTo(a, IF result = "failed" THEN "failing" ELSE "publish")
  /\ UNCHANGED <<row, ctl, writer, action, seen, prs, stale, apart, faults>>

(* record_validation_failure and the notification that precedes the commit *)
CommitFailed(a) ==
  /\ pc[a] = "failing"
  /\ Commit([draft.row EXCEPT !.status = "failed"], [draft.ctl EXCEPT !.status = "failed"])
  /\ GoTo(a, "idle")
  /\ UNCHANGED <<action, seen, prs, stale, faults>>

(* Mutant: only the row read before the lock is asked for a pull request.  *)
RecordedPROfRow(a) == seen[a].pr

(* _resolve_existing_pull_request: the row that was read, or the control   *)
(* task as the transaction sees it.                                        *)
RecordedPR(a) == seen[a].pr \/ draft.ctl.pr

(* Commit and push, then reuse the recorded pull request or ask for one.   *)
OpenPullRequest(a) ==
  /\ pc[a] = "publish"
  /\ prs' = IF RecordedPR(a) THEN prs ELSE prs + 1
  /\ GoTo(a, "publishing")
  /\ UNCHANGED <<row, ctl, draft, writer, action, seen, stale, apart, faults>>

(* Mutant: the control task is published with the pull request unrecorded. *)
CommitReviewLosesPR(a) ==
  /\ pc[a] = "publishing"
  /\ Commit([draft.row EXCEPT !.status = "in_review", !.pr = TRUE],
            [draft.ctl EXCEPT !.status = "in_review"])
  /\ GoTo(a, "idle")
  /\ UNCHANGED <<action, seen, prs, stale, faults>>

(* Mutant: the coding status is committed before the pull request is.      *)
CommitReviewEarly(a) ==
  /\ pc[a] = "publishing"
  /\ Commit(draft.row, draft.ctl)
  /\ GoTo(a, "idle")
  /\ UNCHANGED <<action, seen, prs, stale, faults>>

(* publish_pull_request and the commit.                                    *)
CommitReview(a) ==
  /\ pc[a] = "publishing"
  /\ Commit([draft.row EXCEPT !.status = "in_review", !.pr = TRUE],
            [draft.ctl EXCEPT !.status = "in_review", !.pr = TRUE])
  /\ GoTo(a, "idle")
  /\ UNCHANGED <<action, seen, prs, stale, faults>>

(* The model call, git, the missing evidence, GitHub or the notification   *)
(* raises: the transaction is rolled back.                                 *)
ExecutionFails(a) ==
  /\ pc[a] \in {"coding", "validating", "failing", "publish", "publishing"}
  /\ Rollback
  /\ GoTo(a, "failure")
  /\ UNCHANGED <<action, seen, prs, stale, faults>>

(* _record_execution_failure: whatever the status is by now.               *)
RecordFailure(a) ==
  /\ pc[a] = "failure"
  /\ SetStatus("needs_attention")
  /\ GoTo(a, "idle")
  /\ UNCHANGED <<action, seen, prs, stale, faults>>

(* mark_needs_attention, by the operator or by the control loop.           *)
MarkNeedsAttention(a) ==
  /\ pc[a] = "idle"
  /\ row.status # "absent"
  /\ SetStatus("needs_attention")
  /\ UNCHANGED <<pc, action, seen, prs, stale, faults>>

(* handle_control_task_action without a coding task's id: the snapshot was *)
(* taken before the row existed, or its event is such a mark.              *)
MarkControl(a) ==
  /\ pc[a] = "idle"
  /\ ctl.status # "absent"
  /\ SetControl("needs_attention")
  /\ UNCHANGED <<pc, action, seen, prs, stale, faults>>

(* poll_once, for the task of a claim whose lease ran out.                 *)
MarkTimedOut(a) ==
  /\ pc[a] = "idle"
  /\ row.status # "absent"
  /\ SetControl("timed_out")
  /\ UNCHANGED <<pc, action, seen, prs, stale, faults>>

(* The control loop delivers a task that it read as approved.              *)
Deliver(a) ==
  /\ pc[a] = "idle"
  /\ row.status = "approved"
  /\ GoTo(a, "complete")
  /\ UNCHANGED <<row, ctl, draft, writer, action, seen, prs, stale, apart, faults>>

(* It hands a task over: it suspends it, or finds it at an end.            *)
HandOver(a) ==
  /\ pc[a] = "idle"
  /\ \/ row.status # "absent" /\ SetStatus("needs_attention")
     \/ /\ row.status \in {"approved", "failed", "cancelled", "needs_attention"}
        /\ UNCHANGED <<row, ctl, apart, draft, writer>>
  /\ GoTo(a, "handoff")
  /\ UNCHANGED <<action, seen, prs, stale, faults>>

(* _record_parent_result, called twice: the end is written to the control  *)
(* task, whatever the row says by now.                                     *)
RecordResult(a) ==
  /\ \/ /\ pc[a] \in {"complete", "completed"}
        /\ SetControl("completed")
        /\ GoTo(a, IF pc[a] = "complete" THEN "completed" ELSE "idle")
     \/ /\ pc[a] \in {"handoff", "handed_off"}
        /\ SetControl("needs_attention")
        /\ GoTo(a, IF pc[a] = "handoff" THEN "handed_off" ELSE "idle")
  /\ UNCHANGED <<action, seen, prs, stale, faults>>

(* The write lock is not free within busy_timeout: "database is locked".   *)
LockTimeout(a) ==
  /\ \/ pc[a] = "decide" /\ seen[a].status \in AllowedFrom(action[a])
     \/ pc[a] \in {"insert", "failure"} \cup Recording
  /\ faults < MaxFaults
  /\ faults' = faults + 1
  /\ GoTo(a, IF pc[a] = "decide" THEN AfterError(a) ELSE "idle")
  /\ UNCHANGED <<row, ctl, draft, writer, action, seen, prs, stale, apart>>

(* The process dies; SQLite rolls its transaction back.                    *)
Crash(a) ==
  /\ pc[a] # "idle"
  /\ faults < MaxFaults
  /\ faults' = faults + 1
  /\ IF writer = a THEN Rollback ELSE UNCHANGED <<row, ctl, apart, draft, writer>>
  /\ GoTo(a, "idle")
  /\ UNCHANGED <<action, seen, prs, stale>>

----------------------------------------------------------------------------
Next ==
  \E a \in Actors :
    \/ CreateControl(a) \/ InsertTask(a) \/ PlanReady(a) \/ PlanFails(a)
    \/ \E act \in TaskActions : ApplyAction(a, act)
    \/ ResumeTask(a) \/ ResumeCoding(a)
    \/ Refuse(a) \/ Decide(a) \/ StartCoding(a) \/ Coded(a)
    \/ \E result \in {"passed", "failed"} : Validate(a, result)
    \/ CommitFailed(a) \/ OpenPullRequest(a) \/ CommitReview(a)
    \/ ExecutionFails(a) \/ RecordFailure(a) \/ MarkNeedsAttention(a)
    \/ MarkControl(a) \/ MarkTimedOut(a)
    \/ Deliver(a) \/ HandOver(a) \/ RecordResult(a)
    \/ LockTimeout(a) \/ Crash(a)

Spec == Init /\ [][Next]_vars

----------------------------------------------------------------------------
InTransaction == {"plan", "coding", "validating", "failing", "publish", "publishing"}

(* The type invariant.                                                     *)
TypeOK ==
  /\ row \in Rows
  /\ ctl \in Controls
  /\ draft \in [row : Rows, ctl : Controls]
  /\ writer \in Actors \cup {None}
  /\ pc \in [Actors -> InTransaction \cup Recording
                       \cup {"idle", "insert", "resume", "decide", "failure"}]
  /\ action \in [Actors -> TaskActions]
  /\ seen \in [Actors -> Reads]
  /\ prs \in Nat
  /\ stale \in BOOLEAN
  /\ apart \in BOOLEAN
  /\ faults \in 0..MaxFaults

(* The control task and the coding task part only where somebody wrote the *)
(* control task alone: whatever Ralph commits, in whatever order threads   *)
(* crash, time out or roll back, it commits to both, and the pull request  *)
(* is known to both or to neither.  A control task without its row is new, *)
(* or was marked (application.py:356-377; automation.py:447 and 827,       *)
(* sleep_coding_worker.py:78).                                             *)
ControlMirrorsTask ==
  /\ ctl.pr = row.pr
  /\ IF apart
     THEN /\ ctl.status \in OutsideStatuses
          /\ row.status = "absent" => ctl.status = "needs_attention"
     ELSE IF row.status = "absent"
          THEN ctl.status \in {"absent", "created"}
          ELSE ctl.status = row.status

(* A committed status is never one of the phases inside a transaction: no  *)
(* failure or crash leaves a task planning, coding or validating for ever  *)
(* (workflow.py:111-205 and 226-367).                                      *)
OnlySettledStatuses ==
  row.status \notin {"created", "planning", "coding", "validating"}

Ready(r) == r.validation = "passed" /\ r.evidence /\ r.pr

(* What is in review has passed validation, changed something and has a    *)
(* pull request; and so has what was approved or sent back, unless a stale *)
(* decision was ever applied (workflow.py:226-509).                        *)
ReviewedWorkIsReady ==
  /\ row.status = "in_review" => Ready(row)
  /\ ~stale /\ row.status \in {"approved", "changes_requested"} => Ready(row)

(* What makes them inductive: the lock and the phases inside a transaction *)
(* belong together, the draft carries what the phases already established, *)
(* and the row is planned once.                                            *)
CodingPhases == InTransaction \ {"plan"}

LockHeld == \A a \in Actors : pc[a] \in InTransaction <=> writer = a

DraftSound ==
  \A a \in Actors :
    /\ pc[a] = "plan" => ~draft.row.pr /\ ~draft.ctl.pr
    /\ pc[a] \in CodingPhases =>
         /\ draft.row.pr = row.pr /\ draft.ctl.pr = row.pr
         /\ ~stale => row.status \in AllowedFrom("approve_plan")
    /\ pc[a] \in CodingPhases \ {"coding"} => draft.row.evidence
    /\ pc[a] \in {"publish", "publishing"} => draft.row.validation = "passed"

PlannedOnce ==
  /\ \A a \in Actors :
       IF pc[a] \in {"insert", "plan"}
       THEN row.status = "absent" /\ ctl.status # "absent"
       ELSE pc[a] # "idle" => row.status # "absent"
  /\ \A a, b \in Actors :
       pc[a] \in {"insert", "plan"} /\ pc[b] \in {"insert", "plan"} => a = b
  /\ row.status = "absent" => ~row.pr

TaskInvariant ==
  /\ TypeOK
  /\ ControlMirrorsTask
  /\ OnlySettledStatuses
  /\ ReviewedWorkIsReady
  /\ LockHeld
  /\ DraftSound
  /\ PlannedOnce

(* A failed, cancelled or suspended task is never worked on again: its     *)
(* status only ever becomes needs_attention, unless a stale decision was   *)
(* applied (the guards of application.py:250-305 and workflow.py:232).     *)
EndsAreFinal ==
  [][row.status \in {"failed", "cancelled", "needs_attention"} /\ ~stale'
       => row'.status \in {row.status, "needs_attention"}]_vars

(* GitHub is never asked for a second pull request while one is recorded,  *)
(* even by an actor that read the row before it was recorded               *)
(* (application.py:379-412).                                               *)
RecordedPRIsReused == [][prs' # prs => ~row.pr /\ ~ctl.pr]_vars
=============================================================================
