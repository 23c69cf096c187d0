---------------------------- MODULE WorkerClaims ----------------------------
(***************************************************************************)
(* The worker that turns open GitHub issues into coding tasks:             *)
(* SleepCodingWorkerService.poll_once and the table                        *)
(* sleep_coding_issue_claims (app/control/sleep_coding_worker.py and       *)
(* sleep_coding_worker_store.py).                                          *)
(*                                                                         *)
(* A poll expires stale claims, copies the task statuses into the claims,  *)
(* and then claims, issue by issue, what has no active task: it takes the  *)
(* execution lane for the issue's parent task, starts the coding task and  *)
(* attaches it.  Every step is a transaction of its own.                   *)
(*                                                                         *)
(* The lane is described by ExecutionLane and Gateway; here every look at  *)
(* it and every request for it may have either answer, so what is said     *)
(* below holds whoever is in it.                                           *)
(*                                                                         *)
(* Coding, review and delivery of the tasks are the environment: they move *)
(* a task's status.  So are the operator and the gateway, which starts     *)
(* tasks itself on a direct request, without a look at the claims.  Time   *)
(* is the environment as well: a lease runs out, a backoff elapses.        *)
(***************************************************************************)
EXTENDS Integers, Sequences, FiniteSets

CONSTANTS
  Pollers,     \* threads that call poll_once
  Issues,      \* issues of the repository
  Parented,    \* those that the main agent's intake created
  None,        \* no issue
  MaxRetries,  \* worker max_retries
  MaxTasks,    \* bound: coding tasks ever created
  MaxFaults    \* bound: crashes and failed starts

ASSUME IssueAssumption == Parented \subseteq Issues
ASSUME NoneAssumption == None \notin Issues
ASSUME BoundAssumption == {MaxRetries, MaxTasks, MaxFaults} \subseteq Nat

VARIABLES
  claims,   \* claims[i]: the claim of issue i
  tasks,    \* the control tasks of type sleep_coding, oldest first
  pc,       \* pc[w]: where poller w is
  todo,     \* todo[w]: the issues of its listing it has not handled
  local,    \* local[w]: [issue, look at it and the lane, task, status to write]
  expiring, \* expiring[w]: tasks of expired claims, not yet marked
  faults

vars == <<claims, tasks, pc, todo, local, expiring, faults>>

----------------------------------------------------------------------------
ActiveStatuses == {"created", "awaiting_confirmation", "in_review"}

(* "ended" stands for completed, failed and needs_attention, which are one *)
(* to the worker.                                                          *)
EndStatuses == {"ended", "timed_out"}

ClaimStatuses == ActiveStatuses \cup EndStatuses \cup
  {"absent", "discovered", "failed", "skipped", "queued", "retry_pending", "retrying", "claimed"}

Claims == [status : ClaimStatuses, task : Nat, retries : Nat, due : BOOLEAN,
           lease : {"none", "running", "expired"}]

NoClaim == [status |-> "absent", task |-> 0, retries |-> 0, due |-> TRUE, lease |-> "none"]

Rows == {"none", "waiting", "working", "ended"}

(* A control task with what the worker can tell of its coding task: the    *)
(* row, and whether external_ref now names the pull request and no longer  *)
(* the task.  And its history: who started it, or that it went on after an *)
(* end.                                                                    *)
TaskRecords ==
  [issue : Issues, status : ActiveStatuses \cup EndStatuses,
   row : Rows, pr : BOOLEAN,
   history : {"poll", "gateway", "revived"}]

NewTask(i, starter) ==
  [issue |-> i, status |-> "created", row |-> "none", pr |-> FALSE, history |-> starter]

(* A commit of Ralph, whatever the control task was marked meanwhile.      *)
Moved(t, s, r) ==
  [t EXCEPT !.status = s, !.row = r, !.pr = @ \/ s = "in_review",
            !.history = IF t.status \in ActiveStatuses THEN @ ELSE "revived"]

(* Ralph goes on with a task whose row waits or works, and ends any row.   *)
Works(k) ==
  /\ tasks[k].row \in {"waiting", "working"}
  /\ tasks' = [tasks EXCEPT ![k] = Moved(@, "in_review", "working")]

Ends(k) ==
  /\ tasks[k].row # "none"
  /\ tasks' = [tasks EXCEPT ![k] = Moved(@, "ended", "ended")]

Places == {"idle", "sync", "next", "claim", "acquire", "queue", "start", "plan", "attach",
           "approve", "settle", "fail"}

(* Where a poll has an issue in hand.                                      *)
Handling == Places \ {"idle", "sync", "next"}

(* What a poll sees of an issue and of the lane: the issue lacks the       *)
(* labels it looks for, somebody other than the issue's parent task has    *)
(* the lane, or neither.                                                   *)
Looks == {"unlabelled", "busy", "free"}

Locals == [issue : Issues \cup {None}, look : Looks, task : Nat, status : ClaimStatuses]

NoLocal == [issue |-> None, look |-> "free", task |-> 0, status |-> "absent"]

TasksOf(i) == {k \in 1..Len(tasks) : tasks[k].issue = i}

(* Mutant: a task that is only created does not count.                     *)
HasActiveTaskPlanned(i) ==
  \E k \in TasksOf(i) : tasks[k].status \in ActiveStatuses \ {"created"}

(* _has_active_task.                                                       *)
HasActiveTask(i) == \E k \in TasksOf(i) : tasks[k].status \in ActiveStatuses

Latest(i) == CHOOSE k \in TasksOf(i) : \A j \in TasksOf(i) : j <= k

(* _extract_domain_task_id: the latest task is named until its external_ref *)
(* names the pull request instead.                                         *)
Nameless(i) == TasksOf(i) = {} \/ tasks[Latest(i)].pr

(* Mutant: the status is copied, the task is not.                          *)
SyncedStatusOnly(cl) ==
  [i \in Issues |->
     IF cl[i].status = "absent" \/ Nameless(i) THEN cl[i]
     ELSE [cl[i] EXCEPT !.status = tasks[Latest(i)].status]]

(* _sync_claim_statuses: a claim shows the issue's latest task until that  *)
(* has its pull request; then it shows what it showed before.              *)
Synced(cl) ==
  [i \in Issues |->
     IF cl[i].status = "absent" \/ Nameless(i) THEN cl[i]
     ELSE LET k == Latest(i)
              s == tasks[k].status
          IN IF cl[i].task = k /\ cl[i].status = s THEN cl[i]
             ELSE [cl[i] EXCEPT !.task = k, !.status = s,
                                !.lease = IF s \in ActiveStatuses THEN @ ELSE "none"]]

IsStale(c) == c.status = "claimed" /\ c.lease = "expired"

(* Mutant: a claim whose lease ran out keeps its status.                   *)
ExpiredKeeps(cl) == cl

(* _expire_stale_claims.                                                   *)
Expired(cl) ==
  [i \in Issues |->
     IF IsStale(cl[i]) THEN [cl[i] EXCEPT !.status = "timed_out", !.lease = "none"]
     ELSE cl[i]]

----------------------------------------------------------------------------
Init ==
  /\ claims = [i \in Issues |-> NoClaim]
  /\ tasks = <<>>
  /\ pc = [w \in Pollers |-> "idle"]
  /\ todo = [w \in Pollers |-> {}]
  /\ local = [w \in Pollers |-> NoLocal]
  /\ expiring = [w \in Pollers |-> {}]
  /\ faults = 0

GoTo(w, where) == pc' = [pc EXCEPT ![w] = where]

SetClaim(i, c) == claims' = [claims EXCEPT ![i] = c]

Fault == faults < MaxFaults /\ faults' = faults + 1

(* The next issue of the listing, with nothing left of the last one.       *)
Proceed(w) == GoTo(w, "next") /\ local' = [local EXCEPT ![w] = NoLocal]

----------------------------------------------------------------------------
(* GitHub lists some open issues.                                          *)
BeginPoll(w, listed) ==
  /\ pc[w] = "idle"
  /\ todo' = [todo EXCEPT ![w] = listed]
  /\ GoTo(w, "sync")
  /\ UNCHANGED <<claims, tasks, local, expiring, faults>>

(* A task whose row was rolled back cannot be loaded and is passed over.   *)
SyncClaims(w) ==
  /\ pc[w] = "sync"
  /\ claims' = Synced(Expired(claims))
  /\ expiring' = [expiring EXCEPT ![w] =
                    {k \in 1..Len(tasks) : tasks[k].row # "none" /\
                       \E i \in Issues : IsStale(claims[i]) /\ claims[i].task = k}]
  /\ GoTo(w, "next")
  /\ UNCHANGED <<tasks, todo, local, faults>>

(* The control task of an expired claim is marked, in a transaction of its *)
(* own; the row is not.                                                    *)
MarkTimedOut(w) ==
  /\ pc[w] = "next"
  /\ \E k \in expiring[w] :
       /\ tasks' = [tasks EXCEPT ![k].status = "timed_out"]
       /\ expiring' = [expiring EXCEPT ![w] = @ \ {k}]
  /\ UNCHANGED <<claims, pc, todo, local, faults>>

(* The next issue; the lane is looked at before the claim's transaction.   *)
NextIssue(w, i, look) ==
  /\ pc[w] = "next" /\ expiring[w] = {}
  /\ i \in todo[w]
  /\ todo' = [todo EXCEPT ![w] = @ \ {i}]
  /\ local' = [local EXCEPT ![w] = [NoLocal EXCEPT !.issue = i, !.look = look]]
  /\ GoTo(w, "claim")
  /\ UNCHANGED <<claims, tasks, expiring, faults>>

EndPoll(w) ==
  /\ pc[w] = "next" /\ expiring[w] = {}
  /\ todo[w] = {}
  /\ GoTo(w, "idle")
  /\ UNCHANGED <<claims, tasks, todo, local, expiring, faults>>

----------------------------------------------------------------------------
(* record_discovered_issue.                                                *)
Discovered(c) ==
  IF c.status \in {"absent", "timed_out"} THEN [c EXCEPT !.status = "discovered"] ELSE c

NotReady(c) == c.status = "retrying" /\ ~c.due

(* The claim's transaction ends without work: the issue is not labelled,   *)
(* the lane is taken, or its backoff runs.                                 *)
PassOver(w) ==
  /\ pc[w] = "claim"
  /\ LET i == local[w].issue
         c == Discovered(claims[i])
     IN \/ /\ local[w].look = "unlabelled"
           /\ SetClaim(i, [c EXCEPT !.status = "skipped"])
        \/ /\ local[w].look = "busy"
           /\ SetClaim(i, [c EXCEPT !.status = "queued"])
        \/ /\ local[w].look = "free" /\ NotReady(c)
           /\ SetClaim(i, [c EXCEPT !.status = "retry_pending"])
  /\ Proceed(w)
  /\ UNCHANGED <<tasks, todo, expiring, faults>>

Eligible(w) ==
  /\ pc[w] = "claim"
  /\ local[w].look = "free"
  /\ ~NotReady(Discovered(claims[local[w].issue]))

(* Bound: an issue that would need one task more is closed.                *)
Closed(w) ==
  /\ Eligible(w)
  /\ ~HasActiveTask(local[w].issue) /\ Len(tasks) >= MaxTasks
  /\ Proceed(w)
  /\ UNCHANGED <<claims, tasks, todo, expiring, faults>>

AlreadyWorkedOn(w) ==
  /\ Eligible(w)
  /\ HasActiveTask(local[w].issue)
  /\ claims' = Synced([claims EXCEPT ![local[w].issue] = Discovered(@)])
  /\ Proceed(w)
  /\ UNCHANGED <<tasks, todo, expiring, faults>>

(* acquire_lease does not ask who holds the lease.                         *)
AcquireLease(w) ==
  /\ Eligible(w)
  /\ ~HasActiveTask(local[w].issue) /\ Len(tasks) < MaxTasks
  /\ SetClaim(local[w].issue,
              [claims[local[w].issue] EXCEPT !.status = "claimed", !.lease = "running"])
  /\ GoTo(w, IF local[w].issue \in Parented THEN "acquire" ELSE "start")
  /\ UNCHANGED <<tasks, todo, local, expiring, faults>>

(* acquire_execution_lane for the issue's parent: granted or queued.       *)
AcquireLane(w) ==
  /\ pc[w] = "acquire"
  /\ GoTo(w, "start") \/ GoTo(w, "queue")
  /\ UNCHANGED <<claims, tasks, todo, local, expiring, faults>>

MarkQueued(w) ==
  /\ pc[w] = "queue"
  /\ SetClaim(local[w].issue, [claims[local[w].issue] EXCEPT !.status = "queued"])
  /\ Proceed(w)
  /\ UNCHANGED <<tasks, todo, expiring, faults>>

----------------------------------------------------------------------------
(* start_task: the control task is committed before the row.               *)
CreateControl(w) ==
  /\ pc[w] = "start"
  /\ Len(tasks) < MaxTasks
  /\ tasks' = Append(tasks, NewTask(local[w].issue, "poll"))
  /\ local' = [local EXCEPT ![w].task = Len(tasks) + 1]
  /\ GoTo(w, "plan")
  /\ UNCHANGED <<claims, todo, expiring, faults>>

PlanReady(w) ==
  /\ pc[w] = "plan"
  /\ tasks' = [tasks EXCEPT ![local[w].task] = Moved(@, "awaiting_confirmation", "waiting")]
  /\ local' = [local EXCEPT ![w].status = "awaiting_confirmation"]
  /\ GoTo(w, "attach")
  /\ UNCHANGED <<claims, todo, expiring, faults>>

(* The lane raises, or start_task does: before the control task, while     *)
(* planning, or after the commit (the ledger).                             *)
StartRaises(w) ==
  /\ pc[w] \in {"acquire", "start", "plan", "attach"}
  /\ Fault
  /\ GoTo(w, "fail")
  /\ UNCHANGED <<claims, tasks, todo, local, expiring>>

(* _record_failure.                                                        *)
RecordFailure(w) ==
  /\ pc[w] = "fail"
  /\ Proceed(w)
  /\ LET c == claims[local[w].issue]
     IN SetClaim(local[w].issue,
                 [c EXCEPT !.retries = @ + 1,
                           !.status = IF c.retries + 1 <= MaxRetries THEN "retrying" ELSE "failed",
                           !.due = FALSE, !.lease = "none"])
  /\ UNCHANGED <<tasks, todo, expiring, faults>>

(* Mutant: the task is attached with the status of the poll's step.        *)
AttachedAsWork(c, w) == [c EXCEPT !.task = local[w].task, !.status = pc[w], !.lease = "none"]

(* attach_task_to_claim, release_lease.                                    *)
Attached(c, w) ==
  [c EXCEPT !.task = local[w].task, !.status = local[w].status, !.lease = "none"]

(* The task is attached; the poll may approve the plan by itself.          *)
Attach(w) ==
  /\ pc[w] = "attach"
  /\ SetClaim(local[w].issue, Attached(claims[local[w].issue], w))
  /\ \/ GoTo(w, "settle")
     \/ GoTo(w, "approve")
  /\ UNCHANGED <<tasks, todo, local, expiring, faults>>

(* approve_plan: the row decides.  The task goes into review with a pull   *)
(* request, or it ends: a failed validation, an error, a refusal.          *)
AutoApprove(w) ==
  /\ pc[w] = "approve"
  /\ \/ /\ tasks[local[w].task].row = "waiting"
        /\ Works(local[w].task)
        /\ local' = [local EXCEPT ![w].status = "in_review"]
     \/ /\ Ends(local[w].task)
        /\ local' = [local EXCEPT ![w].status = "ended"]
  /\ GoTo(w, "settle")
  /\ UNCHANGED <<claims, todo, expiring, faults>>

(* The claim is written again, with the status the poll holds.             *)
Settle(w) ==
  /\ pc[w] = "settle"
  /\ SetClaim(local[w].issue, Attached(claims[local[w].issue], w))
  /\ Proceed(w)
  /\ UNCHANGED <<tasks, todo, expiring, faults>>

(* The process dies.                                                       *)
Crash(w) ==
  /\ pc[w] # "idle"
  /\ Fault
  /\ GoTo(w, "idle")
  /\ todo' = [todo EXCEPT ![w] = {}]
  /\ local' = [local EXCEPT ![w] = NoLocal]
  /\ expiring' = [expiring EXCEPT ![w] = {}]
  /\ UNCHANGED <<claims, tasks>>

----------------------------------------------------------------------------
(* The gateway starts a task on a direct request.  It looked at the lane   *)
(* at some earlier moment, and at neither claims nor tasks.  Bound: it     *)
(* leaves room for the task that a poll is about to start.                 *)
DirectStart(i) ==
  /\ Len(tasks) + Cardinality({w \in Pollers : pc[w] \in {"acquire", "start"}}) < MaxTasks
  /\ tasks' = Append(tasks, NewTask(i, "gateway"))
  /\ UNCHANGED <<claims, pc, todo, local, expiring, faults>>

DirectPlan(k) ==
  /\ tasks[k].history = "gateway" /\ tasks[k].row = "none"
  /\ tasks' = [tasks EXCEPT ![k] = Moved(@, "awaiting_confirmation", "waiting")]
  /\ UNCHANGED <<claims, pc, todo, local, expiring, faults>>

(* The operator confirms the plan, or the review loop goes on.             *)
WorkGoesOn(k) == Works(k) /\ UNCHANGED <<claims, pc, todo, local, expiring, faults>>

(* A task ends: delivered, failed, suspended or marked from any status.    *)
TaskEnds(k) == Ends(k) /\ UNCHANGED <<claims, pc, todo, local, expiring, faults>>

(* An operator's mark of the control task alone.                           *)
MarkControl(k) ==
  /\ tasks' = [tasks EXCEPT ![k].status = "ended"]
  /\ UNCHANGED <<claims, pc, todo, local, expiring, faults>>

(* list_claims, of the API, at any moment.                                 *)
ListClaims ==
  /\ claims' = Synced(claims)
  /\ UNCHANGED <<tasks, pc, todo, local, expiring, faults>>

LeaseRunsOut(i) ==
  /\ claims[i].lease = "running"
  /\ SetClaim(i, [claims[i] EXCEPT !.lease = "expired"])
  /\ UNCHANGED <<tasks, pc, todo, local, expiring, faults>>

BackoffElapses(i) ==
  /\ ~claims[i].due
  /\ SetClaim(i, [claims[i] EXCEPT !.due = TRUE])
  /\ UNCHANGED <<tasks, pc, todo, local, expiring, faults>>

Continue(w) ==
  \/ SyncClaims(w) \/ MarkTimedOut(w) \/ EndPoll(w)
  \/ \E i \in Issues, look \in Looks : NextIssue(w, i, look)
  \/ PassOver(w) \/ Closed(w) \/ AlreadyWorkedOn(w) \/ AcquireLease(w)
  \/ AcquireLane(w) \/ MarkQueued(w)
  \/ CreateControl(w) \/ PlanReady(w) \/ RecordFailure(w)
  \/ Attach(w) \/ Settle(w)
  \/ AutoApprove(w)

Next ==
  \/ \E w \in Pollers :
       \/ \E listed \in SUBSET Issues : BeginPoll(w, listed)
       \/ Continue(w)
       \/ StartRaises(w)
       \/ Crash(w)
  \/ \E k \in 1..Len(tasks) :
       \/ DirectPlan(k)
       \/ WorkGoesOn(k) \/ TaskEnds(k) \/ MarkControl(k)
  \/ \E i \in Issues : DirectStart(i) \/ LeaseRunsOut(i) \/ BackoffElapses(i)
  \/ ListClaims

Spec == Init /\ [][Next]_vars

(* A scheduler polls again and again and lists every open issue, a poll    *)
(* goes on once it has begun, and time passes.                             *)
FairSpec ==
  /\ Spec
  /\ \A w \in Pollers : WF_vars(BeginPoll(w, Issues)) /\ WF_vars(Continue(w))
  /\ \A i \in Issues : WF_vars(LeaseRunsOut(i))

----------------------------------------------------------------------------
(* The type invariant.                                                     *)
TypeOK ==
  /\ claims \in [Issues -> Claims]
  /\ tasks \in Seq(TaskRecords)
  /\ pc \in [Pollers -> Places]
  /\ todo \in [Pollers -> SUBSET Issues]
  /\ local \in [Pollers -> Locals]
  /\ expiring \in [Pollers -> SUBSET (1..Len(tasks))]
  /\ faults \in 0..MaxFaults

(* A poll that handles an issue knows it, and once it has created a task   *)
(* it knows the task as well.                                              *)
InHand(w) ==
  /\ pc[w] \in Handling => local[w].issue \in Issues
  /\ pc[w] \in {"acquire", "queue"} => local[w].issue \in Parented
  /\ pc[w] \in {"plan", "attach", "approve", "settle"} => local[w].task \in 1..Len(tasks)

PollsSound == TypeOK /\ \A w \in Pollers : InHand(w)

(* An unfinished task that a poll started and that never went on after an  *)
(* end.                                                                    *)
OwnActive(k) ==
  tasks[k].status \in ActiveStatuses /\ tasks[k].history = "poll"

(* With one poller: between its look at the issue's tasks and the new task *)
(* nobody else adds one of those.                                          *)
AboutToStart(w) ==
  /\ pc[w] \in Handling => expiring[w] = {}
  /\ pc[w] \in {"acquire", "start"} => \A k \in TasksOf(local[w].issue) : ~OwnActive(k)

(* docs/architecture/live-chain-failure-semantics.md:165: the claim lease  *)
(* keeps workers from consuming an issue twice.  Two unfinished tasks of   *)
(* an issue are never both the polls' doing: one of them was started by    *)
(* the gateway, or went on after it had ended                              *)
(* (sleep_coding_worker.py:89-146, gateway.py:433).                        *)
OneTaskPerIssue ==
  \A j, k \in 1..Len(tasks) :
    tasks[j].issue = tasks[k].issue /\ OwnActive(j) /\ OwnActive(k) => j = k

(* With one poller, inductive together with PollsSound.                    *)
OnePollerInvariant == OneTaskPerIssue /\ \A w \in Pollers : AboutToStart(w)

(* A claim is never left behind: whatever process dies, a claimed issue    *)
(* gets a task, a failure, or is given back                                *)
(* (sleep_coding_worker.py:552-582).                                       *)
ClaimsDoNotHang ==
  \A i \in Issues : (claims[i].status = "claimed") ~> (claims[i].status # "claimed")

(* A started task is never lost to its claim: even when the process dies   *)
(* between the task and its attachment, the claim shows it, or a later     *)
(* one, in the end - unless the pull request was faster: once the issue's  *)
(* latest task is named by its pull request, no poll copies it any more    *)
(* (sleep_coding_worker.py:364-445, progress.py:212-217).                  *)
TasksAreAttached ==
  \A i \in Issues, k \in 1..MaxTasks :
    (k \in TasksOf(i) /\ claims[i].status # "absent")
      ~> (claims[i].task >= k \/ \E j \in TasksOf(i) : j >= k /\ tasks[j].pr)
=============================================================================
