# A TLA+ model of Marten

Marten turns GitHub issues into reviewed pull requests. Several threads of two
processes (the API and the scheduler) share one SQLite file; model calls, git and
GitHub take minutes between two of their transactions. This directory models
that control logic: which rows change in which order, who may be in between, and
what is left behind when a process dies. TLC model-checks small instances, TLAPS
proves the theorems for every instance.

`app/...` is the repository's directory `app`; in `PROJECT.json` every path begins
with `src/`, which stands for the repository's root.

## 1. Inventory

### Components

| Component | State it keeps | Operations | What makes it correct |
|---|---|---|---|
| Execution lane (`app/control/session_registry.py:194-260`) | one row of `execution_lanes`: active task id, queued ids | `acquire_execution_lane`, `release_execution_lane`, `get_execution_lane` | one active main task; first come, first served; nobody lost; whoever is recorded as finished leaves |
| Coding task, "Ralph" (`app/agents/ralph`) | row of `sleep_coding_tasks`, its control task, events | `start_task`, `apply_action` (approve_plan, request_changes, approve_pr, reject_plan, cancel_task), `resume_task`, `mark_needs_attention` | row and control task agree; no crash leaves it half-way; only validated work goes to review; ends are ends |
| Review service (`app/agents/code_review_agent`) | `review_runs`, projection of the latest review on the control task | `start_review`, `apply_action`, `publish_final_result` | a verdict belongs to the change it judged |
| Review loop (`app/control/automation.py`) | no table of its own; one background job per task and process | `_process_task`, `_decide_review_loop_step`, `_publish_final_delivery`, `_record_parent_result`, `process_worker_poll_async`, `handle_control_task_action` | delivers only reviewed work, at most `review_max_repair_rounds` repairs, always ends |
| Issue claims (`app/control/sleep_coding_worker.py`, `..._store.py`) | `sleep_coding_issue_claims`: status, task id, retries, lease | `poll_once` | an issue is worked on once at a time; a claim never hangs; a task is never lost to its claim |
| Scheduler (`app/infra/scheduler.py`) | one thread | `run_forever`: poll, wait, poll | polls for ever |
| Background jobs, events (`app/infra/background_jobs.py`, `app/control/events.py`) | set of job keys in memory | `submit_unique`, `publish_follow_up_requested` | one job per task and process |
| Follow-up state (`set_background_follow_up_state`) | two columns of the task row, the same mark on the control task | queued, processing, completed, failed | "processing" is shown only while a job is at work; a failure reaches the parent task |
| Gateway and intake (`app/control/gateway.py`, `routing.py`, `workflow.py`, `app/agents/main_agent`) | inbound receipts, in-memory session locks | `run`, routing, issue intake, the follow-up of a message | a message is worked on once and keeps its answer; a message is answered in the end |
| Control task registry (`app/control/task_registry.py`, `task_store.py`, `task_events.py`) | `control_tasks`, `control_task_events` | `create_task`, `update_task`, `append_event`, recovery by the last event | recovery finds the coding task; a lost patch leaves nothing false behind |
| Sessions (`app/control/session_registry.py`, `session_store.py`) | `control_sessions`, receipts | get or create, payload updates | one session per user and agent |
| MCP client (`app/runtime/mcp.py`) | a session thread with a request queue, a lock per server | `call_tool`, reconnect, close | a result means that the tool ran; a call runs it at most twice |
| Token ledger (`app/ledger/service.py`) | usage rows | `record_request` | no request is counted twice |
| Model calls (`app/runtime/llm.py` and around) | none | one request, with retries | bounded retries |
| Git workspace (`app/infra/git_workspace.py`, `app/agents/ralph/github_bridge.py`) | worktrees on disk, pending files in memory | prepare, artifact, commit, push, pull request | the pull request is what was validated and what the evidence says |
| Channels (`app/channel`) | none | `notify` | - |
| Retrieval, configuration, diagnostics | none that others depend on | - | - |

### How they interact

* The **gateway** (API process) turns a request into an issue or directly into a
  coding task, the latter without a look at claims or other tasks. It asks the **lane**
  for the parent task.
* The **worker's poll** (scheduler process, or a poll request of the API) claims
  open issues, asks the lane, starts coding tasks and attaches them to their
  claims. The same poll resumes tasks whose changes were sent back, and
  publishes one follow-up job per active task. It goes by the claims; a claim follows
  its control task only until that task is named by its pull request.
* The **review-loop job** repeats: look at the task and at the latest review; run a
  review, send back, code again, approve, deliver, or hand over to a human.
  Recording an end releases the lane.
* The **background job** marks the task and its control task as `queued`, `processing`,
  `completed` or `failed`; the **operator** acts on a task through the control task, whose
  last event must lead to the coding task.
* A **coding round** prepares the worktree of the issue's branch, commits, pushes (with git or
  with GitHub's `push_files`) and opens the pull request through an **MCP session** that the
  threads of a process share. All of it happens inside the transaction of `approve_plan`.
* All of them share the SQLite file in WAL mode with a busy timeout of 30 seconds
  (`app/infra/sqlite_utils.py:9`). Python's `sqlite3` begins a transaction at the
  first write, not at the first read. **A read is therefore never protected
  against a later write of somebody else**, and this is what most of the hard behaviour
  comes from.

### What is hard to test here

`PROJECT.json` lists the hazards line by line. They fall into six groups:

1. *Read, decide, write* without a transaction: the lane, status guards,
   control-task payloads, claim leases.
2. *Long transactions and crashes*: `approve_plan` holds the write lock while it
   codes, validates and publishes; anything may raise or die inside.
3. *Steps that belong together in separate transactions*: a verdict, its projection
   and its application; a delivery and its record; an end and the release of the
   lane; a control task and its row; a task and its attachment.
4. *Two processes*: job uniqueness and session locks live in memory, so they hold
   per process only.
5. *The outside world*: a message delivered again, a tool call whose answer is lost and that
   is asked again, an error of a tool that comes back as a result, a worktree or a session
   thread that an earlier round left behind.
6. *Things that must happen eventually*: the loop ends, leases expire, waiters are
   promoted, and a dead poll thread stops all of it.

## 2. Modules

| Module | Models | Used by |
|---|---|---|
| `SingleFlight` | the promise of the lane: one owner, waiters in order, hand-over | instantiated in `ExecutionLane` |
| `Queues` | the ids of a lane's row in their order, and an id taken out | `SingleFlight`, `ExecutionLane`, `Gateway` |
| `ExecutionLane` | the lane's row, its two-step reads and writes, the three code paths that use it | `ExecutionLaneProofs`, `MCExecutionLane` |
| `RalphTask` | the life of one coding task, its control task, the write lock | `RalphTaskProofs`, `MCRalphTask` |
| `ReviewLoop` | the loop, the review service, the poll, the operator and the job of each process | `ReviewLoopProofs`, `MCReviewLoop` |
| `WorkerClaims` | the worker's poll, claims, leases, retries, beside the gateway that starts tasks itself | `WorkerClaimsProofs`, `MCWorkerClaims` |
| `Routing` | which endpoint, agent and handler a message goes to, as pure operators | `Gateway` |
| `Gateway` | request threads from a delivered message to its receipt, the intake, the follow-up of a direct task | `GatewayProofs`, `MCGateway` |
| `ToolCalls` | the promise of a tool call | instantiated in `Publication` |
| `McpSession` | the adapter's lock, the session thread and its queue, the retry | `Publication` |
| `Publication` | a coding round from the worktree to the pull request, over the session | `PublicationProofs`, `MCPublication` |
| `FollowUp` | the background job, its marks, the control task and its log, the operator | `FollowUpProofs`, `MCFollowUp` |
| `QueueTheorems` | what taking an id out of a queue does, and keeps | `ExecutionLaneProofs`, `GatewayProofs` |
| `...Proofs` | the theorems of a module and their proofs | |
| `MC...` | instances and symmetry for TLC | |

`map` in `PROJECT.json` gives the lines that each definition stands for.

### ExecutionLane

* `lane` is the row, `snap[a]` the snapshot that thread `a` read, `task[a]` and `todo[a]`
  what it acquires or still has to release.
* `ReadForAcquire`/`WriteAcquired` and `ReadForRelease`/`WriteReleased` are the two
  halves of `acquire_execution_lane` and `release_execution_lane`: the `SELECT` opens
  no transaction, the write does. `Acquired` and `Released` are the rows they compute.
* `RequestLane` is the worker's or the intake's path: it goes on only when it is accepted.
  `CheckBusy`, `StartDirect` is the gateway's direct request, which asks whether the lane
  is free, starts the task, and acquires the lane afterwards whatever the answer.
  `RecordResult`, `SkipRelease`, `FinishRecord` are the end of `_record_parent_result`,
  which looks at the lane once and releases the control task and its parent.
* `granted` is the set of tasks that were told to run and are not recorded as ended. It
  is a ghost of the answers the code gives: no column holds it.
* `Crash` is the death of a thread anywhere, or a write that meets a locked database.
* `ImplementsSingleFlight` is the refinement of the promise: `owner` is the row's active id,
  `waiting` its queue.

### RalphTask

* `row` and `ctl` are what is committed; `draft` is what the one open transaction
  sees; `writer` holds the write lock. `seen[a]` is what a thread read before it had the
  lock, `stale` records that a decision has been written over a status other than the
  one it was taken on.
* `CreateControl`, `InsertTask`, `PlanReady`, `PlanFails`: `start_task`, which commits
  the control task first. `ApplyAction`, then `Refuse`, `Decide` or `StartCoding`:
  `apply_action` and `_ensure_status`. `StartCoding`, `Coded`, `Validate`, `CommitFailed`,
  `OpenPullRequest`, `CommitReview`: `handle_approve_plan` and `resume_after_coding`,
  in one transaction. `ExecutionFails`, `RecordFailure`: the rollback and
  `_record_execution_failure`. `ResumeTask`, `ResumeCoding`, `MarkNeedsAttention`: the
  methods of these names.
* Some code writes the control task alone: the operator's mark when the last event names no
  coding task (`MarkControl`), the expiry of a claim (`MarkTimedOut`), and the end of the loop
  (`Deliver` or `HandOver`, then `RecordResult`, which the code calls twice). An approved row
  beside a completed control task is the normal end. `apart` says that the control task was last
  written so; `ControlMirrorsTask` says that the two part nowhere else.
* `resume_after_validation` has no action: it continues a task whose committed status
  is `validating`, and `OnlySettledStatuses` shows that there is none.
* Model calls, git, GitHub and notifications succeed or raise nondeterministically.

### ReviewLoop

* A thread is a pair of a process and `"front"` or `"job"`. The front of a scheduler polls
  (`Poll`); another front answers requests, one at a time: a poll, or an operator's approve,
  resume or mark (`Operate`; `MarkControl` where the last event names no task, so that the mark
  reaches the control task alone). `frame[t]` holds a thread's local
  variables: the status it holds, the status a guard looked at, the review at hand.
  `rev` counts the changes that were coded, so that a review or a delivery can be
  related to the change it is about. `proj` is the projection of the latest review
  on the control task's payload, which the loop decides by.
* `resumable` says that the claim of the task is `in_review` or `changes_requested`, which is
  what a poll goes by. It is so only if the worker approved the plan itself
  (`auto_approve_plan`, off by default): from the pull request on the claim is not
  synchronised any more (`sleep_coding_worker.py:411-415`, `progress.py:212-217`). And a later
  poll may overwrite it with `skipped` or `queued`.
* `DecideStep` is `_decide_review_loop_step`. `CodeAgain`, `BeginReview`, `CarryOut`,
  `BeginDelivery`, `Stop` are the branches of `_process_task`; each of the others is
  one transaction or one read on such a branch.
* `Raise` is what an exception does: the job escalates it once (`Escalate`, `Suspend`,
  `HandOver`); a request answers with an error; the scheduler's thread has no handler
  and dies (`"dead"`). The marks of a follow-up stand outside that handler, so a job may also fail
  without a trace before it has begun (`JobFails`), and a poll after it has scheduled one
  (`ScheduleFails`).
* Merged, because nothing in between depends on it: `_record_parent_result` is called
  twice with the same data and modelled once; it and the parent's control task are one
  update; the two or three projection reads of one decision are one read. A control
  task's `update_task` is atomic here; `FollowUp` splits it. Reviews are ordered as they were
  inserted. The truth check before the delivery (`_validate_delivery_truth`) follows
  from `ReviewedWorkIsReady` of `RalphTask` and is not repeated.
* `Crash(p)` is the death of a process that somebody starts again; nothing in the
  repository does, so the liveness properties speak of a process that is restarted.
* Nothing in the code keeps two threads from working on the task at once: the poll resumes coding
  beside the job of its own process, the job of another process runs as well, and an operator may
  act at any time. The history `overlapped` says that it has happened (`Watch`; a thread in one
  of the places `Resting` has read nothing yet). The properties have an unconditional part and a part
  that holds unless it has happened; `ReviewOverlap` shows what follows when it has. Two things no
  property says: the repairs are then unbounded, because the hand-over and the poll's resume
  pass the task back and forth; and a follow-up that is dropped because the job of its key is just
  ending leaves a revived task without a job.

### WorkerClaims

* `BeginPoll` is a listing of open issues; `SyncClaims` is `_expire_stale_claims` and
  `_sync_claim_statuses`; `NextIssue` to `Settle` follow `poll_once` through one issue:
  `PassOver` (not labelled, lane taken, backoff), `AlreadyWorkedOn`, `AcquireLease`,
  `AcquireLane`, `MarkQueued`, `CreateControl`, `PlanReady`, `Attach`, `AutoApprove`,
  `RecordFailure`.
* The environment: the gateway's direct request (`DirectStart`, `DirectPlan`), coding, review and
  delivery (`WorkGoesOn`, `TaskEnds`), the operator's mark (`MarkControl`), a listing of the
  claims (`ListClaims`), and time (`LeaseRunsOut`, `BackoffElapses`).
* A task has the status of its control task, whether its row exists, whether its pull request is
  recorded, and who started it (`history`: the poll, the gateway, or somebody who let it go
  on after an end). `Synced` copies status and id of an issue's latest control task, except when that
  is `Nameless`: from the pull request on, `external_ref` no longer names the coding task. So a
  claim does not follow its task to the end, other than
  `docs/architecture/current-mvp-status-summary.md:86` and `:241-243` have it.
* Every look at the lane and every request for it may have either answer, so what the module
  says holds whatever the lane does. `Parented` is the set of issues that the intake created and is
  constant: that the intake commits the parent task after the issue exists on GitHub is what
  `CreateParent` and `early` of `Gateway` model.
* `OneTaskPerIssue` is about tasks that polls started and that did not go on after an end: a direct
  request asks neither claims nor tasks, and beside it an issue may well have two unfinished tasks.
* `Closed` is a bound: an issue that would need a task more than `MaxTasks` is closed.

### Gateway and Routing

* `Routing` has the decisions of `routing.py` and `resolve_inbound_endpoint` as operators: an
  endpoint by name or by the sources it lists, the default endpoint, explicit mentions and
  keywords, what an endpoint allows to be handed over. A message is the set of things it says.
* `Receive` and `Lock` are the two looks at the receipts; `OpenSessions` opens the sessions; `Chat`,
  `CreateIssue`, `CreateParent`, `EnterAsParent` are the intake and `_handle_general`;
  `CheckBusy`, `StartTask`, `PlanReady`, `EnterAsTask` are `_handle_sleep_coding`;
  `RecordRequest` is the token ledger, `RecordAnswer` the last turn and the receipt;
  `ReadStatus` and `Approve` are `continue_gateway_workflow`. `Raise` and `Fail` are exceptions,
  `Crash` the death of the API process.
* Tasks that the worker starts and tasks that end are the environment; the lane is one object here.
  `TaskEnds` is an end that `_record_parent_result` records, which releases the lane. `TaskStops` is
  one that it does not: the operator's mark, or a validation that fails in the loop. The lane then
  keeps what it holds, and the history `unrecorded` remembers for which issues.
* `Poisoned` are the messages that raise at every delivery: a request id that the ledger knows,
  a mention that the endpoint refuses, a direct task about an issue that does not exist.
* `broken` counts attempts that ended after they had created something: a receipt is written
  last, so another issue for each of them is what the code allows. Tasks that are started directly are
  not counted.

### McpSession, ToolCalls and Publication

* `McpSession` is one adapter: `holder` is its lock, `session` what its thread is doing, `call[c]`
  the call of thread `c`. A session breaks before or after the server ran the tool. Only a
  broken stream replaces the runtime, once; any other error leaves a dead thread that is never
  replaced, and a request that was queued while the thread ended is never answered. Both show
  in `RoundsEnd`, which excuses them.
* `ToolCalls` is what the callers are promised: a call that returns a result has run the tool,
  and no call runs it more than twice. An error says nothing. `ImplementsToolCalls` is the
  refinement.
* `Publication` extends `McpSession` with one coder. The round's steps are those of
  `handle_approve_plan` and `_finalize_review_candidate`: branch, worktree, write, capture,
  validate, commit, push, pull request (three attempts), label, record. The rounds of an issue
  share a branch and a worktree; a file's content is the number of the round that wrote it.
  `mode` is how the settings publish: not at all (`dry`, `local`), with `git push`, or with
  `push_files` over MCP. Rounds do not overlap, because a round holds SQLite's write lock from
  its first statement to its end.
* The workspace has an MCP client of its own, which one thread at a time uses: of its
  session only the promise of `ToolCalls` is kept (`WorkspaceCall`), and `poisoned`.
* Tool errors come back as results with `is_error`, not as exceptions; only
  `create_pull_request` looks at them. So a refused `push_files` is recorded as a completed push
  (`refused`), and `ReviewedIsPublished` excuses exactly that. A result in which no answer can be
  read makes `coerce_mapping` raise: the pull request is asked for again, a label or a comment fails
  the round (`LabelFails`). A second round of an issue that
  is pushed with git is refused as not fast-forward and becomes `needs_attention`. A
  pull request whose answer was lost cannot be opened again; the round ends without one.

### FollowUp

* A process has one poll thread, one thread that serves an operator, and the worker threads of its
  executor. `keys` is the set of processes whose active jobs contain the task. `Submit` is
  `submit_unique`, `EndJob` its done-callback.
* What a thread has still to write is a list: the mark on the row (`SetMark`), and patches of the
  control task and its parent. A patch is `update_task`: a read of the row and a later write of
  all of it (`ReadRecord`, `WriteRecord`), after which the event is appended. The parent is
  patched like the task where the code does so (`automation.py:905-911`). `lost` says that
  a patch has overwritten another one.
* A poll goes by the claim, not by the control task, so it may publish a follow-up of a control task
  in any status.
* `log` is what recovery reads of the events of the control task: whether the last one, and the
  last of each preferred kind, names the coding task. `RecoveryEvent` is `_select_recovery_event`;
  `OperatorApproves`, `OperatorResumes` and `OperatorMarks` are `handle_control_task_action`.
* The loop's decisions are `ReviewLoop`'s and the coding is `RalphTask`'s, one step here; both
  are given as far as they show in the records.

## 3. Runs

| Run | Question | Instance | States | Result |
|---|---|---|---|---|
| `LaneOneActor` | does the row keep the lane's promise while one thread at a time uses it? | 1 thread, 4 ids (a control task, its parent, two more), 1 crash | 2,950 | holds: `QueueWellFormed`, `GrantedIsActive`, `WaitersAreKept`, `ImplementsSingleFlight`, `RecordedLeaves` |
| `LaneSingleFlight` | is there only one active main task, as the README says? | 2 threads, 2 ids | | **violated** (`OneActiveTask`) |
| `RalphTask` | do row, control task and GitHub stay consistent under two threads, crashes, timeouts? | 2 threads, 1 fault | 1,949,280 | holds: `ControlMirrorsTask`, `OnlySettledStatuses`, `ReviewedWorkIsReady`, `EndsAreFinal`, `RecordedPRIsReused` |
| `ReviewLoop` | does the loop deliver only reviewed work, and end? | a scheduler and an API process with an operator, 3 rounds, 1 fault, until two threads work at once (`OneAtATime`) | 201,600 | holds: `DeliveryWasReviewed`, `CompletedIsTrue`, `RepairsAreBounded`, `LoopEnds`, `ApprovedIsSettled`, `EndIsFinal` |
| `ReviewRaces` | does it still end when a poll codes beside the job? | 1 process, 2 rounds, 1 fault | 44,265 | holds: `LoopEnds` |
| `ReviewOverlap` | is only reviewed work delivered then? | 1 process, 3 rounds | | **violated** (`DeliveriesWereReviewed`) |
| `WorkerClaims` | can the poll start two tasks for an issue, and does every claim and every task find its end? | 1 poller beside the gateway, 1 issue, 2 tasks, 1 fault | 424,076 | holds: `OneTaskPerIssue`, `ClaimsDoNotHang`, `TasksAreAttached` |
| `WorkerTwoPollers` | does the lease keep two pollers apart? | 2 pollers, 1 issue | | **violated** (`OneTaskPerIssue`) |
| `Gateway` | is a message worked on once, however it is delivered, and does it get one answer? | 2 request threads, 2 messages in 6 conversations, 1 fault | 840,497 | holds: `WorkIsDoneOnce`, `AnswersAreStable`, `LaneEntriesHaveWork`, `MessagesAreAnswered` |
| `GatewayRepeat` | is a repeated delivery harmless, as the plan says? | the same, a direct task | | **violated** (`RepeatsAreHarmless`) |
| `Publication` | is what is under review what was coded, validated and pushed, whatever sessions and tools do? | 2 callers, 2 rounds, 4 modes, 2 faults | 705,490 | holds: `ReviewedIsPublished`, `UnvalidatedStaysLocal`, `RecordedPRIsOpen`, `ImplementsToolCalls`, `RoundsEnd` |
| `FollowUp` | do the marks and the log tell the truth about the jobs, and does an operator reach the task? | 1 process with 2 slots, a poll and an operator, 2 rounds, 1 fault | 535,835 | holds: `OneJobPerTask`, `MarksAreTrue`, `RecoveryReaches`, `FailuresAreEscalated` |

Every passing run checks its module's `TypeOK` as well, `ReviewRaces` apart. What
`ReviewLoop` shows for safety while one thread at a time works is proved for any number of processes,
together with what remains true when several do (section 4).

The four violations are disagreements between the code and what a document of the
repository says of it; `findings` in `PROJECT.json` quotes both. For every property of a
passing run the module holds a mutant next to the definition it changes ("Mutant:"):
a plausible slip in that code, under which TLC finds the property violated.

### Why these bounds

* *Two threads.* Every hazard of this code is one thread acting between two steps of
  another. Three add interleavings of the same kind. The theorems about the lane, the
  task, the review loop, the session and the follow-up hold for any number.
* *Four ids in the lane.* A control task with a parent (two ids released in one recording),
  an owner and two waiters, so that the order of waiters is visible. What two threads can and
  cannot do to the row is a theorem (`LaneStaysWellFormed`) and a violation, so no passing
  run has two.
* *One or two faults.* A crash in the middle, after which everything else has to go on. Publication
  has two, because it takes two to use up a retry.
* *`MaxRounds` = 3* in `ReviewLoop` is the default of `review_max_repair_rounds`; `MaxChanges` = 5
  is more than three rounds and one fault can reach, so the bound never binds in that run. In
  `ReviewRaces` it does bind, because overlapping repairs have no bound of their own. It hides
  nothing there: with a count of changes that stays at `MaxChanges` instead of forbidding another
  one, the run has finitely many states and the same result. `FollowUp`
  needs two rounds, to repair and then to hand over. The constraint `OneAtATime` of `ReviewLoop` ends a
  behaviour where the conditional properties stop saying anything.
* *Two tasks in `WorkerClaims`.* A second task of an issue, which is what expiry, retries and a
  direct request need. A bound keeps room for the task that a poll is about to start, so that a
  poll never finds the bound exhausted half-way. `MaxRetries` = 1: one retry and its exhaustion.
* *Six pairs of conversations in `Gateway`*: a request that becomes an issue beside a direct one
  about the same issue; beside one that its endpoint refuses; a direct one beside a request for
  statistics that carries a request id; a vague one; two texts whose fate the keywords decide; and
  a direct one about an issue that does not exist. One message is delivered twice, the other once more only when a fault loses it.
  One task per issue, because one more changes nothing for a message.
* *Two rounds, two paths in `Publication`*: the second round is the first that finds what an
  earlier one left; one of the paths is ignored by git. The second caller stands for every other
  user of the session.
* *Two slots in `FollowUp`*: a job and one that is submitted while it ends.
* Deadlock is looked for in the lane and claim runs. The others say `CHECK_DEADLOCK FALSE`,
  because the system may really stop there: a settled task is an end, a channel stops when its
  messages are answered, and threads that wait for a session that has ended wait for ever.

### Fairness, and why the code justifies it

* `ExecutionLane`: a thread that has begun an operation goes on (`WF` on `Continue`), unless
  it crashes. Nobody is obliged to ask for the lane or to finish a task.
* `ReviewLoop`: a scheduler process polls for ever (`Scheduler.run_forever`), and a thread that
  has begun goes on. Poll requests of the API and the operator are not fair. `LoopEnds` excuses
  what nothing in the code ends: a poll thread that died of an exception stays dead, because
  `run_forever` catches nothing (`SchedulerStopped`); and a task whose claim does not bring the
  poll back (`~resumable`) has nobody who restarts its loop after a fault or an overlap. That is
  so for every task whose plan was approved by hand. `ApprovedIsSettled` excuses faults: no poll comes
  back to a task that is approved, so a process that dies before the delivery leaves it
  undelivered.
* `WorkerClaims`: polls go on and list every open issue, a poll that has begun goes on, leases
  run out. Direct starts, the progress and the ends of tasks, marks, crashes and backoffs are not fair.
  `TasksAreAttached` excuses an issue whose latest task is named by its pull request.
* `Gateway`: a request thread goes on, and the channel delivers an unanswered message again, as
  Feishu does. `MessagesAreAnswered` excuses a message that every further delivery must
  refuse (`Poisoned`): nothing in the code answers those.
* `Publication`: the round goes on, and the session serves a call or breaks (`WF`). The adapter's
  lock needs `SF`: the callers ask rarely, so the lock is free again and again, and Python's
  lock passes over a waiter only by chance. New rounds, new calls and faults are not fair.
* `FollowUp`: a thread that has begun goes on. Polls and operators are not obliged to come.

## 4. Theorems

`tlapm` proves, for every value of the constants that satisfies the modules' assumptions
(`None` is no task, no thread, no status and no event; a task is not its own parent; bounds are
natural numbers; the gateway has finitely many threads, of which it counts the busy ones):

| Theorem | Says |
|---|---|
| `LaneTypeOK` | type correctness of the lane |
| `LaneStaysWellFormed` | any number of threads leaves the row without duplicates, without the active task queued behind itself, and without waiters when it is free |
| `OneActorSingleFlight` | if there is one thread, every task that was told to run is the active one |
| `OneActorKeepsWaiters` | if there is one thread, an id leaves the row only when it is itself released |
| `OneActorKeepsPromise` | if there is one thread, the row refines `SingleFlight`: every step of the lane is a step of the promise or changes nothing of it |
| `RalphTypeOK` | type correctness of the coding task |
| `TaskAndControlAgree` | control task and row have the same pull request always, and the same status unless the control task was last written by one of the named writers that write it alone |
| `NothingStuckInside` | no committed status is a phase inside a transaction |
| `ReviewGate` | what is in review has passed validation, left evidence and has a pull request; what is approved or sent back as well, unless a stale decision was applied |
| `FinalEnds` | a failed, cancelled or suspended task only ever becomes `needs_attention`, unless a stale decision was applied |
| `NoSecondPullRequest` | no pull request is asked for while one is recorded |
| `ReviewTypeOK` | type correctness of the review loop, for any number of processes, overlapping or not |
| `ReviewInvariantHolds` | the inductive invariant behind the next four, for any number of processes and an operator, until two threads have worked on the task at once |
| `DeliversReviewed` | nothing is delivered before some review passed; until an overlap, what is delivered had a review of its own that was approved |
| `CompletesTruly` | "completed" is recorded only after a delivery; until an overlap, only for an approved task whose head was delivered |
| `BoundsRepairs` | until an overlap, the change is coded at most once per round, and once more per fault |
| `EndsForGood` | until an overlap, a task that failed, was handed over or was marked by an operator is neither delivered nor completed |
| `ClaimsTypeOK` | type correctness of claims, tasks and every poller |
| `OnePollerStartsOneTask` | if there is one poller, no issue has two unfinished tasks that polls started, whatever the gateway, the operator and the lane do beside it |
| `GatewayTypeCorrect` | type correctness of the gateway: what its records refer to exists, and who works on a message holds the lock of its session |
| `WorkOnce` | a message with an id opens one issue, and one more only for each attempt that broke off after it had opened one |
| `AnswersStay` | no step changes an answer that is on record |
| `LaneIsNotStuck` | a parent in the lane for which the worker began work has a task that is not over, unless the parent was queued after that, or a task of it ended without being recorded |
| `SessionKeepsPromise` | the session, its queue, the lock and the retry refine `ToolCalls` |
| `PublicationTypeOK` | type correctness of the round, the workspace, GitHub and the session |
| `ReviewedIsAlwaysPublished` | what is under review is in the worktree and on the remote branch, apart from refused pushes and ignored files |
| `UnvalidatedAlwaysStaysLocal` | nothing reaches GitHub that did not pass validation |
| `RecordedPRIsAlwaysOpen` | a recorded pull request was opened |
| `FollowUpTypeOK` | type correctness of the records, the log and what every thread has still to write |
| `OneJobAlways` | a process has one follow-up of a task at a time |
| `MarksAreAlwaysTrue` | without faults, "processing" is shown only while a job is at work |
| `LogsAreSound` | the inductive invariant of the log: who still has to write an event that names the task |
| `RecoveryAlwaysReaches` | without faults, an operator's action reaches the task once no job is at work, unless an operator marked the control task alone |

### The arguments

The inductive invariants stand in the modules they are about: `LaneInvariant`, `OneActorInvariant`,
`TaskInvariant`, `ReviewInvariant`, `PollsSound` with `OnePollerInvariant`, `GatewayInvariant`,
`SessionInvariant` with `RoundInvariant`, `FollowUpInvariant`, `RecoveryInvariant`. Named as an
`INVARIANT` in the configuration of its module's first run, each is found to hold by TLC; the proofs
need them to be inductive as well, and the runs need only what they imply, so no run lists them.

*Lane.* `QueueWellFormed` is not inductive: a thread may write a row computed from an old
snapshot. `LaneInvariant` adds that every snapshot is well formed; since a snapshot was
the row once, reads keep it, and the lemmas `AcquiredLaw` and `ReleasedLaw` show that a row
computed from a well-formed one is well formed. So interleavings may lose entries but
cannot damage the row. `WithoutLaw` of `QueueTheorems` is the fact about removing an id from a
queue on which both rest; `Without` is defined by position so that it can be proved about
without induction.

`GrantedIsActive` needs more and holds for one thread only. `OneActorInvariant` says
that the snapshot of a thread at work *is* the row, that a direct request that passed the
busy test finds the lane free, and that what is about to be released no longer runs.
`LaneSingleFlight` shows that a second thread breaks it. With the snapshot being the row, an
acquisition is `SingleFlight`'s `Accept` or `Enqueue`, a release its `HandOver` or `Withdraw`, and the
recording of an end its `Stop`; the other steps change nothing of it.

*Task.* `TaskInvariant` strengthens the three invariants with `LockHeld` (a thread inside a
transaction is the one that holds the lock, so there is one draft), `DraftSound` (each phase
of the draft carries what earlier phases established: evidence after coding, a passed
validation before publishing, the pull request of the committed row) and `PlannedOnce`
(while a task is being planned its row does not exist, and one thread plans it). `apart` becomes
true with a write of the control task alone and false with the next commit of Ralph's, which writes
both. One lemma per kind of step, `DecisionLaw`, `CodingLaw` and `SetStatusLaw`, shows what a write does to the
agreement of row and control task. `FinalEnds` and `NoSecondPullRequest` are action
properties proved from the same invariant: the first because a guard that accepted the
status it saw and was not stale saw the status that is there; the second because the
transaction looks for the recorded pull request *after* it has the lock.

*Review loop.* A review is shown or judged only when it exists (`ReviewsExist`), because rows of
`review_runs` are never deleted; and nothing is sent before a review without a blocking finding exists
(`SentAfterReview`, kept by `SentStep`). Both hold whatever the threads do. The rest needs that what a
thread has read is still so, and holds until two threads have worked at once: `ReviewInvariant`
is "`overlapped`, or all of the following". `OneWorks` says that one thread at most is past the
`Resting` places, which `Watch` makes inductive by itself. `CodingSound` says that only what was
sent back is coded. `FrameSound` is the place-by-place contract of a thread: the status it holds is the row's, the
verdict it carries out is the one of the latest review and the one that is projected.
`ProjectionSound` ties the projection to the latest review and, when nothing blocks, to the head; so
what is approved was reviewed as it is. `RoundsLeft` and `RepairsLeft` count: before a change is
coded again its review has added one to the blocking reviews, which stay below `MaxRounds`, or a
fault has added one to `faults`. The lemmas follow the kinds of step: `LoopKeeps`, `WalkKeeps`,
`RecodeKeeps`, `ReviewKeeps`, `VerdictKeeps` and `EndKeeps` for a job that works alone, which
`JobStepKeeps` puts together; `FrontStepKeeps` for polls and the operator; `ScheduleKeeps`,
`QuietKeeps` and `CrashKeeps` for what others do meanwhile. `ReviewOverlap` shows that none of this
survives an overlap.

*Claims.* `PollsSound` gives each step of `poll_once` what the steps before it have
established: an issue at hand, a claim, a control task. `OneTaskPerIssue` is then inductive
together with `AboutToStart`: a poller between its check (`AlreadyWorkedOn`) and `CreateControl`
works on an issue that has no unfinished task of the polls' own. `OnlyCreateStarts` says that
only `CreateControl` adds such a task: a direct request adds one with the history `"gateway"`, and a task that goes
on after an end is `"revived"`. So with one poller nobody else can break it in between.
`WorkerTwoPollers` shows that a second one does.

*Gateway.* Issues, tasks and runs are only ever added, so what a thread holds in its frame (the
issue it opened, the task it started, the run that was recorded) stays good whatever the others do:
that is `FrameFits`, which depends on the place of the thread, and each step of a thread is described
by its new place and frame alone (`Moved`). `WorkIsDoneOnce` needs a count: `WorkCounted` says that
the issues of a message are at most the attempts that broke off after opening one, plus one that its
receipt or a thread at work accounts for. There is one such thread at most, because a thread past the
lock holds it (`LocksHeld`), and none once the receipt is there, because the second look at the
receipts is made under the lock (`ReceiptsSound`). The same fact makes recorded answers stay. `ParentsHaveWork` with `LaneSound` says who put a parent in
the lane, and so what still has to end before it leaves; the parents in `early` and `unrecorded` are
those for which nobody is left to take them out. `DeliveriesCounted` bounds the deliveries that are
under way.

*Publication.* Every step moves the session (`SessionMove`) or leaves it alone, so the session is
proved once: `SessionInvariant` relates the lock, the queue and the attempts of each call, and
each move maps to a step of `ToolCalls` or a stutter. `RoundInvariant` adds what a phase of the
round may rely on: attempts that are left (`AttemptsLeft`), a positive answer only for an
open pull request (`OpenSound`), what is collected, committed and pushed (`ContentSound`) and
that the recorded evidence is still in the worktree and on the branch (`EvidenceSound`).

*Follow-up.* A job that is not idle holds its process's key, which is `OneJobPerTask` made
inductive. Every step has one of three shapes: a thread moves on with a new list of writes
(`MoveShapes`), it performs the head of its list, or a process dies. So what a thread owes is
proved by shape rather than by action. `MarksSound` says that whoever has left "processing" in
a record still has the next mark in its list; without faults nobody dies before writing it.
The log rests on the same debt: an event that does not name the task is either an operator's, which
the log remembers as the latest of its kind, or one of a job in its loop, and that job still owes the
patch of its last mark, whose event does name the task (`LogSound`).

### Only model-checked

Every invariant and every action property of a passing run is a theorem now, and so are the
refinements of `SingleFlight` and `ToolCalls`. What `GrantedIsActive`, `WaitersAreKept`,
`ImplementsSingleFlight` and `OneTaskPerIssue` say is proved under the hypothesis of their runs (one
thread, one poller): without it the code violates them, as the other runs show. The
properties of the review loop have no such hypothesis: where they need that threads do not overlap
they say so of the behaviour.

Liveness under fairness and `ENABLED` are out of the prover's reach and stay with TLC:
`RecordedLeaves`, `LoopEnds`, `ApprovedIsSettled`, `ClaimsDoNotHang`, `TasksAreAttached`,
`MessagesAreAnswered`, `RoundsEnd`, `FailuresAreEscalated`.

## 5. Not modelled

* Requests to language models and the retry loop around them, retrieval, configuration,
  diagnostics, start-up: I/O or text without shared state. Where their failure matters it is a
  nondeterministic choice of the module that calls them.
* Sums and reports of the token ledger, and the payload updates of sessions. The latter are a read and a
  later write like those of `FollowUp`, but nothing that the other modules rely on is read from them.
* The configuration of MCP servers, the listing of tools and the decoding of results; formatting of
  messages, issues, plans and comments; HTTP.
* The composition of modules: each takes what the others promise as its environment. Reviews that two
  processes insert within a second are ordered as they were inserted.

Many hazards of the list have no property, because the code does go wrong there and, the claims
apart (see `WorkerClaims` above), no document says that it does not: a control task that stays `created`; a refused push; the process
that dies after the approval; the scheduler that stops; the claim that stops following its task; ends that
do not release the lane; retries without a bound; a session thread that never answers; patches that
overwrite each other. The modules contain each of these, the properties excuse each of them by name (`apart`,
`refused`, `SchedulerStopped`, `resumable`, `Nameless`, `unrecorded`, `Unanswerable`, `lost`), and
what they show is that there is no other way to fail. Three more need two modules at once or a
clock: an end overwritten with `timed_out`, the release of a lane after the next task has entered,
the backoff. The note of each hazard in `PROJECT.json` says which it is.

Some things the models show and no property says. `approve_plan` holds SQLite's write lock
through coding, push and pull request. While a task is under review the last event of its control
task may not name the coding task, so an operator's action finds nothing until the job has ended.
A failed task that is approved again becomes `needs_attention`, whoever repeats the approval.

## 6. Plan

Done, in this order: the lane, the coding task, the review loop, the claims (who may work, the
work, what drives it, what starts it); then the gateway, the publication over MCP and the
follow-up with its records, which are how a request comes in, how the work goes out, and what the
outside sees of it meanwhile.

Next, models:

1. A composition of the lane at the grain of `ExecutionLane` with `WorkerClaims`: the late release
   after a committed end, and the end that an expired claim overwrites with `timed_out`.
2. Claims with a clock: backoff, and what `max_retries` bounds; and claims together with the review
   loop, whose `resumable` is a choice at the start and a loss at any time.
3. The retries of model calls, and the payload updates of sessions.

Next, proofs: the theorems that the first two models will need, from the invariants of
`ExecutionLane` and `WorkerClaims`; and what each module assumes of another and states only in words
(that a task in review has evidence, that a call runs at most twice) as a refinement between them.
