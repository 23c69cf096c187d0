------------------------- MODULE WorkerClaimsProofs -------------------------
(***************************************************************************)
(* For every set of issues and every number of tasks, retries and faults:  *)
(* the claims keep their types, and a single poller never has two of its   *)
(* own tasks of an issue unfinished.                                       *)
(*                                                                         *)
(* A poll looks for an unfinished task in the claim's transaction and      *)
(* starts a new one several transactions later.  That no poll has started  *)
(* one in between is AboutToStart, and holds because there is one poller.  *)
(* The gateway may start one in between, and an ended one may go on: those *)
(* are not the pollers' doing, and OwnActive leaves them out.              *)
(***************************************************************************)
EXTENDS WorkerClaims, WellFoundedInduction, TLAPS

(* A set of numbers up to n has a greatest one.                            *)
NatOrder == {ss \in Nat \X Nat : ss[1] < ss[2]}

LEMMA GreatestNumber ==
  ASSUME NEW n \in Nat, NEW S, S \subseteq 1..n, S # {}
  PROVE  \E k \in S : \A j \in S : j <= k
<1> DEFINE R == {n - k : k \in S}
<1>1. \A k \in S : k \in Nat /\ k <= n /\ n - k \in Nat
  OBVIOUS
<1>2. R \subseteq Nat /\ R # {}
  BY <1>1
<1>3. IsWellFoundedOn(NatOrder, Nat)
  BY NatLessThanWellFounded DEF OpToRel, NatOrder
<1>4. \E x \in R : \A y \in R : ~(<<y, x>> \in NatOrder)
  <2> HIDE DEF R
  <2> QED
    BY <1>2, <1>3, WFMin
<1>5. PICK x \in R : \A y \in R : ~(<<y, x>> \in NatOrder)
  BY <1>4
<1>6. PICK k \in S : x = n - k
  OBVIOUS
<1>7. \A j \in S : ~(n - j < x)
  BY <1>2, <1>5 DEF NatOrder
<1> QED
  BY <1>1, <1>6, <1>7

(* The latest task of an issue that has one.                               *)
LEMMA LatestLaw ==
  ASSUME tasks \in Seq(TaskRecords), NEW i, TasksOf(i) # {}
  PROVE  Latest(i) \in 1..Len(tasks)
<1>1. Len(tasks) \in Nat
  OBVIOUS
<1>2. \E k \in TasksOf(i) : \A j \in TasksOf(i) : j <= k
  BY <1>1, GreatestNumber DEF TasksOf
<1> QED
  BY <1>2 DEF Latest, TasksOf

(* What a poll writes into the claims are claims                           *)
(* (sleep_coding_worker.py:148-210, 552-582).                              *)
LEMMA SyncedLaw ==
  ASSUME tasks \in Seq(TaskRecords), NEW cl \in [Issues -> Claims]
  PROVE  Synced(cl) \in [Issues -> Claims]
<1> SUFFICES ASSUME NEW i \in Issues, cl[i].status # "absent", TasksOf(i) # {}
             PROVE  \A t \in {cl[i].lease, "none"} :
                      [cl[i] EXCEPT !.task = Latest(i), !.status = tasks[Latest(i)].status,
                                    !.lease = t] \in Claims
  BY DEF Synced, Nameless
<1>1. Latest(i) \in 1..Len(tasks) /\ Len(tasks) \in Nat
  BY LatestLaw
<1> DEFINE k == Latest(i)
<1>2. tasks[k] \in TaskRecords
  BY <1>1
<1>3. k \in Nat /\ tasks[k].status \in ClaimStatuses
  BY <1>1, <1>2 DEF TaskRecords, ClaimStatuses
<1>4. cl[i] \in Claims
  OBVIOUS
<1> HIDE DEF k
<1>5. \A t \in {cl[i].lease, "none"} :
        [cl[i] EXCEPT !.task = k, !.status = tasks[k].status, !.lease = t] \in Claims
  BY <1>3, <1>4 DEF Claims
<1> QED
  BY <1>5 DEF k

LEMMA ExpiredLaw ==
  ASSUME NEW cl \in [Issues -> Claims]
  PROVE  Expired(cl) \in [Issues -> Claims]
BY DEF Expired, Claims, ClaimStatuses, EndStatuses

(* A claim with another status is a claim.                                 *)
LEMMA ClaimLaw ==
  ASSUME NEW c \in Claims
  PROVE  /\ Discovered(c) \in Claims
         /\ \A s \in ClaimStatuses : [c EXCEPT !.status = s] \in Claims
BY DEF Discovered, Claims, ClaimStatuses

(* A commit of Ralph, and a mark of the control task alone.                *)
Commit(k) ==
  \E s \in ActiveStatuses \cup EndStatuses, row \in Rows :
    tasks' = [tasks EXCEPT ![k] = Moved(@, s, row)]

Mark(k) == \E s \in EndStatuses : tasks' = [tasks EXCEPT ![k].status = s]

LEMMA MovedLaw ==
  ASSUME NEW t \in TaskRecords, NEW s \in ActiveStatuses \cup EndStatuses, NEW row \in Rows
  PROVE  /\ Moved(t, s, row) \in TaskRecords
         /\ Moved(t, s, row).issue = t.issue
         /\ Moved(t, s, row).history = "poll" => t.history = "poll" /\ t.status \in ActiveStatuses
BY DEF Moved, TaskRecords

LEMMA MarkedLaw ==
  ASSUME NEW t \in TaskRecords, NEW s \in EndStatuses
  PROVE  /\ [t EXCEPT !.status = s] \in TaskRecords
         /\ [t EXCEPT !.status = s].issue = t.issue
         /\ [t EXCEPT !.status = s].status \notin ActiveStatuses
BY DEF TaskRecords, ActiveStatuses, EndStatuses

LEMMA NewTaskLaw ==
  ASSUME NEW i \in Issues, NEW starter \in {"poll", "gateway"}
  PROVE  NewTask(i, starter) \in TaskRecords
BY DEF NewTask, TaskRecords, ActiveStatuses, Rows

(* Either of them changes one task and keeps the rest.                     *)
LEMMA ChangeLaw ==
  ASSUME tasks \in Seq(TaskRecords), NEW k \in 1..Len(tasks), Commit(k) \/ Mark(k)
  PROVE  /\ tasks' \in Seq(TaskRecords) /\ Len(tasks') = Len(tasks)
         /\ \A j \in 1..Len(tasks) \ {k} : tasks'[j] = tasks[j]
         /\ tasks'[k].issue = tasks[k].issue
         /\ OwnActive(k)' => OwnActive(k)
<1>1. tasks[k] \in TaskRecords
  OBVIOUS
<1>2. CASE Commit(k)
  <2>1. PICK s \in ActiveStatuses \cup EndStatuses, row \in Rows :
          tasks' = [tasks EXCEPT ![k] = Moved(@, s, row)]
    BY <1>2 DEF Commit
  <2> DEFINE new == Moved(tasks[k], s, row)
  <2>2. /\ new \in TaskRecords /\ new.issue = tasks[k].issue
        /\ new.history = "poll" => tasks[k].history = "poll" /\ tasks[k].status \in ActiveStatuses
    BY <1>1, MovedLaw
  <2>3. tasks' = [tasks EXCEPT ![k] = new]
    BY <2>1
  <2> HIDE DEF new
  <2>4. /\ tasks' \in Seq(TaskRecords) /\ Len(tasks') = Len(tasks) /\ tasks'[k] = new
        /\ \A j \in 1..Len(tasks) \ {k} : tasks'[j] = tasks[j]
    BY <2>2, <2>3
  <2> QED
    BY <2>2, <2>4 DEF OwnActive
<1>3. CASE Mark(k)
  <2>1. PICK s \in EndStatuses : tasks' = [tasks EXCEPT ![k].status = s]
    BY <1>3 DEF Mark
  <2> DEFINE new == [tasks[k] EXCEPT !.status = s]
  <2>2. new \in TaskRecords /\ new.issue = tasks[k].issue /\ new.status \notin ActiveStatuses
    BY <1>1, MarkedLaw
  <2>3. tasks' = [tasks EXCEPT ![k] = new]
    BY <2>1
  <2> HIDE DEF new
  <2>4. /\ tasks' \in Seq(TaskRecords) /\ Len(tasks') = Len(tasks) /\ tasks'[k] = new
        /\ \A j \in 1..Len(tasks) \ {k} : tasks'[j] = tasks[j]
    BY <2>2, <2>3
  <2> QED
    BY <2>2, <2>4 DEF OwnActive
<1> QED
  BY <1>2, <1>3

LEMMA NewLaw ==
  ASSUME tasks \in Seq(TaskRecords), NEW i \in Issues, NEW starter \in {"poll", "gateway"},
         tasks' = Append(tasks, NewTask(i, starter))
  PROVE  /\ tasks' \in Seq(TaskRecords) /\ Len(tasks') = Len(tasks) + 1
         /\ \A j \in 1..Len(tasks) : tasks'[j] = tasks[j]
         /\ tasks'[Len(tasks) + 1].issue = i
         /\ tasks'[Len(tasks) + 1].history = starter
<1> DEFINE new == NewTask(i, starter)
<1>1. new \in TaskRecords /\ new.issue = i /\ new.history = starter
  BY NewTaskLaw DEF NewTask
<1>2. tasks' = Append(tasks, new)
  OBVIOUS
<1> HIDE DEF new
<1>3. /\ tasks' \in Seq(TaskRecords) /\ Len(tasks') = Len(tasks) + 1
      /\ \A j \in 1..Len(tasks) : tasks'[j] = tasks[j]
      /\ tasks'[Len(tasks) + 1] = new
  BY <1>1, <1>2
<1> QED
  BY <1>1, <1>3

----------------------------------------------------------------------------
(* Types.                                                                  *)
LEMMA TypesKnown ==
  ASSUME TypeOK
  PROVE  /\ claims \in [Issues -> Claims] /\ tasks \in Seq(TaskRecords) /\ Len(tasks) \in Nat
         /\ pc \in [Pollers -> Places] /\ todo \in [Pollers -> SUBSET Issues]
         /\ local \in [Pollers -> Locals] /\ expiring \in [Pollers -> SUBSET (1..Len(tasks))]
         /\ faults \in 0..MaxFaults
BY DEF TypeOK, TaskRecords

(* A step of a poller, of a task, of the gateway or of time.               *)
PollMove(w) ==
  \/ \E listed \in SUBSET Issues : BeginPoll(w, listed)
  \/ Continue(w)
  \/ StartRaises(w)
  \/ Crash(w)

TaskMove(k) == DirectPlan(k) \/ WorkGoesOn(k) \/ TaskEnds(k) \/ MarkControl(k)

OtherMove(i) == DirectStart(i) \/ LeaseRunsOut(i) \/ BackoffElapses(i)

LEMMA Moves ==
  [Next]_vars => \/ \E w \in Pollers : PollMove(w)
                 \/ \E k \in 1..Len(tasks) : TaskMove(k)
                 \/ \E i \in Issues : OtherMove(i)
                 \/ ListClaims
                 \/ UNCHANGED vars
BY DEF Next, PollMove, TaskMove, OtherMove

LEMMA ClaimsStep == PollsSound /\ [Next]_vars => claims' \in [Issues -> Claims]
<1> SUFFICES ASSUME PollsSound, [Next]_vars PROVE claims' \in [Issues -> Claims]
  OBVIOUS
<1>1. claims \in [Issues -> Claims] /\ tasks \in Seq(TaskRecords) /\ Len(tasks) \in Nat
      /\ pc \in [Pollers -> Places] /\ local \in [Pollers -> Locals]
  BY TypesKnown DEF PollsSound
<1>2. ASSUME NEW w \in Pollers, PollMove(w) PROVE claims' \in [Issues -> Claims]
  <2>1. InHand(w) /\ local[w] \in Locals
    BY <1>1 DEF PollsSound
  <2>2. CASE SyncClaims(w)
    BY <1>1, <2>2, SyncedLaw, ExpiredLaw DEF SyncClaims
  <2>3. CASE AlreadyWorkedOn(w)
    <3>1. [claims EXCEPT ![local[w].issue] = Discovered(@)] \in [Issues -> Claims]
      BY <1>1, ClaimLaw
    <3> QED
      BY <1>1, <2>3, <3>1, SyncedLaw DEF AlreadyWorkedOn
  <2>4. CASE PassOver(w)
    <3> DEFINE i == local[w].issue
               c == Discovered(claims[i])
    <3>1. i \in Issues
      BY <1>1, <2>1, <2>4 DEF PassOver, InHand, Handling, Places
    <3>2. c \in Claims
      BY <1>1, <3>1, ClaimLaw
    <3>3. \E s \in {"skipped", "queued", "retry_pending"} : SetClaim(i, [c EXCEPT !.status = s])
      BY <2>4 DEF PassOver
    <3>4. PICK s \in ClaimStatuses : claims' = [claims EXCEPT ![i] = [c EXCEPT !.status = s]]
      BY <3>3 DEF SetClaim, ClaimStatuses
    <3> QED
      BY <1>1, <3>2, <3>4, ClaimLaw
  <2>5. CASE AcquireLease(w)
    <3>1. \A c \in Claims : [c EXCEPT !.status = "claimed", !.lease = "running"] \in Claims
      BY DEF Claims, ClaimStatuses
    <3> QED
      BY <1>1, <2>5, <3>1 DEF AcquireLease, SetClaim
  <2>6. CASE MarkQueued(w)
    <3>1. "queued" \in ClaimStatuses
      BY DEF ClaimStatuses
    <3>2. \A c \in Claims : [c EXCEPT !.status = "queued"] \in Claims
      BY <3>1, ClaimLaw
    <3> QED
      BY <1>1, <2>6, <3>2 DEF MarkQueued, SetClaim
  <2>7. CASE RecordFailure(w)
    <3> DEFINE i == local[w].issue
               c == claims[i]
               s == IF c.retries + 1 <= MaxRetries THEN "retrying" ELSE "failed"
               new == [c EXCEPT !.retries = @ + 1, !.status = s, !.due = FALSE, !.lease = "none"]
    <3>1. i \in Issues
      BY <1>1, <2>1, <2>7 DEF RecordFailure, InHand, Handling, Places
    <3>2. c \in Claims /\ s \in ClaimStatuses
      BY <1>1, <3>1 DEF ClaimStatuses, EndStatuses
    <3>3. claims' = [claims EXCEPT ![i] = new]
      BY <2>7 DEF RecordFailure, SetClaim
    <3> HIDE DEF c, s
    <3>4. c.retries + 1 \in Nat
      BY <3>2 DEF Claims
    <3>5. new \in Claims
      BY <3>2, <3>4 DEF Claims
    <3> QED
      BY <1>1, <3>3, <3>5
  <2>8. CASE Attach(w) \/ Settle(w)
    <3>1. local[w].task \in Nat /\ local[w].status \in ClaimStatuses
      BY <2>1 DEF Locals
    <3>2. \A c \in Claims : Attached(c, w) \in Claims
      BY <3>1 DEF Attached, Claims
    <3> QED
      BY <1>1, <2>8, <3>2 DEF Attach, Settle, SetClaim
  <2> QED
    BY <1>1, <1>2, <2>2, <2>3, <2>4, <2>5, <2>6, <2>7, <2>8
       DEF PollMove, Continue, BeginPoll, StartRaises, Crash, MarkTimedOut, NextIssue, EndPoll, Closed,
           AcquireLane, CreateControl, PlanReady, AutoApprove
<1>3. ASSUME NEW k \in 1..Len(tasks), TaskMove(k) PROVE claims' \in [Issues -> Claims]
  BY <1>1, <1>3 DEF TaskMove, DirectPlan, WorkGoesOn, TaskEnds, MarkControl
<1>4. ASSUME NEW i \in Issues, OtherMove(i) PROVE claims' \in [Issues -> Claims]
  <2>1. /\ \A c \in Claims : [c EXCEPT !.lease = "expired"] \in Claims
        /\ \A c \in Claims : [c EXCEPT !.due = TRUE] \in Claims
    BY DEF Claims
  <2> QED
    BY <1>1, <1>4, <2>1 DEF OtherMove, DirectStart, LeaseRunsOut, BackoffElapses, SetClaim
<1>5. CASE ListClaims
  BY <1>1, <1>5, SyncedLaw DEF ListClaims
<1> QED
  BY <1>1, <1>2, <1>3, <1>4, <1>5, Moves DEF vars

(* What a step may do to the tasks: a commit, a mark, or a new task.       *)
Creates == \E w \in Pollers : CreateControl(w)

TasksChange ==
  \/ UNCHANGED tasks
  \/ \E k \in 1..Len(tasks) : Commit(k) \/ Mark(k)
  \/ \E i \in Issues : DirectStart(i)
  \/ Creates

LEMMA TasksChangeLaw == PollsSound /\ [Next]_vars => TasksChange
<1> SUFFICES ASSUME PollsSound, [Next]_vars PROVE TasksChange
  OBVIOUS
<1>1. local \in [Pollers -> Locals] /\ expiring \in [Pollers -> SUBSET (1..Len(tasks))]
  BY TypesKnown DEF PollsSound
<1>2. /\ {"created", "awaiting_confirmation", "in_review"} \subseteq ActiveStatuses \cup EndStatuses
      /\ {"ended", "timed_out"} \subseteq EndStatuses
      /\ {"none", "waiting", "working", "ended"} \subseteq Rows
  BY DEF ActiveStatuses, EndStatuses, Rows
<1>3. \A k : Works(k) \/ Ends(k) => Commit(k)
  BY <1>2 DEF Works, Ends, Commit
<1>4. ASSUME NEW w \in Pollers, PollMove(w) PROVE TasksChange
  <2>1. InHand(w)
    BY DEF PollsSound
  <2>2. CASE MarkTimedOut(w)
    <3>1. PICK k \in expiring[w] : tasks' = [tasks EXCEPT ![k].status = "timed_out"]
      BY <2>2 DEF MarkTimedOut
    <3>2. k \in 1..Len(tasks) /\ Mark(k)
      BY <1>1, <1>2, <3>1 DEF Mark
    <3> QED
      BY <3>2 DEF TasksChange
  <2>3. CASE PlanReady(w)
    <3>1. local[w].task \in 1..Len(tasks) /\ Commit(local[w].task)
      BY <1>2, <2>1, <2>3 DEF PlanReady, InHand, Commit
    <3> QED
      BY <3>1 DEF TasksChange
  <2>4. CASE AutoApprove(w)
    <3>1. local[w].task \in 1..Len(tasks) /\ Commit(local[w].task)
      BY <1>3, <2>1, <2>4 DEF AutoApprove, InHand
    <3> QED
      BY <3>1 DEF TasksChange
  <2>5. CASE CreateControl(w)
    BY <2>5 DEF TasksChange, Creates
  <2>6. CASE UNCHANGED tasks
    BY <2>6 DEF TasksChange
  <2> QED
    BY <1>4, <2>2, <2>3, <2>4, <2>5, <2>6
       DEF PollMove, Continue, BeginPoll, StartRaises, Crash, SyncClaims, NextIssue, EndPoll, PassOver,
           Closed, AlreadyWorkedOn, AcquireLease, AcquireLane, MarkQueued, RecordFailure, Attach, Settle
<1>5. ASSUME NEW k \in 1..Len(tasks), TaskMove(k) PROVE TasksChange
  <2>1. Commit(k) \/ Mark(k)
    BY <1>2, <1>3, <1>5 DEF TaskMove, DirectPlan, WorkGoesOn, TaskEnds, MarkControl, Commit, Mark
  <2> QED
    BY <2>1 DEF TasksChange
<1>6. ASSUME NEW i \in Issues, OtherMove(i) PROVE TasksChange
  BY <1>6 DEF OtherMove, LeaseRunsOut, BackoffElapses, TasksChange
<1>7. CASE ListClaims \/ UNCHANGED vars
  BY <1>7 DEF ListClaims, vars, TasksChange
<1> QED
  BY <1>4, <1>5, <1>6, <1>7, Moves

LEMMA CreateLaw ==
  ASSUME PollsSound, NEW w \in Pollers, CreateControl(w)
  PROVE  local[w].issue \in Issues /\ tasks' = Append(tasks, NewTask(local[w].issue, "poll"))
BY DEF PollsSound, InHand, Handling, Places, CreateControl

LEMMA TasksStep ==
  PollsSound /\ [Next]_vars =>
    tasks' \in Seq(TaskRecords) /\ Len(tasks') \in {Len(tasks), Len(tasks) + 1}
<1> DEFINE Goal == tasks' \in Seq(TaskRecords) /\ Len(tasks') \in {Len(tasks), Len(tasks) + 1}
<1> SUFFICES ASSUME PollsSound, [Next]_vars PROVE Goal
  OBVIOUS
<1>1. tasks \in Seq(TaskRecords)
  BY TypesKnown DEF PollsSound
<1>2. ASSUME NEW k \in 1..Len(tasks), Commit(k) \/ Mark(k) PROVE Goal
  BY <1>1, <1>2, ChangeLaw
<1>3. ASSUME NEW i \in Issues, DirectStart(i) PROVE Goal
  BY <1>1, <1>3, NewLaw DEF DirectStart
<1>4. ASSUME NEW w \in Pollers, CreateControl(w) PROVE Goal
  BY <1>1, <1>4, NewLaw, CreateLaw
<1> QED
  BY <1>1, <1>2, <1>3, <1>4, TasksChangeLaw DEF TasksChange, Creates

(* Where the pollers are, and what they have in hand.                      *)
PollState(w) ==
  /\ pc[w] \in Places /\ todo[w] \in SUBSET Issues /\ local[w] \in Locals
  /\ expiring[w] \in SUBSET (1..Len(tasks))

LEMMA PollerStep ==
  ASSUME PollsSound, tasks' \in Seq(TaskRecords), Len(tasks') \in {Len(tasks), Len(tasks) + 1},
         NEW w \in Pollers, PollMove(w)
  PROVE  PollState(w)' /\ InHand(w)'
<1>1. /\ tasks \in Seq(TaskRecords) /\ Len(tasks) \in Nat
      /\ pc \in [Pollers -> Places] /\ todo \in [Pollers -> SUBSET Issues]
      /\ local \in [Pollers -> Locals] /\ expiring \in [Pollers -> SUBSET (1..Len(tasks))]
  BY TypesKnown DEF PollsSound
<1>2. InHand(w) /\ local[w] \in Locals /\ NoLocal \in Locals /\ 1..Len(tasks) \subseteq 1..Len(tasks')
  BY <1>1 DEF PollsSound, NoLocal, Locals, Looks, ClaimStatuses
<1> USE DEF GoTo, Proceed, PollState, InHand, Places, Handling
<1>3. CASE \E listed \in SUBSET Issues : BeginPoll(w, listed)
  BY <1>1, <1>2, <1>3 DEF BeginPoll
<1>4. CASE SyncClaims(w)
  BY <1>1, <1>2, <1>4 DEF SyncClaims
<1>5. CASE MarkTimedOut(w)
  BY <1>1, <1>2, <1>5 DEF MarkTimedOut
<1>6. ASSUME NEW i \in Issues, NEW look \in Looks, NextIssue(w, i, look)
      PROVE  PollState(w)' /\ InHand(w)'
  <2>1. [NoLocal EXCEPT !.issue = i, !.look = look] \in Locals
    BY <1>1, <1>2 DEF Locals
  <2>2. [NoLocal EXCEPT !.issue = i, !.look = look].issue = i
    BY DEF NoLocal
  <2> QED
    BY <1>1, <1>2, <1>6, <2>1, <2>2 DEF NextIssue
<1>7. CASE EndPoll(w)
  BY <1>1, <1>2, <1>7 DEF EndPoll
<1>8. CASE PassOver(w) \/ Closed(w) \/ AlreadyWorkedOn(w) \/ MarkQueued(w) \/ RecordFailure(w) \/ Settle(w)
  BY <1>1, <1>2, <1>8 DEF PassOver, Closed, AlreadyWorkedOn, MarkQueued, RecordFailure, Settle
<1>9. CASE AcquireLease(w)
  BY <1>1, <1>2, <1>9 DEF AcquireLease, Eligible
<1>10. CASE AcquireLane(w)
  BY <1>1, <1>2, <1>10 DEF AcquireLane
<1>11. CASE CreateControl(w)
  <2>1. Len(tasks') = Len(tasks) + 1
    BY <1>1, <1>11 DEF CreateControl
  <2> DEFINE n == Len(tasks) + 1
  <2>0. n \in Nat /\ local[w] \in Locals
    BY <1>1, <1>2
  <2> HIDE DEF n
  <2>2. [local[w] EXCEPT !.task = n] \in Locals
    BY <2>0 DEF Locals
  <2> USE DEF n
  <2>3. local'[w] = [local[w] EXCEPT !.task = Len(tasks) + 1]
    BY <1>1, <1>11 DEF CreateControl
  <2>4. local'[w].issue = local[w].issue /\ local'[w].task = Len(tasks) + 1
    BY <1>2, <2>3 DEF Locals
  <2> QED
    BY <1>1, <1>2, <1>11, <2>1, <2>2, <2>3, <2>4 DEF CreateControl
<1>12. CASE PlanReady(w) \/ AutoApprove(w)
  <2>1. \E s \in {"awaiting_confirmation", "in_review", "ended"} :
          local'[w] = [local[w] EXCEPT !.status = s]
    BY <1>1, <1>12 DEF PlanReady, AutoApprove
  <2>2. local'[w] \in Locals /\ local'[w].issue = local[w].issue /\ local'[w].task = local[w].task
    BY <1>2, <2>1 DEF Locals, ClaimStatuses, ActiveStatuses, EndStatuses
  <2> QED
    BY <1>1, <1>2, <1>12, <2>2 DEF PlanReady, AutoApprove
<1>13. CASE Attach(w)
  BY <1>1, <1>2, <1>13 DEF Attach
<1>14. CASE StartRaises(w)
  BY <1>1, <1>2, <1>14 DEF StartRaises
<1>15. CASE Crash(w)
  BY <1>1, <1>2, <1>15 DEF Crash
<1> QED
  BY <1>3, <1>4, <1>5, <1>6, <1>7, <1>8, <1>9, <1>10, <1>11, <1>12, <1>13, <1>14, <1>15
     DEF PollMove, Continue

(* A poller's step changes nothing of another poller.                      *)
OwnStep(w) ==
  /\ pc' = [pc EXCEPT ![w] = pc'[w]] /\ todo' = [todo EXCEPT ![w] = todo'[w]]
  /\ local' = [local EXCEPT ![w] = local'[w]] /\ expiring' = [expiring EXCEPT ![w] = expiring'[w]]

LEMMA StepsAreOwn ==
  ASSUME TypeOK, NEW w \in Pollers, PollMove(w)
  PROVE  OwnStep(w)
<1>1. /\ pc \in [Pollers -> Places] /\ todo \in [Pollers -> SUBSET Issues]
      /\ local \in [Pollers -> Locals] /\ expiring \in [Pollers -> SUBSET (1..Len(tasks))]
  BY TypesKnown
<1> USE DEF GoTo, Proceed, OwnStep
<1>2. CASE \/ \E listed \in SUBSET Issues : BeginPoll(w, listed)
           \/ SyncClaims(w) \/ MarkTimedOut(w) \/ EndPoll(w)
           \/ \E i \in Issues, look \in Looks : NextIssue(w, i, look)
  BY <1>1, <1>2 DEF BeginPoll, SyncClaims, MarkTimedOut, EndPoll, NextIssue
<1>3. CASE PassOver(w) \/ Closed(w) \/ AlreadyWorkedOn(w) \/ AcquireLease(w) \/ AcquireLane(w) \/ MarkQueued(w)
  BY <1>1, <1>3 DEF PassOver, Closed, AlreadyWorkedOn, AcquireLease, AcquireLane, MarkQueued
<1>4. CASE CreateControl(w) \/ PlanReady(w) \/ RecordFailure(w) \/ Attach(w) \/ Settle(w)
  BY <1>1, <1>4 DEF CreateControl, PlanReady, RecordFailure, Attach, Settle
<1>5. CASE AutoApprove(w) \/ StartRaises(w) \/ Crash(w)
  BY <1>1, <1>5 DEF AutoApprove, StartRaises, Crash
<1> QED
  BY <1>2, <1>3, <1>4, <1>5 DEF PollMove, Continue

LEMMA PollsSoundInit == Init => PollsSound
<1> SUFFICES ASSUME Init PROVE PollsSound
  OBVIOUS
<1>1. NoLocal \in Locals /\ NoClaim \in Claims
  BY DEF NoLocal, NoClaim, Locals, Looks, Claims, ClaimStatuses
<1>2. 0 \in 0..MaxFaults
  BY BoundAssumption
<1> QED
  BY <1>1, <1>2, IssueAssumption DEF Init, PollsSound, TypeOK, InHand, Places, Handling

LEMMA PollsSoundStep == PollsSound /\ [Next]_vars => PollsSound'
<1> SUFFICES ASSUME PollsSound, [Next]_vars PROVE PollsSound'
  OBVIOUS
<1>1. /\ claims' \in [Issues -> Claims] /\ tasks' \in Seq(TaskRecords)
      /\ Len(tasks') \in {Len(tasks), Len(tasks) + 1}
  BY ClaimsStep, TasksStep
<1>2. /\ TypeOK /\ Len(tasks) \in Nat /\ 1..Len(tasks) \subseteq 1..Len(tasks')
      /\ pc \in [Pollers -> Places] /\ todo \in [Pollers -> SUBSET Issues]
      /\ local \in [Pollers -> Locals] /\ expiring \in [Pollers -> SUBSET (1..Len(tasks))]
  BY <1>1, TypesKnown DEF PollsSound
<1>3. faults' \in 0..MaxFaults
  <2>1. UNCHANGED faults \/ Fault
    BY DEF Next, vars, BeginPoll, Continue, StartRaises, Crash, SyncClaims, MarkTimedOut, EndPoll,
       NextIssue, PassOver, Closed, AlreadyWorkedOn, AcquireLease, AcquireLane, MarkQueued,
       CreateControl, PlanReady, RecordFailure, Attach, Settle, AutoApprove, DirectPlan, WorkGoesOn,
       TaskEnds, MarkControl, DirectStart, LeaseRunsOut, BackoffElapses, ListClaims
  <2> QED
    BY <1>2, <2>1, TypesKnown, BoundAssumption DEF Fault
<1> DEFINE Goal == /\ pc' \in [Pollers -> Places] /\ todo' \in [Pollers -> SUBSET Issues]
                   /\ local' \in [Pollers -> Locals]
                   /\ expiring' \in [Pollers -> SUBSET (1..Len(tasks'))]
                   /\ \A v \in Pollers : InHand(v)'
<1>4. ASSUME NEW w \in Pollers, PollMove(w) PROVE Goal
  <2>1. OwnStep(w) /\ PollState(w)' /\ InHand(w)'
    BY <1>1, <1>2, <1>4, PollerStep, StepsAreOwn
  <2>2. ASSUME NEW v \in Pollers, v # w PROVE InHand(v)'
    <3>1. pc'[v] = pc[v] /\ local'[v] = local[v]
      BY <1>2, <2>1, <2>2 DEF OwnStep
    <3> QED
      BY <1>2, <3>1 DEF PollsSound, InHand
  <2>3. /\ pc' \in [Pollers -> Places] /\ todo' \in [Pollers -> SUBSET Issues]
        /\ local' \in [Pollers -> Locals]
    BY <1>2, <2>1 DEF OwnStep, PollState
  <2>4. expiring' \in [Pollers -> SUBSET (1..Len(tasks'))]
    BY <1>2, <2>1 DEF OwnStep, PollState
  <2> QED
    BY <2>1, <2>2, <2>3, <2>4
<1>5. ASSUME UNCHANGED <<pc, todo, local, expiring>> PROVE Goal
  <2>1. \A v \in Pollers : InHand(v)'
    BY <1>2, <1>5 DEF PollsSound, InHand
  <2>2. expiring \in [Pollers -> SUBSET (1..Len(tasks'))]
    BY <1>2
  <2>3. pc' = pc /\ todo' = todo /\ local' = local /\ expiring' = expiring
    BY <1>5
  <2> QED
    BY <1>2, <2>1, <2>2, <2>3
<1>6. Goal
  <2>1. ASSUME NEW k \in 1..Len(tasks), TaskMove(k) PROVE UNCHANGED <<pc, todo, local, expiring>>
    BY <2>1 DEF TaskMove, DirectPlan, WorkGoesOn, TaskEnds, MarkControl
  <2>2. ASSUME NEW i \in Issues, OtherMove(i) PROVE UNCHANGED <<pc, todo, local, expiring>>
    BY <2>2 DEF OtherMove, DirectStart, LeaseRunsOut, BackoffElapses
  <2>3. ASSUME ListClaims \/ UNCHANGED vars PROVE UNCHANGED <<pc, todo, local, expiring>>
    BY <2>3 DEF ListClaims, vars
  <2> HIDE DEF Goal
  <2> QED
    BY <1>4, <1>5, <2>1, <2>2, <2>3, Moves
<1> QED
  BY <1>1, <1>2, <1>3, <1>6 DEF PollsSound, TypeOK, TaskRecords

(* The types, for any number of pollers.                                   *)
THEOREM PollsSoundHolds == Spec => []PollsSound
BY PollsSoundInit, PollsSoundStep, PTL DEF Spec

(* The type invariant of the claims, tasks and pollers.                    *)
THEOREM ClaimsTypeOK == Spec => []TypeOK
BY PollsSoundHolds, PTL DEF PollsSound

----------------------------------------------------------------------------
(* One poller.  A step starts no work of the pollers: a task of theirs     *)
(* that is unfinished after it was one of that issue, unfinished, before.  *)
StartsNothing ==
  /\ Len(tasks') \in {Len(tasks), Len(tasks) + 1}
  /\ \A k \in 1..Len(tasks') :
       OwnActive(k)' => /\ k <= Len(tasks)
                        /\ OwnActive(k)
                        /\ tasks'[k].issue = tasks[k].issue

LEMMA StartsNothingLaw ==
  ASSUME PollsSound, StartsNothing
  PROVE  /\ OneTaskPerIssue => OneTaskPerIssue'
         /\ \A i : (\A k \in TasksOf(i) : ~OwnActive(k)) => \A k \in TasksOf(i)' : ~OwnActive(k)'
<1>1. Len(tasks) \in Nat
  BY TypesKnown DEF PollsSound
<1> QED
  BY <1>1 DEF StartsNothing, OneTaskPerIssue, TasksOf

LEMMA OnlyCreateStarts ==
  ASSUME PollsSound, [Next]_vars
  PROVE  StartsNothing \/ Creates
<1>1. tasks \in Seq(TaskRecords) /\ Len(tasks) \in Nat
  BY TypesKnown DEF PollsSound
<1>2. ASSUME NEW k \in 1..Len(tasks), Commit(k) \/ Mark(k) PROVE StartsNothing
  <2>1. /\ Len(tasks') = Len(tasks)
        /\ \A j \in 1..Len(tasks) \ {k} : tasks'[j] = tasks[j]
        /\ tasks'[k].issue = tasks[k].issue
        /\ OwnActive(k)' => OwnActive(k)
    BY <1>1, <1>2, ChangeLaw
  <2>2. \A j \in 1..Len(tasks) \ {k} : OwnActive(j)' => OwnActive(j)
    BY <2>1 DEF OwnActive
  <2> QED
    BY <1>1, <2>1, <2>2 DEF StartsNothing
<1>3. ASSUME NEW i \in Issues, DirectStart(i) PROVE StartsNothing
  <2>1. tasks' = Append(tasks, NewTask(i, "gateway"))
    BY <1>3 DEF DirectStart
  <2>2. PICK n : n = Len(tasks) + 1
    OBVIOUS
  <2>3. /\ Len(tasks') = n
        /\ \A j \in 1..Len(tasks) : tasks'[j] = tasks[j]
        /\ tasks'[n].history = "gateway"
    BY <1>1, <2>1, <2>2, NewLaw
  <2>4. ASSUME NEW j \in 1..Len(tasks'), OwnActive(j)'
        PROVE  j <= Len(tasks) /\ OwnActive(j) /\ tasks'[j].issue = tasks[j].issue
    <3>1. j # n
      BY <2>3, <2>4 DEF OwnActive
    <3>2. j \in 1..Len(tasks)
      BY <1>1, <2>2, <2>3, <3>1
    <3> QED
      BY <1>1, <2>3, <2>4, <3>2 DEF OwnActive
  <2> QED
    BY <2>2, <2>3, <2>4 DEF StartsNothing
<1>4. CASE UNCHANGED tasks
  BY <1>1, <1>4 DEF StartsNothing, OwnActive
<1> QED
  BY <1>2, <1>3, <1>4, TasksChangeLaw DEF TasksChange

LEMMA OneStarts ==
  ASSUME PollsSound, OnePollerInvariant, NEW w \in Pollers, CreateControl(w)
  PROVE  OneTaskPerIssue'
<1> DEFINE i == local[w].issue
           n == Len(tasks) + 1
<1>1. tasks \in Seq(TaskRecords) /\ Len(tasks) \in Nat
  BY TypesKnown DEF PollsSound
<1>2. i \in Issues /\ \A k \in TasksOf(i) : ~OwnActive(k)
  BY CreateLaw DEF OnePollerInvariant, AboutToStart, CreateControl
<1>3. /\ Len(tasks') = n /\ tasks'[n].issue = i
      /\ \A k \in 1..Len(tasks) : tasks'[k] = tasks[k]
  BY <1>1, CreateLaw, NewLaw
<1>4. \A k \in 1..Len(tasks) : OwnActive(k)' => OwnActive(k) /\ tasks'[k].issue = tasks[k].issue
  BY <1>3 DEF OwnActive
<1>5. \A k \in 1..Len(tasks) : OwnActive(k)' => tasks'[k].issue # i
  BY <1>2, <1>4 DEF TasksOf
<1>6. \A k \in 1..Len(tasks') : k \in 1..Len(tasks) \/ k = n
  BY <1>1, <1>3
<1> HIDE DEF i, n
<1>7. \A j, k \in 1..Len(tasks) :
        tasks'[j].issue = tasks'[k].issue /\ OwnActive(j)' /\ OwnActive(k)' => j = k
  BY <1>4 DEF OnePollerInvariant, OneTaskPerIssue
<1> QED
  BY <1>3, <1>5, <1>6, <1>7 DEF OneTaskPerIssue

LEMMA StartStep ==
  ASSUME PollsSound, OnePollerInvariant, [Next]_vars,
         NEW w \in Pollers, \A v \in Pollers : v = w
  PROVE  AboutToStart(w)'
<1>1. /\ tasks \in Seq(TaskRecords) /\ Len(tasks) \in Nat
      /\ pc \in [Pollers -> Places] /\ local \in [Pollers -> Locals]
      /\ expiring \in [Pollers -> SUBSET (1..Len(tasks))]
      /\ InHand(w) /\ AboutToStart(w)
  BY TypesKnown DEF PollsSound, OnePollerInvariant
<1> USE DEF AboutToStart, GoTo, Proceed, Handling, Places
<1>2. ASSUME StartsNothing, UNCHANGED <<pc, local, expiring>>
      PROVE  AboutToStart(w)'
  BY <1>1, <1>2, StartsNothingLaw
<1>3. CASE PollMove(w)
  <2>1. CASE pc'[w] \in {"idle", "sync", "next"}
    BY <2>1
  <2>2. ASSUME NEW i \in Issues, NEW look \in Looks, NextIssue(w, i, look) PROVE AboutToStart(w)'
    BY <1>1, <2>2 DEF NextIssue
  <2>3. CASE AcquireLease(w)
    <3>1. pc'[w] \in {"acquire", "start"} /\ UNCHANGED <<tasks, local, expiring>>
      BY <1>1, <2>3 DEF AcquireLease
    <3>2. ~HasActiveTask(local[w].issue) /\ pc[w] = "claim"
      BY <2>3 DEF AcquireLease, Eligible
    <3>3. \A k \in TasksOf(local[w].issue) : ~OwnActive(k)
      BY <3>2 DEF HasActiveTask, OwnActive
    <3> QED
      BY <1>1, <3>1, <3>2, <3>3 DEF TasksOf, OwnActive
  <2>4. CASE AcquireLane(w)
    <3>1. pc'[w] \in {"start", "queue"} /\ UNCHANGED <<tasks, local, expiring>>
      BY <1>1, <2>4 DEF AcquireLane
    <3>2. pc[w] = "acquire"
      BY <2>4 DEF AcquireLane
    <3> QED
      BY <1>1, <3>1, <3>2 DEF TasksOf, OwnActive
  <2>5. CASE CreateControl(w)
    BY <1>1, <2>5 DEF CreateControl
  <2>6. CASE PlanReady(w) \/ AutoApprove(w)
    BY <1>1, <2>6 DEF PlanReady, AutoApprove
  <2>7. CASE Attach(w) \/ StartRaises(w)
    BY <1>1, <2>7 DEF Attach, StartRaises
  <2> QED
    BY <1>1, <1>3, <2>1, <2>2, <2>3, <2>4, <2>5, <2>6, <2>7
       DEF PollMove, Continue, BeginPoll, Crash, SyncClaims, MarkTimedOut, EndPoll, PassOver,
           Closed, AlreadyWorkedOn, MarkQueued, RecordFailure, Settle
<1>4. CASE UNCHANGED <<pc, local, expiring>>
  <2>1. ~Creates
    BY <1>1, <1>4 DEF CreateControl, Creates
  <2> QED
    BY <1>2, <1>4, <2>1, OnlyCreateStarts
<1>5. ASSUME NEW k \in 1..Len(tasks), TaskMove(k) PROVE UNCHANGED <<pc, local, expiring>>
  BY <1>5 DEF TaskMove, DirectPlan, WorkGoesOn, TaskEnds, MarkControl
<1>6. ASSUME NEW i \in Issues, OtherMove(i) PROVE UNCHANGED <<pc, local, expiring>>
  BY <1>6 DEF OtherMove, DirectStart, LeaseRunsOut, BackoffElapses
<1>7. CASE ListClaims \/ UNCHANGED vars
  BY <1>4, <1>7 DEF ListClaims, vars
<1> QED
  BY <1>3, <1>4, <1>5, <1>6, <1>7, Moves

(* A single poller never has two of its own tasks of an issue unfinished,  *)
(* whatever dies, fails or runs out meanwhile, and whatever the gateway    *)
(* and the operator start, end or mark (sleep_coding_worker.py:89-146,     *)
(* gateway.py:433).                                                        *)
THEOREM OnePollerStartsOneTask ==
  ASSUME \A v, w \in Pollers : v = w
  PROVE  Spec => []OneTaskPerIssue
<1>1. Init => PollsSound /\ OnePollerInvariant
  BY PollsSoundInit DEF Init, OnePollerInvariant, OneTaskPerIssue, AboutToStart, Handling, Places
<1>2. PollsSound /\ OnePollerInvariant /\ [Next]_vars => PollsSound' /\ OnePollerInvariant'
  <2> SUFFICES ASSUME PollsSound, OnePollerInvariant, [Next]_vars PROVE OnePollerInvariant'
    BY PollsSoundStep
  <2>1. OneTaskPerIssue'
    BY OnlyCreateStarts, OneStarts, StartsNothingLaw DEF OnePollerInvariant, Creates
  <2>2. \A w \in Pollers : AboutToStart(w)'
    BY StartStep
  <2> QED
    BY <2>1, <2>2 DEF OnePollerInvariant
<1> QED
  BY <1>1, <1>2, PTL DEF Spec, OnePollerInvariant
=============================================================================
