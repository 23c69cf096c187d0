--------------------------- MODULE ExecutionLane ---------------------------
(***************************************************************************)
(* The execution lane of Marten: one row of the table execution_lanes, in  *)
(* the SQLite file that the API process and the scheduler process share.   *)
(* It holds the id of the active main task and the ids queued behind it    *)
(* (app/control/session_registry.py).                                      *)
(*                                                                         *)
(* acquire_execution_lane and release_execution_lane read the row with a   *)
(* SELECT, compute the new row in Python and write it back.  sqlite3 opens *)
(* a transaction only at the write, so another actor may write the row     *)
(* between the two: an actor carries the snapshot it read.                 *)
(*                                                                         *)
(* Actors are the threads that use the lane: the poll of the worker, the   *)
(* review-loop job, the request threads of the API.  Three code paths use  *)
(* it:                                                                     *)
(*   issue    the worker's poll and the gateway's issue intake: acquire,   *)
(*            then work only when the answer is "accepted";                *)
(*   direct   the gateway's direct Ralph request: refuse when the lane is  *)
(*            busy, start the task, then acquire and go on whatever the    *)
(*            answer is;                                                   *)
(*   record   _record_parent_result: a task reached a terminal status, its *)
(*            control task and its parent leave the lane.                  *)
(***************************************************************************)
EXTENDS Queues, FiniteSets

CONSTANTS
  Tasks,       \* ids that may hold the lane: control tasks and their parents
  Actors,      \* threads of the two processes
  None,        \* no active task
  ParentOf,    \* ParentOf[t]: the parent of control task t, or None
  MaxCrashes   \* bound: how many times an actor dies

ASSUME NoneAssumption == None \notin Tasks
ASSUME ParentAssumption ==
  /\ ParentOf \in [Tasks -> Tasks \cup {None}]
  /\ \A t \in Tasks : ParentOf[t] # t
ASSUME CrashAssumption == MaxCrashes \in Nat

VARIABLES
  lane,     \* the row: [active, queued]
  pc,       \* pc[a]: where actor a is
  task,     \* task[a]: the id it acquires or releases
  direct,   \* direct[a]: it serves a direct Ralph request
  snap,     \* snap[a]: the snapshot it holds
  todo,     \* todo[a]: the ids it still has to release
  granted,  \* tasks that were told they run and whose result is not recorded
  crashes

vars == <<lane, pc, task, direct, snap, todo, granted, crashes>>

----------------------------------------------------------------------------
Rows == [active : Tasks \cup {None}, queued : Seq(Tasks)]

EmptyRow == [active |-> None, queued |-> <<>>]

InRow(row, t) == row.active = t \/ t \in Elements(row.queued)

(* acquire_execution_lane answers "accepted", or else "queued".            *)
Accepts(row, t) == row.active \in {None, t}

(* Mutant: the active task asks again and is queued behind itself.         *)
AcquiredNotIdempotent(row, t) ==
  IF row.active = None
  THEN [active |-> t, queued |-> Without(row.queued, t)]
  ELSE [active |-> row.active, queued |-> Append(Without(row.queued, t), t)]

(* Mutant: a new request takes the lane, the active task is queued.        *)
AcquiredPreempts(row, t) ==
  [active |-> t,
   queued |-> IF Accepts(row, t) THEN Without(row.queued, t)
              ELSE Append(Without(row.queued, t), row.active)]

(* The row acquire_execution_lane writes.                                  *)
Acquired(row, t) ==
  IF Accepts(row, t)
  THEN [active |-> t, queued |-> Without(row.queued, t)]
  ELSE [active |-> row.active,
        queued |-> IF t \in Elements(row.queued) THEN row.queued
                                                 ELSE Append(row.queued, t)]

(* Mutant: release clears the lane and forgets those who wait.             *)
ReleasedDropsQueue(row, t) ==
  IF row.active = t
  THEN EmptyRow
  ELSE [active |-> row.active, queued |-> Without(row.queued, t)]

(* Mutant: release only knows the active task.                             *)
ReleasedOnlyActive(row, t) ==
  IF row.active = t /\ row.queued # <<>>
  THEN [active |-> Head(row.queued), queued |-> Tail(row.queued)]
  ELSE IF row.active = t THEN EmptyRow ELSE row

(* Mutant: the last to come is promoted.                                   *)
ReleasedPromotesLast(row, t) ==
  IF row.active = t
  THEN IF row.queued = <<>>
       THEN EmptyRow
       ELSE [active |-> row.queued[Len(row.queued)],
             queued |-> SubSeq(row.queued, 1, Len(row.queued) - 1)]
  ELSE [active |-> row.active, queued |-> Without(row.queued, t)]

(* The row release_execution_lane writes: the head of the queue is         *)
(* promoted when the active task leaves.                                   *)
Released(row, t) ==
  IF row.active = t
  THEN IF row.queued = <<>>
       THEN EmptyRow
       ELSE [active |-> Head(row.queued), queued |-> Tail(row.queued)]
  ELSE [active |-> row.active, queued |-> Without(row.queued, t)]

(* Mutant: the test that the parent exists is dropped.                     *)
ReleaseIdsUnchecked(t) == <<t, ParentOf[t]>>

(* The ids _record_parent_result tries to release, in its order.           *)
ReleaseIds(t) == IF ParentOf[t] = None THEN <<t>> ELSE <<t, ParentOf[t]>>

----------------------------------------------------------------------------
Init ==
  /\ lane = EmptyRow
  /\ pc = [a \in Actors |-> "idle"]
  /\ task = [a \in Actors |-> None]
  /\ direct = [a \in Actors |-> FALSE]
  /\ snap = [a \in Actors |-> EmptyRow]
  /\ todo = [a \in Actors |-> <<>>]
  /\ granted = {}
  /\ crashes = 0

(* The call returns: its locals are gone.                                  *)
Return(a) ==
  /\ pc' = [pc EXCEPT ![a] = "idle"]
  /\ task' = [task EXCEPT ![a] = None]
  /\ direct' = [direct EXCEPT ![a] = FALSE]
  /\ snap' = [snap EXCEPT ![a] = EmptyRow]
  /\ todo' = [todo EXCEPT ![a] = <<>>]

(* acquire_execution_lane, the SELECT.                                     *)
ReadForAcquire(a, t, isDirect) ==
  /\ pc' = [pc EXCEPT ![a] = "acquire"]
  /\ task' = [task EXCEPT ![a] = t]
  /\ direct' = [direct EXCEPT ![a] = isDirect]
  /\ snap' = [snap EXCEPT ![a] = lane]
  /\ UNCHANGED <<lane, todo, granted, crashes>>

(* The worker's poll or the issue intake asks for the lane.                *)
RequestLane(a, t) ==
  /\ pc[a] = "idle"
  /\ ReadForAcquire(a, t, FALSE)

(* Gateway._handle_sleep_coding: a busy lane is answered at once, and a    *)
(* free one starts the task before it is acquired.                         *)
CheckBusy(a, t) ==
  /\ pc[a] = "idle"
  /\ lane.active = None
  /\ pc' = [pc EXCEPT ![a] = "starting"]
  /\ task' = [task EXCEPT ![a] = t]
  /\ UNCHANGED <<lane, direct, snap, todo, granted, crashes>>

StartDirect(a) ==
  /\ pc[a] = "starting"
  /\ ReadForAcquire(a, task[a], TRUE)

(* acquire_execution_lane, the write.  A direct request goes on even when  *)
(* the answer is "queued".                                                 *)
WriteAcquired(a) ==
  /\ pc[a] = "acquire"
  /\ lane' = Acquired(snap[a], task[a])
  /\ granted' = IF Accepts(snap[a], task[a]) \/ direct[a]
                THEN granted \cup {task[a]}
                ELSE granted
  /\ Return(a)
  /\ UNCHANGED crashes

(* _record_parent_result with a terminal status: one look at the lane      *)
(* decides which ids are released.                                         *)
RecordResult(a, t) ==
  /\ pc[a] = "idle"
  /\ pc' = [pc EXCEPT ![a] = "scan"]
  /\ todo' = [todo EXCEPT ![a] = ReleaseIds(t)]
  /\ snap' = [snap EXCEPT ![a] = lane]
  /\ granted' = granted \ Elements(ReleaseIds(t))
  /\ UNCHANGED <<lane, task, direct, crashes>>

SkipRelease(a) ==
  /\ pc[a] = "scan"
  /\ todo[a] # <<>>
  /\ ~InRow(snap[a], Head(todo[a]))
  /\ todo' = [todo EXCEPT ![a] = Tail(@)]
  /\ UNCHANGED <<lane, pc, task, direct, snap, granted, crashes>>

(* release_execution_lane, the SELECT.                                     *)
ReadForRelease(a) ==
  /\ pc[a] = "scan"
  /\ todo[a] # <<>>
  /\ InRow(snap[a], Head(todo[a]))
  /\ pc' = [pc EXCEPT ![a] = "release"]
  /\ task' = [task EXCEPT ![a] = Head(todo[a])]
  /\ todo' = [todo EXCEPT ![a] = Tail(@)]
  /\ snap' = [snap EXCEPT ![a] = lane]
  /\ UNCHANGED <<lane, direct, granted, crashes>>

(* release_execution_lane, the write; the next id is looked up in the      *)
(* snapshot it returns.                                                    *)
WriteReleased(a) ==
  /\ pc[a] = "release"
  /\ lane' = Released(snap[a], task[a])
  /\ snap' = [snap EXCEPT ![a] = lane']
  /\ pc' = [pc EXCEPT ![a] = "scan"]
  /\ task' = [task EXCEPT ![a] = None]
  /\ UNCHANGED <<direct, todo, granted, crashes>>

FinishRecord(a) ==
  /\ pc[a] = "scan"
  /\ todo[a] = <<>>
  /\ Return(a)
  /\ UNCHANGED <<lane, granted, crashes>>

(* The process dies, or the write fails with "database is locked".         *)
Crash(a) ==
  /\ pc[a] # "idle"
  /\ crashes < MaxCrashes
  /\ crashes' = crashes + 1
  /\ Return(a)
  /\ UNCHANGED <<lane, granted>>

(* The steps an actor takes once it has begun an operation.                *)
Continue(a) ==
  \/ StartDirect(a)
  \/ WriteAcquired(a)
  \/ SkipRelease(a)
  \/ ReadForRelease(a)
  \/ WriteReleased(a)
  \/ FinishRecord(a)

Next ==
  \E a \in Actors :
    \/ \E t \in Tasks : RequestLane(a, t) \/ CheckBusy(a, t) \/ RecordResult(a, t)
    \/ Continue(a)
    \/ Crash(a)

Spec == Init /\ [][Next]_vars

(* An actor that has begun an operation finishes it unless it crashes.     *)
FairSpec == Spec /\ \A a \in Actors : WF_vars(Continue(a))

----------------------------------------------------------------------------
(* The type invariant.                                                     *)
TypeOK ==
  /\ lane \in Rows
  /\ pc \in [Actors -> {"idle", "starting", "acquire", "scan", "release"}]
  /\ task \in [Actors -> Tasks \cup {None}]
  /\ \A a \in Actors : pc[a] \in {"starting", "acquire", "release"} => task[a] \in Tasks
  /\ direct \in [Actors -> BOOLEAN]
  /\ snap \in [Actors -> Rows]
  /\ todo \in [Actors -> Seq(Tasks)]
  /\ granted \subseteq Tasks
  /\ crashes \in 0..MaxCrashes

WellFormed(row) ==
  /\ NoRepeats(row.queued)
  /\ row.active \notin Elements(row.queued)
  /\ row.active = None => row.queued = <<>>

(* However the reads and writes of any number of actors interleave, the    *)
(* row never queues an id twice, never queues the active task behind       *)
(* itself, and never has waiters without an active task to wait for        *)
(* (acquire and release of session_registry.py:194-230).                   *)
QueueWellFormed == WellFormed(lane)

(* The inductive strengthening: a stale snapshot is well formed as well.   *)
LaneInvariant == TypeOK /\ QueueWellFormed /\ \A a \in Actors : WellFormed(snap[a])

(* A task that was told it runs, and whose result is not recorded yet, is  *)
(* the active task of the row (session_registry.py:194-213).               *)
GrantedIsActive == granted \subseteq {lane.active}

(* Its inductive strengthening when there is one actor: the actor's        *)
(* snapshot is the row, and what it is about to release no longer runs.    *)
OneActorInvariant ==
  /\ GrantedIsActive
  /\ \A a \in Actors :
       /\ pc[a] = "starting" => lane.active = None
       /\ pc[a] = "acquire" => snap[a] = lane /\ (direct[a] => lane.active = None)
       /\ pc[a] = "release" => snap[a] = lane /\ task[a] \notin granted
       /\ pc[a] = "scan" => snap[a] = lane
       /\ \A i \in 1..Len(todo[a]) : todo[a][i] \notin granted

(* README.md:140: "only one active main task at a time".                   *)
OneActiveTask == \A s, t \in granted : s = t

(* A waiter leaves the queue only by being promoted or by its own result   *)
(* being recorded: nobody else's write loses it.                           *)
WaitersAreKept ==
  [][\A t \in Tasks :
       (InRow(lane, t) /\ ~InRow(lane', t)) =>
         \E a \in Actors : pc[a] = "release" /\ task[a] = t]_vars

Promise == INSTANCE SingleFlight WITH owner <- lane.active,
                                      waiting <- lane.queued,
                                      running <- granted

(* As long as one actor at a time uses it, the row, its two-step writes    *)
(* and the recording of results implement the promise of SingleFlight      *)
(* (session_registry.py:194-230 and automation.py:841-852).                *)
ImplementsSingleFlight == Promise!Spec

(* With one actor a task whose result is recorded leaves the lane, once    *)
(* no crash interrupts the recording any more (automation.py:841-852).     *)
RecordedLeaves ==
  \A a \in Actors, t \in Tasks :
    (crashes = MaxCrashes /\ pc[a] = "scan" /\ t \in Elements(todo[a]))
      ~> ~InRow(lane, t)
=============================================================================
