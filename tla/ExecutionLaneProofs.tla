------------------------ MODULE ExecutionLaneProofs ------------------------
(***************************************************************************)
(* For every set of tasks and of actors: the row of the execution lane     *)
(* keeps its type and stays well formed, however reads and writes          *)
(* interleave and actors crash.  The argument: an actor writes what it     *)
(* computes from the snapshot it read, so well-formedness has to hold of   *)
(* every snapshot in flight too (LaneInvariant).                           *)
(***************************************************************************)
EXTENDS ExecutionLane, QueueTheorems, TLAPS

(* What acquire_execution_lane writes is a well-formed row whenever the    *)
(* snapshot it starts from is one (session_registry.py:194-213).           *)
LEMMA AcquiredLaw ==
  ASSUME NEW row \in Rows, NEW t \in Tasks, WellFormed(row)
  PROVE  Acquired(row, t) \in Rows /\ WellFormed(Acquired(row, t))
<1> DEFINE q == row.queued
<1>1. q \in Seq(Tasks) /\ row.active \in Tasks \cup {None} /\ NoRepeats(q)
  BY DEF Rows, WellFormed
<1>2. CASE Accepts(row, t)
  <2> DEFINE w == Without(q, t)
  <2>1. w \in Seq(Tasks) /\ NoRepeats(w) /\ t \notin Elements(w)
    BY <1>1, WithoutType, WithoutLaw
  <2>2. Acquired(row, t) = [active |-> t, queued |-> w]
    BY <1>2 DEF Acquired
  <2> QED
    BY <2>1, <2>2, NoneAssumption DEF Rows, WellFormed
<1>3. CASE ~Accepts(row, t) /\ t \in Elements(q)
  BY <1>1, <1>3 DEF Acquired, Rows, WellFormed, Accepts
<1>4. CASE ~Accepts(row, t) /\ t \notin Elements(q)
  <2> DEFINE w == Append(q, t)
  <2>1. w \in Seq(Tasks) /\ Len(w) = Len(q) + 1 /\ Len(q) \in Nat
    BY <1>1
  <2>2. \A i \in 1..Len(w) : w[i] = IF i = Len(w) THEN t ELSE q[i]
    BY <1>1, <2>1
  <2>3. \A i \in 1..Len(q) : q[i] # t
    BY <1>4 DEF Elements
  <2> HIDE DEF w
  <2>4. NoRepeats(w)
    <3> SUFFICES ASSUME NEW i \in 1..Len(w), NEW j \in 1..Len(w), w[i] = w[j]
                 PROVE  i = j
      BY DEF NoRepeats
    <3> QED
      BY <1>1, <2>1, <2>2, <2>3 DEF NoRepeats
  <2>5. row.active \notin Elements(w)
    BY <1>1, <1>4, <2>1, <2>2 DEF Elements, WellFormed, Accepts
  <2>6. Acquired(row, t) = [active |-> row.active, queued |-> w]
    BY <1>4 DEF Acquired, w
  <2> QED
    BY <1>1, <1>4, <2>1, <2>4, <2>5, <2>6 DEF Rows, WellFormed, Accepts
<1> QED
  BY <1>2, <1>3, <1>4

(* The same for release_execution_lane (session_registry.py:215-230).      *)
LEMMA ReleasedLaw ==
  ASSUME NEW row \in Rows, NEW t \in Tasks, WellFormed(row)
  PROVE  Released(row, t) \in Rows /\ WellFormed(Released(row, t))
<1> DEFINE q == row.queued
<1>1. q \in Seq(Tasks) /\ row.active \in Tasks \cup {None} /\ NoRepeats(q)
  BY DEF Rows, WellFormed
<1>2. CASE row.active # t
  <2> DEFINE w == Without(q, t)
  <2>1. w \in Seq(Tasks) /\ NoRepeats(w) /\ Elements(w) \subseteq Elements(q)
    BY <1>1, WithoutType, WithoutLaw
  <2>2. Released(row, t) = [active |-> row.active, queued |-> w]
    BY <1>2 DEF Released
  <2>3. q = <<>> => w = <<>>
    <3> SUFFICES ASSUME q = <<>> PROVE w = <<>>
      OBVIOUS
    <3>1. t \notin Elements(q)
      BY DEF Elements
    <3> QED
      BY <3>1 DEF Without
  <2> QED
    BY <1>1, <2>1, <2>2, <2>3 DEF Rows, WellFormed
<1>3. CASE row.active = t /\ q = <<>>
  <2>1. EmptyRow \in Rows /\ WellFormed(EmptyRow)
    BY DEF EmptyRow, Rows, WellFormed, NoRepeats, Elements
  <2> QED
    BY <1>3, <2>1 DEF Released
<1>4. CASE row.active = t /\ q # <<>>
  <2> DEFINE h == Head(q)
             w == Tail(q)
  <2>1. /\ Len(q) \in Nat /\ Len(q) > 0
        /\ h \in Tasks /\ h = q[1]
        /\ w \in Seq(Tasks) /\ Len(w) = Len(q) - 1
        /\ \A i \in 1..Len(w) : w[i] = q[i + 1]
    BY <1>1, <1>4
  <2> HIDE DEF h, w
  <2>2. NoRepeats(w)
    BY <1>1, <2>1 DEF NoRepeats
  <2>3. h \notin Elements(w)
    <3> SUFFICES ASSUME NEW i \in 1..Len(w), w[i] = h PROVE FALSE
      BY DEF Elements
    <3>1. i + 1 \in 1..Len(q) /\ 1 \in 1..Len(q) /\ q[i + 1] = q[1] /\ i + 1 # 1
      BY <2>1
    <3> QED
      BY <1>1, <3>1 DEF NoRepeats
  <2>4. Released(row, t) = [active |-> h, queued |-> w]
    BY <1>4 DEF Released, h, w
  <2> QED
    BY <2>1, <2>2, <2>3, <2>4, NoneAssumption DEF Rows, WellFormed
<1> QED
  BY <1>2, <1>3, <1>4

(* The ids a recording releases are tasks (automation.py:843-846).         *)
LEMMA ReleaseIdsType == \A t \in Tasks : ReleaseIds(t) \in Seq(Tasks)
<1> SUFFICES ASSUME NEW t \in Tasks PROVE ReleaseIds(t) \in Seq(Tasks)
  OBVIOUS
<1>1. ParentOf[t] \in Tasks \cup {None}
  BY ParentAssumption
<1> QED
  BY <1>1 DEF ReleaseIds

LEMMA EmptyRowLaw == EmptyRow \in Rows /\ WellFormed(EmptyRow)
BY DEF EmptyRow, Rows, WellFormed, NoRepeats, Elements

----------------------------------------------------------------------------
LEMMA LaneInvariantInit == Init => LaneInvariant
<1> SUFFICES ASSUME Init PROVE LaneInvariant
  OBVIOUS
<1> USE DEF Init
<1>1. TypeOK
  BY EmptyRowLaw, CrashAssumption DEF TypeOK
<1>2. QueueWellFormed /\ \A a \in Actors : WellFormed(snap[a])
  BY EmptyRowLaw DEF QueueWellFormed
<1> QED
  BY <1>1, <1>2 DEF LaneInvariant

(* Whoever returns leaves no snapshot behind.                              *)
LEMMA ReturnLaw ==
  ASSUME LaneInvariant, NEW a \in Actors, Return(a),
         lane' \in Rows, WellFormed(lane'), granted' \subseteq Tasks,
         crashes' \in 0..MaxCrashes
  PROVE  LaneInvariant'
<1> USE DEF LaneInvariant, Return
<1>1. TypeOK'
  BY EmptyRowLaw, <<>> \in Seq(Tasks) DEF TypeOK
<1>2. \A b \in Actors : WellFormed(snap'[b])
  BY EmptyRowLaw DEF TypeOK
<1> QED
  BY <1>1, <1>2 DEF QueueWellFormed

LEMMA LaneInvariantStep == LaneInvariant /\ [Next]_vars => LaneInvariant'
<1> SUFFICES ASSUME LaneInvariant, [Next]_vars PROVE LaneInvariant'
  OBVIOUS
<1>0. /\ TypeOK /\ QueueWellFormed
      /\ \A b \in Actors : snap[b] \in Rows /\ WellFormed(snap[b])
      /\ lane \in Rows /\ WellFormed(lane)
  BY DEF LaneInvariant, TypeOK, QueueWellFormed
<1>1. ASSUME NEW a \in Actors, NEW t \in Tasks, NEW d \in BOOLEAN,
             ReadForAcquire(a, t, d)
      PROVE  LaneInvariant'
  <2>1. TypeOK'
    BY <1>0, <1>1 DEF TypeOK, ReadForAcquire
  <2>2. QueueWellFormed' /\ \A b \in Actors : WellFormed(snap'[b])
    BY <1>0, <1>1 DEF TypeOK, ReadForAcquire, QueueWellFormed
  <2> QED
    BY <2>1, <2>2 DEF LaneInvariant
<1>2. ASSUME NEW a \in Actors, NEW t \in Tasks, RequestLane(a, t)
      PROVE  LaneInvariant'
  BY <1>1, <1>2 DEF RequestLane
<1>3. ASSUME NEW a \in Actors, NEW t \in Tasks, CheckBusy(a, t)
      PROVE  LaneInvariant'
  <2>1. TypeOK'
    BY <1>0, <1>3 DEF TypeOK, CheckBusy
  <2> QED
    BY <1>0, <1>3, <2>1 DEF CheckBusy, LaneInvariant, QueueWellFormed
<1>4. ASSUME NEW a \in Actors, StartDirect(a)
      PROVE  LaneInvariant'
  BY <1>0, <1>1, <1>4 DEF StartDirect, TypeOK
<1>5. ASSUME NEW a \in Actors, WriteAcquired(a)
      PROVE  LaneInvariant'
  <2>1. task[a] \in Tasks
    BY <1>0, <1>5 DEF WriteAcquired, TypeOK
  <2>2. lane' \in Rows /\ WellFormed(lane')
    BY <1>0, <1>5, <2>1, AcquiredLaw DEF WriteAcquired
  <2>3. granted' \subseteq Tasks /\ crashes' \in 0..MaxCrashes
    BY <1>0, <1>5, <2>1 DEF WriteAcquired, TypeOK
  <2> QED
    BY <1>5, <2>2, <2>3, ReturnLaw DEF WriteAcquired
<1>6. ASSUME NEW a \in Actors, NEW t \in Tasks, RecordResult(a, t)
      PROVE  LaneInvariant'
  <2>1. TypeOK'
    BY <1>0, <1>6, ReleaseIdsType DEF TypeOK, RecordResult
  <2>2. QueueWellFormed' /\ \A b \in Actors : WellFormed(snap'[b])
    BY <1>0, <1>6 DEF TypeOK, RecordResult, QueueWellFormed
  <2> QED
    BY <2>1, <2>2 DEF LaneInvariant
<1>7. ASSUME NEW a \in Actors, SkipRelease(a)
      PROVE  LaneInvariant'
  <2>1. todo[a] \in Seq(Tasks) /\ Tail(todo[a]) \in Seq(Tasks)
    BY <1>0, <1>7 DEF TypeOK, SkipRelease
  <2>2. TypeOK'
    BY <1>0, <1>7, <2>1 DEF TypeOK, SkipRelease
  <2> QED
    BY <1>0, <1>7, <2>2 DEF SkipRelease, LaneInvariant, QueueWellFormed
<1>8. ASSUME NEW a \in Actors, ReadForRelease(a)
      PROVE  LaneInvariant'
  <2>1. /\ todo[a] \in Seq(Tasks) /\ Tail(todo[a]) \in Seq(Tasks)
        /\ Head(todo[a]) \in Tasks
    BY <1>0, <1>8 DEF TypeOK, ReadForRelease
  <2>2. TypeOK'
    BY <1>0, <1>8, <2>1 DEF TypeOK, ReadForRelease
  <2>3. QueueWellFormed' /\ \A b \in Actors : WellFormed(snap'[b])
    BY <1>0, <1>8 DEF TypeOK, ReadForRelease, QueueWellFormed
  <2> QED
    BY <2>2, <2>3 DEF LaneInvariant
<1>9. ASSUME NEW a \in Actors, WriteReleased(a)
      PROVE  LaneInvariant'
  <2>1. task[a] \in Tasks
    BY <1>0, <1>9 DEF WriteReleased, TypeOK
  <2>2. lane' \in Rows /\ WellFormed(lane')
    BY <1>0, <1>9, <2>1, ReleasedLaw DEF WriteReleased
  <2>3. TypeOK'
    BY <1>0, <1>9, <2>2 DEF TypeOK, WriteReleased
  <2>4. \A b \in Actors : WellFormed(snap'[b])
    BY <1>0, <1>9, <2>2 DEF TypeOK, WriteReleased
  <2> QED
    BY <2>2, <2>3, <2>4 DEF LaneInvariant, QueueWellFormed
<1>10. ASSUME NEW a \in Actors, FinishRecord(a)
       PROVE  LaneInvariant'
  <2>1. /\ Return(a) /\ lane' \in Rows /\ WellFormed(lane')
        /\ granted' \subseteq Tasks /\ crashes' \in 0..MaxCrashes
    BY <1>0, <1>10 DEF FinishRecord, TypeOK
  <2> QED
    BY <2>1, ReturnLaw
<1>11. ASSUME NEW a \in Actors, Crash(a)
       PROVE  LaneInvariant'
  <2>1. crashes' \in 0..MaxCrashes
    BY <1>0, <1>11, CrashAssumption DEF Crash, TypeOK
  <2>2. /\ Return(a) /\ lane' \in Rows /\ WellFormed(lane')
        /\ granted' \subseteq Tasks
    BY <1>0, <1>11 DEF Crash, TypeOK
  <2> QED
    BY <2>1, <2>2, ReturnLaw
<1>12. CASE UNCHANGED vars
  BY <1>0, <1>12 DEF vars, LaneInvariant, TypeOK, QueueWellFormed
<1> QED
  BY <1>2, <1>3, <1>4, <1>5, <1>6, <1>7, <1>8, <1>9, <1>10, <1>11, <1>12
     DEF Next, Continue

(* The row and every snapshot in flight are well formed and well typed.    *)
THEOREM LaneInvariantHolds == Spec => []LaneInvariant
BY LaneInvariantInit, LaneInvariantStep, PTL DEF Spec

(* Type correctness of the lane and of the actors that use it.             *)
THEOREM LaneTypeOK == Spec => []TypeOK
<1>1. LaneInvariant => TypeOK
  BY DEF LaneInvariant
<1> QED
  BY <1>1, LaneInvariantHolds, PTL

(* However acquire and release (session_registry.py:194-230) interleave,   *)
(* the row queues no id twice, never queues the active task, and has       *)
(* waiters only while a task is active.                                    *)
THEOREM LaneStaysWellFormed == Spec => []QueueWellFormed
<1>1. LaneInvariant => QueueWellFormed
  BY DEF LaneInvariant
<1> QED
  BY <1>1, LaneInvariantHolds, PTL

----------------------------------------------------------------------------
(* A single actor's step keeps every granted task active.                  *)
LEMMA OneActorStep ==
  ASSUME NEW a, Actors = {a}, TypeOK, OneActorInvariant, [Next]_vars
  PROVE  OneActorInvariant'
<1>0. /\ a \in Actors /\ granted \subseteq Tasks /\ None \notin granted
      /\ todo[a] \in Seq(Tasks)
  BY NoneAssumption DEF TypeOK
<1> USE <1>0
<1>1. ASSUME NEW t \in Tasks, RequestLane(a, t) PROVE OneActorInvariant'
  BY <1>1 DEF RequestLane, ReadForAcquire, OneActorInvariant, GrantedIsActive, TypeOK
<1>2. ASSUME NEW t \in Tasks, CheckBusy(a, t) PROVE OneActorInvariant'
  BY <1>2 DEF CheckBusy, OneActorInvariant, GrantedIsActive, TypeOK
<1>3. ASSUME StartDirect(a) PROVE OneActorInvariant'
  BY <1>3 DEF StartDirect, ReadForAcquire, OneActorInvariant, GrantedIsActive, TypeOK
<1>4. ASSUME WriteAcquired(a) PROVE OneActorInvariant'
  <2>1. snap[a] = lane /\ (direct[a] => Accepts(lane, task[a]))
    BY <1>4 DEF WriteAcquired, OneActorInvariant, Accepts
  <2>2. GrantedIsActive'
    BY <1>4, <2>1
       DEF WriteAcquired, Acquired, Accepts, OneActorInvariant, GrantedIsActive
  <2>3. pc'[a] = "idle" /\ todo'[a] = <<>>
    BY <1>4 DEF WriteAcquired, Return, TypeOK
  <2> QED
    BY <2>2, <2>3 DEF OneActorInvariant
<1>5. ASSUME NEW t \in Tasks, RecordResult(a, t) PROVE OneActorInvariant'
  <2>1. /\ pc'[a] = "scan" /\ snap'[a] = lane /\ lane' = lane
        /\ todo'[a] = ReleaseIds(t)
        /\ granted' = granted \ Elements(ReleaseIds(t))
    BY <1>5 DEF RecordResult, TypeOK
  <2>2. \A i \in 1..Len(ReleaseIds(t)) : ReleaseIds(t)[i] \notin granted'
    BY <2>1 DEF Elements
  <2> QED
    BY <2>1, <2>2 DEF OneActorInvariant, GrantedIsActive
<1>6. ASSUME SkipRelease(a) PROVE OneActorInvariant'
  <2>1. /\ pc'[a] = "scan" /\ todo'[a] = Tail(todo[a]) /\ todo[a] # <<>>
        /\ pc[a] = "scan" /\ UNCHANGED <<lane, snap, granted>>
    BY <1>6 DEF SkipRelease, TypeOK
  <2>2. \A i \in 1..Len(Tail(todo[a])) :
          /\ i + 1 \in 1..Len(todo[a])
          /\ Tail(todo[a])[i] = todo[a][i + 1]
    BY <2>1
  <2>3. \A i \in 1..Len(todo'[a]) : todo'[a][i] \notin granted'
    <3>1. \A i \in 1..Len(todo[a]) : todo[a][i] \notin granted
      BY DEF OneActorInvariant
    <3> QED
      BY <2>1, <2>2, <3>1
  <2> QED
    BY <2>1, <2>3 DEF OneActorInvariant, GrantedIsActive
<1>7. ASSUME ReadForRelease(a) PROVE OneActorInvariant'
  <2>1. /\ pc'[a] = "release" /\ todo'[a] = Tail(todo[a]) /\ todo[a] # <<>>
        /\ task'[a] = Head(todo[a]) /\ snap'[a] = lane
        /\ UNCHANGED <<lane, granted>>
    BY <1>7 DEF ReadForRelease, TypeOK
  <2>2. \A i \in 1..Len(Tail(todo[a])) :
          /\ i + 1 \in 1..Len(todo[a])
          /\ Tail(todo[a])[i] = todo[a][i + 1]
    BY <2>1
  <2>3. \A i \in 1..Len(todo'[a]) : todo'[a][i] \notin granted'
    <3>1. \A i \in 1..Len(todo[a]) : todo[a][i] \notin granted
      BY DEF OneActorInvariant
    <3> QED
      BY <2>1, <2>2, <3>1
  <2>4. 1 \in 1..Len(todo[a]) /\ Head(todo[a]) = todo[a][1]
    BY <2>1
  <2>5. task'[a] \notin granted'
    BY <2>1, <2>4 DEF OneActorInvariant
  <2> QED
    BY <2>1, <2>3, <2>5 DEF OneActorInvariant, GrantedIsActive
<1>8. ASSUME WriteReleased(a) PROVE OneActorInvariant'
  <2>1. snap[a] = lane /\ task[a] \notin granted
    BY <1>8 DEF WriteReleased, OneActorInvariant
  <2>2. GrantedIsActive'
    BY <1>8, <2>1 DEF WriteReleased, Released, EmptyRow, OneActorInvariant, GrantedIsActive
  <2>3. pc'[a] = "scan" /\ snap'[a] = lane' /\ todo' = todo /\ granted' = granted
    BY <1>8 DEF WriteReleased, TypeOK
  <2> QED
    BY <2>2, <2>3 DEF OneActorInvariant
<1>9. ASSUME FinishRecord(a) \/ Crash(a) PROVE OneActorInvariant'
  <2>1. /\ pc'[a] = "idle" /\ todo'[a] = <<>> /\ UNCHANGED <<lane, granted>>
    BY <1>9 DEF FinishRecord, Crash, Return, TypeOK
  <2> QED
    BY <2>1 DEF OneActorInvariant, GrantedIsActive
<1>10. CASE UNCHANGED vars
  BY <1>10 DEF vars, OneActorInvariant, GrantedIsActive
<1> QED
  BY <1>1, <1>2, <1>3, <1>4, <1>5, <1>6, <1>7, <1>8, <1>9, <1>10 DEF Next, Continue

(* Single flight holds as long as one actor at a time uses the lane,       *)
(* whatever it crashes in the middle of: a task that was told it runs is   *)
(* the active one of the row, for every set of tasks.                      *)
THEOREM OneActorSingleFlight ==
  ASSUME NEW a, Actors = {a}
  PROVE  Spec => []GrantedIsActive
<1>1. Init => OneActorInvariant
  BY DEF Init, OneActorInvariant, GrantedIsActive, EmptyRow
<1>2. TypeOK /\ OneActorInvariant /\ [Next]_vars => OneActorInvariant'
  BY OneActorStep
<1>3. OneActorInvariant => GrantedIsActive
  BY DEF OneActorInvariant
<1> QED
  BY <1>1, <1>2, <1>3, LaneTypeOK, PTL DEF Spec

----------------------------------------------------------------------------
(* What acquire writes keeps everybody in the row, and what release writes *)
(* loses nobody but the id released (session_registry.py:194-230).         *)
LEMMA AcquiredKeeps ==
  ASSUME NEW row \in Rows, NEW t \in Tasks, NEW x \in Tasks, InRow(row, x)
  PROVE  InRow(Acquired(row, t), x)
<1> DEFINE q == row.queued
<1>1. q \in Seq(Tasks) /\ x # None /\ t # None
  BY NoneAssumption DEF Rows
<1>2. CASE Accepts(row, t)
  <2>1. Acquired(row, t) = [active |-> t, queued |-> Without(q, t)]
    BY <1>2 DEF Acquired
  <2>2. x # t => x \in Elements(q)
    BY <1>1, <1>2 DEF Accepts, InRow
  <2>3. x # t => x \in Elements(Without(q, t))
    BY <1>1, <2>2, WithoutKeeps
  <2> QED
    BY <2>1, <2>3 DEF InRow
<1>3. CASE ~Accepts(row, t) /\ t \in Elements(q)
  BY <1>3 DEF Acquired, InRow
<1>4. CASE ~Accepts(row, t) /\ t \notin Elements(q)
  <2>1. Acquired(row, t) = [active |-> row.active, queued |-> Append(q, t)]
    BY <1>4 DEF Acquired
  <2>2. \A i \in 1..Len(q) : i \in 1..Len(Append(q, t)) /\ Append(q, t)[i] = q[i]
    BY <1>1
  <2>3. Elements(q) \subseteq Elements(Append(q, t))
    BY <2>2 DEF Elements
  <2> QED
    BY <2>1, <2>3 DEF InRow
<1> QED
  BY <1>2, <1>3, <1>4

LEMMA ReleasedKeeps ==
  ASSUME NEW row \in Rows, NEW t \in Tasks, NEW x \in Tasks, InRow(row, x), x # t
  PROVE  InRow(Released(row, t), x)
<1> DEFINE q == row.queued
<1>1. q \in Seq(Tasks)
  BY DEF Rows
<1>2. CASE row.active # t
  <2>1. Released(row, t) = [active |-> row.active, queued |-> Without(q, t)]
    BY <1>2 DEF Released
  <2>2. x \in Elements(q) => x \in Elements(Without(q, t))
    BY <1>1, WithoutKeeps
  <2> QED
    BY <2>1, <2>2 DEF InRow
<1>3. CASE row.active = t
  <2>1. PICK i \in 1..Len(q) : q[i] = x
    BY <1>3 DEF InRow, Elements
  <2>2. q # <<>> /\ Len(q) \in Nat
    BY <1>1, <2>1
  <2>3. Released(row, t) = [active |-> Head(q), queued |-> Tail(q)]
    BY <1>3, <2>2 DEF Released
  <2>4. CASE i = 1
    BY <1>1, <2>1, <2>2, <2>3, <2>4 DEF InRow
  <2>5. CASE i # 1
    <3>1. i - 1 \in 1..Len(Tail(q)) /\ Tail(q)[i - 1] = q[i]
      BY <1>1, <2>1, <2>2, <2>5
    <3>2. x \in Elements(Tail(q))
      BY <2>1, <3>1 DEF Elements
    <3> QED
      BY <2>3, <3>2 DEF InRow
  <2> QED
    BY <2>4, <2>5
<1> QED
  BY <1>2, <1>3

(* A single actor's step that takes an id out of the row is the release of *)
(* that id.                                                                *)
LEMMA WaitersStep ==
  ASSUME NEW a, Actors = {a}, TypeOK, OneActorInvariant, [Next]_vars,
         NEW x \in Tasks, InRow(lane, x), ~InRow(lane', x)
  PROVE  pc[a] = "release" /\ task[a] = x
<1>0. a \in Actors /\ lane \in Rows
  BY DEF TypeOK
<1>1. lane' # lane
  OBVIOUS
<1>2. WriteAcquired(a) \/ WriteReleased(a)
  BY <1>0, <1>1
     DEF Next, Continue, vars, RequestLane, CheckBusy, RecordResult, StartDirect, ReadForAcquire,
         SkipRelease, ReadForRelease, FinishRecord, Crash
<1>3. CASE WriteAcquired(a)
  <2>1. task[a] \in Tasks /\ lane' = Acquired(lane, task[a])
    BY <1>0, <1>3 DEF WriteAcquired, OneActorInvariant, TypeOK
  <2> QED
    BY <1>0, <2>1, AcquiredKeeps
<1>4. CASE WriteReleased(a)
  <2>1. /\ pc[a] = "release" /\ task[a] \in Tasks
        /\ lane' = Released(lane, task[a])
    BY <1>0, <1>4 DEF WriteReleased, OneActorInvariant, TypeOK
  <2> QED
    BY <1>0, <2>1, ReleasedKeeps
<1> QED
  BY <1>2, <1>3, <1>4

(* As long as one actor at a time uses the lane, a waiter leaves the queue *)
(* only by its own promotion or by the release of its own id.              *)
THEOREM OneActorKeepsWaiters ==
  ASSUME NEW one, Actors = {one}
  PROVE  Spec => WaitersAreKept
<1>1. Init => OneActorInvariant
  BY DEF Init, OneActorInvariant, GrantedIsActive, EmptyRow
<1>2. TypeOK /\ OneActorInvariant /\ [Next]_vars => OneActorInvariant'
  BY OneActorStep
<1>3. TypeOK /\ OneActorInvariant /\ [Next]_vars =>
        [\A t \in Tasks :
           (InRow(lane, t) /\ ~InRow(lane', t)) =>
             \E a \in Actors : pc[a] = "release" /\ task[a] = t]_vars
  BY WaitersStep
<1> QED
  BY <1>1, <1>2, <1>3, LaneTypeOK, PTL DEF Spec, WaitersAreKept

----------------------------------------------------------------------------
(* The steps of a single actor are steps of SingleFlight, or change        *)
(* nothing that it knows of.                                               *)
LEMMA PromiseInit == Init => Promise!Init
BY DEF Init, EmptyRow, Promise!Init

LEMMA SameQueues ==
  /\ \A q, x : Promise!Without(q, x) = Without(q, x)
  /\ \A q : Promise!Elements(q) = Elements(q)
BY Zenon DEF Promise!Without, Without, Promise!Elements, Elements, Promise!Position, Position

LEMMA AcquirePromised ==
  ASSUME NEW a, Actors = {a}, TypeOK, OneActorInvariant, WriteAcquired(a)
  PROVE  [Promise!Next]_(Promise!vars)
<1> DEFINE t == task[a]
<1>1. /\ t \in Tasks /\ t # None
      /\ lane' = Acquired(lane, t)
      /\ granted' = IF Accepts(lane, t) \/ direct[a] THEN granted \cup {t} ELSE granted
      /\ direct[a] => lane.active = None
      /\ granted \subseteq {lane.active} /\ None \notin granted
  BY NoneAssumption DEF WriteAcquired, OneActorInvariant, GrantedIsActive, TypeOK
<1> HIDE DEF t
<1>2. CASE Accepts(lane, t)
  <2>1. lane'.active = t /\ lane'.queued = Without(lane.queued, t)
    BY <1>1, <1>2 DEF Acquired
  <2>2. granted' = {t}
    BY <1>1, <1>2 DEF Accepts
  <2>3. Promise!Accept(t)
    BY <1>2, <2>1, <2>2, SameQueues DEF Promise!Accept, Accepts
  <2> QED
    BY <1>1, <2>3 DEF Promise!Next
<1>3. CASE ~Accepts(lane, t)
  <2>1. granted' = granted /\ lane.active \notin {None, t}
    BY <1>1, <1>3 DEF Accepts
  <2>2. CASE t \in Elements(lane.queued)
    <3>1. lane'.active = lane.active /\ lane'.queued = lane.queued
      BY <1>1, <1>3, <2>2 DEF Acquired
    <3> QED
      BY <2>1, <3>1 DEF Promise!vars
  <2>3. CASE t \notin Elements(lane.queued)
    <3>1. lane'.active = lane.active /\ lane'.queued = Append(lane.queued, t)
      BY <1>1, <1>3, <2>3 DEF Acquired
    <3>2. Promise!Enqueue(t)
      BY <2>1, <2>3, <3>1, SameQueues DEF Promise!Enqueue, Promise!Waits
    <3> QED
      BY <1>1, <3>2 DEF Promise!Next
  <2> QED
    BY <2>2, <2>3
<1> QED
  BY <1>2, <1>3

LEMMA ReleasePromised ==
  ASSUME NEW a, Actors = {a}, TypeOK, OneActorInvariant, WriteReleased(a)
  PROVE  [Promise!Next]_(Promise!vars)
<1> DEFINE t == task[a]
<1>1. /\ t \in Tasks /\ t \notin granted
      /\ lane' = Released(lane, t)
      /\ granted' = granted
  BY DEF WriteReleased, OneActorInvariant, TypeOK
<1> HIDE DEF t
<1>2. CASE lane.active = t
  <2>1. /\ lane.queued = <<>> => lane'.active = None /\ lane'.queued = <<>>
        /\ lane.queued # <<>> => lane'.active = Head(lane.queued) /\ lane'.queued = Tail(lane.queued)
    BY <1>1, <1>2 DEF Released, EmptyRow
  <2>2. Promise!HandOver(t)
    BY <1>1, <1>2, <2>1 DEF Promise!HandOver
  <2> QED
    BY <1>1, <2>2 DEF Promise!Next
<1>3. CASE lane.active # t
  <2>1. lane'.active = lane.active /\ lane'.queued = Without(lane.queued, t)
    BY <1>1, <1>3 DEF Released
  <2>2. CASE t \in Elements(lane.queued)
    <3>1. Promise!Withdraw(t)
      BY <1>1, <2>1, <2>2, SameQueues DEF Promise!Withdraw, Promise!Waits
    <3> QED
      BY <1>1, <3>1 DEF Promise!Next
  <2>3. CASE t \notin Elements(lane.queued)
    <3>1. lane'.queued = lane.queued
      BY <2>1, <2>3 DEF Without
    <3> QED
      BY <1>1, <2>1, <3>1 DEF Promise!vars
  <2> QED
    BY <2>2, <2>3
<1> QED
  BY <1>2, <1>3

LEMMA RecordPromised ==
  ASSUME NEW a, Actors = {a}, TypeOK, OneActorInvariant, NEW t \in Tasks, RecordResult(a, t)
  PROVE  [Promise!Next]_(Promise!vars)
<1>1. /\ lane' = lane /\ granted' = granted \ Elements(ReleaseIds(t))
      /\ granted \subseteq {lane.active} /\ granted \subseteq Tasks
  BY DEF RecordResult, OneActorInvariant, GrantedIsActive, TypeOK
<1>2. CASE granted' = granted
  BY <1>1, <1>2 DEF Promise!vars
<1>3. CASE granted' # granted
  <2>1. lane.active \in Tasks /\ granted' = granted \ {lane.active}
    BY <1>1, <1>3
  <2>2. Promise!Stop(lane.active)
    BY <1>1, <2>1 DEF Promise!Stop
  <2> QED
    BY <2>1, <2>2 DEF Promise!Next
<1> QED
  BY <1>2, <1>3

LEMMA PromiseStep ==
  ASSUME NEW a, Actors = {a}, TypeOK, OneActorInvariant, [Next]_vars
  PROVE  [Promise!Next]_(Promise!vars)
<1>0. a \in Actors
  OBVIOUS
<1>1. CASE UNCHANGED <<lane, granted>>
  BY <1>1 DEF Promise!vars
<1>2. \/ UNCHANGED <<lane, granted>>
      \/ WriteAcquired(a) \/ WriteReleased(a) \/ \E t \in Tasks : RecordResult(a, t)
  BY <1>0
     DEF Next, Continue, vars, RequestLane, CheckBusy, StartDirect, ReadForAcquire,
         SkipRelease, ReadForRelease, FinishRecord, Crash
<1> QED
  BY <1>1, <1>2, AcquirePromised, ReleasePromised, RecordPromised

(* The row, its two-step reads and writes and the recording of results     *)
(* implement the single-flight promise as long as one actor at a time uses *)
(* the lane, for every set of tasks and every way it crashes.              *)
THEOREM OneActorKeepsPromise ==
  ASSUME NEW a, Actors = {a}
  PROVE  Spec => ImplementsSingleFlight
<1>1. Init => OneActorInvariant /\ Promise!Init
  BY PromiseInit DEF Init, OneActorInvariant, GrantedIsActive, EmptyRow
<1>2. TypeOK /\ OneActorInvariant /\ [Next]_vars =>
        OneActorInvariant' /\ [Promise!Next]_(Promise!vars)
  BY OneActorStep, PromiseStep
<1> QED
  BY <1>1, <1>2, LaneTypeOK, PTL DEF Spec, ImplementsSingleFlight, Promise!Spec
=============================================================================
