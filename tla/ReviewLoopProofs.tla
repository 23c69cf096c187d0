-------------------------- MODULE ReviewLoopProofs --------------------------
(***************************************************************************)
(* For any number of processes and any acts of the operator: type          *)
(* correctness of the loop, and what it delivers, completes, repairs and   *)
(* ends.                                                                   *)
(***************************************************************************)
EXTENDS ReviewLoop, FiniteSetTheorems, TLAPS

(* A step of thread t.                                                     *)
Moved(t, place, f) == GoTo(t, place) /\ Keep(t, f)

Places(t) == IF Front(t) THEN FrontPlaces ELSE JobPlaces

----------------------------------------------------------------------------
LEMMA NoneLaw ==
  /\ None # TRUE /\ None # FALSE
  /\ None # "changes_requested" /\ None # "completed" /\ None # "approved"
  /\ None \notin Statuses
<1>1. None \notin BOOLEAN /\ None \notin Verdicts /\ None \notin Statuses
  BY NoneAssumption
<1>2. None # TRUE
  BY <1>1
<1>3. None # FALSE
  BY <1>1
<1>4. None # "changes_requested" /\ None # "completed" /\ None # "approved"
  BY <1>1 DEF Verdicts
<1> QED
  BY <1>1, <1>2, <1>3, <1>4, Zenon

(* _decide_review_loop_step as one nested choice.                          *)
LEMMA DecideTable ==
  ASSUME NEW s \in Statuses, NEW b, NEW v \in Verdicts \cup {None}, NEW n
  PROVE  DecideStep(s, b, v, n) =
           IF s = "changes_requested" THEN IF n >= MaxRounds THEN "stop" ELSE "rerun_coding"
           ELSE IF s = "in_review"
           THEN IF b = None THEN "run_review"
                ELSE IF b THEN IF n >= MaxRounds THEN "handoff" ELSE "request_changes"
                ELSE "approve_review"
           ELSE IF s = "approved"
           THEN IF v = None THEN "run_review"
                ELSE IF v = "completed" THEN "approve_review"
                ELSE IF v = "approved" THEN "deliver" ELSE "handoff"
           ELSE "deliver"
<1> DEFINE d == DecideStep(s, b, v, n)
<1>1. CASE s = "changes_requested"
  <2>1. d = IF n >= MaxRounds THEN "stop" ELSE "rerun_coding"
    BY <1>1, Zenon DEF DecideStep
  <2> QED
    BY <1>1, <2>1, Zenon
<1>2. CASE s = "in_review"
  <2>1. d = IF b = None THEN "run_review"
            ELSE IF b THEN IF n >= MaxRounds THEN "handoff" ELSE "request_changes" ELSE "approve_review"
    BY <1>2, Zenon DEF DecideStep
  <2>2. s # "changes_requested"
    BY <1>2
  <2> QED
    BY <1>2, <2>1, <2>2, Zenon
<1>3. CASE s = "approved"
  <2>0. d = (CASE v = None -> "run_review"
               [] v = "completed" -> "approve_review"
               [] v = "approved" -> "deliver"
               [] v = "changes_requested" -> "handoff")
    BY <1>3, Zenon DEF DecideStep
  <2>1. CASE v = None
    <3>1. d = "run_review"
      BY <2>0, <2>1, NoneLaw, Zenon
    <3> QED
      BY <1>3, <2>1, <3>1
  <2>2. CASE v = "completed"
    <3>1. d = "approve_review"
      BY <2>0, <2>2, NoneLaw, Zenon
    <3> QED
      BY <1>3, <2>2, <3>1, NoneLaw
  <2>3. CASE v = "approved"
    <3>1. d = "deliver"
      BY <2>0, <2>3, NoneLaw, Zenon
    <3> QED
      BY <1>3, <2>3, <3>1, NoneLaw
  <2>4. CASE v = "changes_requested"
    <3>1. d = "handoff"
      BY <2>0, <2>4, NoneLaw, Zenon
    <3> QED
      BY <1>3, <2>4, <3>1, NoneLaw
  <2> QED
    BY <2>1, <2>2, <2>3, <2>4 DEF Verdicts
<1>4. CASE s \in {"failed", "needs_attention"}
  <2>1. d = "deliver"
    BY <1>4, Zenon DEF DecideStep
  <2> QED
    BY <1>4, <2>1
<1> QED
  BY <1>1, <1>2, <1>3, <1>4 DEF Statuses, Open

(* A verdict is carried out only if there is one.                          *)
LEMMA JudgedTable ==
  ASSUME NEW s \in Statuses, NEW b, NEW v \in Verdicts \cup {None}, NEW n,
         DecideStep(s, b, v, n) \in {"request_changes", "handoff", "approve_review"}
  PROVE  b # None \/ v # None
BY DecideTable

(* Blocking counts the blocking reviews.                                   *)
LEMMA BlockingNat ==
  ASSUME NEW rs \in Seq(Reviews)
  PROVE  Blocking(rs) \in Nat
<1>1. IsFiniteSet(1..Len(rs))
  BY FS_Interval
<1>2. IsFiniteSet({i \in 1..Len(rs) : rs[i].blocking})
  BY <1>1, FS_Subset
<1> QED
  BY <1>2, FS_CardinalityType DEF Blocking

LEMMA BlockingAppend ==
  ASSUME NEW rs \in Seq(Reviews), NEW r \in Reviews
  PROVE  Blocking(Append(rs, r)) = Blocking(rs) + IF r.blocking THEN 1 ELSE 0
<1> DEFINE S == {i \in 1..Len(rs) : rs[i].blocking}
           T == {i \in 1..Len(Append(rs, r)) : Append(rs, r)[i].blocking}
<1>1. IsFiniteSet(S)
  <2>1. IsFiniteSet(1..Len(rs))
    BY FS_Interval
  <2> QED
    BY <2>1, FS_Subset
<1>2. Len(rs) \in Nat /\ Len(Append(rs, r)) = Len(rs) + 1
  OBVIOUS
<1>3. \A i \in 1..Len(rs) : Append(rs, r)[i] = rs[i]
  OBVIOUS
<1>4. Append(rs, r)[Len(rs) + 1] = r
  OBVIOUS
<1>5. r.blocking \in BOOLEAN /\ Len(rs) + 1 \notin S
  BY <1>2 DEF Reviews
<1>6. CASE r.blocking
  <2>1. T = S \cup {Len(rs) + 1}
    BY <1>2, <1>3, <1>4, <1>6
  <2>2. Cardinality(T) = Cardinality(S) + 1
    BY <1>1, <1>5, <2>1, FS_AddElement
  <2> QED
    BY <1>6, <2>2 DEF Blocking
<1>7. CASE ~r.blocking
  <2>1. T = S
    BY <1>2, <1>3, <1>4, <1>7
  <2>2. Blocking(Append(rs, r)) = Blocking(rs) /\ Blocking(rs) \in Nat
    BY <2>1, BlockingNat DEF Blocking
  <2> QED
    BY <1>7, <2>2
<1> QED
  BY <1>5, <1>6, <1>7

LEMMA BlockingMarked ==
  ASSUME NEW rs \in Seq(Reviews), NEW i \in 1..Len(rs), NEW v \in Verdicts
  PROVE  LET marked == [rs EXCEPT ![i].status = v]
         IN /\ marked \in Seq(Reviews) /\ Len(marked) = Len(rs)
            /\ Blocking(marked) = Blocking(rs)
            /\ \A j \in 1..Len(rs) : /\ marked[j].rev = rs[j].rev
                                     /\ marked[j].blocking = rs[j].blocking
                                     /\ marked[j].status = IF j = i THEN v ELSE rs[j].status
<1> DEFINE marked == [rs EXCEPT ![i].status = v]
<1>0. Len(rs) \in Nat /\ \A j \in 1..Len(rs) : rs[j] \in Reviews
  OBVIOUS
<1>1. \A j \in 1..Len(rs) : marked[j] = IF j = i THEN [rs[j] EXCEPT !.status = v] ELSE rs[j]
  OBVIOUS
<1>d. DOMAIN marked = 1..Len(rs)
  OBVIOUS
<1>2. \A j \in 1..Len(rs) :
        /\ marked[j] \in Reviews
        /\ marked[j].rev = rs[j].rev /\ marked[j].blocking = rs[j].blocking
        /\ marked[j].status = IF j = i THEN v ELSE rs[j].status
  BY <1>0, <1>1 DEF Reviews
<1>3. marked \in Seq(Reviews) /\ Len(marked) = Len(rs)
  <2> DEFINE built == [j \in 1..Len(rs) |-> IF j = i THEN [rs[j] EXCEPT !.status = v] ELSE rs[j]]
  <2>1. marked = built
    OBVIOUS
  <2>2. \A j \in 1..Len(rs) : built[j] \in Reviews
    BY <1>2, <2>1
  <2>3. built \in [1..Len(rs) -> Reviews]
    BY <2>2
  <2> HIDE DEF built
  <2> QED
    BY <1>0, <2>1, <2>3
<1>4. Blocking(marked) = Blocking(rs)
  <2> HIDE DEF marked
  <2> QED
    BY <1>2, <1>3 DEF Blocking
<1> QED
  BY <1>2, <1>3, <1>4

----------------------------------------------------------------------------
(* Kinds of steps: those that only move a thread, those that take or drop  *)
(* the write lock, and those that write.                                   *)
Silent(t) ==
  \/ Poll(t) \/ Operate(t) \/ Resume(t) \/ ResumeCoding(t) \/ BeginLoop(t)
  \/ CodeAgain(t) \/ BeginReview(t) \/ CarryOut(t) \/ BeginDelivery(t) \/ Stop(t)
  \/ ReadTask(t) \/ RefuseCoding(t) \/ ReadResult(t)
  \/ ReviewRaises(t) \/ SkipApproval(t) \/ RefuseVerdict(t)
  \/ Comment(t) \/ CommentRaises(t) \/ ReturnTask(t) \/ Escalate(t)

Writes(t) ==
  \/ CodingPasses(t) \/ CodingFails(t) \/ RecordFailure(t) \/ ClearProjection(t)
  \/ (\E blocking \in BOOLEAN : InsertReview(t, blocking)) \/ ProjectReview(t)
  \/ MarkReview(t) \/ ProjectVerdict(t) \/ SendBack(t) \/ Approve(t)
  \/ Suspend(t) \/ HandOver(t) \/ ReleaseLane(t) \/ Deliver(t) \/ Complete(t)
  \/ MarkControl(t)

Locks(t) == BeginCoding(t) \/ CodingRaises(t)

Stumbles(t) == LockTimeout(t) \/ JobFails(t) \/ PollRaises(t)

Schedules(t) == Schedule(t) \/ ScheduleFails(t)

LEMMA NextCases ==
  ASSUME [Next]_vars
  PROVE  \/ \E t \in Threads : Silent(t) \/ Writes(t) \/ Locks(t) \/ Stumbles(t) \/ Schedules(t)
         \/ \E p \in Processes : Crash(p)
         \/ UNCHANGED vars
<1>1. ASSUME NEW t \in Threads, Step(t)
      PROVE  Silent(t) \/ Writes(t) \/ Locks(t) \/ Schedules(t)
  BY <1>1, Zenon DEF Step, Silent, Writes, Locks, Schedules
<1>2. ASSUME NEW t \in Threads, Fails(t) PROVE Stumbles(t) \/ Schedules(t)
  BY <1>2, Zenon DEF Fails, Stumbles, Schedules
<1>3. ASSUME NEW t \in Threads, Poll(t) \/ Operate(t) \/ MarkControl(t) PROVE Silent(t) \/ Writes(t)
  BY <1>3, Zenon DEF Silent, Writes
<1> QED
  BY <1>1, <1>2, <1>3, Zenon DEF Next

LEMMA SilentLaw ==
  ASSUME NEW t \in Threads, Silent(t) \/ Schedule(t)
  PROVE  /\ status' = status /\ rev' = rev /\ ctl' = ctl /\ reviews' = reviews /\ proj' = proj
         /\ lane' = lane /\ delivered' = delivered /\ coder' = coder /\ faults' = faults
<1> USE DEF store
<1>1. CASE Poll(t) \/ Operate(t) \/ Resume(t) \/ ResumeCoding(t) \/ BeginLoop(t) \/ Schedule(t)
  BY <1>1 DEF Poll, Operate, Resume, ResumeCoding, BeginLoop, Schedule
<1>2. CASE CodeAgain(t) \/ BeginReview(t) \/ CarryOut(t) \/ BeginDelivery(t) \/ Stop(t)
  BY <1>2 DEF CodeAgain, BeginReview, CarryOut, BeginDelivery, Stop
<1>3. CASE ReadTask(t) \/ RefuseCoding(t) \/ ReadResult(t)
  BY <1>3 DEF ReadTask, RefuseCoding, ReadResult
<1>4. CASE ReviewRaises(t) \/ SkipApproval(t) \/ RefuseVerdict(t)
  BY <1>4 DEF ReviewRaises, SkipApproval, RefuseVerdict
<1>5. CASE Comment(t) \/ CommentRaises(t) \/ ReturnTask(t) \/ Escalate(t)
  BY <1>5 DEF Comment, CommentRaises, ReturnTask, Escalate
<1> QED
  BY <1>1, <1>2, <1>3, <1>4, <1>5 DEF Silent

----------------------------------------------------------------------------
(* Type correctness of the store.                                          *)
StoreTypes ==
  /\ status \in Statuses
  /\ ctl \in Statuses \cup {"completed"}
  /\ rev \in Nat \ {0}
  /\ reviews \in Seq(Reviews)
  /\ proj \in [blocking : BOOLEAN \cup {None}, status : Verdicts \cup {None}, count : Nat]
  /\ lane \in BOOLEAN
  /\ delivered \subseteq 1..rev
  /\ coder \in Threads \cup {None}
  /\ faults \in 0..MaxFaults

Sound == TypeOK /\ ReviewsExist

LEMMA FrameTypes ==
  ASSUME TypeOK, NEW t \in Threads
  PROVE  /\ frame[t] \in Frames
         /\ frame[t].review \in Nat /\ frame[t].review <= Len(reviews) /\ Len(reviews) \in Nat
         /\ frame[t].head \in Nat /\ frame[t].head <= rev /\ rev \in Nat
         /\ frame[t].task \in Statuses \cup {None} /\ frame[t].seen \in Statuses \cup {None}
         /\ frame[t].goal \in Goals \cup {"escalate", None}
         /\ pc[t] \in Places(t)
<1>1. frame[t] \in Frames /\ pc[t] \in Places(t)
  BY DEF TypeOK, Places
<1>2. frame[t].review \in 0..Len(reviews) /\ frame[t].head \in 0..rev
  BY DEF TypeOK
<1>3. Len(reviews) \in Nat /\ rev \in Nat
  BY DEF TypeOK
<1> QED
  BY <1>1, <1>2, <1>3 DEF Frames

LEMMA ProjectTypes ==
  ASSUME TypeOK, NEW i \in 1..Len(reviews), NEW v \in Verdicts, Project(i, v)
  PROVE  /\ proj' \in [blocking : BOOLEAN \cup {None}, status : Verdicts \cup {None}, count : Nat]
         /\ proj'.blocking = reviews[i].blocking /\ proj'.status = v /\ proj'.count = Blocking(reviews)
<1>1. reviews[i].blocking \in BOOLEAN
  <2>1. reviews[i] \in Reviews
    BY DEF TypeOK
  <2> QED
    BY <2>1 DEF Reviews
<1>2. Blocking(reviews) \in Nat
  BY BlockingNat DEF TypeOK
<1> QED
  BY <1>1, <1>2 DEF Project

LEMMA WriteTypes ==
  ASSUME Sound, NEW t \in Threads, Writes(t)
  PROVE  StoreTypes' /\ Len(reviews) <= Len(reviews') /\ rev <= rev'
<1> DEFINE Goal == StoreTypes' /\ Len(reviews) <= Len(reviews') /\ rev <= rev'
<1>0. StoreTypes /\ Len(reviews) \in Nat /\ rev \in Nat
  BY DEF Sound, TypeOK, StoreTypes
<1>1. ASSUME CodingPasses(t) \/ CodingFails(t) \/ RecordFailure(t) PROVE Goal
  <2>1. CASE CodingPasses(t)
    <3>1. /\ status' = "in_review" /\ ctl' = "in_review" /\ rev' = rev + 1 /\ coder' = None
          /\ reviews' = reviews /\ proj' = proj /\ lane' = lane /\ delivered' = delivered /\ faults' = faults
      BY <2>1 DEF CodingPasses, SetTaskStatus
    <3> QED
      BY <1>0, <3>1 DEF StoreTypes, Statuses, Open
  <2>2. CASE CodingFails(t) \/ RecordFailure(t)
    <3>1. /\ status' \in {"failed", "needs_attention"} /\ ctl' = status' /\ coder' \in {coder, None}
          /\ rev' = rev /\ reviews' = reviews /\ proj' = proj /\ lane' = lane /\ delivered' = delivered
          /\ faults' = faults
      BY <2>2 DEF CodingFails, RecordFailure, SetTaskStatus
    <3> QED
      BY <1>0, <3>1 DEF StoreTypes, Statuses, Open
  <2> QED
    BY <1>1, <2>1, <2>2
<1>2. ASSUME ClearProjection(t) PROVE Goal
  <2>1. proj' \in [blocking : BOOLEAN \cup {None}, status : Verdicts \cup {None}, count : Nat]
    BY <1>0, <1>2 DEF ClearProjection, StoreTypes
  <2>2. /\ status' = status /\ rev' = rev /\ ctl' = ctl /\ reviews' = reviews
        /\ lane' = lane /\ delivered' = delivered /\ coder' = coder /\ faults' = faults
    BY <1>2 DEF ClearProjection
  <2> QED
    BY <1>0, <2>1, <2>2 DEF StoreTypes
<1>3. ASSUME NEW b \in BOOLEAN, InsertReview(t, b) PROVE Goal
  <2>1. frame[t].head \in Nat
    BY FrameTypes DEF Sound
  <2> DEFINE r == [rev |-> frame[t].head, blocking |-> b, status |-> "completed"]
  <2>2. r \in Reviews
    BY <2>1 DEF Reviews, Verdicts
  <2>3. reviews' = Append(reviews, r)
    BY <1>3 DEF InsertReview
  <2> HIDE DEF r
  <2>4. reviews' \in Seq(Reviews) /\ Len(reviews') = Len(reviews) + 1
    BY <1>0, <2>2, <2>3 DEF StoreTypes
  <2>5. UNCHANGED <<status, rev, ctl, proj, lane, delivered, coder, faults>>
    BY <1>3 DEF InsertReview
  <2> QED
    BY <1>0, <2>4, <2>5 DEF StoreTypes
<1>4. ASSUME ProjectReview(t) \/ ProjectVerdict(t) PROVE Goal
  <2>1. PICK v \in Verdicts : Project(frame[t].review, v)
    BY <1>4 DEF ProjectReview, ProjectVerdict, VerdictOf, Verdicts
  <2>2. UNCHANGED <<status, rev, ctl, reviews, lane, delivered, coder, faults>>
    BY <1>4 DEF ProjectReview, ProjectVerdict
  <2>3. frame[t].review \in 1..Len(reviews)
    <3>1. frame[t].review > 0
      BY <1>4 DEF ProjectReview, ProjectVerdict, Sound, ReviewsExist
    <3> QED
      BY <3>1, FrameTypes DEF Sound
  <2>4. proj' \in [blocking : BOOLEAN \cup {None}, status : Verdicts \cup {None}, count : Nat]
    BY <2>1, <2>3, ProjectTypes DEF Sound
  <2> QED
    BY <1>0, <2>2, <2>4 DEF StoreTypes
<1>5. ASSUME MarkReview(t) PROVE Goal
  <2>1. frame[t].review \in 1..Len(reviews)
    <3>1. frame[t].review > 0
      BY <1>5 DEF MarkReview, Sound, ReviewsExist
    <3> QED
      BY <3>1, FrameTypes DEF Sound
  <2>2. VerdictOf(frame[t].goal) \in Verdicts
    BY DEF VerdictOf, Verdicts
  <2>3. reviews' = [reviews EXCEPT ![frame[t].review].status = VerdictOf(frame[t].goal)]
    BY <1>5 DEF MarkReview
  <2>4. reviews' \in Seq(Reviews) /\ Len(reviews') = Len(reviews)
    BY <1>0, <2>1, <2>2, <2>3, BlockingMarked DEF StoreTypes
  <2>5. UNCHANGED <<status, rev, ctl, proj, lane, delivered, coder, faults>>
    BY <1>5 DEF MarkReview
  <2> QED
    BY <1>0, <2>4, <2>5 DEF StoreTypes
<1>6. ASSUME SendBack(t) \/ Approve(t) \/ Suspend(t) PROVE Goal
  <2>1. /\ status' \in {"changes_requested", "approved", "needs_attention"} /\ ctl' = status'
        /\ rev' = rev /\ reviews' = reviews /\ proj' = proj /\ lane' = lane /\ delivered' = delivered
        /\ coder' = coder /\ faults' = faults
    BY <1>6 DEF SendBack, Approve, Suspend, SetTaskStatus
  <2> QED
    BY <1>0, <2>1 DEF StoreTypes, Statuses, Open
<1>7. ASSUME HandOver(t) \/ ReleaseLane(t) \/ Complete(t) \/ MarkControl(t) PROVE Goal
  <2>1. /\ ctl' \in {ctl, "needs_attention", "completed"}
        /\ status' = status /\ rev' = rev /\ reviews' = reviews /\ proj' = proj /\ delivered' = delivered
        /\ coder' = coder /\ faults' = faults
    BY <1>7 DEF HandOver, ReleaseLane, Complete, MarkControl
  <2>2. lane' \in BOOLEAN
    BY <1>0, <1>7, Zenon DEF HandOver, ReleaseLane, Complete, MarkControl, StoreTypes
  <2> QED
    BY <1>0, <2>1, <2>2 DEF StoreTypes, Statuses, Open
<1>8. ASSUME Deliver(t) PROVE Goal
  BY <1>0, <1>8 DEF Deliver, StoreTypes
<1> QED
  BY <1>1, <1>2, <1>3, <1>4, <1>5, <1>6, <1>7, <1>8 DEF Writes

LEMMA StoreStep ==
  ASSUME Sound, [Next]_vars
  PROVE  StoreTypes' /\ Len(reviews) <= Len(reviews') /\ rev <= rev'
<1> DEFINE Goal == StoreTypes' /\ Len(reviews) <= Len(reviews') /\ rev <= rev'
<1>0. StoreTypes /\ Len(reviews) \in Nat /\ rev \in Nat
  BY DEF Sound, TypeOK, StoreTypes
<1>1. ASSUME NEW t \in Threads, Silent(t) \/ Schedule(t) PROVE Goal
  <2>1. /\ status' = status /\ rev' = rev /\ ctl' = ctl /\ reviews' = reviews /\ proj' = proj
        /\ lane' = lane /\ delivered' = delivered /\ coder' = coder /\ faults' = faults
    BY <1>1, SilentLaw
  <2> QED
    BY <1>0, <2>1 DEF StoreTypes
<1>2. ASSUME NEW t \in Threads, Writes(t) PROVE Goal
  BY <1>2, WriteTypes
<1>3. ASSUME NEW t \in Threads, Locks(t) PROVE Goal
  <2>1. /\ coder' \in {t, None} /\ faults' = faults /\ UNCHANGED store
    BY <1>3 DEF Locks, BeginCoding, CodingRaises
  <2> QED
    BY <1>0, <2>1 DEF store, StoreTypes
<1>4. ASSUME NEW t \in Threads, Stumbles(t) \/ ScheduleFails(t) PROVE Goal
  <2>1. coder' = coder /\ faults < MaxFaults /\ faults' = faults + 1 /\ UNCHANGED store
    BY <1>4 DEF Stumbles, LockTimeout, JobFails, PollRaises, ScheduleFails, Fault
  <2> QED
    BY <1>0, <2>1, BoundAssumption DEF store, StoreTypes
<1>5. ASSUME NEW p \in Processes, Crash(p) PROVE Goal
  BY <1>0, <1>5, BoundAssumption DEF Crash, Fault, store, StoreTypes
<1>6. ASSUME UNCHANGED vars PROVE Goal
  BY <1>0, <1>6 DEF vars, store, StoreTypes
<1> QED
  BY <1>1, <1>2, <1>3, <1>4, <1>5, <1>6, NextCases DEF Schedules

----------------------------------------------------------------------------
(* Where a step leaves its thread.                                         *)
Fits(t, place, f) ==
  /\ place \in Places(t) /\ f \in Frames
  /\ f.review <= Len(reviews') /\ f.head <= rev'
  /\ place \in {"project", "mark", "projectVerdict"} => f.review > 0
  /\ place \in {"loop", "review", "project", "clear"} => f.task \in Statuses

Lands(t) == \E place, f : Moved(t, place, f) /\ Fits(t, place, f)

LEMMA Kinds ==
  ASSUME NEW t \in Threads
  PROVE  t[1] \in Processes /\ t[2] \in {"front", "job"} /\ t = <<t[1], t[2]>>
BY DEF Threads

LEMMA EmptyFrames ==
  /\ NoFrame \in Frames /\ NoFrame.review = 0 /\ NoFrame.head = 0
  /\ \A s \in Statuses : LET f == [NoFrame EXCEPT !.task = s]
                         IN f \in Frames /\ f.review = 0 /\ f.head = 0 /\ f.task = s
  /\ LET f == [NoFrame EXCEPT !.goal = "escalate"]
     IN f \in Frames /\ f.review = 0 /\ f.head = 0 /\ f.task = None
BY DEF NoFrame, Frames

LEMMA ClearedFits ==
  ASSUME NEW t \in Threads, NEW place \in Places(t), StoreTypes',
         place \notin {"project", "mark", "projectVerdict", "loop", "review", "clear"},
         NEW f \in {NoFrame, [NoFrame EXCEPT !.goal = "escalate"]}, Moved(t, place, f)
  PROVE  Lands(t)
<1>1. f \in Frames /\ f.review = 0 /\ f.head = 0
  BY EmptyFrames
<1>2. 0 <= Len(reviews') /\ 0 <= rev'
  BY DEF StoreTypes
<1> QED
  BY <1>1, <1>2 DEF Lands, Fits

LEMMA RaiseLands ==
  ASSUME NEW t \in Threads, Raise(t), StoreTypes'
  PROVE  Lands(t)
<1>1. CASE ~Front(t) /\ frame[t].goal # "escalate"
  <2>1. Moved(t, "error", [NoFrame EXCEPT !.goal = "escalate"])
    BY <1>1 DEF Raise, Moved
  <2>2. "error" \in Places(t)
    BY <1>1 DEF Places, JobPlaces
  <2> QED
    BY <2>1, <2>2, ClearedFits
<1>2. CASE ~(~Front(t) /\ frame[t].goal # "escalate")
  <2>1. PICK place \in {"idle", "dead"} : Moved(t, place, NoFrame) /\ (place = "dead" => Front(t))
    BY <1>2, Zenon DEF Raise, Moved
  <2>2. place \in Places(t)
    BY <2>1 DEF Places, JobPlaces, FrontPlaces
  <2> QED
    BY <2>1, <2>2, ClearedFits
<1> QED
  BY <1>1, <1>2

LEMMA FinishLands ==
  ASSUME NEW t \in Threads, Finish(t), StoreTypes'
  PROVE  Lands(t)
<1>1. Moved(t, "idle", NoFrame)
  BY DEF Finish, Moved
<1>2. "idle" \in Places(t)
  BY DEF Places, FrontPlaces, JobPlaces
<1> QED
  BY <1>1, <1>2, ClearedFits

(* A thread that keeps its frame.                                          *)
LEMMA KeptLands ==
  ASSUME Sound, NEW t \in Threads, NEW place \in Places(t), GoTo(t, place), frame' = frame,
         Len(reviews) <= Len(reviews'), rev <= rev', StoreTypes',
         place \in {"project", "mark", "projectVerdict"} => frame[t].review > 0,
         place \in {"loop", "review", "project", "clear"} => frame[t].task \in Statuses
  PROVE  Lands(t)
<1>1. frame' = [frame EXCEPT ![t] = frame[t]]
  BY DEF Sound, TypeOK
<1>2. Moved(t, place, frame[t])
  BY <1>1 DEF Moved, Keep
<1>3. frame[t].review <= Len(reviews') /\ frame[t].head <= rev'
  BY FrameTypes DEF Sound, StoreTypes
<1> QED
  BY <1>2, <1>3, FrameTypes DEF Lands, Fits, Sound

(* A frame with a field changed.                                           *)
LEMMA TaskChanged ==
  ASSUME NEW f \in Frames, NEW s \in Statuses, NEW g, g = [f EXCEPT !.task = s]
  PROVE  /\ g \in Frames /\ g.task = s /\ g.seen = f.seen
         /\ g.review = f.review /\ g.head = f.head /\ g.goal = f.goal
BY DEF Frames

LEMMA SeenChanged ==
  ASSUME NEW f \in Frames, NEW s \in Statuses, NEW g, g = [f EXCEPT !.seen = s]
  PROVE  /\ g \in Frames /\ g.task = f.task /\ g.seen = s
         /\ g.review = f.review /\ g.head = f.head /\ g.goal = f.goal
BY DEF Frames

LEMMA HeadChanged ==
  ASSUME NEW f \in Frames, NEW n \in Nat, NEW g, g = [f EXCEPT !.head = n]
  PROVE  /\ g \in Frames /\ g.task = f.task /\ g.seen = f.seen
         /\ g.review = f.review /\ g.head = n /\ g.goal = f.goal
BY DEF Frames

LEMMA ReviewChanged ==
  ASSUME NEW f \in Frames, NEW n \in Nat, NEW g, g = [f EXCEPT !.review = n]
  PROVE  /\ g \in Frames /\ g.task = f.task /\ g.seen = f.seen
         /\ g.review = n /\ g.head = f.head /\ g.goal = f.goal
BY DEF Frames

LEMMA JobsOnly ==
  ASSUME TypeOK, NEW t \in Threads,
         pc[t] \in {"queued", "loop", "clear", "review", "project", "mark", "projectVerdict", "apply",
                    "applying", "comment", "deliver", "complete", "handOver", "release", "error"}
  PROVE  ~Front(t) /\ Places(t) = JobPlaces
<1>1. pc[t] \in Places(t)
  BY FrameTypes
<1>2. pc[t] \notin FrontPlaces
  BY DEF FrontPlaces
<1>3. ~Front(t)
  BY <1>1, <1>2 DEF Places
<1> QED
  BY <1>3 DEF Places

LEMMA FrontsOnly ==
  ASSUME TypeOK, NEW t \in Threads, pc[t] \in {"schedule", "resume", "resuming", "dead"}
  PROVE  Front(t) /\ Places(t) = FrontPlaces
<1>1. pc[t] \in Places(t)
  BY FrameTypes
<1>2. pc[t] \notin JobPlaces
  BY DEF JobPlaces
<1>3. Front(t)
  BY <1>1, <1>2 DEF Places
<1> QED
  BY <1>3 DEF Places

(* Decisions, for a thread at "loop".                                      *)
LEMMA DecisionKnown ==
  ASSUME Sound, NEW t \in Threads, pc[t] = "loop"
  PROVE  LET f == frame[t]
             b == IF f.review # 0 THEN reviews[f.review].blocking ELSE proj.blocking
             v == IF f.review # 0 THEN "completed" ELSE proj.status
         IN /\ f.task \in Statuses /\ b \in BOOLEAN \cup {None} /\ v \in Verdicts \cup {None}
            /\ f.review # 0 => b \in BOOLEAN
            /\ proj.count \in Nat
            /\ Decision(t) = DecideStep(f.task, b, v, proj.count)
<1> DEFINE f == frame[t]
<1>1. f.task \in Statuses
  BY DEF Sound, ReviewsExist
<1>2. proj.blocking \in BOOLEAN \cup {None} /\ proj.status \in Verdicts \cup {None} /\ proj.count \in Nat
  BY DEF Sound, TypeOK
<1>3. ASSUME f.review # 0 PROVE reviews[f.review].blocking \in BOOLEAN
  <2>1. f.review \in 1..Len(reviews)
    BY <1>3, FrameTypes DEF Sound
  <2>2. reviews[f.review] \in Reviews
    BY <2>1 DEF Sound, TypeOK
  <2> QED
    BY <2>2 DEF Reviews
<1>4. "completed" \in Verdicts
  BY DEF Verdicts
<1>5. CASE f.review # 0
  <2>1. Decision(t) = DecideStep(f.task, reviews[f.review].blocking, "completed", proj.count)
    BY <1>5, Zenon DEF Decision
  <2> QED
    BY <1>1, <1>2, <1>3, <1>4, <1>5, <2>1
<1>6. CASE f.review = 0
  <2>1. Decision(t) = DecideStep(f.task, proj.blocking, proj.status, proj.count)
    BY <1>6, Zenon DEF Decision
  <2> QED
    BY <1>1, <1>2, <1>6, <2>1
<1> QED
  BY <1>5, <1>6

LEMMA LoopLands ==
  ASSUME Sound, NEW t \in Threads, [Next]_vars, StoreTypes',
         CodeAgain(t) \/ BeginReview(t) \/ CarryOut(t) \/ BeginDelivery(t) \/ Stop(t)
  PROVE  Lands(t)
<1>0. pc[t] = "loop" /\ Places(t) = JobPlaces /\ frame[t] \in Frames /\ frame[t].task \in Statuses
  <2>1. pc[t] = "loop"
    BY DEF CodeAgain, BeginReview, CarryOut, BeginDelivery, Stop
  <2> QED
    BY <2>1, JobsOnly, FrameTypes DEF Sound, ReviewsExist
<1>1. Len(reviews) <= Len(reviews') /\ rev <= rev'
  BY StoreStep
<1>2. Len(reviews) \in Nat /\ rev \in Nat /\ frame[t].review \in Nat /\ frame[t].review <= Len(reviews)
      /\ frame[t].head \in Nat /\ frame[t].head <= rev /\ Len(reviews') \in Nat /\ rev' \in Nat
  BY FrameTypes DEF Sound, StoreTypes
<1>3. CASE CodeAgain(t)
  <2>1. GoTo(t, "code") /\ frame' = frame /\ "code" \in Places(t)
    BY <1>0, <1>3 DEF CodeAgain, JobPlaces
  <2> QED
    BY <1>1, <2>1, KeptLands
<1>4. CASE BeginReview(t)
  <2> DEFINE f == [frame[t] EXCEPT !.head = rev]
  <2>1. Moved(t, "review", f)
    BY <1>4 DEF BeginReview, Moved
  <2>2. f \in Frames /\ f.task = frame[t].task /\ f.review = frame[t].review /\ f.head = rev
    BY <1>0, <1>2, HeadChanged
  <2>3. "review" \in Places(t)
    BY <1>0 DEF JobPlaces
  <2> HIDE DEF f
  <2>4. f.task \in Statuses /\ f.review <= Len(reviews') /\ f.head <= rev'
    BY <1>0, <1>1, <1>2, <2>2
  <2> QED
    BY <2>1, <2>2, <2>3, <2>4 DEF Lands, Fits
<1>5. CASE CarryOut(t)
  <2> DEFINE n == IF frame[t].review = 0 THEN Len(reviews) ELSE frame[t].review
             f == [frame[t] EXCEPT !.review = n, !.goal = Decision(t)]
  <2>1. Decision(t) \in Goals
    BY <1>5 DEF CarryOut, Goals
  <2>2. n > 0 /\ n \in Nat /\ n <= Len(reviews)
    <3>1. CASE frame[t].review # 0
      BY <1>2, <3>1
    <3>2. CASE frame[t].review = 0
      <4>1. proj.blocking # None \/ proj.status # None
        <5>1. None \notin BOOLEAN \cup Verdicts
          BY NoneAssumption
        <5>2. Decision(t) = DecideStep(frame[t].task, proj.blocking, proj.status, proj.count)
          BY <3>2, Zenon DEF Decision
        <5>3. /\ proj.blocking \in BOOLEAN \cup {None} /\ proj.status \in Verdicts \cup {None}
              /\ proj.count \in Nat
          BY DEF Sound, TypeOK
        <5>4. frame[t].task \in Statuses
          BY <1>0
        <5>5. Decision(t) \in {"request_changes", "handoff", "approve_review"}
          BY <2>1 DEF Goals
        <5>6. proj.blocking # None \/ proj.status # None
          <6>1. ASSUME NEW k \in Statuses, k = frame[t].task,
                       NEW b \in BOOLEAN \cup {None}, b = proj.blocking,
                       NEW v \in Verdicts \cup {None}, v = proj.status,
                       NEW m \in Nat, m = proj.count, NEW d, d = Decision(t)
                PROVE  b # None \/ v # None
            <7>1. DecideStep(k, b, v, m) \in {"request_changes", "handoff", "approve_review"}
              BY <5>2, <5>5, <6>1
            <7> QED
              BY <7>1, JudgedTable
          <6> QED
            BY <5>3, <5>4, <6>1
        <5> QED
          BY <5>6
      <4> QED
        BY <1>2, <3>2, <4>1 DEF Sound, ReviewsExist
    <3> QED
      BY <3>1, <3>2
  <2>3. Moved(t, "mark", f)
    BY <1>5 DEF CarryOut, Moved
  <2>4. f \in Frames /\ f.review = n /\ f.head = frame[t].head
    <3> HIDE DEF n
    <3>1. f = [frame[t] EXCEPT !.review = n, !.goal = Decision(t)]
      OBVIOUS
    <3> DEFINE d == Decision(t)
               g == frame[t]
    <3>2. f = [g EXCEPT !.review = n, !.goal = d] /\ g \in Frames /\ d \in Goals /\ n \in Nat
      BY <1>0, <2>1, <2>2, <3>1
    <3> HIDE DEF f, d, g
    <3>3. f \in Frames /\ f.review = n /\ f.head = g.head
      BY <3>2 DEF Frames
    <3> QED
      BY <3>3 DEF g
  <2>5. "mark" \in Places(t)
    BY <1>0 DEF JobPlaces
  <2>6. f.review <= Len(reviews') /\ f.head <= rev' /\ f.review > 0
    <3> HIDE DEF n, f
    <3> QED
      BY <1>1, <1>2, <2>2, <2>4
  <2> HIDE DEF f, n
  <2> QED
    BY <2>3, <2>4, <2>5, <2>6 DEF Lands, Fits
<1>6. CASE BeginDelivery(t)
  <2> DEFINE f == [frame[t] EXCEPT !.review = Len(reviews)]
  <2>1. Moved(t, "deliver", f)
    BY <1>6 DEF BeginDelivery, Moved
  <2>2. f \in Frames /\ f.review = Len(reviews) /\ f.head = frame[t].head
    BY <1>0, <1>2, ReviewChanged
  <2>3. "deliver" \in Places(t)
    BY <1>0 DEF JobPlaces
  <2> HIDE DEF f
  <2>4. f.review <= Len(reviews') /\ f.head <= rev'
    BY <1>1, <1>2, <2>2
  <2> QED
    BY <2>1, <2>2, <2>3, <2>4 DEF Lands, Fits
<1>7. CASE Stop(t)
  BY <1>7, FinishLands DEF Stop
<1> QED
  BY <1>3, <1>4, <1>5, <1>6, <1>7

(* A thread at a place of both kinds of threads.                           *)
SharedPlaces == {"idle", "code", "start", "coding", "coded", "record", "suspend"}

LEMMA SharedAre ==
  ASSUME NEW t \in Threads
  PROVE  SharedPlaces \subseteq Places(t)
BY DEF SharedPlaces, Places, FrontPlaces, JobPlaces

LEMMA SilentLands ==
  ASSUME Sound, NEW t \in Threads, [Next]_vars, StoreTypes', Silent(t)
  PROVE  Lands(t)
<1>1. Len(reviews) <= Len(reviews') /\ rev <= rev'
  BY StoreStep
<1>2. Len(reviews) \in Nat /\ rev \in Nat /\ frame[t].review \in Nat /\ frame[t].review <= Len(reviews)
      /\ frame[t].head \in Nat /\ frame[t].head <= rev /\ Len(reviews') \in Nat /\ rev' \in Nat
  BY FrameTypes DEF Sound, StoreTypes
<1>3. frame[t] \in Frames /\ status \in Statuses
  BY FrameTypes DEF Sound, TypeOK
<1>4. CASE Poll(t) \/ Operate(t) \/ Resume(t)
  <2>1. PICK place \in {"idle", "resume", "code", "suspend", "resuming", "schedule"} :
          frame' = frame /\ GoTo(t, place)
    <3>1. CASE Poll(t)
      BY <3>1, Zenon DEF Poll
    <3>2. CASE Operate(t)
      BY <3>2, Zenon DEF Operate
    <3>3. CASE Resume(t)
      BY <3>3 DEF Resume
    <3> QED
      BY <1>4, <3>1, <3>2, <3>3
  <2>2. Front(t)
    BY <1>4, FrontsOnly DEF Poll, Operate, Resume, Sound
  <2>3. place \in Places(t)
    BY <2>2 DEF Places, FrontPlaces
  <2> QED
    BY <1>1, <2>1, <2>3, KeptLands
<1>5. CASE ResumeCoding(t) \/ RefuseCoding(t)
  <2>1. frame' = frame /\ (GoTo(t, "code") \/ GoTo(t, "record"))
    BY <1>5, Zenon DEF ResumeCoding, RefuseCoding
  <2>2. {"code", "record"} \subseteq Places(t)
    BY SharedAre DEF SharedPlaces
  <2> QED
    BY <1>1, <2>1, <2>2, KeptLands
<1>6. CASE BeginLoop(t)
  <2> DEFINE f == [NoFrame EXCEPT !.task = status]
  <2>1. Moved(t, "loop", f)
    BY <1>6 DEF BeginLoop, Moved
  <2>2. "loop" \in Places(t)
    <3>1. pc[t] = "queued"
      BY <1>6 DEF BeginLoop
    <3> QED
      BY <3>1, JobsOnly DEF JobPlaces, Sound
  <2>3. f \in Frames /\ f.review = 0 /\ f.head = 0 /\ f.task \in Statuses
    BY <1>3, EmptyFrames
  <2> HIDE DEF f
  <2> QED
    BY <1>2, <2>1, <2>2, <2>3 DEF Lands, Fits
<1>7. CASE CodeAgain(t) \/ BeginReview(t) \/ CarryOut(t) \/ BeginDelivery(t) \/ Stop(t)
  BY <1>7, LoopLands
<1>8. CASE ReadTask(t)
  <2> DEFINE f == [frame[t] EXCEPT !.seen = status]
  <2>1. PICK place \in {"start", "applying"} :
          Moved(t, place, f) /\ (place = "applying" => pc[t] = "apply")
    BY <1>8, Zenon DEF ReadTask, Moved
  <2>2. place \in Places(t)
    <3>1. CASE place = "start"
      BY <3>1, SharedAre DEF SharedPlaces
    <3>2. CASE place = "applying"
      BY <2>1, <3>2, JobsOnly DEF JobPlaces, Sound
    <3> QED
      BY <3>1, <3>2
  <2>3. f \in Frames /\ f.review = frame[t].review /\ f.head = frame[t].head
    BY <1>3, SeenChanged
  <2> HIDE DEF f
  <2>4. f.review <= Len(reviews') /\ f.head <= rev'
    BY <1>1, <1>2, <2>3
  <2> QED
    BY <2>1, <2>2, <2>3, <2>4 DEF Lands, Fits
<1>9. CASE ReadResult(t)
  <2>1. CASE ~Front(t)
    <3> DEFINE f == [NoFrame EXCEPT !.task = status]
    <3>1. Moved(t, "clear", f)
      BY <1>9, <2>1 DEF ReadResult, Moved
    <3>2. "clear" \in Places(t)
      BY <2>1 DEF Places, JobPlaces
    <3>3. f \in Frames /\ f.review = 0 /\ f.head = 0 /\ f.task \in Statuses
      BY <1>3, EmptyFrames
    <3> HIDE DEF f
    <3> QED
      BY <1>2, <3>1, <3>2, <3>3 DEF Lands, Fits
  <2>2. CASE Front(t)
    <3>1. PICK place \in {"schedule", "idle"} : Moved(t, place, NoFrame)
      BY <1>9, <2>2, Zenon DEF ReadResult, Moved
    <3>2. place \in Places(t)
      BY <2>2 DEF Places, FrontPlaces
    <3> QED
      BY <3>1, <3>2, ClearedFits
  <2> QED
    BY <2>1, <2>2
<1>10. CASE ReviewRaises(t) \/ RefuseVerdict(t) \/ CommentRaises(t)
  <2>1. Raise(t)
    BY <1>10 DEF ReviewRaises, RefuseVerdict, CommentRaises
  <2> QED
    BY <2>1, RaiseLands
<1>11. CASE SkipApproval(t)
  <2>1. GoTo(t, "comment") /\ frame' = frame /\ pc[t] = "applying"
    BY <1>11 DEF SkipApproval
  <2>2. "comment" \in Places(t)
    BY <2>1, JobsOnly DEF JobPlaces, Sound
  <2> QED
    BY <1>1, <2>1, <2>2, KeptLands
<1>12. CASE Comment(t)
  <2> DEFINE f == [frame[t] EXCEPT !.task = status]
  <2>1. PICK place \in {"suspend", "deliver"} : Moved(t, place, f) /\ pc[t] = "comment"
    BY <1>12, Zenon DEF Comment, Moved
  <2>2. place \in Places(t)
    BY <2>1, JobsOnly, SharedAre DEF JobPlaces, Sound
  <2>3. f \in Frames /\ f.review = frame[t].review /\ f.head = frame[t].head
    BY <1>3, TaskChanged
  <2> HIDE DEF f
  <2>4. f.review <= Len(reviews') /\ f.head <= rev'
    BY <1>1, <1>2, <2>3
  <2> QED
    BY <2>1, <2>2, <2>3, <2>4 DEF Lands, Fits
<1>13. CASE ReturnTask(t)
  BY <1>13, FinishLands DEF ReturnTask
<1>14. CASE Escalate(t)
  <2>1. (GoTo(t, "suspend") \/ GoTo(t, "handOver")) /\ frame' = frame /\ pc[t] = "error"
    BY <1>14, Zenon DEF Escalate
  <2>2. {"suspend", "handOver"} \subseteq Places(t)
    BY <2>1, JobsOnly DEF JobPlaces, Sound
  <2> QED
    BY <1>1, <2>1, <2>2, KeptLands
<1> QED
  BY <1>4, <1>5, <1>6, <1>7, <1>8, <1>9, <1>10, <1>11, <1>12, <1>13, <1>14 DEF Silent

LEMMA WriteLands ==
  ASSUME Sound, NEW t \in Threads, [Next]_vars, StoreTypes', Writes(t) \/ Locks(t) \/ Stumbles(t)
  PROVE  Lands(t)
<1>1. Len(reviews) <= Len(reviews') /\ rev <= rev'
  BY StoreStep
<1>2. Len(reviews) \in Nat /\ rev \in Nat /\ frame[t].review \in Nat /\ frame[t].review <= Len(reviews)
      /\ frame[t].head \in Nat /\ frame[t].head <= rev /\ Len(reviews') \in Nat /\ rev' \in Nat
  BY FrameTypes DEF Sound, StoreTypes
<1>3. CASE CodingPasses(t) \/ CodingFails(t) \/ CodingRaises(t) \/ BeginCoding(t)
  <2>1. frame' = frame /\ (GoTo(t, "coded") \/ GoTo(t, "record") \/ GoTo(t, "coding"))
    BY <1>3, Zenon DEF CodingPasses, CodingFails, CodingRaises, BeginCoding
  <2>2. {"coded", "record", "coding"} \subseteq Places(t)
    BY SharedAre DEF SharedPlaces
  <2> QED
    BY <1>1, <2>1, <2>2, KeptLands
<1>4. CASE RecordFailure(t)
  BY <1>4, RaiseLands DEF RecordFailure
<1>5. CASE ClearProjection(t) \/ ProjectReview(t)
  <2>1. frame' = frame /\ GoTo(t, "loop") /\ pc[t] \in {"clear", "project"}
    BY <1>5 DEF ClearProjection, ProjectReview
  <2>2. "loop" \in Places(t) /\ frame[t].task \in Statuses
    BY <2>1, JobsOnly DEF JobPlaces, Sound, ReviewsExist
  <2> QED
    BY <1>1, <2>1, <2>2, KeptLands
<1>6. ASSUME NEW b \in BOOLEAN, InsertReview(t, b) PROVE Lands(t)
  <2> DEFINE f == [frame[t] EXCEPT !.review = Len(reviews) + 1]
  <2>1. Moved(t, "project", f) /\ pc[t] = "review"
    BY <1>6 DEF InsertReview, Moved
  <2>2. "project" \in Places(t) /\ frame[t].task \in Statuses /\ frame[t] \in Frames
    BY <2>1, JobsOnly, FrameTypes DEF JobPlaces, Sound, ReviewsExist
  <2>3. /\ f \in Frames /\ f.task = frame[t].task
        /\ f.review = Len(reviews) + 1 /\ f.head = frame[t].head
    <3> DEFINE n == Len(reviews) + 1
    <3>1. n \in Nat /\ f = [frame[t] EXCEPT !.review = n]
      BY <1>2
    <3> HIDE DEF n, f
    <3>2. f \in Frames /\ f.task = frame[t].task /\ f.review = n /\ f.head = frame[t].head
      BY <2>2, <3>1, ReviewChanged
    <3> QED
      BY <3>2 DEF n
  <2>4. Len(reviews') = Len(reviews) + 1
    BY <1>6 DEF InsertReview, Sound, TypeOK
  <2> HIDE DEF f
  <2>5. f.review <= Len(reviews') /\ f.head <= rev' /\ f.review > 0
    BY <1>1, <1>2, <2>3, <2>4
  <2> QED
    BY <2>1, <2>2, <2>3, <2>5 DEF Lands, Fits
<1>7. CASE MarkReview(t) \/ ProjectVerdict(t)
  <2>0. GoTo(t, "projectVerdict") \/ GoTo(t, "apply")
    BY <1>7, Zenon DEF MarkReview, ProjectVerdict
  <2>1. frame' = frame /\ pc[t] \in {"mark", "projectVerdict"}
    BY <1>7 DEF MarkReview, ProjectVerdict
  <2>2. {"projectVerdict", "apply"} \subseteq Places(t) /\ frame[t].review > 0
    BY <2>1, JobsOnly DEF JobPlaces, Sound, ReviewsExist
  <2> QED
    BY <1>1, <2>0, <2>1, <2>2, KeptLands
<1>8. CASE SendBack(t) \/ Approve(t) \/ HandOver(t) \/ Deliver(t) \/ Complete(t)
  <2>1. PICK place \in {"code", "comment", "release", "complete"} :
          GoTo(t, place)
    BY <1>8, Zenon DEF SendBack, Approve, HandOver, Deliver, Complete
  <2>2. frame' = frame /\ pc[t] \in {"applying", "handOver", "deliver", "complete"}
    BY <1>8, Zenon DEF SendBack, Approve, HandOver, Deliver, Complete
  <2>3. place \in Places(t)
    BY <2>1, <2>2, JobsOnly DEF JobPlaces, Sound
  <2> QED
    BY <1>1, <2>1, <2>2, <2>3, KeptLands
<1>9. CASE ReleaseLane(t)
  BY <1>9, FinishLands DEF ReleaseLane
<1>10. CASE JobFails(t)
  BY <1>10, FinishLands DEF JobFails
<1>11. CASE Suspend(t)
  <2>1. PICK place \in {"idle", "handOver"} :
          GoTo(t, place) /\ frame' = frame /\ (place = "handOver" => ~Front(t))
    BY <1>11, Zenon DEF Suspend
  <2>2. place \in Places(t)
    <3>1. CASE place = "idle"
      BY <3>1, SharedAre DEF SharedPlaces
    <3>2. CASE place = "handOver"
      BY <2>1, <3>2 DEF Places, JobPlaces
    <3> QED
      BY <3>1, <3>2
  <2> QED
    BY <1>1, <2>1, <2>2, KeptLands
<1>12. CASE MarkControl(t)
  <2>1. pc' = pc /\ frame' = frame /\ pc[t] = "idle"
    BY <1>12 DEF MarkControl
  <2>2. GoTo(t, "idle") /\ "idle" \in Places(t)
    BY <2>1, SharedAre DEF GoTo, Sound, TypeOK, SharedPlaces
  <2> QED
    BY <1>1, <2>1, <2>2, KeptLands
<1>13. CASE LockTimeout(t) \/ PollRaises(t)
  <2>1. CASE Raise(t)
    BY <2>1, RaiseLands
  <2>2. CASE ~Raise(t)
    <3>1. GoTo(t, "record") /\ frame' = frame
      BY <1>13, <2>2, Zenon DEF LockTimeout, PollRaises
    <3>2. "record" \in Places(t)
      BY SharedAre DEF SharedPlaces
    <3> QED
      BY <1>1, <3>1, <3>2, KeptLands
  <2> QED
    BY <2>1, <2>2
<1> QED
  BY <1>3, <1>4, <1>5, <1>6, <1>7, <1>8, <1>9, <1>10, <1>11, <1>12, <1>13 DEF Writes, Locks, Stumbles

(* The types, and that a review which is shown exists, are inductive.      *)
ThreadTypes ==
  /\ pc \in [Threads -> FrontPlaces \cup JobPlaces]
  /\ frame \in [Threads -> Frames]
  /\ \A t \in Threads :
       /\ pc[t] \in Places(t)
       /\ frame[t].review <= Len(reviews) /\ frame[t].head <= rev
       /\ pc[t] \in {"project", "mark", "projectVerdict"} => frame[t].review > 0
       /\ pc[t] \in {"loop", "review", "project", "clear"} => frame[t].task \in Statuses

(* The claim and the history.                                              *)
MarkTypes == resumable \in BOOLEAN /\ overlapped \in BOOLEAN

LEMMA TypesTogether == StoreTypes /\ ThreadTypes /\ MarkTypes => TypeOK
<1> SUFFICES ASSUME StoreTypes, ThreadTypes, MarkTypes PROVE TypeOK
  OBVIOUS
<1>1. ASSUME NEW t \in Threads PROVE frame[t].review \in 0..Len(reviews) /\ frame[t].head \in 0..rev
  <2>1. frame[t] \in Frames
    BY DEF ThreadTypes
  <2>2. frame[t].review \in Nat /\ frame[t].head \in Nat
    BY <2>1 DEF Frames
  <2>3. frame[t].review <= Len(reviews) /\ frame[t].head <= rev
    BY DEF ThreadTypes
  <2> QED
    BY <2>2, <2>3 DEF StoreTypes
<1>2. ASSUME NEW t \in Threads PROVE pc[t] \in IF Front(t) THEN FrontPlaces ELSE JobPlaces
  BY DEF ThreadTypes, Places
<1> QED
  BY <1>1, <1>2 DEF TypeOK, StoreTypes, ThreadTypes, MarkTypes

LEMMA ThreadStep ==
  ASSUME Sound, [Next]_vars
  PROVE  ThreadTypes'
<1>0. StoreTypes' /\ Len(reviews) <= Len(reviews') /\ rev <= rev'
  BY StoreStep
<1>a. /\ pc \in [Threads -> FrontPlaces \cup JobPlaces] /\ frame \in [Threads -> Frames]
      /\ Len(reviews) \in Nat /\ rev \in Nat
  BY DEF Sound, TypeOK
<1>b. Len(reviews') \in Nat /\ rev' \in Nat
  BY <1>0 DEF StoreTypes
<1>c. ASSUME NEW u \in Threads
      PROVE  /\ pc[u] \in Places(u) /\ frame[u] \in Frames
             /\ frame[u].review <= Len(reviews') /\ frame[u].head <= rev'
             /\ pc[u] \in {"project", "mark", "projectVerdict"} => frame[u].review > 0
             /\ pc[u] \in {"loop", "review", "project", "clear"} => frame[u].task \in Statuses
  <2>1. /\ frame[u].review \in Nat /\ frame[u].review <= Len(reviews)
        /\ frame[u].head \in Nat /\ frame[u].head <= rev
    BY FrameTypes DEF Sound
  <2>2. frame[u].review <= Len(reviews') /\ frame[u].head <= rev'
    BY <1>0, <1>a, <1>b, <2>1
  <2> QED
    BY <2>2, FrameTypes DEF Sound, ReviewsExist
<1>d. \A u : Places(u) \subseteq FrontPlaces \cup JobPlaces
  BY DEF Places
<1>1. ASSUME NEW t \in Threads, Lands(t) PROVE ThreadTypes'
  <2>1. PICK place, f : Moved(t, place, f) /\ Fits(t, place, f)
    BY <1>1 DEF Lands
  <2>2. pc' = [pc EXCEPT ![t] = place] /\ frame' = [frame EXCEPT ![t] = f]
    BY <2>1 DEF Moved, GoTo, Keep
  <2>3. /\ pc' \in [Threads -> FrontPlaces \cup JobPlaces] /\ frame' \in [Threads -> Frames]
    BY <1>a, <1>d, <2>1, <2>2 DEF Fits
  <2>4. ASSUME NEW u \in Threads
        PROVE  /\ pc'[u] \in Places(u)
               /\ frame'[u].review <= Len(reviews') /\ frame'[u].head <= rev'
               /\ pc'[u] \in {"project", "mark", "projectVerdict"} => frame'[u].review > 0
               /\ pc'[u] \in {"loop", "review", "project", "clear"} => frame'[u].task \in Statuses
    <3>1. CASE u = t
      <4>1. pc'[u] = place /\ frame'[u] = f
        BY <1>a, <2>2, <3>1
      <4> QED
        BY <2>1, <3>1, <4>1 DEF Fits
    <3>2. CASE u # t
      <4>1. pc'[u] = pc[u] /\ frame'[u] = frame[u]
        BY <1>a, <2>2, <3>2
      <4> QED
        BY <1>c, <4>1
    <3> QED
      BY <3>1, <3>2
  <2> QED
    BY <2>3, <2>4 DEF ThreadTypes, Places
<1>2. ASSUME NEW t \in Threads, Schedules(t) PROVE ThreadTypes'
  <2> DEFINE job == <<t[1], "job">>
  <2>0. PICK where \in {"idle", "dead"} : Scheduled(t, where) /\ frame' = frame /\ pc[t] = "schedule"
    BY <1>2, Zenon DEF Schedules, Schedule, ScheduleFails
  <2>1. job \in Threads /\ where \in Places(t) /\ {"idle", "queued"} \subseteq Places(job)
    <3>1. Places(t) = FrontPlaces
      BY <2>0, FrontsOnly DEF Sound
    <3> QED
      BY <3>1, Kinds DEF Threads, Places, FrontPlaces, JobPlaces, Front
  <2>2. pc' = [pc EXCEPT ![t] = where, ![job] = IF @ = "idle" THEN "queued" ELSE @]
    BY <2>0 DEF Scheduled
  <2>3. frame' = frame
    BY <2>0
  <2>9. job # t
    BY <2>0, FrontsOnly DEF Sound, Front
  <2> HIDE DEF job
  <2>4. ASSUME NEW u \in Threads PROVE pc'[u] \in {pc[u], "idle", "queued", "dead"} /\ pc'[u] \in Places(u)
    <3>1. pc'[u] = IF u = job THEN IF pc[u] = "idle" THEN "queued" ELSE pc[u]
                   ELSE IF u = t THEN where ELSE pc[u]
      BY <1>a, <2>1, <2>2, <2>9
    <3> QED
      BY <1>c, <2>1, <3>1
  <2>5. pc' \in [Threads -> FrontPlaces \cup JobPlaces]
    <3>1. pc' = [u \in Threads |-> pc'[u]]
      BY <1>a, <2>2
    <3> QED
      BY <1>d, <2>4, <3>1
  <2> QED
    BY <1>a, <1>c, <2>3, <2>4, <2>5 DEF ThreadTypes, Places
<1>3. ASSUME NEW p \in Processes, Crash(p) PROVE ThreadTypes'
  <2>1. /\ pc' = [u \in Threads |-> IF u[1] = p THEN "idle" ELSE pc[u]]
        /\ frame' = [u \in Threads |-> IF u[1] = p THEN NoFrame ELSE frame[u]]
    BY <1>3 DEF Crash
  <2>2. ASSUME NEW u \in Threads
        PROVE  /\ pc'[u] \in Places(u) /\ frame'[u] \in Frames
               /\ frame'[u].review <= Len(reviews') /\ frame'[u].head <= rev'
               /\ pc'[u] \in {"project", "mark", "projectVerdict"} => frame'[u].review > 0
               /\ pc'[u] \in {"loop", "review", "project", "clear"} => frame'[u].task \in Statuses
    <3>1. CASE u[1] = p
      <4>1. pc'[u] = "idle" /\ frame'[u] = NoFrame
        BY <2>1, <3>1
      <4>2. "idle" \in Places(u)
        BY SharedAre DEF SharedPlaces
      <4> QED
        BY <1>b, <4>1, <4>2, EmptyFrames
    <3>2. CASE u[1] # p
      <4>1. pc'[u] = pc[u] /\ frame'[u] = frame[u]
        BY <2>1, <3>2
      <4> QED
        BY <1>c, <4>1
    <3> QED
      BY <3>1, <3>2
  <2>3. pc' \in [Threads -> FrontPlaces \cup JobPlaces] /\ frame' \in [Threads -> Frames]
    <3>1. pc' = [u \in Threads |-> pc'[u]] /\ frame' = [u \in Threads |-> frame'[u]]
      BY <2>1
    <3> QED
      BY <1>d, <2>2, <3>1
  <2> QED
    BY <2>2, <2>3 DEF ThreadTypes, Places
<1>4. ASSUME UNCHANGED vars PROVE ThreadTypes'
  BY <1>a, <1>c, <1>4 DEF vars, store, ThreadTypes, Places
<1> QED
  BY <1>0, <1>1, <1>2, <1>3, <1>4, NextCases, SilentLands, WriteLands

LEMMA MarkStep ==
  ASSUME Sound, [Next]_vars
  PROVE  MarkTypes'
<1>0. resumable \in BOOLEAN /\ overlapped \in BOOLEAN
  BY DEF Sound, TypeOK
<1>1. overlapped' \in BOOLEAN
  <2>1. CASE Watch
    BY <2>1, Zenon DEF Watch
  <2>2. CASE UNCHANGED vars
    BY <1>0, <2>2 DEF vars
  <2> QED
    BY <2>1, <2>2 DEF Next
<1>2. resumable' \in {resumable, FALSE}
  <2>1. ASSUME NEW t \in Threads, Silent(t) PROVE resumable' \in {resumable, FALSE}
    <3>1. CASE Poll(t)
      BY <3>1 DEF Poll
    <3>2. CASE ~Poll(t)
      BY <2>1, <3>2 DEF Silent, Operate, Resume, ResumeCoding, BeginLoop, CodeAgain, BeginReview, CarryOut,
           BeginDelivery, Stop, ReadTask, RefuseCoding, ReadResult, ReviewRaises, SkipApproval,
           RefuseVerdict, Comment, CommentRaises, ReturnTask, Escalate
    <3> QED
      BY <3>1, <3>2
  <2>2. ASSUME NEW t \in Threads, Writes(t) PROVE resumable' = resumable
    BY <2>2 DEF Writes, CodingPasses, CodingFails, RecordFailure, ClearProjection, InsertReview,
         ProjectReview, MarkReview, ProjectVerdict, SendBack, Approve, Suspend, HandOver, ReleaseLane,
         Deliver, Complete, MarkControl
  <2>3. ASSUME NEW t \in Threads, Locks(t) \/ Stumbles(t) \/ Schedules(t) PROVE resumable' = resumable
    BY <2>3 DEF Locks, Stumbles, Schedules, BeginCoding, CodingRaises, LockTimeout, JobFails, PollRaises,
         Schedule, ScheduleFails
  <2>4. ASSUME NEW p \in Processes, Crash(p) PROVE resumable' = resumable
    BY <2>4 DEF Crash
  <2>5. CASE UNCHANGED vars
    BY <2>5 DEF vars
  <2> QED
    BY <2>1, <2>2, <2>3, <2>4, <2>5, NextCases
<1> QED
  BY <1>0, <1>1, <1>2 DEF MarkTypes

LEMMA SoundStep == Sound /\ [Next]_vars => Sound'
<1> SUFFICES ASSUME Sound, [Next]_vars PROVE Sound'
  OBVIOUS
<1>1. StoreTypes' /\ ThreadTypes'
  BY StoreStep, ThreadStep
<1>2. TypeOK'
  <2>1. (StoreTypes /\ ThreadTypes /\ MarkTypes => TypeOK)'
    BY TypesTogether, PTL
  <2> QED
    BY <1>1, <2>1, MarkStep
<1>3. ASSUME NEW t \in Threads
      PROVE  /\ pc'[t] \in {"project", "mark", "projectVerdict"} => frame'[t].review > 0
             /\ pc'[t] \in {"loop", "review", "project", "clear"} => frame'[t].task \in Statuses
  BY <1>1 DEF ThreadTypes
<1>4. proj'.blocking # None \/ proj'.status # None => Len(reviews') > 0
  <2> DEFINE Shown == proj'.blocking # None \/ proj'.status # None => Len(reviews') > 0
  <2>0. /\ Len(reviews) \in Nat /\ Len(reviews') \in Nat /\ Len(reviews) <= Len(reviews')
    BY <1>1, StoreStep DEF Sound, TypeOK, StoreTypes
  <2>1. ASSUME proj' = proj PROVE Shown
    BY <2>0, <2>1 DEF Sound, ReviewsExist
  <2>2. ASSUME NEW t \in Threads, ProjectReview(t) \/ ProjectVerdict(t) PROVE Shown
    <3>1. frame[t].review > 0
      BY <2>2 DEF Sound, ReviewsExist, ProjectReview, ProjectVerdict
    <3>2. frame[t].review <= Len(reviews) /\ frame[t].review \in Nat
      BY FrameTypes DEF Sound
    <3> QED
      BY <2>0, <3>1, <3>2
  <2>3. ASSUME NEW t \in Threads, ClearProjection(t) PROVE Shown
    <3>1. proj'.blocking = None /\ proj'.status = None
      BY <2>3 DEF ClearProjection, Sound, TypeOK
    <3> QED
      BY <3>1
  <2>4. ASSUME NEW t \in Threads, Writes(t) PROVE Shown
    <3>1. \/ proj' = proj
          \/ ProjectReview(t) \/ ProjectVerdict(t) \/ ClearProjection(t)
      BY <2>4 DEF Writes, CodingPasses, CodingFails, RecordFailure, InsertReview, MarkReview, SendBack,
                  Approve, Suspend, HandOver, ReleaseLane, Deliver, Complete, MarkControl
    <3> QED
      BY <2>1, <2>2, <2>3, <3>1
  <2>5. ASSUME NEW t \in Threads, Silent(t) \/ Schedules(t) \/ Locks(t) \/ Stumbles(t) PROVE proj' = proj
    <3>1. CASE Silent(t) \/ Schedule(t)
      BY <3>1, SilentLaw
    <3>2. CASE Locks(t) \/ Stumbles(t) \/ ScheduleFails(t)
      BY <3>2 DEF Locks, Stumbles, BeginCoding, CodingRaises, LockTimeout, JobFails, PollRaises,
           ScheduleFails, store
    <3> QED
      BY <2>5, <3>1, <3>2 DEF Schedules
  <2>6. ASSUME NEW p \in Processes, Crash(p) PROVE proj' = proj
    BY <2>6 DEF Crash, store
  <2>7. ASSUME UNCHANGED vars PROVE proj' = proj
    BY <2>7 DEF vars, store
  <2> QED
    BY <2>1, <2>4, <2>5, <2>6, <2>7, NextCases
<1> QED
  BY <1>2, <1>3, <1>4 DEF Sound, ReviewsExist

LEMMA SoundInit == Init => Sound
<1> SUFFICES ASSUME Init PROVE Sound
  OBVIOUS
<1>1. reviews = <<>> /\ Len(reviews) = 0 /\ rev = 1
  BY DEF Init
<1>2. StoreTypes
  <2>1. status \in Statuses /\ ctl \in Statuses \cup {"completed"}
    BY DEF Init, Statuses, Open
  <2>2. proj \in [blocking : BOOLEAN \cup {None}, status : Verdicts \cup {None}, count : Nat]
    BY DEF Init, NoProjection
  <2>3. lane \in BOOLEAN /\ delivered \subseteq 1..rev /\ coder \in Threads \cup {None} /\ reviews \in Seq(Reviews)
    BY DEF Init
  <2>4. faults \in 0..MaxFaults
    BY BoundAssumption DEF Init
  <2> QED
    BY <1>1, <2>1, <2>2, <2>3, <2>4 DEF StoreTypes
<1>3. ThreadTypes
  <2>1. frame = [t \in Threads |-> NoFrame]
    BY DEF Init
  <2>2. PICK p \in Processes :
          pc = [t \in Threads |-> IF t = <<p, "front">> THEN "schedule" ELSE "idle"]
    BY DEF Init
  <2>3. \A t \in Threads : pc[t] \in {"idle", "schedule"} /\ pc[t] \in Places(t)
    BY <2>2, SharedAre DEF SharedPlaces, Places, FrontPlaces, Front
  <2>4. pc \in [Threads -> FrontPlaces \cup JobPlaces] /\ NoFrame \in Frames
    BY <2>2, EmptyFrames DEF FrontPlaces
  <2>5. \A t \in Threads : frame[t].review = 0 /\ frame[t].head = 0
    BY <2>1, EmptyFrames
  <2> QED
    BY <1>1, <2>1, <2>3, <2>4, <2>5 DEF ThreadTypes
<1>4. proj.blocking = None /\ proj.status = None
  BY DEF Init, NoProjection
<1>5. TypeOK
  <2>1. MarkTypes
    BY DEF Init, MarkTypes
  <2> QED
    BY <1>2, <1>3, <2>1, TypesTogether
<1> QED
  BY <1>3, <1>4, <1>5 DEF Sound, ReviewsExist, ThreadTypes

(* Every row, projection, place and frame is of its type, for any number   *)
(* of processes and whatever the operator does.                            *)
THEOREM ReviewTypeOK == Spec => []TypeOK
<1>1. Sound => TypeOK
  BY DEF Sound
<1> QED
  BY <1>1, SoundInit, SoundStep, PTL DEF Spec

----------------------------------------------------------------------------
(* A thread at work while no other is: what it may count on.  Only the     *)
(* place of a job counts for the rounds.                                   *)
RepairsAt(place) ==
  /\ status \in Open /\ proj.blocking = TRUE =>
       IF place \in {"coded", "clear"}
       THEN Blocking(reviews) < MaxRounds /\ rev <= Blocking(reviews) + 1 + faults
       ELSE rev <= Blocking(reviews) + faults
  /\ place = "project" /\ Latest.blocking => rev <= Blocking(reviews) + faults
  /\ place \in {"code", "start", "coding"} => Blocking(reviews) < MaxRounds
  /\ status = "changes_requested" /\ place \in {"idle", "queued", "loop"} =>
       rev < Blocking(reviews) + faults /\ rev < MaxRounds + faults

Kept(j) ==
  /\ ProjectionSound /\ DeliveredSound /\ RoundsLeft
  /\ CodingSound(j) /\ FrameSound(j) /\ RepairsAt(pc[j])

LEMMA TypeFacts ==
  ASSUME Sound
  PROVE  /\ status \in Statuses /\ ctl \in Statuses \cup {"completed"}
         /\ rev \in Nat /\ rev > 0 /\ faults \in Nat /\ MaxRounds \in Nat /\ MaxRounds > 0
         /\ Len(reviews) \in Nat /\ Blocking(reviews) \in Nat
         /\ reviews \in Seq(Reviews)
         /\ proj.blocking \in BOOLEAN \cup {None} /\ proj.status \in Verdicts \cup {None}
         /\ proj.count \in Nat
         /\ coder \in Threads \cup {None}
<1>1. /\ status \in Statuses /\ ctl \in Statuses \cup {"completed"}
      /\ rev \in Nat /\ rev > 0 /\ Len(reviews) \in Nat /\ reviews \in Seq(Reviews)
      /\ proj.blocking \in BOOLEAN \cup {None} /\ proj.status \in Verdicts \cup {None}
      /\ proj.count \in Nat /\ coder \in Threads \cup {None}
  BY DEF Sound, TypeOK
<1>2. faults \in Nat
  BY BoundAssumption DEF Sound, TypeOK
<1>3. MaxRounds \in Nat /\ MaxRounds > 0
  BY RoundsAssumption
<1> QED
  BY <1>1, <1>2, <1>3, BlockingNat

(* A step of one thread leaves the other where it is.                      *)
LEMMA MoveFacts ==
  ASSUME Sound, NEW t \in Threads, NEW place, NEW f, Moved(t, place, f)
  PROVE  /\ pc'[t] = place /\ frame'[t] = f
         /\ \A u \in Threads : u # t => pc'[u] = pc[u] /\ frame'[u] = frame[u]
BY DEF Sound, TypeOK, Moved, GoTo, Keep

LEMMA GoFacts ==
  ASSUME Sound, NEW t \in Threads, NEW place, GoTo(t, place)
  PROVE  /\ pc'[t] = place
         /\ \A u \in Threads : u # t => pc'[u] = pc[u]
BY DEF Sound, TypeOK, GoTo

(* What a decision of the job says of the task.                            *)
LEMMA JobDecides ==
  ASSUME NEW j \in Threads, ~Front(j), Sound, Kept(j), pc[j] = "loop", NEW d, d = Decision(j)
  PROVE  /\ d = "rerun_coding" => status = "changes_requested" /\ Blocking(reviews) < MaxRounds
         /\ d = "run_review" => status = "in_review" /\ proj.blocking = None /\ frame[j].review = 0
         /\ d \in {"request_changes", "handoff", "approve_review"} =>
              /\ status = "in_review" /\ proj.blocking # None
              /\ d = "approve_review" <=> proj.blocking = FALSE
              /\ d = "request_changes" => Blocking(reviews) < MaxRounds
         /\ d = "deliver" => status \notin Open
         /\ frame[j].task = status
<1> DEFINE f == frame[j]
           b == IF f.review # 0 THEN reviews[f.review].blocking ELSE proj.blocking
           v == IF f.review # 0 THEN "completed" ELSE proj.status
<1>0. j \in Threads
  OBVIOUS
<1>1. f.task = status /\ (f.review # 0 => status = "in_review" /\ proj.blocking # None)
      /\ (f.review = 0 \/ f.review = Len(reviews))
  BY DEF Kept, FrameSound
<1>2. /\ status \in Statuses /\ v \in Verdicts \cup {None} /\ (f.review # 0 => b \in BOOLEAN)
      /\ d = DecideStep(status, b, v, proj.count)
  BY <1>0, <1>1, DecisionKnown
<1>3. proj.blocking # None => b = proj.blocking /\ proj.count = Blocking(reviews)
  <2>1. proj.blocking # None => Latest.blocking = proj.blocking /\ proj.count = Blocking(reviews)
    BY DEF Kept, ProjectionSound
  <2> QED
    BY <1>1, <2>1 DEF Latest
<1>4. CASE status = "changes_requested"
  <2>1. proj.blocking = TRUE
    BY <1>4 DEF Kept, ProjectionSound
  <2>2. proj.count = Blocking(reviews)
    BY <1>3, <2>1, NoneLaw
  <2>3. d = IF Blocking(reviews) >= MaxRounds THEN "stop" ELSE "rerun_coding"
    BY <1>2, <1>4, <2>2, DecideTable
  <2>4. Blocking(reviews) \in Nat /\ MaxRounds \in Nat
    BY <1>0, TypeFacts
  <2> QED
    BY <1>1, <1>4, <2>3, <2>4
<1>5. CASE status = "in_review"
  <2>1. d = IF b = None THEN "run_review"
            ELSE IF b THEN IF proj.count >= MaxRounds THEN "handoff" ELSE "request_changes"
            ELSE "approve_review"
    BY <1>2, <1>5, DecideTable
  <2>2. CASE proj.blocking = None
    <3>1. f.review = 0
      BY <1>1, <2>2
    <3>2. d = "run_review"
      BY <2>1, <2>2, <3>1
    <3> QED
      BY <1>1, <1>5, <2>2, <3>1, <3>2
  <2>3. CASE proj.blocking # None
    <3>1. b = proj.blocking /\ proj.count = Blocking(reviews)
      BY <1>3, <2>3
    <3>2. Blocking(reviews) \in Nat /\ MaxRounds \in Nat /\ proj.blocking \in BOOLEAN
      BY <1>0, <2>3, TypeFacts
    <3>3. d = IF proj.blocking THEN IF Blocking(reviews) >= MaxRounds THEN "handoff" ELSE "request_changes"
              ELSE "approve_review"
      BY <2>1, <2>3, <3>1
    <3> QED
      BY <1>1, <1>5, <2>3, <3>2, <3>3
  <2> QED
    BY <2>2, <2>3
<1>6. CASE status = "approved"
  <2>1. f.review = 0 /\ proj.status = "approved"
    BY <1>1, <1>6 DEF Kept, ProjectionSound
  <2>2. d = "deliver"
    BY <1>2, <1>6, <2>1, NoneLaw, DecideTable
  <2> QED
    BY <1>1, <1>6, <2>2 DEF Open
<1>7. CASE status \in {"failed", "needs_attention"}
  <2>1. d = "deliver"
    BY <1>2, <1>7, DecideTable
  <2> QED
    BY <1>1, <1>7, <2>1 DEF Open
<1> QED
  BY <1>2, <1>4, <1>5, <1>6, <1>7 DEF Statuses, Open

(* Steps of the job that leave the store as it is.                         *)
SameStore ==
  /\ status' = status /\ rev' = rev /\ ctl' = ctl /\ reviews' = reviews /\ proj' = proj
  /\ delivered' = delivered

LEMMA Grows ==
  ASSUME NEW a \in Nat, NEW b \in Nat, NEW c \in Nat, NEW d \in Nat, c <= d
  PROVE  (a <= b + c => a <= b + d) /\ (a < b + c => a < b + d)
OBVIOUS

LEMMA SameStoreKeeps ==
  ASSUME Sound, ProjectionSound, DeliveredSound, RoundsLeft, SameStore, faults' \in Nat, faults <= faults'
  PROVE  ProjectionSound' /\ DeliveredSound' /\ RoundsLeft'
<1>0. rev \in Nat /\ faults \in Nat /\ MaxRounds \in Nat /\ Blocking(reviews) \in Nat
  BY TypeFacts
<1>1. ProjectionSound'
  BY DEF ProjectionSound, SameStore, Latest
<1>2. DeliveredSound'
  BY DEF DeliveredSound, SameStore, Latest
<1>3. RoundsLeft'
  <2>1. rev' = rev /\ reviews' = reviews /\ status' = status /\ proj' = proj
    BY DEF SameStore
  <2>2. Blocking(reviews)' = Blocking(reviews)
    BY <2>1 DEF Blocking
  <2>a. /\ rev <= MaxRounds + faults
        /\ status = "in_review" /\ proj.blocking = None => rev <= Blocking(reviews) + 1 + faults
    BY DEF RoundsLeft
  <2>b. rev' \in Nat /\ faults' \in Nat /\ faults <= faults' /\ rev' = rev
    BY <1>0, <2>1
  <2>3. rev' <= MaxRounds + faults'
    BY <1>0, <2>a, <2>b, Grows
  <2>4. status = "in_review" /\ proj.blocking = None => rev' <= Blocking(reviews) + 1 + faults'
    <3>1. Blocking(reviews) + 1 \in Nat
      BY <1>0
    <3> QED
      BY <1>0, <2>a, <2>b, <3>1, Grows
  <2> QED
    BY <2>1, <2>2, <2>3, <2>4 DEF RoundsLeft
<1> QED
  BY <1>1, <1>2, <1>3

LEMMA LoopKeeps ==
  ASSUME NEW j \in Threads, ~Front(j), Sound, Kept(j), SameStore, coder' = coder, faults' = faults,
         \/ BeginLoop(j) \/ CodeAgain(j) \/ BeginReview(j) \/ CarryOut(j)
         \/ BeginDelivery(j) \/ Stop(j)
  PROVE  Kept(j)'
<1> DEFINE f == frame[j]
<1>0. /\ j \in Threads /\ f \in Frames
      /\ rev \in Nat /\ faults \in Nat /\ MaxRounds \in Nat /\ Blocking(reviews) \in Nat
      /\ Len(reviews) \in Nat /\ status \in Statuses /\ f.review \in Nat
  BY TypeFacts, FrameTypes, NoneAssumption DEF Sound
<1>1. ProjectionSound' /\ DeliveredSound' /\ RoundsLeft'
  BY <1>0, SameStoreKeeps DEF Kept
<1>2. coder = j <=> pc[j] = "coding"
  BY DEF Kept, CodingSound
<1>3. pc[j] \in {"queued", "loop"}
  BY DEF BeginLoop, CodeAgain, BeginReview, CarryOut, BeginDelivery, Stop
<1>4. SUFFICES
               /\ CodingSound(j)' /\ FrameSound(j)' /\ RepairsAt(pc[j])'
  BY <1>1 DEF Kept
<1>5. CASE BeginLoop(j)
  <2> DEFINE g == [NoFrame EXCEPT !.task = status]
  <2>1. Moved(j, "loop", g) /\ pc[j] = "queued"
    BY <1>5 DEF BeginLoop, Moved
  <2>2. pc'[j] = "loop" /\ frame'[j] = g
    BY <1>0, <2>1, MoveFacts
  <2>3. g.task = status /\ g.review = 0
    BY <1>0, EmptyFrames
  <2> HIDE DEF g
  <2>4. CodingSound(j)'
    BY <1>2, <2>1, <2>2 DEF CodingSound
  <2>5. FrameSound(j)'
    BY <2>2, <2>3 DEF FrameSound, SameStore, Resting
  <2>6. RepairsAt(pc[j])'
    BY <2>1, <2>2 DEF Kept, RepairsAt, SameStore
  <2> QED
    BY <2>2, <2>4, <2>5, <2>6
<1>6. CASE CodeAgain(j)
  <2>1. status = "changes_requested" /\ Blocking(reviews) < MaxRounds /\ pc[j] = "loop"
    BY <1>6, JobDecides DEF CodeAgain
  <2>2. pc'[j] = "code" /\ frame' = frame
    BY <1>0, <1>6, GoFacts DEF CodeAgain
  <2>3. CodingSound(j)'
    BY <1>2, <2>1, <2>2 DEF CodingSound, SameStore
  <2>4. FrameSound(j)'
    BY <2>1, <2>2 DEF Kept, FrameSound, SameStore, Resting
  <2>5. RepairsAt(pc[j])'
    BY <2>1, <2>2 DEF Kept, RepairsAt, SameStore
  <2> QED
    BY <2>2, <2>3, <2>4, <2>5
<1>7. CASE BeginReview(j)
  <2> DEFINE g == [f EXCEPT !.head = rev]
  <2>1. status = "in_review" /\ proj.blocking = None /\ f.review = 0 /\ f.task = status /\ pc[j] = "loop"
    BY <1>7, JobDecides DEF BeginReview
  <2>2. Moved(j, "review", g)
    BY <1>7 DEF BeginReview, Moved
  <2>3. pc'[j] = "review" /\ frame'[j] = g
    BY <1>0, <2>2, MoveFacts
  <2>4. g.task = f.task /\ g.head = rev /\ g.review = 0
    BY <1>0, <2>1, HeadChanged
  <2> HIDE DEF g
  <2>5. CodingSound(j)'
    BY <1>2, <2>1, <2>3 DEF CodingSound
  <2>6. FrameSound(j)'
    BY <2>1, <2>3, <2>4 DEF FrameSound, SameStore, Resting
  <2>7. RepairsAt(pc[j])'
    BY <2>1, <2>3, NoneLaw DEF RepairsAt, SameStore
  <2> QED
    BY <2>3, <2>5, <2>6, <2>7
<1>8. CASE CarryOut(j)
  <2> DEFINE n == IF f.review = 0 THEN Len(reviews) ELSE f.review
             d == Decision(j)
             g == [f EXCEPT !.review = n, !.goal = d]
  <2>1. /\ status = "in_review" /\ proj.blocking # None /\ pc[j] = "loop"
        /\ d = "approve_review" <=> proj.blocking = FALSE
        /\ d = "request_changes" => Blocking(reviews) < MaxRounds
    BY <1>8, JobDecides DEF CarryOut
  <2>2. d \in Goals
    BY <1>8 DEF CarryOut, Goals
  <2>3. Moved(j, "mark", g)
    BY <1>8 DEF CarryOut, Moved
  <2>4. pc'[j] = "mark" /\ frame'[j] = g
    BY <1>0, <2>3, MoveFacts
  <2>5. n = Len(reviews)
    BY DEF Kept, FrameSound, Resting
  <2>6. g.review = Len(reviews) /\ g.goal = d
    <3> HIDE DEF d, n
    <3> QED
      BY <1>0, <2>5 DEF Frames
  <2> HIDE DEF d, g, n
  <2>7. CodingSound(j)'
    BY <1>2, <2>1, <2>4 DEF CodingSound
  <2>8. FrameSound(j)'
    BY <2>1, <2>2, <2>4, <2>6 DEF FrameSound, SameStore, Resting
  <2>9. RepairsAt(pc[j])'
    BY <2>1, <2>4 DEF Kept, RepairsAt, SameStore
  <2> QED
    BY <2>4, <2>7, <2>8, <2>9
<1>9. CASE BeginDelivery(j)
  <2> DEFINE g == [f EXCEPT !.review = Len(reviews)]
  <2>1. status \notin Open /\ f.task = status /\ pc[j] = "loop"
    BY <1>9, JobDecides DEF BeginDelivery
  <2>2. Moved(j, "deliver", g)
    BY <1>9 DEF BeginDelivery, Moved
  <2>3. pc'[j] = "deliver" /\ frame'[j] = g
    BY <1>0, <2>2, MoveFacts
  <2>4. g.task = f.task /\ g.review = Len(reviews)
    BY <1>0, ReviewChanged
  <2> HIDE DEF g
  <2>5. CodingSound(j)'
    BY <1>2, <2>1, <2>3 DEF CodingSound
  <2>6. FrameSound(j)'
    BY <2>1, <2>3, <2>4 DEF FrameSound, SameStore, Resting
  <2>7. RepairsAt(pc[j])'
    BY <2>1, <2>3 DEF RepairsAt, SameStore
  <2> QED
    BY <2>3, <2>5, <2>6, <2>7
<1>10. CASE Stop(j)
  <2>1. Moved(j, "idle", NoFrame) /\ pc[j] = "loop"
    BY <1>10 DEF Stop, Finish, Moved
  <2>2. pc'[j] = "idle" /\ frame'[j] = NoFrame
    BY <1>0, <2>1, MoveFacts
  <2>3. NoFrame.review = 0
    BY EmptyFrames
  <2>4. CodingSound(j)'
    BY <1>2, <2>1, <2>2 DEF CodingSound
  <2>5. FrameSound(j)'
    BY <2>2, <2>3 DEF FrameSound, SameStore, Resting
  <2>6. RepairsAt(pc[j])'
    BY <2>1, <2>2 DEF Kept, RepairsAt, SameStore
  <2> QED
    BY <2>2, <2>4, <2>5, <2>6
<1> QED
  BY <1>5, <1>6, <1>7, <1>8, <1>9, <1>10

(* Where an exception takes the job.                                       *)
LEMMA RaiseMoves ==
  ASSUME NEW j \in Threads, ~Front(j), Sound, Raise(j)
  PROVE  /\ pc'[j] \in {"idle", "error"} /\ frame'[j].review = 0
         /\ pc'[j] = "idle" => frame[j].goal = "escalate"
        
<1>0. j \in Threads
  OBVIOUS
<1>1. PICK place \in {"idle", "error"}, g \in {NoFrame, [NoFrame EXCEPT !.goal = "escalate"]} :
        Moved(j, place, g) /\ (place = "idle" => frame[j].goal = "escalate")
  <2>1. CASE frame[j].goal # "escalate"
    BY <1>0, <2>1 DEF Raise, Moved
  <2>2. CASE frame[j].goal = "escalate"
    BY <1>0, <2>2 DEF Raise, Moved
  <2> QED
    BY <2>1, <2>2
<1>2. pc'[j] = place /\ frame'[j] = g
  BY <1>0, <1>1, MoveFacts
<1> QED
  BY <1>1, <1>2, EmptyFrames

(* An exception of the job, with the task as it is.                        *)
LEMMA JobRaises ==
  ASSUME NEW j \in Threads, ~Front(j), Sound, Kept(j), Raise(j), SameStore, coder' = coder,
         faults' \in Nat,
         pc[j] \notin {"idle", "coding", "coded"},
         \/ /\ faults' = faults /\ pc[j] # "clear"
            /\ frame[j].goal # "escalate" \/ status # "changes_requested"
         \/ faults' = faults + 1
  PROVE  Kept(j)'
<1>0. rev \in Nat /\ faults \in Nat /\ MaxRounds \in Nat /\ Blocking(reviews) \in Nat
  BY TypeFacts, NoneAssumption
<1>1. ProjectionSound' /\ DeliveredSound' /\ RoundsLeft'
  BY <1>0, SameStoreKeeps DEF Kept
<1>2. /\ pc'[j] \in {"idle", "error"} /\ frame'[j].review = 0
      /\ pc'[j] = "idle" => frame[j].goal = "escalate"
     
  BY RaiseMoves
<1>3. CodingSound(j)'
  BY <1>2 DEF Kept, CodingSound
<1>4. FrameSound(j)'
  BY <1>2 DEF FrameSound, Resting
<1>5. RepairsAt(pc[j])'
  <2>1. Blocking(reviews)' = Blocking(reviews) /\ rev' = rev /\ status' = status /\ proj' = proj
    BY DEF SameStore, Blocking
  <2>2. status \in Open /\ proj.blocking = TRUE =>
          IF pc[j] = "clear" THEN rev <= Blocking(reviews) + 1 + faults ELSE rev <= Blocking(reviews) + faults
    BY DEF Kept, RepairsAt
  <2>3. rev <= MaxRounds + faults
    BY DEF Kept, RoundsLeft
  <2>4. /\ status = "changes_requested" => proj.blocking = TRUE /\ status \in Open
        /\ pc[j] = "clear" => status # "changes_requested"
    BY DEF Kept, ProjectionSound, Open, FrameSound
  <2>5. CASE faults' = faults + 1
    <3>1. status \in Open /\ proj.blocking = TRUE => rev <= Blocking(reviews) + faults'
      BY <1>0, <2>2, <2>5
    <3>2. status = "changes_requested" => rev < Blocking(reviews) + faults' /\ rev < MaxRounds + faults'
      BY <1>0, <2>2, <2>3, <2>4, <2>5
    <3> QED
      BY <1>2, <2>1, <3>1, <3>2 DEF RepairsAt
  <2>6. CASE faults' # faults + 1
    <3>1. faults' = faults /\ pc[j] # "clear" /\ (pc'[j] = "idle" => status # "changes_requested")
      BY <1>2, <2>6
    <3>2. status \in Open /\ proj.blocking = TRUE => rev <= Blocking(reviews) + faults'
      BY <2>2, <3>1
    <3> QED
      BY <1>2, <2>1, <3>1, <3>2 DEF RepairsAt
  <2> QED
    BY <2>5, <2>6
<1> QED
  BY <1>1, <1>2, <1>3, <1>4, <1>5 DEF Kept

LEMMA WalkKeeps ==
  ASSUME NEW j \in Threads, ~Front(j), Sound, Kept(j), SameStore, coder' = coder, faults' = faults,
         \/ ReadTask(j) \/ RefuseCoding(j) \/ ReadResult(j)
         \/ ReviewRaises(j) \/ SkipApproval(j) \/ RefuseVerdict(j)
         \/ Comment(j) \/ CommentRaises(j) \/ ReturnTask(j) \/ Escalate(j)
  PROVE  Kept(j)'
<1> DEFINE f == frame[j]
<1>0. /\ j \in Threads /\ f \in Frames
      /\ rev \in Nat /\ faults \in Nat /\ MaxRounds \in Nat /\ Blocking(reviews) \in Nat
      /\ Len(reviews) \in Nat /\ status \in Statuses /\ f.review \in Nat
  BY TypeFacts, FrameTypes, NoneAssumption DEF Sound
<1>1. ProjectionSound' /\ DeliveredSound' /\ RoundsLeft'
  BY <1>0, SameStoreKeeps DEF Kept
<1>2. coder = j <=> pc[j] = "coding"
  BY DEF Kept, CodingSound
<1>3. CASE ReadTask(j)
  <2> DEFINE g == [f EXCEPT !.seen = status]
             place == IF pc[j] = "code" THEN "start" ELSE "applying"
  <2>1. Moved(j, place, g) /\ pc[j] \in {"code", "apply"}
    BY <1>3 DEF ReadTask, Moved
  <2>2. pc'[j] = place /\ frame'[j] = g
    BY <1>0, <2>1, MoveFacts
  <2>3. g.seen = status /\ g.review = f.review /\ g.goal = f.goal
    BY <1>0, SeenChanged
  <2> HIDE DEF g
  <2>4. CodingSound(j)'
    BY <1>2, <2>1, <2>2, <2>3 DEF Kept, CodingSound, SameStore
  <2>5. FrameSound(j)'
    <3>1. CASE pc[j] = "code"
      <4>1. f.review = 0 \/ f.review = Len(reviews)
        BY DEF Kept, FrameSound, Resting
      <4> QED
        BY <2>2, <2>3, <3>1, <4>1 DEF FrameSound, SameStore, Resting
    <3>2. CASE pc[j] = "apply"
      <4>1. /\ status = "in_review" /\ f.review = Len(reviews) /\ proj.blocking # None
            /\ f.goal \in Goals /\ (f.goal = "approve_review" <=> proj.blocking = FALSE)
            /\ f.goal = "request_changes" => Blocking(reviews) < MaxRounds
            /\ Latest.status = VerdictOf(f.goal) /\ proj.status = VerdictOf(f.goal)
        BY <3>2 DEF Kept, FrameSound, Resting
      <4>2. Latest' = Latest /\ Blocking(reviews)' = Blocking(reviews)
        BY DEF SameStore, Latest, Blocking
      <4> QED
        BY <2>2, <2>3, <3>2, <4>1, <4>2 DEF FrameSound, SameStore, Resting
    <3> QED
      BY <2>1, <3>1, <3>2
  <2>6. RepairsAt(pc[j])'
    BY <2>1, <2>2 DEF Kept, RepairsAt, SameStore
  <2> QED
    BY <1>1, <2>1, <2>2, <2>4, <2>5, <2>6 DEF Kept
<1>4. CASE RefuseCoding(j)
  <2>1. GoTo(j, "record") /\ frame' = frame /\ pc[j] = "start"
    BY <1>4 DEF RefuseCoding
  <2>2. pc'[j] = "record"
    BY <1>0, <2>1, GoFacts
  <2>3. CodingSound(j)'
    BY <1>2, <2>1, <2>2 DEF CodingSound
  <2>4. FrameSound(j)'
    BY <2>1, <2>2 DEF Kept, FrameSound, SameStore, Resting
  <2>5. RepairsAt(pc[j])'
    BY <2>1, <2>2 DEF Kept, RepairsAt, SameStore
  <2> QED
    BY <1>1, <2>3, <2>4, <2>5 DEF Kept
<1>5. CASE ReadResult(j)
  <2> DEFINE g == [NoFrame EXCEPT !.task = status]
  <2>1. Moved(j, "clear", g) /\ pc[j] = "coded"
    BY <1>0, <1>5 DEF ReadResult, Moved
  <2>2. pc'[j] = "clear" /\ frame'[j] = g
    BY <1>0, <2>1, MoveFacts
  <2>3. g.task = status /\ g.review = 0
    BY <1>0, EmptyFrames
  <2> HIDE DEF g
  <2>4. CodingSound(j)'
    BY <1>2, <2>1, <2>2 DEF CodingSound
  <2>a. status \in {"in_review", "failed"} /\ proj.blocking = TRUE
    BY <2>1 DEF Kept, FrameSound, Resting
  <2>5. FrameSound(j)'
    BY <2>2, <2>3, <2>a DEF FrameSound, SameStore, Resting
  <2>6. RepairsAt(pc[j])'
    BY <2>1, <2>2 DEF Kept, RepairsAt, SameStore
  <2> QED
    BY <1>1, <2>1, <2>2, <2>4, <2>5, <2>6 DEF Kept
<1>6. CASE ReviewRaises(j)
  <2>1. Raise(j) /\ pc[j] = "review"
    BY <1>6 DEF ReviewRaises
  <2>2. status = "in_review"
    BY <2>1 DEF Kept, FrameSound, Resting
  <2> QED
    BY <1>0, <2>1, <2>2, JobRaises
<1>7. CASE SkipApproval(j)
  BY <1>7 DEF SkipApproval, Kept, FrameSound, Resting
<1>8. CASE RefuseVerdict(j)
  BY <1>8 DEF RefuseVerdict, Kept, FrameSound, Acceptable, Open
<1>9. CASE Comment(j)
  <2> DEFINE g == [f EXCEPT !.task = status]
             place == IF f.goal = "handoff" THEN "suspend" ELSE "deliver"
  <2>1. Moved(j, place, g) /\ pc[j] = "comment"
    BY <1>9 DEF Comment, Moved
  <2>2. pc'[j] = place /\ frame'[j] = g
    BY <1>0, <2>1, MoveFacts
  <2>3. g.task = status /\ g.review = f.review /\ g.goal = f.goal
    BY <1>0, TaskChanged
  <2> HIDE DEF g
  <2>4. CodingSound(j)'
    BY <1>2, <2>1, <2>2, <2>3 DEF Kept, CodingSound, SameStore
  <2>5. FrameSound(j)'
    BY <2>1, <2>2, <2>3 DEF Kept, FrameSound, SameStore, Resting, Open
  <2>6. RepairsAt(pc[j])'
    BY <2>1, <2>2 DEF Kept, RepairsAt, SameStore
  <2> QED
    BY <1>1, <2>1, <2>2, <2>4, <2>5, <2>6 DEF Kept
<1>10. CASE CommentRaises(j)
  <2>1. Raise(j) /\ pc[j] = "comment"
    BY <1>10 DEF CommentRaises
  <2>2. f.goal # "escalate"
    BY <2>1 DEF Kept, FrameSound, Resting
  <2> QED
    BY <1>0, <2>1, <2>2, JobRaises
<1>11. CASE ReturnTask(j)
  <2>1. Moved(j, "idle", NoFrame) /\ pc[j] = "deliver"
    BY <1>11 DEF ReturnTask, Finish, Moved
  <2>2. pc'[j] = "idle" /\ frame'[j] = NoFrame
    BY <1>0, <2>1, MoveFacts
  <2>3. NoFrame.review = 0
    BY EmptyFrames
  <2>4. status \notin Open
    BY <2>1 DEF Kept, FrameSound, Resting
  <2>5. CodingSound(j)'
    BY <1>2, <2>1, <2>2 DEF CodingSound
  <2>6. FrameSound(j)'
    BY <2>2, <2>3 DEF FrameSound, SameStore, Resting
  <2>7. RepairsAt(pc[j])'
    BY <2>2, <2>4 DEF RepairsAt, SameStore, Open
  <2> QED
    BY <1>1, <2>1, <2>2, <2>5, <2>6, <2>7 DEF Kept
<1>12. CASE Escalate(j)
  <2> DEFINE place == IF status \in Open THEN "suspend" ELSE "handOver"
  <2>1. GoTo(j, place) /\ frame' = frame /\ pc[j] = "error"
    BY <1>12 DEF Escalate
  <2>2. pc'[j] = place
    BY <1>0, <2>1, GoFacts
  <2>3. CodingSound(j)'
    BY <1>2, <2>1, <2>2 DEF CodingSound
  <2>4. FrameSound(j)'
    BY <2>1, <2>2 DEF Kept, FrameSound, SameStore, Resting
  <2>5. RepairsAt(pc[j])'
    BY <2>1, <2>2 DEF Kept, RepairsAt, SameStore
  <2> QED
    BY <1>1, <2>1, <2>2, <2>3, <2>4, <2>5 DEF Kept
<1> QED
  BY <1>3, <1>4, <1>5, <1>6, <1>7, <1>8, <1>9, <1>10, <1>11, <1>12

(* The write lock: taken, dropped, or not to be had.                       *)
LEMMA LockKeeps ==
  ASSUME NEW j \in Threads, ~Front(j), Sound, Kept(j), faults' \in Nat,
         BeginCoding(j) \/ CodingRaises(j) \/ LockTimeout(j)
  PROVE  Kept(j)'
<1>0. /\ j \in Threads /\ j # None
      /\ rev \in Nat /\ faults \in Nat /\ MaxRounds \in Nat /\ Blocking(reviews) \in Nat
  BY TypeFacts, NoneAssumption
<1>1. SameStore /\ faults <= faults'
  BY <1>0 DEF SameStore, store, BeginCoding, CodingRaises, LockTimeout, Fault
<1>2. ProjectionSound' /\ DeliveredSound' /\ RoundsLeft'
  BY <1>1, SameStoreKeeps DEF Kept
<1>3. coder = j <=> pc[j] = "coding"
  BY DEF Kept, CodingSound
<1>4. CASE BeginCoding(j)
  <2>1. GoTo(j, "coding") /\ frame' = frame /\ pc[j] = "start" /\ coder' = j /\ faults' = faults
        /\ frame[j].seen = "changes_requested"
    BY <1>4 DEF BeginCoding
  <2>2. pc'[j] = "coding"
    BY <1>0, <2>1, GoFacts
  <2>3. CodingSound(j)'
    BY <2>1, <2>2, <1>1 DEF Kept, CodingSound, SameStore
  <2>4. FrameSound(j)'
    BY <2>1, <2>2, <1>1 DEF Kept, FrameSound, SameStore, Resting
  <2>5. RepairsAt(pc[j])'
    BY <2>1, <2>2, <1>1 DEF Kept, RepairsAt, SameStore
  <2> QED
    BY <1>2, <2>1, <2>2, <2>3, <2>4, <2>5 DEF Kept
<1>5. CASE CodingRaises(j)
  <2>1. GoTo(j, "record") /\ frame' = frame /\ pc[j] = "coding" /\ coder' = None /\ faults' = faults
    BY <1>5 DEF CodingRaises
  <2>2. pc'[j] = "record"
    BY <1>0, <2>1, GoFacts
  <2>3. CodingSound(j)'
    BY <1>0, <2>1, <2>2, <1>1 DEF Kept, CodingSound, SameStore
  <2>4. FrameSound(j)'
    BY <2>1, <2>2, <1>1 DEF Kept, FrameSound, SameStore, Resting
  <2>5. RepairsAt(pc[j])'
    BY <2>1, <2>2, <1>1 DEF Kept, RepairsAt, SameStore
  <2> QED
    BY <1>2, <2>1, <2>2, <2>3, <2>4, <2>5 DEF Kept
<1>6. CASE LockTimeout(j)
  <2>1. pc[j] \in Writing /\ faults' = faults + 1 /\ coder' = coder
    BY <1>6 DEF LockTimeout, Fault
  <2>2. CASE pc[j] = "start"
    <3>1. GoTo(j, "record") /\ frame' = frame
      BY <1>6, <2>2 DEF LockTimeout
    <3>2. pc'[j] = "record"
      BY <1>0, <3>1, GoFacts
    <3>3. CodingSound(j)'
      BY <1>3, <2>1, <2>2, <3>2, <1>1 DEF Kept, CodingSound, SameStore
    <3>4. FrameSound(j)'
      BY <2>2, <3>1, <3>2, <1>1 DEF Kept, FrameSound, SameStore, Resting
    <3>5. status \in Open /\ proj.blocking = TRUE => rev <= Blocking(reviews) + faults'
      <4>1. status \in Open /\ proj.blocking = TRUE => rev <= Blocking(reviews) + faults
        BY <2>2 DEF Kept, RepairsAt
      <4> QED
        BY <1>0, <2>1, <4>1
    <3>6. RepairsAt(pc[j])'
      BY <3>2, <3>5, <1>1 DEF RepairsAt, SameStore
    <3> QED
      BY <1>2, <2>1, <2>2, <3>2, <3>3, <3>4, <3>6 DEF Kept
  <2>3. CASE pc[j] # "start"
    <3>1. Raise(j)
      BY <1>6, <2>3 DEF LockTimeout
    <3>2. pc[j] \notin {"idle", "coding", "coded"}
      BY <2>1 DEF Writing
    <3> QED
      BY <1>1, <2>1, <3>1, <3>2, JobRaises
  <2> QED
    BY <2>2, <2>3
<1> QED
  BY <1>4, <1>5, <1>6

(* The job codes the change again, or records that it could not.           *)
LEMMA RecodeKeeps ==
  ASSUME NEW j \in Threads, ~Front(j), Sound, Kept(j),
         CodingPasses(j) \/ CodingFails(j) \/ RecordFailure(j)
  PROVE  Kept(j)'
<1> DEFINE f == frame[j]
<1>0. /\ j \in Threads /\ f \in Frames
      /\ j # None /\ rev \in Nat /\ faults \in Nat /\ MaxRounds \in Nat
      /\ Blocking(reviews) \in Nat /\ Len(reviews) \in Nat /\ reviews \in Seq(Reviews)
      /\ status \in Statuses /\ f.review \in Nat
      /\ proj.blocking \in BOOLEAN \cup {None} /\ proj.status \in Verdicts \cup {None}
      /\ proj.count \in Nat
  BY TypeFacts, FrameTypes, NoneAssumption DEF Sound
<1>1. coder = j <=> pc[j] = "coding"
  BY DEF Kept, CodingSound
<1>2. pc[j] = "coding" =>
        /\ delivered = {} /\ status = "changes_requested" /\ proj.blocking = TRUE
        /\ Len(reviews) > 0 /\ Latest.blocking = TRUE /\ proj.count = Blocking(reviews)
        /\ rev <= Blocking(reviews) + faults /\ Blocking(reviews) < MaxRounds
  <2>1. SUFFICES ASSUME pc[j] = "coding" PROVE status = "changes_requested"
    BY NoneLaw DEF Kept, ProjectionSound, DeliveredSound, RepairsAt, Open
  <2> QED
    BY <2>1 DEF Kept, CodingSound
<1>3. reviews' = reviews /\ proj' = proj /\ delivered' = delivered /\ faults' = faults
      /\ Latest' = Latest /\ Blocking(reviews)' = Blocking(reviews)
      /\ ctl' = status' /\ status' \in {"in_review", "failed", "needs_attention"}
  BY DEF CodingPasses, CodingFails, RecordFailure, SetTaskStatus, Latest, Blocking
<1>4. ProjectionSound' /\ DeliveredSound'
  <2>1. CASE pc[j] = "coding"
    BY <1>2, <1>3, <2>1 DEF Kept, ProjectionSound, DeliveredSound
  <2>2. CASE pc[j] # "coding"
    <3>1. status' = "needs_attention" /\ rev' = rev
      BY <2>2 DEF CodingPasses, CodingFails, RecordFailure, SetTaskStatus
    <3> QED
      BY <1>3, <3>1 DEF Kept, ProjectionSound, DeliveredSound
  <2> QED
    BY <2>1, <2>2
<1>5. CASE CodingPasses(j)
  <2>1. GoTo(j, "coded") /\ frame' = frame /\ pc[j] = "coding" /\ coder' = None
        /\ rev' = rev + 1 /\ status' = "in_review"
    BY <1>5 DEF CodingPasses, SetTaskStatus
  <2>2. pc'[j] = "coded"
    BY <1>0, <2>1, GoFacts
  <2>3. Blocking(reviews) < MaxRounds /\ rev <= Blocking(reviews) + faults
    BY <1>2, <2>1
  <2>4. rev + 1 <= Blocking(reviews) + 1 + faults /\ rev + 1 <= MaxRounds + faults
    BY <1>0, <2>3
  <2>5. RoundsLeft'
    BY <1>2, <1>3, <2>1, <2>4, NoneLaw DEF RoundsLeft
  <2>6. CodingSound(j)'
    BY <1>0, <2>1, <2>2 DEF CodingSound
  <2>7. FrameSound(j)'
    BY <1>2, <1>3, <2>1, <2>2 DEF Kept, FrameSound, Resting
  <2>8. RepairsAt(pc[j])'
    BY <1>3, <2>1, <2>2, <2>3, <2>4 DEF RepairsAt
  <2> QED
    BY <1>4, <2>1, <2>2, <2>5, <2>6, <2>7, <2>8 DEF Kept
<1>6. CASE CodingFails(j)
  <2>1. GoTo(j, "coded") /\ frame' = frame /\ pc[j] = "coding" /\ coder' = None
        /\ rev' = rev /\ status' = "failed"
    BY <1>6 DEF CodingFails, SetTaskStatus
  <2>2. pc'[j] = "coded"
    BY <1>0, <2>1, GoFacts
  <2>3. RoundsLeft'
    BY <1>3, <2>1 DEF Kept, RoundsLeft
  <2>4. CodingSound(j)'
    BY <1>0, <2>1, <2>2 DEF CodingSound
  <2>5. FrameSound(j)'
    BY <1>2, <1>3, <2>1, <2>2 DEF Kept, FrameSound, Resting
  <2>6. RepairsAt(pc[j])'
    BY <2>1, <2>2 DEF RepairsAt, Open
  <2> QED
    BY <1>4, <2>1, <2>2, <2>3, <2>4, <2>5, <2>6 DEF Kept
<1>7. CASE RecordFailure(j)
  <2>1. Raise(j) /\ pc[j] = "record" /\ coder' = coder /\ rev' = rev /\ status' = "needs_attention"
    BY <1>7 DEF RecordFailure, SetTaskStatus
  <2>2. /\ pc'[j] \in {"idle", "error"} /\ frame'[j].review = 0
    BY <2>1, RaiseMoves
  <2>3. RoundsLeft'
    BY <1>3, <2>1 DEF Kept, RoundsLeft
  <2>4. CodingSound(j)'
    BY <1>1, <2>1, <2>2 DEF CodingSound
  <2>5. FrameSound(j)'
    BY <2>2 DEF FrameSound, Resting
  <2>6. RepairsAt(pc[j])'
    BY <2>1, <2>2 DEF RepairsAt, Open
  <2> QED
    BY <1>4, <2>1, <2>2, <2>3, <2>4, <2>5, <2>6 DEF Kept
<1> QED
  BY <1>5, <1>6, <1>7

(* The job reviews the head and shows the review on the control task.      *)
LEMMA ReviewKeeps ==
  ASSUME NEW j \in Threads, ~Front(j), Sound, Kept(j),
         \/ ClearProjection(j) \/ \E blocking \in BOOLEAN : InsertReview(j, blocking)
         \/ ProjectReview(j)
  PROVE  Kept(j)'
<1> DEFINE f == frame[j]
<1>0. /\ j \in Threads /\ f \in Frames
      /\ j # None /\ rev \in Nat /\ faults \in Nat /\ MaxRounds \in Nat
      /\ Blocking(reviews) \in Nat /\ Len(reviews) \in Nat /\ reviews \in Seq(Reviews)
      /\ status \in Statuses /\ f.review \in Nat
      /\ proj.blocking \in BOOLEAN \cup {None} /\ proj.status \in Verdicts \cup {None}
      /\ proj.count \in Nat
  BY TypeFacts, FrameTypes, NoneAssumption DEF Sound
<1>1. coder = j <=> pc[j] = "coding"
  BY DEF Kept, CodingSound
<1>2. status' = status /\ rev' = rev /\ ctl' = ctl /\ delivered' = delivered /\ faults' = faults
      /\ coder' = coder
  BY DEF ClearProjection, InsertReview, ProjectReview
<1>3. DeliveredSound'
  <2>1. pc[j] \in {"clear", "review", "project"}
    BY DEF ClearProjection, InsertReview, ProjectReview
  <2>2. status \in {"in_review", "failed"}
    BY <2>1 DEF Kept, FrameSound
  <2> QED
    BY <1>2, <2>2 DEF Kept, DeliveredSound
<1>4. CASE ClearProjection(j)
  <2>1. /\ GoTo(j, "loop") /\ frame' = frame /\ pc[j] = "clear" /\ reviews' = reviews
        /\ proj' = [proj EXCEPT !.blocking = None, !.status = None]
    BY <1>4 DEF ClearProjection
  <2>2. pc'[j] = "loop"
    BY <1>0, <2>1, GoFacts
  <2>3. proj'.blocking = None
    BY <2>1 DEF Sound, TypeOK
  <2>4. /\ status \in {"in_review", "failed"} /\ proj.blocking = TRUE
        /\ f.task = status /\ f.review = 0
    BY <2>1 DEF Kept, FrameSound, Resting
  <2>5. status = "in_review" => rev <= Blocking(reviews) + 1 + faults
    BY <2>1, <2>4 DEF Kept, RepairsAt, Open
  <2>6. ProjectionSound'
    BY <1>2, <2>3, <2>4 DEF ProjectionSound
  <2>7. RoundsLeft'
    BY <1>2, <2>1, <2>5 DEF Kept, RoundsLeft, Blocking
  <2>8. CodingSound(j)'
    BY <1>1, <1>2, <2>1, <2>2 DEF CodingSound
  <2>9. FrameSound(j)'
    BY <1>2, <2>1, <2>2, <2>4 DEF FrameSound, Resting
  <2>10. RepairsAt(pc[j])'
    BY <1>2, <2>2, <2>3, <2>4, NoneLaw DEF RepairsAt
  <2> QED
    BY <1>2, <1>3, <2>1, <2>2, <2>6, <2>7, <2>8, <2>9, <2>10 DEF Kept
<1>5. ASSUME NEW b \in BOOLEAN, InsertReview(j, b) PROVE Kept(j)'
  <2> DEFINE r == [rev |-> f.head, blocking |-> b, status |-> "completed"]
             g == [f EXCEPT !.review = Len(reviews) + 1]
  <2>1. Moved(j, "project", g) /\ pc[j] = "review" /\ proj' = proj /\ reviews' = Append(reviews, r)
    BY <1>5 DEF InsertReview, Moved
  <2>2. pc'[j] = "project" /\ frame'[j] = g
    BY <1>0, <2>1, MoveFacts
  <2>3. status = "in_review" /\ f.task = "in_review" /\ f.head = rev /\ proj.blocking = None
    BY <2>1 DEF Kept, FrameSound, Resting
  <2>4. g.review = Len(reviews) + 1 /\ g.task = f.task /\ g.head = f.head
    BY <1>0, ReviewChanged
  <2>5. r \in Reviews /\ r.rev = rev /\ r.blocking = b
    BY <1>0, <2>3 DEF Reviews, Verdicts
  <2> HIDE DEF g, r
  <2>6. Len(reviews') = Len(reviews) + 1 /\ Latest' = r
    BY <1>0, <2>1, <2>5 DEF Latest
  <2>7. Blocking(reviews') = IF b THEN Blocking(reviews) + 1 ELSE Blocking(reviews)
    BY <1>0, <2>1, <2>5, BlockingAppend
  <2>8. rev <= Blocking(reviews) + 1 + faults /\ rev <= MaxRounds + faults
    BY <2>3 DEF Kept, RoundsLeft
  <2>9. rev <= Blocking(reviews') + 1 + faults /\ (b => rev <= Blocking(reviews') + faults)
    BY <1>0, <2>7, <2>8
  <2>10. ProjectionSound'
    BY <1>2, <2>1, <2>3 DEF ProjectionSound
  <2>11. RoundsLeft'
    BY <1>2, <2>8, <2>9 DEF RoundsLeft
  <2>12. CodingSound(j)'
    BY <1>1, <1>2, <2>1, <2>2 DEF CodingSound
  <2>13. FrameSound(j)'
    BY <1>0, <1>2, <2>1, <2>2, <2>3, <2>4, <2>5, <2>6 DEF FrameSound, Resting
  <2>14. RepairsAt(pc[j])'
    BY <1>2, <2>1, <2>2, <2>3, <2>5, <2>6, <2>9, NoneLaw DEF RepairsAt
  <2> QED
    BY <1>2, <1>3, <2>1, <2>2, <2>10, <2>11, <2>12, <2>13, <2>14 DEF Kept
<1>6. CASE ProjectReview(j)
  <2>1. /\ GoTo(j, "loop") /\ frame' = frame /\ pc[j] = "project" /\ reviews' = reviews
        /\ proj' = [blocking |-> reviews[f.review].blocking, status |-> "completed",
                    count |-> Blocking(reviews)]
    BY <1>6 DEF ProjectReview, Project
  <2>2. pc'[j] = "loop"
    BY <1>0, <2>1, GoFacts
  <2>3. /\ status = "in_review" /\ f.task = "in_review"
        /\ f.review = Len(reviews) /\ f.review > 0 /\ Latest.rev = rev
    BY <2>1 DEF Kept, FrameSound, Resting
  <2>4. Latest \in Reviews /\ Latest.blocking \in BOOLEAN
    <3>1. Len(reviews) \in 1..Len(reviews)
      BY <1>0, <2>3
    <3>2. Latest \in Reviews
      BY <1>0, <3>1 DEF Latest
    <3> QED
      BY <3>2 DEF Reviews
  <2>5. proj'.blocking = Latest.blocking /\ proj'.count = Blocking(reviews) /\ Latest' = Latest
        /\ Blocking(reviews)' = Blocking(reviews) /\ Len(reviews') = Len(reviews)
    BY <2>1, <2>3 DEF Latest, Blocking
  <2>6. Latest.blocking => rev <= Blocking(reviews) + faults
    BY <2>1 DEF Kept, RepairsAt
  <2>7. ProjectionSound'
    BY <1>2, <2>3, <2>5 DEF ProjectionSound
  <2>8. RoundsLeft'
    BY <1>2, <2>4, <2>5, NoneLaw DEF Kept, RoundsLeft
  <2>9. CodingSound(j)'
    BY <1>1, <1>2, <2>1, <2>2 DEF CodingSound
  <2>10. FrameSound(j)'
    BY <1>2, <2>1, <2>2, <2>3, <2>4, <2>5, NoneLaw DEF FrameSound, Resting
  <2>11. RepairsAt(pc[j])'
    BY <1>2, <2>2, <2>3, <2>5, <2>6 DEF RepairsAt
  <2> QED
    BY <1>2, <1>3, <2>1, <2>2, <2>7, <2>8, <2>9, <2>10, <2>11 DEF Kept
<1> QED
  BY <1>4, <1>5, <1>6

(* The job carries a verdict out: the review, its projection, the task.    *)
LEMMA VerdictKeeps ==
  ASSUME NEW j \in Threads, ~Front(j), Sound, Kept(j),
         \/ MarkReview(j) \/ ProjectVerdict(j)
         \/ SendBack(j) \/ Approve(j)
  PROVE  Kept(j)'
<1> DEFINE f == frame[j]
<1>0. /\ j \in Threads /\ f \in Frames
      /\ j # None /\ rev \in Nat /\ faults \in Nat /\ MaxRounds \in Nat
      /\ Blocking(reviews) \in Nat /\ Len(reviews) \in Nat /\ reviews \in Seq(Reviews)
      /\ status \in Statuses /\ f.review \in Nat
      /\ proj.blocking \in BOOLEAN \cup {None} /\ proj.status \in Verdicts \cup {None}
      /\ proj.count \in Nat
  BY TypeFacts, FrameTypes, NoneAssumption DEF Sound
<1>1. coder = j <=> pc[j] = "coding"
  BY DEF Kept, CodingSound
<1>2. /\ status = "in_review" /\ f.review = Len(reviews) /\ proj.blocking # None
      /\ f.goal \in Goals /\ (f.goal = "approve_review" <=> proj.blocking = FALSE)
      /\ f.goal = "request_changes" => Blocking(reviews) < MaxRounds
      /\ pc[j] \in {"mark", "projectVerdict", "applying"}
      /\ frame' = frame /\ rev' = rev /\ delivered' = delivered /\ faults' = faults /\ coder' = coder
  BY DEF Kept, FrameSound, MarkReview, ProjectVerdict, SendBack, Approve
<1>3. /\ Len(reviews) > 0 /\ Latest.blocking = proj.blocking /\ proj.count = Blocking(reviews)
      /\ proj.blocking = FALSE => Latest.rev = rev
      /\ delivered = {} /\ proj.blocking \in BOOLEAN
  BY <1>0, <1>2 DEF Kept, ProjectionSound, DeliveredSound
<1>4. proj.blocking = TRUE => rev <= Blocking(reviews) + faults
  BY <1>2 DEF Kept, RepairsAt, Open
<1>5. rev <= MaxRounds + faults
  BY DEF Kept, RoundsLeft
<1>6. VerdictOf(f.goal) \in Verdicts
  BY DEF VerdictOf, Verdicts
<1>7. CASE MarkReview(j)
  <2> DEFINE v == VerdictOf(f.goal)
             marked == [reviews EXCEPT ![Len(reviews)].status = v]
  <2>1. /\ GoTo(j, "projectVerdict") /\ pc[j] = "mark" /\ reviews' = marked
        /\ status' = status /\ ctl' = ctl /\ proj' = proj
    BY <1>2, <1>7 DEF MarkReview
  <2>2. pc'[j] = "projectVerdict"
    BY <1>0, <2>1, GoFacts
  <2>3. Len(reviews) \in 1..Len(reviews)
    BY <1>0, <1>3
  <2>4. /\ Len(marked) = Len(reviews) /\ Blocking(marked) = Blocking(reviews)
        /\ marked[Len(reviews)].rev = Latest.rev /\ marked[Len(reviews)].blocking = Latest.blocking
        /\ marked[Len(reviews)].status = v
    <3>1. v \in Verdicts /\ reviews \in Seq(Reviews)
      BY <1>0, <1>6
    <3> HIDE DEF v
    <3>2. /\ Len(marked) = Len(reviews) /\ Blocking(marked) = Blocking(reviews)
          /\ \A i \in 1..Len(reviews) : /\ marked[i].rev = reviews[i].rev
                                      /\ marked[i].blocking = reviews[i].blocking
                                      /\ marked[i].status = IF i = Len(reviews) THEN v
                                                          ELSE reviews[i].status
      BY <2>3, <3>1, BlockingMarked
    <3> QED
      BY <2>3, <3>2 DEF Latest
  <2> HIDE DEF marked
  <2>5. /\ Len(reviews') = Len(reviews) /\ Blocking(reviews)' = Blocking(reviews)
        /\ Latest'.rev = Latest.rev /\ Latest'.blocking = Latest.blocking /\ Latest'.status = v
    BY <2>1, <2>4 DEF Latest, Blocking
  <2>6. ProjectionSound'
    BY <1>2, <1>3, <2>1, <2>5 DEF ProjectionSound
  <2>7. DeliveredSound'
    BY <1>2, <2>1 DEF Kept, DeliveredSound
  <2>8. RoundsLeft'
    BY <1>2, <1>5, <2>1 DEF RoundsLeft
  <2>9. CodingSound(j)'
    BY <1>1, <1>2, <2>1, <2>2 DEF CodingSound
  <2>10. FrameSound(j)'
    BY <1>2, <2>1, <2>2, <2>5 DEF FrameSound, Resting
  <2>11. RepairsAt(pc[j])'
    BY <1>2, <1>4, <2>1, <2>2, <2>5 DEF RepairsAt
  <2> QED
    BY <1>2, <2>1, <2>2, <2>6, <2>7, <2>8, <2>9, <2>10, <2>11 DEF Kept
<1>8. CASE ProjectVerdict(j)
  <2>1. /\ GoTo(j, "apply") /\ pc[j] = "projectVerdict" /\ reviews' = reviews
        /\ status' = status /\ ctl' = ctl
        /\ proj' = [blocking |-> reviews[f.review].blocking, status |-> VerdictOf(f.goal),
                    count |-> Blocking(reviews)]
    BY <1>8 DEF ProjectVerdict, Project
  <2>2. pc'[j] = "apply"
    BY <1>0, <2>1, GoFacts
  <2>3. /\ proj'.blocking = proj.blocking /\ proj'.status = VerdictOf(f.goal)
        /\ proj'.count = Blocking(reviews) /\ Latest' = Latest
        /\ Blocking(reviews)' = Blocking(reviews) /\ Len(reviews') = Len(reviews)
    BY <1>2, <1>3, <2>1 DEF Latest, Blocking
  <2>4. Latest.status = VerdictOf(f.goal)
    BY <2>1 DEF Kept, FrameSound, Resting
  <2>5. ProjectionSound'
    BY <1>2, <1>3, <2>1, <2>3 DEF ProjectionSound
  <2>6. DeliveredSound'
    BY <1>2, <2>1 DEF Kept, DeliveredSound
  <2>7. RoundsLeft'
    BY <1>2, <1>5, <2>1, <2>3 DEF RoundsLeft
  <2>8. CodingSound(j)'
    BY <1>1, <1>2, <2>1, <2>2 DEF CodingSound
  <2>9. FrameSound(j)'
    BY <1>2, <2>1, <2>2, <2>3, <2>4 DEF FrameSound, Resting
  <2>10. RepairsAt(pc[j])'
    BY <1>2, <1>4, <2>1, <2>2, <2>3 DEF RepairsAt
  <2> QED
    BY <1>2, <2>1, <2>2, <2>5, <2>6, <2>7, <2>8, <2>9, <2>10 DEF Kept
<1>9. CASE SendBack(j) \/ Approve(j)
  <2>1. /\ pc[j] = "applying" /\ reviews' = reviews /\ proj' = proj
        /\ Latest' = Latest /\ Blocking(reviews)' = Blocking(reviews) /\ ctl' = status'
        /\ status' \in {"changes_requested", "approved"}
        /\ status' = "approved" <=> f.goal = "approve_review"
    BY <1>9 DEF SendBack, Approve, SetTaskStatus, Latest, Blocking
  <2>2. Latest.status = VerdictOf(f.goal) /\ proj.status = VerdictOf(f.goal)
    BY <2>1 DEF Kept, FrameSound, Resting
  <2>3. PICK place \in {"comment", "code"} :
          /\ GoTo(j, place)
          /\ place = "comment" <=> f.goal \in {"handoff", "approve_review"}
    BY <1>9 DEF SendBack, Approve
  <2>4. pc'[j] = place
    BY <1>0, <2>3, GoFacts
  <2>5. status' = "approved" => proj.blocking = FALSE /\ VerdictOf(f.goal) = "approved"
    BY <1>2, <2>1 DEF VerdictOf
  <2>6. status' = "changes_requested" => proj.blocking = TRUE
    BY <1>2, <1>3, <2>1
  <2>7. place = "code" => f.goal = "request_changes"
    BY <1>2, <2>3 DEF Goals
  <2>8. ProjectionSound'
    BY <1>2, <1>3, <2>1, <2>2, <2>5, <2>6 DEF ProjectionSound
  <2>9. DeliveredSound'
    BY <1>2, <1>3, <2>1 DEF DeliveredSound
  <2>10. RoundsLeft'
    BY <1>2, <1>5, <2>1 DEF RoundsLeft
  <2>11. CodingSound(j)'
    BY <1>1, <1>2, <2>1, <2>3, <2>4, <2>7 DEF CodingSound
  <2>12. FrameSound(j)'
    BY <1>2, <2>1, <2>3, <2>4, <2>7 DEF FrameSound, Resting, Goals
  <2>13. RepairsAt(pc[j])'
    BY <1>2, <1>4, <2>1, <2>4, <2>7 DEF RepairsAt
  <2> QED
    BY <1>2, <2>1, <2>4, <2>8, <2>9, <2>10, <2>11, <2>12, <2>13 DEF Kept
<1> QED
  BY <1>7, <1>8, <1>9

(* The job ends the task: suspended, recorded, out of the lane, delivered. *)
LEMMA EndKeeps ==
  ASSUME NEW j \in Threads, ~Front(j), Sound, Kept(j),
         \/ Suspend(j) \/ HandOver(j) \/ ReleaseLane(j)
         \/ Deliver(j) \/ Complete(j)
  PROVE  Kept(j)'
<1> DEFINE f == frame[j]
<1>0. /\ j \in Threads /\ f \in Frames
      /\ j # None /\ rev \in Nat /\ faults \in Nat /\ MaxRounds \in Nat
      /\ Blocking(reviews) \in Nat /\ Len(reviews) \in Nat /\ reviews \in Seq(Reviews)
      /\ status \in Statuses /\ f.review \in Nat
      /\ proj.blocking \in BOOLEAN \cup {None} /\ proj.status \in Verdicts \cup {None}
      /\ proj.count \in Nat
  BY TypeFacts, FrameTypes, NoneAssumption DEF Sound
<1>1. coder = j <=> pc[j] = "coding"
  BY DEF Kept, CodingSound
<1>2. /\ reviews' = reviews /\ proj' = proj /\ rev' = rev /\ faults' = faults /\ coder' = coder
      /\ Latest' = Latest /\ Blocking(reviews)' = Blocking(reviews)
      /\ status' \in {status, "needs_attention"}
  BY DEF Suspend, HandOver, ReleaseLane, Deliver, Complete, SetTaskStatus, Latest, Blocking
<1>3. ProjectionSound'
  BY <1>2 DEF Kept, ProjectionSound
<1>4. RoundsLeft'
  BY <1>2 DEF Kept, RoundsLeft
<1>5. CASE Suspend(j)
  <2>1. GoTo(j, "handOver") /\ frame' = frame /\ pc[j] = "suspend"
        /\ status' = "needs_attention" /\ ctl' = "needs_attention" /\ delivered' = delivered
    BY <1>5 DEF Suspend, SetTaskStatus
  <2>2. pc'[j] = "handOver"
    BY <1>0, <2>1, GoFacts
  <2>3. status \in Open
    BY <2>1 DEF Kept, FrameSound, Resting
  <2>4. DeliveredSound'
    BY <2>1, <2>3 DEF Kept, DeliveredSound, Open
  <2>5. CodingSound(j)'
    BY <1>1, <1>2, <2>1, <2>2 DEF CodingSound
  <2>6. FrameSound(j)'
    BY <1>2, <2>1, <2>2 DEF Kept, FrameSound, Resting, Open
  <2>7. RepairsAt(pc[j])'
    BY <2>1, <2>2 DEF RepairsAt, Open
  <2> QED
    BY <1>2, <1>3, <1>4, <2>1, <2>2, <2>4, <2>5, <2>6, <2>7 DEF Kept
<1>6. CASE HandOver(j)
  <2>1. GoTo(j, "release") /\ frame' = frame /\ pc[j] = "handOver"
        /\ status' = status /\ ctl' = "needs_attention" /\ delivered' = delivered
    BY <1>6 DEF HandOver
  <2>2. pc'[j] = "release"
    BY <1>0, <2>1, GoFacts
  <2>3. status \notin Open
    BY <2>1 DEF Kept, FrameSound, Resting
  <2>4. DeliveredSound'
    BY <1>2, <2>1 DEF Kept, DeliveredSound
  <2>5. CodingSound(j)'
    BY <1>1, <1>2, <2>1, <2>2 DEF CodingSound
  <2>6. FrameSound(j)'
    BY <1>2, <2>1, <2>2, <2>3 DEF Kept, FrameSound, Resting
  <2>7. RepairsAt(pc[j])'
    BY <2>1, <2>2, <2>3 DEF RepairsAt
  <2> QED
    BY <1>2, <1>3, <1>4, <2>1, <2>2, <2>4, <2>5, <2>6, <2>7 DEF Kept
<1>7. CASE ReleaseLane(j)
  <2>1. Moved(j, "idle", NoFrame) /\ pc[j] = "release"
        /\ status' = status /\ ctl' = ctl /\ delivered' = delivered
    BY <1>7 DEF ReleaseLane, Finish, Moved
  <2>2. pc'[j] = "idle" /\ frame'[j] = NoFrame
    BY <1>0, <2>1, MoveFacts
  <2>3. status \notin Open
    BY <2>1 DEF Kept, FrameSound, Resting
  <2>4. DeliveredSound'
    BY <1>2, <2>1 DEF Kept, DeliveredSound
  <2>5. CodingSound(j)'
    BY <1>1, <1>2, <2>1, <2>2 DEF CodingSound
  <2>6. FrameSound(j)'
    BY <2>2, EmptyFrames DEF FrameSound, Resting
  <2>7. RepairsAt(pc[j])'
    BY <2>1, <2>2, <2>3 DEF RepairsAt, Open
  <2> QED
    BY <1>2, <1>3, <1>4, <2>1, <2>2, <2>4, <2>5, <2>6, <2>7 DEF Kept
<1>8. CASE Deliver(j)
  <2>1. GoTo(j, "complete") /\ frame' = frame /\ pc[j] = "deliver" /\ f.task = "approved"
        /\ status' = status /\ ctl' = ctl /\ delivered' = delivered \cup {rev}
    BY <1>8 DEF Deliver, CanDeliver
  <2>2. pc'[j] = "complete"
    BY <1>0, <2>1, GoFacts
  <2>3. status = "approved"
    BY <2>1 DEF Kept, FrameSound, Resting
  <2>4. DeliveredSound'
    <3>1. proj.blocking = FALSE /\ Latest.status = "approved"
      BY <2>3 DEF Kept, ProjectionSound
    <3>2. Len(reviews) > 0 /\ ~Latest.blocking /\ Latest.rev = rev
      BY <3>1, NoneLaw DEF Kept, ProjectionSound
    <3> QED
      BY <1>2, <2>1, <2>3, <3>1, <3>2 DEF Kept, DeliveredSound
  <2>5. CodingSound(j)'
    BY <1>1, <1>2, <2>1, <2>2 DEF CodingSound
  <2>6. FrameSound(j)'
    BY <1>2, <2>1, <2>2, <2>3 DEF Kept, FrameSound, Resting
  <2>7. RepairsAt(pc[j])'
    BY <2>1, <2>2, <2>3 DEF RepairsAt, Open
  <2> QED
    BY <1>2, <1>3, <1>4, <2>1, <2>2, <2>4, <2>5, <2>6, <2>7 DEF Kept
<1>9. CASE Complete(j)
  <2>1. GoTo(j, "release") /\ frame' = frame /\ pc[j] = "complete"
        /\ status' = status /\ ctl' = "completed" /\ delivered' = delivered
    BY <1>9 DEF Complete
  <2>2. pc'[j] = "release"
    BY <1>0, <2>1, GoFacts
  <2>3. status = "approved" /\ rev \in delivered
    BY <2>1 DEF Kept, FrameSound, Resting
  <2>4. DeliveredSound'
    BY <1>2, <2>1, <2>3 DEF Kept, DeliveredSound
  <2>5. CodingSound(j)'
    BY <1>1, <1>2, <2>1, <2>2 DEF CodingSound
  <2>6. FrameSound(j)'
    BY <1>2, <2>1, <2>2, <2>3 DEF Kept, FrameSound, Resting, Open
  <2>7. RepairsAt(pc[j])'
    BY <2>1, <2>2, <2>3 DEF RepairsAt, Open
  <2> QED
    BY <1>2, <1>3, <1>4, <2>1, <2>2, <2>4, <2>5, <2>6, <2>7 DEF Kept
<1> QED
  BY <1>5, <1>6, <1>7, <1>8, <1>9


----------------------------------------------------------------------------
(* The threads together, as long as one at a time is at work.              *)
Orderly ==
  /\ OneWorks /\ ProjectionSound /\ DeliveredSound /\ RoundsLeft /\ RepairsLeft
  /\ \A t \in Threads : CodingSound(t) /\ FrameSound(t)

Sole(t) == \A u \in Threads : u # t => pc[u] \in Resting

(* A front that codes or suspends the task does so while no job is at work.*)
FrontKept(q) ==
  /\ ProjectionSound /\ DeliveredSound /\ RoundsLeft
  /\ CodingSound(q) /\ FrameSound(q) /\ RepairsAt("idle")

LEMMA WorksAlone ==
  ASSUME NEW t \in Threads, OneWorks, OneWorks', pc[t] \notin Resting \/ pc'[t] \notin Resting,
         \A u \in Threads : u # t => pc'[u] = pc[u]
  PROVE  \A u \in Threads : u # t => pc[u] \in Resting /\ pc'[u] \in Resting
BY DEF OneWorks

LEMMA JobThreads == \A p \in Processes : Job(p) \in Threads /\ ~Front(Job(p))
BY DEF Job, Threads, Front

LEMMA JobThread ==
  ASSUME NEW t \in Threads, ~Front(t)
  PROVE  \E p \in Processes : t = Job(p)
BY DEF Job, Threads, Front

(* Where the jobs are while one thread is at work, or none.                *)
LEMMA JobsAt ==
  ASSUME NEW q, NEW j \in Threads, ~Front(j),
         \A u \in Threads : u # j => q[u] \in Resting,
         \A u \in Threads : ~Front(u) => q[u] \in JobPlaces,
         NEW S, S \cap Resting = {}
  PROVE  /\ (\E p \in Processes : q[Job(p)] \in S) <=> q[j] \in S
         /\ (\A p \in Processes : q[Job(p)] \in {"idle", "queued", "loop"}) <=>
              q[j] \in {"idle", "queued", "loop"}
<1>1. PICK p \in Processes : j = Job(p)
  BY JobThread
<1>2. \A r \in Processes : r # p => q[Job(r)] \in Resting /\ q[Job(r)] \in JobPlaces
  <2>1. \A r \in Processes : r # p => Job(r) # j
    BY <1>1 DEF Job
  <2> QED
    BY <2>1, JobThreads
<1>3. \A x : x \in Resting /\ x \in JobPlaces => x \in {"idle", "queued"}
  BY DEF Resting, JobPlaces
<1> QED
  BY <1>1, <1>2, <1>3

LEMMA JobsRest ==
  ASSUME NEW q,
         \A u \in Threads : ~Front(u) => q[u] \in Resting /\ q[u] \in JobPlaces,
         NEW S, S \cap Resting = {}
  PROVE  /\ ~(\E p \in Processes : q[Job(p)] \in S)
         /\ \A p \in Processes : q[Job(p)] \in {"idle", "queued", "loop"}
<1>1. \A p \in Processes : q[Job(p)] \in Resting /\ q[Job(p)] \in JobPlaces
  BY JobThreads
<1>2. \A x : x \in Resting /\ x \in JobPlaces => x \in {"idle", "queued"}
  BY DEF Resting, JobPlaces
<1> QED
  BY <1>1, <1>2

LEMMA NoRest ==
  /\ {"coded", "clear"} \cap Resting = {} /\ {"project"} \cap Resting = {}
  /\ {"code", "start", "coding"} \cap Resting = {}
BY DEF Resting

LEMMA JobPlacesOf == Sound => \A u \in Threads : ~Front(u) => pc[u] \in JobPlaces
BY DEF Sound, TypeOK

LEMMA FrontPlacesOf == Sound => \A u \in Threads : Front(u) => pc[u] \in FrontPlaces
BY DEF Sound, TypeOK

LEMMA JobHolds ==
  ASSUME NEW j \in Threads, ~Front(j), Sound, Orderly, Sole(j)
  PROVE  Kept(j)
<1>1. \A u \in Threads : ~Front(u) => pc[u] \in JobPlaces
  BY JobPlacesOf
<1>2. /\ (\E p \in Processes : pc[Job(p)] \in {"coded", "clear"}) <=> pc[j] \in {"coded", "clear"}
      /\ (\E p \in Processes : pc[Job(p)] \in {"project"}) <=> pc[j] \in {"project"}
      /\ (\E p \in Processes : pc[Job(p)] \in {"code", "start", "coding"}) <=>
           pc[j] \in {"code", "start", "coding"}
      /\ (\A p \in Processes : pc[Job(p)] \in {"idle", "queued", "loop"}) <=>
           pc[j] \in {"idle", "queued", "loop"}
  BY <1>1, JobsAt, NoRest DEF Sole
<1>3. RepairsLeft
  BY DEF Orderly
<1>4. RepairsAt(pc[j])
  BY <1>2, <1>3 DEF RepairsLeft, RepairsAt
<1> QED
  BY <1>4 DEF Orderly, Kept

LEMMA FrontHolds ==
  ASSUME NEW q \in Threads, Front(q), Sound, Orderly, Sole(q)
  PROVE  FrontKept(q)
<1>1. \A u \in Threads : ~Front(u) => pc[u] \in Resting /\ pc[u] \in JobPlaces
  BY JobPlacesOf DEF Sole
<1>2. /\ ~(\E p \in Processes : pc[Job(p)] \in {"coded", "clear"})
      /\ ~(\E p \in Processes : pc[Job(p)] \in {"project"})
      /\ ~(\E p \in Processes : pc[Job(p)] \in {"code", "start", "coding"})
      /\ \A p \in Processes : pc[Job(p)] \in {"idle", "queued", "loop"}
  BY <1>1, JobsRest, NoRest
<1>3. RepairsLeft
  BY DEF Orderly
<1>4. RepairsAt("idle")
  BY <1>2, <1>3 DEF RepairsLeft, RepairsAt
<1> QED
  BY <1>4 DEF Orderly, FrontKept

(* The others are where they were.                                         *)
LEMMA OthersKeep ==
  ASSUME Orderly, NEW t \in Threads, NEW u \in Threads, u # t,
         pc'[u] = pc[u], frame'[u] = frame[u], pc[u] \in Resting, coder' \in {coder, t, None}
  PROVE  CodingSound(u)' /\ FrameSound(u)'
<1>1. coder # u
  BY DEF Orderly, CodingSound, Resting
<1>2. coder' # u
  BY <1>1, NoneAssumption
<1>3. frame[u].review = 0
  BY DEF Orderly, FrameSound
<1>4. CodingSound(u)'
  BY <1>2 DEF CodingSound, Resting
<1>5. FrameSound(u)'
  BY <1>3 DEF FrameSound, Resting
<1> QED
  BY <1>4, <1>5

LEMMA JobGoesOn ==
  ASSUME NEW j \in Threads, ~Front(j), Sound', Orderly, OneWorks',
         \A u \in Threads : u # j => /\ pc'[u] = pc[u] /\ frame'[u] = frame[u]
                                     /\ pc[u] \in Resting,
         coder' \in {coder, j, None}, Kept(j)'
  PROVE  Orderly'
<1>1. \A u \in Threads : ~Front(u) => pc'[u] \in JobPlaces
  BY DEF Sound, TypeOK
<1>2. \A u \in Threads : u # j => pc'[u] \in Resting
  OBVIOUS
<1>3. /\ (\E p \in Processes : pc'[Job(p)] \in {"coded", "clear"}) <=> pc'[j] \in {"coded", "clear"}
      /\ (\E p \in Processes : pc'[Job(p)] \in {"project"}) <=> pc'[j] \in {"project"}
      /\ (\E p \in Processes : pc'[Job(p)] \in {"code", "start", "coding"}) <=>
           pc'[j] \in {"code", "start", "coding"}
      /\ (\A p \in Processes : pc'[Job(p)] \in {"idle", "queued", "loop"}) <=>
           pc'[j] \in {"idle", "queued", "loop"}
  BY <1>1, <1>2, JobsAt, NoRest
<1>4. RepairsAt(pc[j])'
  BY DEF Kept
<1>5. RepairsLeft'
  BY <1>3, <1>4 DEF RepairsLeft, RepairsAt
<1>6. ASSUME NEW u \in Threads PROVE CodingSound(u)' /\ FrameSound(u)'
  <2>1. CASE u = j
    BY <2>1 DEF Kept
  <2>2. CASE u # j
    BY <2>2, OthersKeep
  <2> QED
    BY <2>1, <2>2
<1> QED
  BY <1>5, <1>6 DEF Orderly, Kept

LEMMA FrontGoesOn ==
  ASSUME NEW q \in Threads, Front(q), Sound', Orderly, OneWorks',
         \A u \in Threads : u # q => /\ pc'[u] = pc[u] /\ frame'[u] = frame[u]
                                     /\ pc[u] \in Resting,
         coder' \in {coder, q, None}, FrontKept(q)'
  PROVE  Orderly'
<1>1. \A u \in Threads : ~Front(u) => pc'[u] \in JobPlaces /\ pc'[u] \in Resting
  BY DEF Sound, TypeOK
<1>2. /\ ~(\E p \in Processes : pc'[Job(p)] \in {"coded", "clear"})
      /\ ~(\E p \in Processes : pc'[Job(p)] \in {"project"})
      /\ ~(\E p \in Processes : pc'[Job(p)] \in {"code", "start", "coding"})
      /\ \A p \in Processes : pc'[Job(p)] \in {"idle", "queued", "loop"}
  BY <1>1, JobsRest, NoRest
<1>3. RepairsAt("idle")'
  BY DEF FrontKept
<1>4. RepairsLeft'
  BY <1>2, <1>3 DEF RepairsLeft, RepairsAt
<1>5. ASSUME NEW u \in Threads PROVE CodingSound(u)' /\ FrameSound(u)'
  <2>1. CASE u = q
    BY <2>1 DEF FrontKept
  <2>2. CASE u # q
    BY <2>2, OthersKeep
  <2> QED
    BY <2>1, <2>2
<1> QED
  BY <1>4, <1>5 DEF Orderly, FrontKept

(* Threads that rest move to other places of rest, and faults are counted. *)
LEMMA FaultsOnly ==
  ASSUME Sound, SameStore, faults' \in Nat, faults <= faults', NEW place, RepairsAt(place)
  PROVE  RepairsAt(place)'
<1>0. rev \in Nat /\ faults \in Nat /\ MaxRounds \in Nat /\ Blocking(reviews) \in Nat
  BY TypeFacts
<1>1. /\ Blocking(reviews)' = Blocking(reviews) /\ Latest' = Latest
      /\ rev' = rev /\ status' = status /\ proj' = proj
  BY DEF SameStore, Blocking, Latest
<1>2. Blocking(reviews) + 1 \in Nat
  BY <1>0
<1>3. /\ rev <= Blocking(reviews) + faults => rev <= Blocking(reviews) + faults'
      /\ rev < Blocking(reviews) + faults => rev < Blocking(reviews) + faults'
      /\ rev <= Blocking(reviews) + 1 + faults => rev <= Blocking(reviews) + 1 + faults'
      /\ rev < MaxRounds + faults => rev < MaxRounds + faults'
  BY <1>0, <1>2, Grows
<1> QED
  BY <1>1, <1>3 DEF RepairsAt

LEMMA QuietKeeps ==
  ASSUME Sound, Sound', Orderly, OneWorks', coder' = coder, faults' \in Nat, faults <= faults',
         /\ status' = status /\ rev' = rev /\ reviews' = reviews /\ proj' = proj
         /\ delivered' = delivered /\ ctl' \in {ctl, "needs_attention"},
         \A u \in Threads :
           \/ pc'[u] = pc[u] /\ frame'[u] = frame[u]
           \/ pc[u] \in Resting /\ pc'[u] \in Resting /\ frame'[u].review = 0
  PROVE  Orderly'
<1>0. rev \in Nat /\ faults \in Nat /\ MaxRounds \in Nat /\ Blocking(reviews) \in Nat
  BY TypeFacts
<1>1. /\ Blocking(reviews)' = Blocking(reviews) /\ Latest' = Latest
  BY DEF Blocking, Latest
<1>2. ProjectionSound'
  BY <1>1 DEF Orderly, ProjectionSound
<1>3. DeliveredSound'
  BY <1>1 DEF Orderly, DeliveredSound
<1>4. Blocking(reviews) + 1 \in Nat
  BY <1>0
<1>5. /\ rev <= Blocking(reviews) + faults => rev <= Blocking(reviews) + faults'
      /\ rev < Blocking(reviews) + faults => rev < Blocking(reviews) + faults'
      /\ rev <= Blocking(reviews) + 1 + faults => rev <= Blocking(reviews) + 1 + faults'
      /\ rev < MaxRounds + faults => rev < MaxRounds + faults'
      /\ rev <= MaxRounds + faults => rev <= MaxRounds + faults'
  BY <1>0, <1>4, Grows
<1>6. RoundsLeft'
  BY <1>1, <1>5 DEF Orderly, RoundsLeft
<1>7. RepairsLeft'
  <2>1. \A u \in Threads : ~Front(u) => pc[u] \in JobPlaces /\ pc'[u] \in JobPlaces
    BY DEF Sound, TypeOK
  <2>2. \A x : x \in Resting /\ x \in JobPlaces => x \in {"idle", "queued"}
    BY DEF Resting, JobPlaces
  <2>3. \A p \in Processes :
          \/ pc'[Job(p)] = pc[Job(p)]
          \/ pc[Job(p)] \in {"idle", "queued"} /\ pc'[Job(p)] \in {"idle", "queued"}
    BY <2>1, <2>2, JobThreads
  <2>4. /\ (\E p \in Processes : pc'[Job(p)] \in {"coded", "clear"}) <=>
             (\E p \in Processes : pc[Job(p)] \in {"coded", "clear"})
        /\ (\E p \in Processes : pc'[Job(p)] \in {"project"}) <=>
             (\E p \in Processes : pc[Job(p)] \in {"project"})
        /\ (\E p \in Processes : pc'[Job(p)] \in {"code", "start", "coding"}) <=>
             (\E p \in Processes : pc[Job(p)] \in {"code", "start", "coding"})
        /\ (\A p \in Processes : pc'[Job(p)] \in {"idle", "queued", "loop"}) <=>
             (\A p \in Processes : pc[Job(p)] \in {"idle", "queued", "loop"})
    BY <2>3
  <2>5. RepairsLeft
    BY DEF Orderly
  <2> QED
    BY <1>1, <1>5, <2>4, <2>5 DEF RepairsLeft
<1>8. ASSUME NEW u \in Threads PROVE CodingSound(u)' /\ FrameSound(u)'
  <2>1. CodingSound(u) /\ FrameSound(u)
    BY DEF Orderly
  <2>2. CASE pc'[u] = pc[u] /\ frame'[u] = frame[u]
    <3>1. CodingSound(u)'
      BY <2>1, <2>2 DEF CodingSound
    <3>2. FrameSound(u)'
      BY <1>1, <2>1, <2>2 DEF FrameSound
    <3> QED
      BY <3>1, <3>2
  <2>3. CASE pc[u] \in Resting /\ pc'[u] \in Resting /\ frame'[u].review = 0
    <3>1. CodingSound(u)'
      BY <2>1, <2>3 DEF CodingSound, Resting
    <3>2. FrameSound(u)'
      BY <2>3 DEF FrameSound, Resting
    <3> QED
      BY <3>1, <3>2
  <2> QED
    BY <2>2, <2>3
<1> QED
  BY <1>2, <1>3, <1>6, <1>7, <1>8 DEF Orderly

LEMMA CrashKeeps ==
  ASSUME Sound, Orderly, OneWorks', NEW p \in Processes, Crash(p)
  PROVE  Orderly'
<1>0. rev \in Nat /\ faults \in Nat /\ MaxRounds \in Nat /\ Blocking(reviews) \in Nat
  BY TypeFacts
<1>1. SameStore /\ faults' = faults + 1
  BY DEF Crash, SameStore, store, Fault
<1>2. \A u \in Threads :
        \/ pc'[u] = pc[u] /\ frame'[u] = frame[u] /\ u[1] # p
        \/ pc'[u] = "idle" /\ frame'[u] = NoFrame /\ u[1] = p
  BY DEF Crash
<1>3. coder' = IF coder # None /\ coder[1] = p THEN None ELSE coder
  BY DEF Crash
<1>4. ProjectionSound' /\ DeliveredSound' /\ RoundsLeft'
  BY <1>0, <1>1, SameStoreKeeps DEF Orderly
<1>5. /\ Blocking(reviews)' = Blocking(reviews) /\ Latest' = Latest /\ Len(reviews') = Len(reviews)
      /\ rev' = rev /\ status' = status /\ proj' = proj /\ delivered' = delivered
  BY <1>1 DEF SameStore, Blocking, Latest
<1>6. RepairsLeft'
  <2>1. RepairsLeft
    BY DEF Orderly
  <2>2. \A r \in Processes : pc'[Job(r)] = pc[Job(r)] \/ pc'[Job(r)] = "idle"
    BY <1>2, JobThreads
  <2>3. /\ (\E r \in Processes : pc'[Job(r)] \in {"coded", "clear"}) =>
             (\E r \in Processes : pc[Job(r)] \in {"coded", "clear"})
        /\ (\E r \in Processes : pc'[Job(r)] \in {"project"}) =>
             (\E r \in Processes : pc[Job(r)] \in {"project"})
        /\ (\E r \in Processes : pc'[Job(r)] \in {"code", "start", "coding"}) =>
             (\E r \in Processes : pc[Job(r)] \in {"code", "start", "coding"})
    BY <2>2
  <2>4. status \in Open /\ proj.blocking = TRUE => rev <= Blocking(reviews) + faults'
    BY <1>0, <1>1, <2>1 DEF RepairsLeft
  <2>5. /\ rev <= Blocking(reviews) + 1 + faults => rev <= Blocking(reviews) + 1 + faults'
        /\ rev <= Blocking(reviews) + faults => rev <= Blocking(reviews) + faults'
    BY <1>0, <1>1
  <2>6. status = "changes_requested" => rev < Blocking(reviews) + faults' /\ rev < MaxRounds + faults'
    <3>1. SUFFICES ASSUME status = "changes_requested"
                   PROVE  rev < Blocking(reviews) + faults' /\ rev < MaxRounds + faults'
      OBVIOUS
    <3>2. proj.blocking = TRUE /\ status \in Open
      BY <3>1 DEF Orderly, ProjectionSound, Open
    <3>3. ~(\E r \in Processes : pc[Job(r)] \in {"coded", "clear"})
      BY <3>1, JobThreads DEF Orderly, FrameSound
    <3>4. rev <= Blocking(reviews) + faults
      BY <2>1, <3>2, <3>3 DEF RepairsLeft
    <3>5. rev <= MaxRounds + faults
      BY DEF Orderly, RoundsLeft
    <3> QED
      BY <1>0, <1>1, <3>4, <3>5
  <2> QED
    BY <1>5, <2>1, <2>3, <2>4, <2>5, <2>6 DEF RepairsLeft
<1>7. ASSUME NEW u \in Threads PROVE CodingSound(u)' /\ FrameSound(u)'
  <2>1. CodingSound(u) /\ FrameSound(u)
    BY DEF Orderly
  <2>2. CASE pc'[u] = "idle" /\ frame'[u] = NoFrame /\ u[1] = p
    <3>1. coder' # u
      BY <1>3, <2>2, NoneAssumption
    <3>2. CodingSound(u)'
      BY <2>2, <3>1 DEF CodingSound
    <3>3. FrameSound(u)'
      BY <2>2, EmptyFrames DEF FrameSound, Resting
    <3> QED
      BY <3>2, <3>3
  <2>3. CASE pc'[u] = pc[u] /\ frame'[u] = frame[u] /\ u[1] # p
    <3>1. coder' = u <=> coder = u
      BY <1>3, <2>3, NoneAssumption
    <3>2. CodingSound(u)'
      BY <1>5, <2>1, <2>3, <3>1 DEF CodingSound
    <3>3. FrameSound(u)'
      BY <1>5, <2>1, <2>3 DEF FrameSound
    <3> QED
      BY <3>2, <3>3
  <2> QED
    BY <1>2, <2>2, <2>3
<1> QED
  BY <1>4, <1>6, <1>7 DEF Orderly

(* A front codes what was sent back, or suspends the task.                 *)
LEMMA FrontFrame ==
  ASSUME NEW q \in Threads, Front(q), Sound', frame'[q].review = 0
  PROVE  FrameSound(q)'
<1>1. pc'[q] \in FrontPlaces
  BY DEF Sound, TypeOK
<1> QED
  BY <1>1 DEF FrameSound, FrontPlaces

LEMMA FrontWalks ==
  ASSUME NEW q \in Threads, Front(q), Sound, Sound', FrontKept(q), SameStore,
         faults' \in Nat, faults <= faults', frame'[q].review = 0, CodingSound(q)'
  PROVE  FrontKept(q)'
<1>1. ProjectionSound' /\ DeliveredSound' /\ RoundsLeft'
  BY SameStoreKeeps DEF FrontKept
<1>2. RepairsAt("idle")'
  <2>1. RepairsAt("idle")
    BY DEF FrontKept
  <2> QED
    BY <2>1, FaultsOnly
<1>3. FrameSound(q)'
  BY FrontFrame
<1> QED
  BY <1>1, <1>2, <1>3 DEF FrontKept

LEMMA FrontRaises ==
  ASSUME NEW q \in Threads, Front(q), Sound, Raise(q)
  PROVE  pc'[q] \in {"dead", "idle"} /\ frame'[q] = NoFrame
<1>1. PICK place \in {"dead", "idle"} : Moved(q, place, NoFrame)
  BY DEF Raise, Moved
<1> QED
  BY <1>1, MoveFacts

(* What a front writes.                                                    *)
LEMMA FrontWrites ==
  ASSUME NEW q \in Threads, Front(q), Sound, Sound', FrontKept(q),
         CodingPasses(q) \/ CodingFails(q) \/ RecordFailure(q) \/ Suspend(q)
  PROVE  FrontKept(q)'
<1> DEFINE f == frame[q]
<1>0. /\ q # None /\ rev \in Nat /\ faults \in Nat /\ MaxRounds \in Nat
      /\ Blocking(reviews) \in Nat /\ f.review = 0
  BY TypeFacts, NoneAssumption DEF FrontKept, FrameSound
<1>1. coder = q <=> pc[q] = "coding"
  BY DEF FrontKept, CodingSound
<1>2. pc[q] = "coding" =>
        /\ delivered = {} /\ status = "changes_requested" /\ proj.blocking = TRUE
        /\ Len(reviews) > 0 /\ Latest.blocking = TRUE /\ proj.count = Blocking(reviews)
        /\ rev < Blocking(reviews) + faults /\ rev < MaxRounds + faults
  <2>1. SUFFICES ASSUME pc[q] = "coding" PROVE status = "changes_requested"
    BY NoneLaw DEF FrontKept, ProjectionSound, DeliveredSound, RepairsAt
  <2> QED
    BY <2>1 DEF FrontKept, CodingSound
<1>3. /\ reviews' = reviews /\ proj' = proj /\ delivered' = delivered /\ faults' = faults
      /\ Latest' = Latest /\ Blocking(reviews)' = Blocking(reviews)
      /\ ctl' = status' /\ status' \in {"in_review", "failed", "needs_attention"}
      /\ coder' \in {coder, None}
  BY DEF CodingPasses, CodingFails, RecordFailure, Suspend, SetTaskStatus, Latest, Blocking
<1>4. CASE CodingPasses(q)
  <2>1. GoTo(q, "coded") /\ frame' = frame /\ pc[q] = "coding" /\ coder' = None
        /\ rev' = rev + 1 /\ status' = "in_review"
    BY <1>4 DEF CodingPasses, SetTaskStatus
  <2>2. pc'[q] = "coded"
    BY <2>1, GoFacts
  <2>3. rev + 1 <= Blocking(reviews) + faults /\ rev + 1 <= MaxRounds + faults
    BY <1>0, <1>2, <2>1
  <2>4. ProjectionSound' /\ DeliveredSound'
    BY <1>2, <1>3, <2>1, NoneLaw DEF ProjectionSound, DeliveredSound
  <2>5. RoundsLeft'
    BY <1>2, <1>3, <2>1, <2>3, NoneLaw DEF RoundsLeft
  <2>6. RepairsAt("idle")'
    BY <1>3, <2>1, <2>3 DEF RepairsAt
  <2>7. CodingSound(q)'
    BY <1>0, <2>1, <2>2 DEF CodingSound
  <2>8. FrameSound(q)'
    BY <1>0, <2>1, FrontFrame
  <2> QED
    BY <2>4, <2>5, <2>6, <2>7, <2>8 DEF FrontKept
<1>5. CASE CodingFails(q) \/ RecordFailure(q) \/ Suspend(q)
  <2>1. /\ rev' = rev /\ status' \in {"failed", "needs_attention"}
        /\ status' = "failed" => pc[q] = "coding"
    BY <1>5 DEF CodingFails, RecordFailure, Suspend, SetTaskStatus
  <2>2. frame'[q].review = 0 /\ pc'[q] \in {"coded", "dead", "idle"}
        /\ (coder' = None \/ (coder' = coder /\ pc[q] # "coding"))
    <3>1. CASE CodingFails(q)
      BY <1>0, <3>1, GoFacts DEF CodingFails
    <3>2. CASE RecordFailure(q)
      BY <3>2, FrontRaises, EmptyFrames DEF RecordFailure
    <3>3. CASE Suspend(q)
      BY <1>0, <3>3, GoFacts DEF Suspend
    <3> QED
      BY <1>5, <3>1, <3>2, <3>3
  <2>3. ProjectionSound'
    BY <1>3, <2>1 DEF FrontKept, ProjectionSound
  <2>4. DeliveredSound'
    BY <1>2, <1>3, <2>1 DEF FrontKept, DeliveredSound
  <2>5. RoundsLeft'
    BY <1>3, <2>1 DEF FrontKept, RoundsLeft
  <2>6. RepairsAt("idle")'
    BY <2>1 DEF RepairsAt, Open
  <2>7. CodingSound(q)'
    BY <1>0, <1>1, <2>2 DEF CodingSound
  <2>8. FrameSound(q)'
    BY <2>2, FrontFrame
  <2> QED
    BY <2>3, <2>4, <2>5, <2>6, <2>7, <2>8 DEF FrontKept
<1> QED
  BY <1>4, <1>5

LEMMA OthersStay ==
  ASSUME Sound, [Next]_vars, NEW t \in Threads, Silent(t) \/ Writes(t) \/ Locks(t) \/ Stumbles(t)
  PROVE  \A u \in Threads : u # t => pc'[u] = pc[u] /\ frame'[u] = frame[u]
<1>1. StoreTypes'
  BY StoreStep
<1>2. Lands(t)
  BY <1>1, SilentLands, WriteLands
<1>3. PICK place, f : Moved(t, place, f)
  BY <1>2 DEF Lands
<1> QED
  BY <1>3, MoveFacts

(* What a front does without writing.                                      *)
FrontMoves(q) ==
  \/ Poll(q) \/ Operate(q) \/ Resume(q) \/ ResumeCoding(q) \/ ReadTask(q) \/ RefuseCoding(q)
  \/ ReadResult(q) \/ BeginCoding(q) \/ CodingRaises(q) \/ LockTimeout(q) \/ PollRaises(q)

LEMMA FrontMovesLaw ==
  ASSUME NEW q \in Threads, Front(q), Sound, CodingSound(q), FrameSound(q), FrontMoves(q)
  PROVE  /\ SameStore /\ faults' \in {faults, faults + 1} /\ coder' \in {coder, q, None}
         /\ coder' # coder => pc[q] \notin Resting \/ pc'[q] \notin Resting
         /\ frame'[q].review = 0 /\ CodingSound(q)'
<1> DEFINE f == frame[q]
           Goal == /\ SameStore /\ faults' \in {faults, faults + 1} /\ coder' \in {coder, q, None}
                   /\ coder' # coder => pc[q] \notin Resting \/ pc'[q] \notin Resting
                   /\ frame'[q].review = 0 /\ CodingSound(q)'
<1>0. /\ f.review = 0 /\ f \in Frames /\ status \in Statuses /\ (coder = q <=> pc[q] = "coding")
      /\ q # None /\ pc[q] \in FrontPlaces
  BY FrameTypes, TypeFacts, FrontPlacesOf, NoneAssumption DEF FrameSound, CodingSound, Sound
<1>1. CASE Poll(q) \/ Operate(q) \/ Resume(q) \/ ResumeCoding(q) \/ RefuseCoding(q)
  <2>1. /\ SameStore /\ faults' = faults /\ coder' = coder /\ frame' = frame /\ pc[q] # "coding"
    BY <1>1 DEF SameStore, store, Poll, Operate, Resume, ResumeCoding, RefuseCoding
  <2>2. PICK place \in {"idle", "resume", "code", "suspend", "resuming", "schedule", "record"} :
          GoTo(q, place)
    BY <1>1 DEF Poll, Operate, Resume, ResumeCoding, RefuseCoding
  <2>3. pc'[q] = place
    BY <2>2, GoFacts
  <2>4. CodingSound(q)'
    BY <1>0, <2>1, <2>3 DEF CodingSound
  <2> QED
    BY <1>0, <2>1, <2>4
<1>2. CASE ReadTask(q)
  <2> DEFINE g == [f EXCEPT !.seen = status]
  <2>1. pc[q] = "code"
    BY <1>0, <1>2 DEF ReadTask, FrontPlaces
  <2>2. Moved(q, "start", g) /\ SameStore /\ faults' = faults /\ coder' = coder
    BY <1>2, <2>1 DEF ReadTask, Moved, SameStore, store
  <2>3. pc'[q] = "start" /\ frame'[q] = g
    BY <2>2, MoveFacts
  <2>4. g.seen = status /\ g.review = 0
    BY <1>0, SeenChanged
  <2> HIDE DEF g
  <2>5. CodingSound(q)'
    BY <1>0, <2>1, <2>2, <2>3, <2>4 DEF CodingSound, SameStore
  <2> QED
    BY <2>2, <2>3, <2>4, <2>5
<1>3. CASE ReadResult(q)
  <2>1. PICK place \in {"schedule", "idle"} : Moved(q, place, NoFrame)
    BY <1>3 DEF ReadResult, Moved
  <2>2. pc'[q] = place /\ frame'[q] = NoFrame
    BY <2>1, MoveFacts
  <2>3. SameStore /\ faults' = faults /\ coder' = coder /\ pc[q] = "coded"
    BY <1>3 DEF ReadResult, SameStore, store
  <2>4. CodingSound(q)'
    BY <1>0, <2>2, <2>3 DEF CodingSound
  <2> QED
    BY <2>2, <2>3, <2>4, EmptyFrames
<1>4. CASE BeginCoding(q)
  <2>1. /\ GoTo(q, "coding") /\ frame' = frame /\ pc[q] = "start" /\ coder' = q /\ faults' = faults
        /\ f.seen = "changes_requested" /\ SameStore
    BY <1>4 DEF BeginCoding, SameStore, store
  <2>2. pc'[q] = "coding"
    BY <2>1, GoFacts
  <2>3. status = "changes_requested"
    BY <2>1 DEF CodingSound
  <2>4. CodingSound(q)'
    BY <2>1, <2>2, <2>3 DEF CodingSound, SameStore
  <2> QED
    BY <1>0, <2>1, <2>2, <2>4 DEF Resting
<1>5. CASE CodingRaises(q)
  <2>1. /\ GoTo(q, "record") /\ frame' = frame /\ pc[q] = "coding" /\ coder' = None /\ faults' = faults
        /\ SameStore
    BY <1>5 DEF CodingRaises, SameStore, store
  <2>2. pc'[q] = "record"
    BY <2>1, GoFacts
  <2>3. CodingSound(q)'
    BY <1>0, <2>1, <2>2 DEF CodingSound
  <2> QED
    BY <1>0, <2>1, <2>2, <2>3 DEF Resting
<1>6. CASE LockTimeout(q) \/ PollRaises(q)
  <2>1. SameStore /\ faults' = faults + 1 /\ coder' = coder /\ pc[q] # "coding"
    BY <1>6 DEF LockTimeout, PollRaises, Fault, Writing, SameStore, store
  <2>2. pc'[q] \in {"record", "dead", "idle"} /\ frame'[q].review = 0
    <3>1. CASE Raise(q)
      BY <3>1, FrontRaises, EmptyFrames
    <3>2. CASE ~Raise(q)
      <4>1. GoTo(q, "record") /\ frame' = frame
        BY <1>6, <3>2 DEF LockTimeout, PollRaises
      <4> QED
        BY <1>0, <4>1, GoFacts
    <3> QED
      BY <3>1, <3>2
  <2>3. CodingSound(q)'
    BY <1>0, <2>1, <2>2 DEF CodingSound
  <2> QED
    BY <2>1, <2>2, <2>3
<1> QED
  BY <1>1, <1>2, <1>3, <1>4, <1>5, <1>6 DEF FrontMoves

LEMMA FrontStepKeeps ==
  ASSUME NEW q \in Threads, Front(q), Sound, Sound', Orderly, OneWorks', [Next]_vars,
         Silent(q) \/ Writes(q) \/ Locks(q) \/ Stumbles(q)
  PROVE  Orderly'
<1>0. /\ pc[q] \in FrontPlaces /\ CodingSound(q) /\ FrameSound(q) /\ OneWorks
      /\ faults \in Nat
  BY FrontPlacesOf, TypeFacts DEF Orderly
<1>1. \A u \in Threads : u # q => pc'[u] = pc[u] /\ frame'[u] = frame[u]
  BY OthersStay
<1>2. /\ ~BeginLoop(q) /\ ~CodeAgain(q) /\ ~BeginReview(q) /\ ~CarryOut(q) /\ ~BeginDelivery(q)
      /\ ~Stop(q) /\ ~ReviewRaises(q) /\ ~SkipApproval(q) /\ ~RefuseVerdict(q) /\ ~Comment(q)
      /\ ~CommentRaises(q) /\ ~ReturnTask(q) /\ ~Escalate(q) /\ ~JobFails(q)
  BY <1>0 DEF BeginLoop, CodeAgain, BeginReview, CarryOut, BeginDelivery, Stop, ReviewRaises,
              SkipApproval, RefuseVerdict, Comment, CommentRaises, ReturnTask, Escalate, JobFails,
              FrontPlaces
<1>3. /\ ~ClearProjection(q) /\ ~ProjectReview(q) /\ ~MarkReview(q) /\ ~ProjectVerdict(q)
      /\ ~(\E blocking \in BOOLEAN : InsertReview(q, blocking))
      /\ ~SendBack(q) /\ ~Approve(q) /\ ~HandOver(q) /\ ~ReleaseLane(q)
      /\ ~Deliver(q) /\ ~Complete(q)
  BY <1>0 DEF ClearProjection, ProjectReview, MarkReview, ProjectVerdict, InsertReview, SendBack,
              Approve, HandOver, ReleaseLane, Deliver, Complete, FrontPlaces
<1>4. \/ FrontMoves(q)
      \/ CodingPasses(q) \/ CodingFails(q) \/ RecordFailure(q) \/ Suspend(q)
      \/ MarkControl(q)
  <2>1. CASE Silent(q) \/ Locks(q) \/ Stumbles(q)
    BY <1>2, <2>1, Zenon DEF Silent, Locks, Stumbles, FrontMoves
  <2>2. CASE Writes(q)
    BY <1>3, <2>2, Zenon DEF Writes
  <2> QED
    BY <2>1, <2>2
<1>5. CASE FrontMoves(q)
  <2>1. /\ SameStore /\ faults' \in {faults, faults + 1} /\ coder' \in {coder, q, None}
        /\ coder' # coder => pc[q] \notin Resting \/ pc'[q] \notin Resting
        /\ frame'[q].review = 0 /\ CodingSound(q)'
    BY <1>0, <1>5, FrontMovesLaw
  <2>2. faults' \in Nat /\ faults <= faults'
    BY <1>0, <2>1
  <2>3. CASE pc[q] \in Resting /\ pc'[q] \in Resting
    <3>1. \A u \in Threads :
            \/ pc'[u] = pc[u] /\ frame'[u] = frame[u]
            \/ pc[u] \in Resting /\ pc'[u] \in Resting /\ frame'[u].review = 0
      BY <1>1, <2>1, <2>3
    <3> QED
      BY <2>1, <2>2, <2>3, <3>1, QuietKeeps DEF SameStore
  <2>4. CASE pc[q] \notin Resting \/ pc'[q] \notin Resting
    <3>1. \A u \in Threads : u # q => pc[u] \in Resting /\ pc'[u] \in Resting
      BY <1>0, <1>1, <2>4, WorksAlone
    <3>2. FrontKept(q)
      BY <3>1, FrontHolds DEF Sole
    <3>3. FrontKept(q)'
      BY <2>1, <2>2, <3>2, FrontWalks
    <3> QED
      BY <1>1, <2>1, <3>1, <3>3, FrontGoesOn
  <2> QED
    BY <2>3, <2>4
<1>6. CASE CodingPasses(q) \/ CodingFails(q) \/ RecordFailure(q) \/ Suspend(q)
  <2>1. pc[q] \notin Resting /\ coder' \in {coder, None}
    BY <1>6 DEF CodingPasses, CodingFails, RecordFailure, Suspend, Resting
  <2>2. \A u \in Threads : u # q => pc[u] \in Resting /\ pc'[u] \in Resting
    BY <1>0, <1>1, <2>1, WorksAlone
  <2>3. FrontKept(q)
    BY <2>2, FrontHolds DEF Sole
  <2>4. FrontKept(q)'
    BY <1>6, <2>3, FrontWrites
  <2> QED
    BY <1>1, <2>1, <2>2, <2>4, FrontGoesOn
<1>7. CASE MarkControl(q)
  <2>1. /\ status' = status /\ rev' = rev /\ reviews' = reviews /\ proj' = proj
        /\ delivered' = delivered /\ ctl' = "needs_attention"
        /\ pc' = pc /\ frame' = frame /\ coder' = coder /\ faults' = faults
    BY <1>7 DEF MarkControl
  <2> QED
    BY <1>0, <2>1, QuietKeeps
<1> QED
  BY <1>4, <1>5, <1>6, <1>7

LEMMA JobStepKeeps ==
  ASSUME NEW j \in Threads, ~Front(j), Sound, Sound', Orderly, OneWorks', [Next]_vars,
         Silent(j) \/ Writes(j) \/ Locks(j) \/ Stumbles(j)
  PROVE  Orderly'
<1>0. /\ pc[j] \in JobPlaces /\ OneWorks /\ faults \in Nat /\ CodingSound(j) /\ FrameSound(j)
  BY JobPlacesOf, TypeFacts DEF Orderly
<1>1. \A u \in Threads : u # j => pc'[u] = pc[u] /\ frame'[u] = frame[u]
  BY OthersStay
<1>2. /\ ~Poll(j) /\ ~Operate(j) /\ ~MarkControl(j) /\ ~Resume(j) /\ ~ResumeCoding(j) /\ ~PollRaises(j)
  BY <1>0 DEF Poll, Operate, MarkControl, Resume, ResumeCoding, PollRaises, JobPlaces
<1>3. faults' \in Nat /\ faults <= faults'
  <2>1. faults' \in {faults, faults + 1}
    <3>1. CASE Silent(j)
      BY <3>1, SilentLaw
    <3>2. CASE Writes(j)
      BY <3>2 DEF Writes, CodingPasses, CodingFails, RecordFailure, ClearProjection, InsertReview,
           ProjectReview, MarkReview, ProjectVerdict, SendBack, Approve, Suspend, HandOver, ReleaseLane,
           Deliver, Complete, MarkControl
    <3>3. CASE Locks(j) \/ Stumbles(j)
      BY <3>3 DEF Locks, Stumbles, BeginCoding, CodingRaises, LockTimeout, JobFails, PollRaises, Fault
    <3> QED
      BY <3>1, <3>2, <3>3
  <2> QED
    BY <1>0, <2>1
<1>4. coder' \in {coder, j, None}
  <2>1. CASE Silent(j)
    BY <2>1, SilentLaw
  <2>2. CASE Writes(j)
    BY <2>2 DEF Writes, CodingPasses, CodingFails, RecordFailure, ClearProjection, InsertReview,
         ProjectReview, MarkReview, ProjectVerdict, SendBack, Approve, Suspend, HandOver, ReleaseLane,
         Deliver, Complete, MarkControl
  <2>3. CASE Locks(j) \/ Stumbles(j)
    BY <2>3 DEF Locks, Stumbles, BeginCoding, CodingRaises, LockTimeout, JobFails, PollRaises
  <2> QED
    BY <2>1, <2>2, <2>3
(* A job that gives up before it has begun.                                *)
<1>5. CASE pc[j] \in Resting /\ pc'[j] \in Resting
  <2>1. JobFails(j) \/ LockTimeout(j)
    <3>1. pc[j] \in {"idle", "queued"}
      BY <1>0, <1>5 DEF Resting, JobPlaces
    <3>2. ~BeginLoop(j)
      <4>1. ASSUME BeginLoop(j) PROVE FALSE
        <5>1. pc'[j] = "loop"
          BY <4>1, GoFacts DEF BeginLoop
        <5> QED
          BY <1>5, <5>1 DEF Resting
      <4> QED
        BY <4>1
    <3>3. ~Silent(j)
      BY <1>2, <3>1, <3>2 DEF Silent, CodeAgain, BeginReview, CarryOut, BeginDelivery, Stop, ReadTask,
         RefuseCoding, ReadResult, ReviewRaises, SkipApproval, RefuseVerdict, Comment, CommentRaises,
         ReturnTask, Escalate
    <3>4. ~Writes(j) /\ ~Locks(j)
      BY <1>2, <3>1 DEF Writes, Locks, CodingPasses, CodingFails, RecordFailure, ClearProjection,
         InsertReview, ProjectReview, MarkReview, ProjectVerdict, SendBack, Approve, Suspend, HandOver,
         ReleaseLane, Deliver, Complete, BeginCoding, CodingRaises
    <3> QED
      BY <1>2, <3>3, <3>4 DEF Stumbles
  <2>2. SameStore /\ coder' = coder
    BY <2>1 DEF JobFails, LockTimeout, SameStore, store
  <2>3. frame'[j].review = 0
    <3>1. CASE JobFails(j)
      <4>1. Moved(j, "idle", NoFrame)
        BY <3>1 DEF JobFails, Finish, Moved
      <4> QED
        BY <4>1, MoveFacts, EmptyFrames
    <3>2. CASE LockTimeout(j)
      <4>1. Raise(j)
        BY <1>5, <3>2 DEF LockTimeout, Resting
      <4> QED
        BY <4>1, RaiseMoves
    <3> QED
      BY <2>1, <3>1, <3>2
  <2>4. \A u \in Threads :
          \/ pc'[u] = pc[u] /\ frame'[u] = frame[u]
          \/ pc[u] \in Resting /\ pc'[u] \in Resting /\ frame'[u].review = 0
    BY <1>1, <1>5, <2>3
  <2> QED
    BY <1>3, <2>2, <2>4, QuietKeeps DEF SameStore
<1>6. CASE pc[j] \notin Resting \/ pc'[j] \notin Resting
  <2>1. \A u \in Threads : u # j => pc[u] \in Resting /\ pc'[u] \in Resting
    BY <1>0, <1>1, <1>6, WorksAlone
  <2>2. Kept(j)
    BY <2>1, JobHolds DEF Sole
  <2>3. Kept(j)'
    <3>1. CASE Silent(j)
      <4>1. SameStore /\ coder' = coder /\ faults' = faults
        BY <3>1, SilentLaw DEF SameStore
      <4>2. CASE \/ BeginLoop(j) \/ CodeAgain(j) \/ BeginReview(j) \/ CarryOut(j)
                 \/ BeginDelivery(j) \/ Stop(j)
        BY <2>2, <4>1, <4>2, LoopKeeps
      <4>3. CASE \/ ReadTask(j) \/ RefuseCoding(j) \/ ReadResult(j)
                 \/ ReviewRaises(j) \/ SkipApproval(j) \/ RefuseVerdict(j)
                 \/ Comment(j) \/ CommentRaises(j) \/ ReturnTask(j) \/ Escalate(j)
        BY <2>2, <4>1, <4>3, WalkKeeps
      <4> QED
        BY <1>2, <3>1, <4>2, <4>3, Zenon DEF Silent
    <3>2. CASE Writes(j)
      <4>1. CASE CodingPasses(j) \/ CodingFails(j) \/ RecordFailure(j)
        BY <2>2, <4>1, RecodeKeeps
      <4>2. CASE \/ ClearProjection(j) \/ \E blocking \in BOOLEAN : InsertReview(j, blocking)
                 \/ ProjectReview(j)
        BY <2>2, <4>2, ReviewKeeps
      <4>3. CASE MarkReview(j) \/ ProjectVerdict(j) \/ SendBack(j) \/ Approve(j)
        BY <2>2, <4>3, VerdictKeeps
      <4>4. CASE Suspend(j) \/ HandOver(j) \/ ReleaseLane(j) \/ Deliver(j) \/ Complete(j)
        BY <2>2, <4>4, EndKeeps
      <4> QED
        BY <1>2, <3>2, <4>1, <4>2, <4>3, <4>4, Zenon DEF Writes
    <3>3. CASE Locks(j) \/ LockTimeout(j)
      <4>1. BeginCoding(j) \/ CodingRaises(j) \/ LockTimeout(j)
        BY <3>3, Zenon DEF Locks
      <4> QED
        BY <1>3, <2>2, <4>1, LockKeeps
    <3>4. ~JobFails(j)
      <4>1. ASSUME JobFails(j) PROVE FALSE
        <5>1. Moved(j, "idle", NoFrame) /\ pc[j] = "queued"
          BY <4>1 DEF JobFails, Finish, Moved
        <5>2. pc'[j] = "idle"
          BY <5>1, MoveFacts
        <5> QED
          BY <1>6, <5>1, <5>2 DEF Resting
      <4> QED
        BY <4>1
    <3> QED
      BY <1>2, <3>1, <3>2, <3>3, <3>4, Zenon DEF Stumbles
  <2> QED
    BY <1>1, <1>4, <2>1, <2>3, JobGoesOn
<1> QED
  BY <1>5, <1>6

LEMMA ScheduleKeeps ==
  ASSUME NEW t \in Threads, Sound, Sound', Orderly, OneWorks', Schedules(t)
  PROVE  Orderly'
<1> DEFINE job == <<t[1], "job">>
<1>0. PICK where \in {"idle", "dead"} :
        /\ Scheduled(t, where) /\ frame' = frame /\ pc[t] = "schedule" /\ SameStore
        /\ coder' = coder /\ faults' \in {faults, faults + 1}
  BY Zenon DEF Schedules, Schedule, ScheduleFails, Fault, SameStore, store
<1>1. pc' = [pc EXCEPT ![t] = where, ![job] = IF @ = "idle" THEN "queued" ELSE @]
  BY <1>0 DEF Scheduled
<1>2. job \in Threads /\ job # t
  <2>1. Front(t)
    BY <1>0, FrontsOnly DEF Sound
  <2> QED
    BY <2>1, Kinds DEF Threads, Front
<1> HIDE DEF job
<1>3. faults' \in Nat /\ faults <= faults'
  BY <1>0, TypeFacts
<1>4. ASSUME NEW u \in Threads
      PROVE  \/ pc'[u] = pc[u] /\ frame'[u] = frame[u]
             \/ pc[u] \in Resting /\ pc'[u] \in Resting /\ frame'[u].review = 0
  <2>1. pc'[u] = IF u = job THEN IF pc[u] = "idle" THEN "queued" ELSE pc[u]
                 ELSE IF u = t THEN where ELSE pc[u]
    BY <1>1, <1>2 DEF Sound, TypeOK
  <2>2. pc[u] \in Resting => frame'[u].review = 0
    BY <1>0 DEF Orderly, FrameSound
  <2>3. frame'[u] = frame[u]
    BY <1>0
  <2> QED
    BY <1>0, <2>1, <2>2, <2>3 DEF Resting
<1> QED
  BY <1>0, <1>3, <1>4, QuietKeeps DEF SameStore

LEMMA InvariantStep == Sound /\ Sound' /\ ReviewInvariant /\ [Next]_vars => ReviewInvariant'
<1> SUFFICES ASSUME Sound, Sound', ReviewInvariant, [Next]_vars PROVE ReviewInvariant'
  OBVIOUS
<1> SUFFICES ASSUME overlapped' = FALSE PROVE Orderly'
  <2>1. overlapped' \in BOOLEAN
    BY MarkStep DEF MarkTypes
  <2>2. Orderly' => ReviewInvariant'
    BY DEF ReviewInvariant, Orderly
  <2>3. overlapped' => ReviewInvariant'
    BY DEF ReviewInvariant
  <2> QED
    BY <2>1, <2>2, <2>3
<1>1. overlapped = FALSE
  <2>1. overlapped \in BOOLEAN
    BY DEF Sound, TypeOK
  <2>2. overlapped => overlapped'
    <3>1. CASE Watch
      BY <3>1, Zenon DEF Watch
    <3>2. CASE UNCHANGED vars
      BY <3>2 DEF vars
    <3> QED
      BY <3>1, <3>2 DEF Next
  <2> QED
    BY <2>1, <2>2
<1>2. Orderly
  BY <1>1 DEF ReviewInvariant, Orderly
<1>3. OneWorks'
  <2>1. CASE Watch
    BY <2>1, Zenon DEF Watch, OneWorks
  <2>2. CASE UNCHANGED vars
    BY <1>2, <2>2 DEF vars, Orderly, OneWorks
  <2> QED
    BY <2>1, <2>2 DEF Next
<1>4. ASSUME NEW t \in Threads, Silent(t) \/ Writes(t) \/ Locks(t) \/ Stumbles(t) PROVE Orderly'
  <2>1. CASE Front(t)
    BY <1>2, <1>3, <1>4, <2>1, FrontStepKeeps
  <2>2. CASE ~Front(t)
    BY <1>2, <1>3, <1>4, <2>2, JobStepKeeps
  <2> QED
    BY <2>1, <2>2
<1>5. ASSUME NEW t \in Threads, Schedules(t) PROVE Orderly'
  BY <1>2, <1>3, <1>5, ScheduleKeeps
<1>6. ASSUME NEW p \in Processes, Crash(p) PROVE Orderly'
  BY <1>2, <1>3, <1>6, CrashKeeps
<1>7. CASE UNCHANGED vars
  <2>1. /\ status' = status /\ rev' = rev /\ reviews' = reviews /\ proj' = proj
        /\ delivered' = delivered /\ ctl' = ctl
        /\ pc' = pc /\ frame' = frame /\ coder' = coder /\ faults' = faults
    BY <1>7 DEF vars, store
  <2>2. faults \in Nat
    BY TypeFacts
  <2> QED
    BY <1>2, <1>3, <2>1, <2>2, QuietKeeps
<1> QED
  BY <1>4, <1>5, <1>6, <1>7, NextCases

LEMMA InvariantInit == Init => ReviewInvariant
<1> SUFFICES ASSUME Init PROVE Orderly
  BY DEF ReviewInvariant, Orderly
<1>1. Sound
  BY SoundInit
<1>2. /\ status = "in_review" /\ ctl = "in_review" /\ rev = 1 /\ delivered = {} /\ faults = 0
      /\ proj.blocking = None /\ reviews = <<>> /\ coder = None
  BY DEF Init, NoProjection
<1>3. PICK p \in Processes :
        pc = [t \in Threads |-> IF t = <<p, "front">> THEN "schedule" ELSE "idle"]
  BY DEF Init
<1>4. \A t \in Threads : pc[t] \in {"idle", "schedule"} /\ frame[t].review = 0
  BY <1>3, EmptyFrames DEF Init
<1>5. Blocking(reviews) \in Nat /\ MaxRounds \in Nat /\ MaxRounds > 0
  BY <1>1, TypeFacts
<1>6. ProjectionSound /\ DeliveredSound
  BY <1>2 DEF ProjectionSound, DeliveredSound
<1>7. RoundsLeft
  BY <1>2, <1>5 DEF RoundsLeft
<1>8. OneWorks
  BY <1>4 DEF OneWorks, Resting
<1>9. RepairsLeft
  BY <1>2, <1>4, NoneLaw, JobThreads DEF RepairsLeft
<1>10. ASSUME NEW t \in Threads PROVE CodingSound(t) /\ FrameSound(t)
  BY <1>2, <1>4, NoneAssumption DEF CodingSound, FrameSound, Resting
<1> QED
  BY <1>6, <1>7, <1>8, <1>9, <1>10 DEF Orderly

----------------------------------------------------------------------------
(* However many threads work on the task: what is sent or recorded as      *)
(* completed was preceded by a review that found nothing blocking.         *)
Passed == \E i \in 1..Len(reviews) : ~reviews[i].blocking

SentAfterReview ==
  /\ delivered # {} => Passed
  /\ ctl = "completed" => delivered # {}
  /\ \A t \in Threads : pc[t] = "complete" => delivered # {}

LEMMA PassedStays ==
  ASSUME Sound, [Next]_vars, Passed
  PROVE  Passed'
<1>0. PICK i \in 1..Len(reviews) : ~reviews[i].blocking
  BY DEF Passed
<1>1. reviews \in Seq(Reviews) /\ Len(reviews) \in Nat
  BY TypeFacts
<1>2. CASE reviews' = reviews
  BY <1>2 DEF Passed
<1>3. ASSUME NEW t \in Threads, NEW b \in BOOLEAN, InsertReview(t, b) PROVE Passed'
  <2> DEFINE r == [rev |-> frame[t].head, blocking |-> b, status |-> "completed"]
  <2>1. reviews' = Append(reviews, r)
    BY <1>3 DEF InsertReview
  <2> HIDE DEF r
  <2>2. Append(reviews, r)[i] = reviews[i] /\ i \in 1..Len(Append(reviews, r))
    BY <1>1
  <2> QED
    BY <1>0, <2>1, <2>2 DEF Passed
<1>4. ASSUME NEW t \in Threads, MarkReview(t) PROVE Passed'
  <2> DEFINE v == VerdictOf(frame[t].goal)
  <2>1. frame[t].review \in 1..Len(reviews)
    <3>1. frame[t].review > 0
      BY <1>4 DEF MarkReview, Sound, ReviewsExist
    <3> QED
      BY <3>1, FrameTypes DEF Sound
  <2>2. v \in Verdicts
    BY DEF VerdictOf, Verdicts
  <2>3. reviews' = [reviews EXCEPT ![frame[t].review].status = v]
    BY <1>4 DEF MarkReview
  <2> HIDE DEF v
  <2>4. Len(reviews') = Len(reviews) /\ reviews'[i].blocking = reviews[i].blocking
    BY <1>1, <2>1, <2>2, <2>3, BlockingMarked
  <2> QED
    BY <1>0, <2>4 DEF Passed
<1>5. \/ reviews' = reviews
      \/ \E t \in Threads, b \in BOOLEAN : InsertReview(t, b)
      \/ \E t \in Threads : MarkReview(t)
  <2>1. ASSUME NEW t \in Threads, Silent(t) \/ Schedule(t) PROVE reviews' = reviews
    BY <2>1, SilentLaw
  <2>2. ASSUME NEW t \in Threads, Locks(t) \/ Stumbles(t) \/ ScheduleFails(t) PROVE reviews' = reviews
    BY <2>2 DEF Locks, Stumbles, BeginCoding, CodingRaises, LockTimeout, JobFails, PollRaises,
         ScheduleFails, store
  <2>3. ASSUME NEW t \in Threads, Writes(t)
        PROVE  reviews' = reviews \/ MarkReview(t) \/ \E b \in BOOLEAN : InsertReview(t, b)
    BY <2>3 DEF Writes, CodingPasses, CodingFails, RecordFailure, ClearProjection, ProjectReview,
         ProjectVerdict, SendBack, Approve, Suspend, HandOver, ReleaseLane, Deliver, Complete, MarkControl
  <2>4. ASSUME NEW p \in Processes, Crash(p) PROVE reviews' = reviews
    BY <2>4 DEF Crash, store
  <2>5. CASE UNCHANGED vars
    BY <2>5 DEF vars, store
  <2> QED
    BY <2>1, <2>2, <2>3, <2>4, <2>5, NextCases DEF Schedules
<1> QED
  BY <1>2, <1>3, <1>4, <1>5

(* A step that sends nothing and records no completion.                    *)
LEMMA SendsNothing ==
  ASSUME Sound, [Next]_vars, SentAfterReview, delivered' = delivered, ctl' = "completed" => ctl = "completed",
         \A u \in Threads : pc'[u] = "complete" => pc[u] = "complete"
  PROVE  SentAfterReview'
<1>1. delivered # {} => Passed'
  BY PassedStays DEF SentAfterReview
<1> QED
  BY <1>1 DEF SentAfterReview

LEMMA SentStep == Sound /\ SentAfterReview /\ [Next]_vars => SentAfterReview'
<1> SUFFICES ASSUME Sound, SentAfterReview, [Next]_vars PROVE SentAfterReview'
  OBVIOUS
<1>1. ASSUME NEW t \in Threads, Deliver(t) PROVE SentAfterReview'
  <2>1. /\ frame[t].review # 0 /\ ~reviews[frame[t].review].blocking
        /\ reviews' = reviews /\ delivered' = delivered \cup {rev} /\ ctl' = ctl
    BY <1>1 DEF Deliver, CanDeliver
  <2>2. frame[t].review \in 1..Len(reviews)
    BY <2>1, FrameTypes DEF Sound
  <2>3. Passed'
    BY <2>1, <2>2 DEF Passed
  <2>4. delivered' # {}
    BY <2>1
  <2> QED
    BY <2>1, <2>3, <2>4 DEF SentAfterReview
<1>2. ASSUME NEW t \in Threads, Complete(t) PROVE SentAfterReview'
  <2>1. GoTo(t, "release") /\ pc[t] = "complete" /\ delivered' = delivered
    BY <1>2 DEF Complete
  <2>2. delivered # {}
    BY <2>1 DEF SentAfterReview
  <2>3. delivered' # {} /\ Passed'
    BY <2>1, <2>2, PassedStays DEF SentAfterReview
  <2> QED
    BY <2>3 DEF SentAfterReview
<1>3. ASSUME NEW t \in Threads, Silent(t) \/ Writes(t) \/ Locks(t) \/ Stumbles(t),
             ~Deliver(t), ~Complete(t)
      PROVE  SentAfterReview'
  <2>1. delivered' = delivered /\ (ctl' = "completed" => ctl = "completed")
    <3>0. status \in Statuses
      BY TypeFacts
    <3>1. CASE Silent(t)
      BY <3>1, SilentLaw
    <3>2. CASE Locks(t) \/ Stumbles(t)
      BY <3>2 DEF Locks, Stumbles, BeginCoding, CodingRaises, LockTimeout, JobFails, PollRaises, store
    <3>3. CASE Writes(t)
      BY <1>3, <3>3 DEF Writes, CodingPasses, CodingFails, RecordFailure, ClearProjection, InsertReview,
         ProjectReview, MarkReview, ProjectVerdict, SendBack, Approve, Suspend, HandOver, ReleaseLane,
         MarkControl, SetTaskStatus
    <3> QED
      BY <1>3, <3>1, <3>2, <3>3
  <2>2. pc'[t] # "complete"
    <3> DEFINE places == (FrontPlaces \cup JobPlaces) \ {"complete"}
    <3>1. ASSUME NEW place, GoTo(t, place), place # "complete" PROVE pc'[t] # "complete"
      BY <3>1, GoFacts
    <3>2. ASSUME Raise(t) PROVE pc'[t] # "complete"
      BY <3>1, <3>2 DEF Raise
    <3>3. ASSUME Finish(t) PROVE pc'[t] # "complete"
      BY <3>1, <3>3 DEF Finish
    <3>4. CASE Poll(t) \/ Operate(t) \/ Resume(t) \/ ResumeCoding(t) \/ BeginLoop(t) \/ CodeAgain(t)
      <4>1. \E place \in {"idle", "resume", "code", "suspend", "resuming", "schedule", "loop"} :
              GoTo(t, place)
        BY <3>4 DEF Poll, Operate, Resume, ResumeCoding, BeginLoop, CodeAgain
      <4> QED
        BY <3>1, <4>1
    <3>5. CASE BeginReview(t) \/ CarryOut(t) \/ BeginDelivery(t) \/ ReadTask(t) \/ RefuseCoding(t)
      <4>1. \E place \in {"review", "mark", "deliver", "start", "applying", "record"} : GoTo(t, place)
        BY <3>5 DEF BeginReview, CarryOut, BeginDelivery, ReadTask, RefuseCoding
      <4> QED
        BY <3>1, <4>1
    <3>6. CASE ReadResult(t) \/ SkipApproval(t) \/ Comment(t) \/ Escalate(t)
      <4>1. \E place \in {"schedule", "idle", "clear", "comment", "suspend", "deliver", "handOver"} :
              GoTo(t, place)
        BY <3>6 DEF ReadResult, SkipApproval, Comment, Escalate
      <4> QED
        BY <3>1, <4>1
    <3>7. CASE Stop(t) \/ ReviewRaises(t) \/ RefuseVerdict(t) \/ CommentRaises(t) \/ ReturnTask(t)
               \/ RecordFailure(t) \/ ReleaseLane(t) \/ JobFails(t) \/ PollRaises(t)
      BY <3>2, <3>3, <3>7 DEF Stop, ReviewRaises, RefuseVerdict, CommentRaises, ReturnTask, RecordFailure,
         ReleaseLane, JobFails, PollRaises
    <3>8. CASE CodingPasses(t) \/ CodingFails(t) \/ ClearProjection(t) \/ ProjectReview(t)
               \/ (\E blocking \in BOOLEAN : InsertReview(t, blocking))
               \/ MarkReview(t) \/ ProjectVerdict(t) \/ SendBack(t) \/ Approve(t)
               \/ Suspend(t) \/ HandOver(t) \/ BeginCoding(t) \/ CodingRaises(t)
      <4>1. \E place \in {"coded", "loop", "project", "projectVerdict", "apply", "comment", "code", "idle",
                          "handOver", "release", "coding", "record"} : GoTo(t, place)
        BY <3>8 DEF CodingPasses, CodingFails, ClearProjection, ProjectReview, InsertReview,
           MarkReview, ProjectVerdict, SendBack, Approve, Suspend, HandOver, BeginCoding, CodingRaises
      <4> QED
        BY <3>1, <4>1
    <3>9. CASE LockTimeout(t)
      BY <3>1, <3>2, <3>9 DEF LockTimeout
    <3>10. CASE MarkControl(t)
      BY <3>10 DEF MarkControl
    <3>11. CASE Silent(t)
      BY <3>4, <3>5, <3>6, <3>7, <3>11, Zenon DEF Silent
    <3>12. CASE Writes(t)
      BY <1>3, <3>7, <3>8, <3>10, <3>12, Zenon DEF Writes
    <3>13. CASE Locks(t) \/ Stumbles(t)
      BY <3>7, <3>8, <3>9, <3>13, Zenon DEF Locks, Stumbles
    <3> QED
      BY <1>3, <3>11, <3>12, <3>13
  <2>3. \A u \in Threads : u # t => pc'[u] = pc[u]
    BY <1>3, OthersStay
  <2> QED
    BY <2>1, <2>2, <2>3, SendsNothing
<1>4. ASSUME NEW t \in Threads, Schedules(t) PROVE SentAfterReview'
  <2>1. PICK where \in {"idle", "dead"} : Scheduled(t, where) /\ delivered' = delivered /\ ctl' = ctl
    BY <1>4, Zenon DEF Schedules, Schedule, ScheduleFails, store
  <2>2. \A u \in Threads : pc'[u] \in {pc[u], "queued", "idle", "dead"}
    BY <2>1 DEF Scheduled, Sound, TypeOK
  <2> QED
    BY <2>1, <2>2, SendsNothing
<1>5. ASSUME NEW p \in Processes, Crash(p) PROVE SentAfterReview'
  <2>1. delivered' = delivered /\ ctl' = ctl /\ \A u \in Threads : pc'[u] \in {pc[u], "idle"}
    BY <1>5 DEF Crash, store
  <2> QED
    BY <2>1, SendsNothing
<1>6. CASE UNCHANGED vars
  <2>1. delivered' = delivered /\ ctl' = ctl /\ pc' = pc
    BY <1>6 DEF vars, store
  <2> QED
    BY <2>1, SendsNothing
<1> QED
  BY <1>1, <1>2, <1>3, <1>4, <1>5, <1>6, NextCases

LEMMA SentInit == Init => SentAfterReview
<1> SUFFICES ASSUME Init PROVE SentAfterReview
  OBVIOUS
<1>1. delivered = {} /\ ctl = "in_review"
  BY DEF Init
<1>2. \A t \in Threads : pc[t] # "complete"
  BY DEF Init
<1> QED
  BY <1>1, <1>2 DEF SentAfterReview

----------------------------------------------------------------------------
Always == Sound /\ ReviewInvariant /\ SentAfterReview

LEMMA AlwaysHolds == Spec => []Always
<1>1. Init => Always
  BY SoundInit, InvariantInit, SentInit DEF Always
<1>2. Always /\ [Next]_vars => Always'
  BY SoundStep, InvariantStep, SentStep DEF Always
<1> QED
  BY <1>1, <1>2, PTL DEF Spec

(* The inductive invariant, for any number of processes, rounds, changes   *)
(* and faults and any acts of the operator.                                *)
THEOREM ReviewInvariantHolds == Spec => []ReviewInvariant
<1>1. Always => ReviewInvariant
  BY DEF Always
<1> QED
  BY <1>1, AlwaysHolds, PTL

(* A final delivery is sent only after a review that found nothing         *)
(* blocking, and as long as one thread at a time worked on the task only   *)
(* for a change whose own review was approved.                             *)
THEOREM DeliversReviewed == Spec => []DeliveryWasReviewed
<1>1. ASSUME Sound, Orderly PROVE DeliveriesWereReviewed
  <2> SUFFICES ASSUME NEW d \in delivered
               PROVE  \E i \in 1..Len(reviews) :
                        reviews[i].rev = d /\ ~reviews[i].blocking /\ reviews[i].status = "approved"
    BY DEF DeliveriesWereReviewed
  <2>1. /\ d = rev /\ Len(reviews) > 0
        /\ Latest.rev = rev /\ ~Latest.blocking /\ Latest.status = "approved"
    BY <1>1 DEF Orderly, DeliveredSound
  <2>2. Len(reviews) \in 1..Len(reviews)
    BY <1>1, <2>1 DEF Sound, TypeOK
  <2> QED
    BY <2>1, <2>2 DEF Latest
<1>2. Always => DeliveryWasReviewed
  <2> SUFFICES ASSUME Always PROVE DeliveryWasReviewed
    OBVIOUS
  <2>1. delivered # {} => \E i \in 1..Len(reviews) : ~reviews[i].blocking
    BY DEF Always, SentAfterReview, Passed
  <2>2. overlapped \/ DeliveriesWereReviewed
    BY <1>1 DEF Always, ReviewInvariant, Orderly
  <2> QED
    BY <2>1, <2>2 DEF DeliveryWasReviewed
<1> QED
  BY <1>2, AlwaysHolds, PTL

(* The control task says completed only after a delivery, and as long as   *)
(* one thread at a time worked on the task only for an approved task whose *)
(* head was delivered.                                                     *)
THEOREM CompletesTruly == Spec => []CompletedIsTrue
<1>1. Always => CompletedIsTrue
  <2> SUFFICES ASSUME Always, ctl = "completed"
               PROVE  delivered # {} /\ (overlapped \/ (status = "approved" /\ rev \in delivered))
    BY DEF CompletedIsTrue
  <2>1. delivered # {}
    BY DEF Always, SentAfterReview
  <2>2. overlapped \/ (status = "approved" /\ rev \in delivered)
    BY DEF Always, ReviewInvariant, DeliveredSound
  <2> QED
    BY <2>1, <2>2
<1> QED
  BY <1>1, AlwaysHolds, PTL

(* The change is coded at most once per round, and once more per fault, as *)
(* long as one thread at a time worked on the task.                        *)
THEOREM BoundsRepairs == Spec => []RepairsAreBounded
<1>1. Always => RepairsAreBounded
  BY DEF Always, ReviewInvariant, RoundsLeft, RepairsAreBounded
<1> QED
  BY <1>1, AlwaysHolds, PTL

(* No step delivers or completes a task that has failed or was handed to a *)
(* human, as long as one thread at a time worked on it.                    *)
THEOREM EndsForGood == Spec => EndIsFinal
<1> DEFINE Ended == status \in {"failed", "needs_attention"} /\ ~overlapped
           Final == Ended => ctl' # "completed" /\ delivered' = delivered
<1>1. ASSUME Always, [Next]_vars, Ended PROVE ctl' # "completed" /\ delivered' = delivered
  <2>0. Sound /\ Orderly
    BY <1>1 DEF Always, ReviewInvariant, Orderly
  <2>1. ctl # "completed"
    BY <1>1, <2>0 DEF Orderly, DeliveredSound
  <2>2. ASSUME NEW t \in Threads, Silent(t) \/ Schedule(t) PROVE ctl' = ctl /\ delivered' = delivered
    BY <2>2, SilentLaw
  <2>3. ASSUME NEW t \in Threads, Locks(t) \/ Stumbles(t) \/ ScheduleFails(t)
        PROVE  ctl' = ctl /\ delivered' = delivered
    BY <2>3 DEF Locks, Stumbles, BeginCoding, CodingRaises, LockTimeout, JobFails, PollRaises,
         ScheduleFails, store
  <2>4. ASSUME NEW t \in Threads, Writes(t) PROVE ctl' # "completed" /\ delivered' = delivered
    <3>0. FrameSound(t)
      BY <2>0 DEF Orderly
    <3>1. ~Deliver(t)
      BY <1>1, <3>0 DEF Deliver, CanDeliver, FrameSound
    <3>2. ~Complete(t)
      BY <1>1, <3>0 DEF Complete, FrameSound
    <3> QED
      BY <2>1, <2>4, <3>1, <3>2 DEF Writes, CodingPasses, CodingFails, RecordFailure, ClearProjection,
         InsertReview, ProjectReview, MarkReview, ProjectVerdict, SendBack, Approve, Suspend, HandOver,
         ReleaseLane, MarkControl, SetTaskStatus
  <2>5. ASSUME NEW p \in Processes, Crash(p) PROVE ctl' = ctl /\ delivered' = delivered
    BY <2>5 DEF Crash, store
  <2>6. CASE UNCHANGED vars
    BY <2>1, <2>6 DEF vars, store
  <2> QED
    BY <1>1, <2>1, <2>2, <2>3, <2>4, <2>5, <2>6, NextCases DEF Schedules
<1>2. Always /\ [Next]_vars => [Final]_vars
  BY <1>1
<1> QED
  BY <1>2, AlwaysHolds, PTL DEF Spec, EndIsFinal
=============================================================================
