--------------------------- MODULE FollowUpProofs ---------------------------
(***************************************************************************)
(* For any number of processes, threads, rounds, operators and faults: a   *)
(* process runs one follow-up of the task at a time, "processing" is shown *)
(* only while a job is at work, and the log leads the operator back to the *)
(* task once none is.                                                      *)
(*                                                                         *)
(* The argument: a job that is not idle holds the key of its process, so a *)
(* request finds the key or an idle process; and a job that has written    *)
(* "processing" goes on until it has written another mark.  What a step    *)
(* does to its thread has one of three shapes, unless it is a write, and   *)
(* from these, not from the actions, the invariant follows.                *)
(*                                                                         *)
(* The log: an event that does not name the task is the operator's, or one *)
(* of a job in its loop, which still owes the patch of its last mark, and  *)
(* that one names it.                                                      *)
(***************************************************************************)
EXTENDS FollowUp, TLAPS

(* The shapes of a step that writes nothing: its thread moves on with a new *)
(* list of writes, hands a job to the executor, or ends one.               *)
Quiet(list) == \A i \in 1..Len(list) : list[i].mark # "processing"

HasMark(list) == \E i \in 1..Len(list) : list[i].op = "mark"

HasPatch(list) ==
  \E i \in 1..Len(list) :
    LET w == list[i] IN w.op = "patch" /\ w.at = "control" /\ w.mark # None

Moving(t, place, list) ==
  /\ pc' = [pc EXCEPT ![t] = place] /\ writes' = [writes EXCEPT ![t] = list]
  /\ snapshot' = [snapshot EXCEPT ![t] = None] /\ keys' = keys
  /\ list \in Seq(Writes)
  /\ Quiet(list) \/ place = "begin"
  /\ t \in Handlers => place \in HandlerPlaces
  /\ t \in Jobs => /\ pc[t] # "idle" /\ place \in JobPlaces \ {"idle", "queued"}
                   /\ faults' = 0 =>
                        IF pc[t] \in Running THEN place \in Running \/ (HasMark(list) /\ HasPatch(list))
                        ELSE writes[t] = <<>>

Granting(t) ==
  /\ t \in Handlers /\ t[1] \notin keys /\ keys' = keys \cup {t[1]}
  /\ \E s \in Slots : /\ pc[<<t[1], s>>] = "idle"
                      /\ pc' = [pc EXCEPT ![t] = "submitted", ![<<t[1], s>>] = "queued"]
  /\ UNCHANGED <<writes, snapshot>>

Ending(t) ==
  /\ t \in Jobs /\ pc[t] = "finish" /\ writes[t] = <<>>
  /\ pc' = [pc EXCEPT ![t] = "idle"] /\ keys' = keys \ {t[1]}
  /\ UNCHANGED <<writes, snapshot>>

Shape(t) ==
  \/ \E place \in HandlerPlaces \cup JobPlaces, list \in Seq(Writes) : Moving(t, place, list)
  \/ Granting(t)
  \/ Ending(t)

----------------------------------------------------------------------------
(* Lists of writes.                                                        *)
LEMMA ShortLists ==
  ASSUME NEW S, NEW a \in S, NEW b \in S
  PROVE  <<>> \in Seq(S) /\ <<a>> \in Seq(S) /\ <<a, b>> \in Seq(S)
OBVIOUS

LEMMA EventsKnown ==
  ASSUME NEW named \in BOOLEAN,
         NEW kind \in {"follow_up", "follow_up.failed", "channel_notified", "result", "review_failed",
                       "needs_attention"}
  PROVE  Event(kind, named) \in Events
BY DEF Event, Events

LEMMA MarkKnown ==
  ASSUME NEW s \in Marks
  PROVE  [op |-> "mark", mark |-> s] \in Writes
BY DEF Writes

LEMMA PatchKnown ==
  ASSUME NEW at \in {"control", "parent"}, NEW s \in Statuses \cup {"completed", None},
         NEW m \in Marks \cup {None}, NEW e \in Events \cup {None}
  PROVE  Patch(at, s, m, e) \in Writes
<1>1. Patch(at, s, m, e) \in
        [op : {"patch"}, at : {"control", "parent"}, status : Statuses \cup {"completed", None},
         mark : Marks \cup {None}, event : Events \cup {None}]
  BY DEF Patch
<1> QED
  BY <1>1 DEF Writes

LEMMA ListsKnown ==
  /\ <<>> \in Seq(Writes) /\ Projection \in Seq(Writes) /\ Notified \in Seq(Writes)
  /\ \A s \in Marks : Marking(s) \in Seq(Writes)
  /\ \A s \in {"needs_attention", "completed"} : Result(s) \in Seq(Writes)
<1>1. <<>> \in Seq(Writes)
  OBVIOUS
<1>2. Projection \in Seq(Writes)
  <2>1. Patch("control", None, None, None) \in Writes
    BY PatchKnown
  <2> QED
    BY <2>1, ShortLists DEF Projection
<1>3. Notified \in Seq(Writes)
  <2>1. Event("channel_notified", TRUE) \in Events
    BY EventsKnown
  <2>2. Patch("control", None, None, Event("channel_notified", TRUE)) \in Writes
    BY <2>1, PatchKnown
  <2>3. Patch("parent", None, None, None) \in Writes
    BY PatchKnown
  <2> QED
    BY <2>2, <2>3, ShortLists DEF Notified
<1>4. ASSUME NEW s \in Marks PROVE Marking(s) \in Seq(Writes)
  <2> DEFINE e == Event(IF s = "failed" THEN "follow_up.failed" ELSE "follow_up", TRUE)
  <2>1. e \in Events
    <3>1. CASE s = "failed"
      BY <3>1, EventsKnown
    <3>2. CASE s # "failed"
      BY <3>2, EventsKnown
    <3> QED
      BY <3>1, <3>2
  <2>2. Patch("control", None, s, e) \in Writes
    <3> HIDE DEF e
    <3> QED
      BY <2>1, PatchKnown
  <2>3. [op |-> "mark", mark |-> s] \in Writes
    BY MarkKnown
  <2>4. Marking(s) = <<[op |-> "mark", mark |-> s], Patch("control", None, s, e)>>
    BY DEF Marking
  <2> HIDE DEF e
  <2> QED
    BY <2>2, <2>3, <2>4, ShortLists
<1>5. ASSUME NEW s \in {"needs_attention", "completed"} PROVE Result(s) \in Seq(Writes)
  <2>1. s \in Statuses \cup {"completed", None}
    BY DEF Statuses
  <2>2. Event("result", TRUE) \in Events
    BY EventsKnown
  <2>3. Patch("control", s, None, Event("result", TRUE)) \in Writes
    BY <2>1, <2>2, PatchKnown
  <2>4. Patch("parent", s, None, None) \in Writes
    BY <2>1, PatchKnown
  <2> QED
    BY <2>3, <2>4, ShortLists DEF Result
<1> QED
  BY <1>1, <1>2, <1>3, <1>4, <1>5

LEMMA QuietLists ==
  /\ Quiet(<<>>) /\ Quiet(Projection) /\ Quiet(Notified)
  /\ \A s : Quiet(Result(s))
  /\ \A s \in Marks : s # "processing" => Quiet(Marking(s))
  /\ \A s \in Marks : HasMark(Marking(s)) /\ HasPatch(Marking(s))
<1>1. None # "processing"
  BY NoneAssumption DEF Marks
<1>2. Quiet(<<>>)
  BY DEF Quiet
<1>3. ASSUME NEW a, NEW s, NEW e PROVE Patch(a, s, None, e).mark # "processing"
  BY <1>1 DEF Patch
<1>4. ASSUME NEW a, NEW b, a.mark # "processing", b.mark # "processing"
      PROVE  Quiet(<<a>>) /\ Quiet(<<a, b>>)
  <2>1. Len(<<a>>) = 1 /\ Len(<<a, b>>) = 2 /\ 1..1 = {1} /\ 1..2 = {1, 2}
    OBVIOUS
  <2>2. <<a>>[1] = a /\ <<a, b>>[1] = a /\ <<a, b>>[2] = b
    OBVIOUS
  <2> QED
    BY <1>4, <2>1, <2>2 DEF Quiet
<1>5. Quiet(Projection)
  BY <1>3, <1>4 DEF Projection
<1>6. Quiet(Notified)
  BY <1>3, <1>4 DEF Notified
<1>7. ASSUME NEW s PROVE Quiet(Result(s))
  BY <1>3, <1>4 DEF Result
<1>8. ASSUME NEW s \in Marks
      PROVE  /\ s # "processing" => Quiet(Marking(s))
             /\ HasMark(Marking(s)) /\ HasPatch(Marking(s))
  <2>1. s # None
    BY NoneAssumption
  <2> DEFINE a == [op |-> "mark", mark |-> s]
             e == Event(IF s = "failed" THEN "follow_up.failed" ELSE "follow_up", TRUE)
             b == Patch("control", None, s, e)
  <2>2. a.op = "mark" /\ a.mark = s
    OBVIOUS
  <2>3. b.op = "patch" /\ b.mark = s /\ b.at = "control"
    BY DEF Patch
  <2>4. Marking(s) = <<a, b>>
    BY DEF Marking
  <2> HIDE DEF a, b
  <2>5. Len(<<a, b>>) = 2 /\ <<a, b>>[1] = a /\ <<a, b>>[2] = b /\ 1 \in 1..2 /\ 2 \in 1..2
    OBVIOUS
  <2>6. HasMark(<<a, b>>) /\ HasPatch(<<a, b>>)
    BY <2>1, <2>2, <2>3, <2>5 DEF HasMark, HasPatch
  <2> QED
    BY <1>4, <2>2, <2>3, <2>4, <2>6
<1> QED
  BY <1>2, <1>5, <1>6, <1>7, <1>8

LEMMA JoinLaw ==
  ASSUME NEW a \in Seq(Writes), NEW b \in Seq(Writes)
  PROVE  /\ a \o b \in Seq(Writes)
         /\ Quiet(a) /\ Quiet(b) => Quiet(a \o b)
         /\ HasMark(b) => HasMark(a \o b)
         /\ HasPatch(b) => HasPatch(a \o b)
<1>1. /\ Len(a \o b) = Len(a) + Len(b) /\ Len(a) \in Nat /\ Len(b) \in Nat
      /\ \A i \in 1..Len(a) : (a \o b)[i] = a[i]
      /\ \A i \in 1..Len(b) : (a \o b)[Len(a) + i] = b[i]
  OBVIOUS
<1>2. ASSUME NEW i \in 1..Len(a \o b), i \notin 1..Len(a)
      PROVE  \E j \in 1..Len(b) : (a \o b)[i] = b[j]
  <2>1. i - Len(a) \in 1..Len(b) /\ i = Len(a) + (i - Len(a))
    BY <1>1, <1>2
  <2> QED
    BY <1>1, <2>1
<1>3. \A j \in 1..Len(b) : Len(a) + j \in 1..Len(a \o b)
  BY <1>1
<1>4. a \o b \in Seq(Writes)
  OBVIOUS
<1>5. ASSUME Quiet(a), Quiet(b) PROVE Quiet(a \o b)
  BY <1>1, <1>2, <1>5 DEF Quiet
<1>6. ASSUME HasMark(b) PROVE HasMark(a \o b)
  <2>1. PICK j \in 1..Len(b) : b[j].op = "mark"
    BY <1>6 DEF HasMark
  <2>2. (a \o b)[Len(a) + j].op = "mark"
    BY <1>1, <2>1
  <2> QED
    BY <1>3, <2>2 DEF HasMark
<1>7. ASSUME HasPatch(b) PROVE HasPatch(a \o b)
  <2>1. PICK j \in 1..Len(b) : b[j].op = "patch" /\ b[j].at = "control" /\ b[j].mark # None
    BY <1>7 DEF HasPatch
  <2>2. (a \o b)[Len(a) + j] = b[j]
    BY <1>1, <2>1
  <2> QED
    BY <1>3, <2>1, <2>2 DEF HasPatch
<1> QED
  BY <1>4, <1>5, <1>6, <1>7

LEMMA ThreadKinds ==
  /\ \A t \in Threads : t \in Jobs <=> t \notin Handlers
  /\ \A p \in Processes, s \in Slots : <<p, s>> \in Jobs /\ <<p, s>> \in Threads
  /\ \A t \in Threads : t[1] \in Processes
<1>1. ASSUME NEW t \in Handlers PROVE t \notin Jobs /\ t[1] \in Processes
  <2>1. PICK p \in Processes, n \in {"poll", "operator"} : t = <<p, n>>
    BY HandlerAssumption
  <2>2. n \notin Slots
    BY SlotAssumption
  <2> QED
    BY <2>1, <2>2 DEF Jobs
<1>2. ASSUME NEW t \in Jobs PROVE t[1] \in Processes
  BY DEF Jobs
<1>3. ASSUME NEW p \in Processes, NEW s \in Slots PROVE <<p, s>> \in Jobs
  BY DEF Jobs
<1> QED
  BY <1>1, <1>2, <1>3 DEF Threads

LEMMA DecisionRuns == \A s : Decision(s) \in Running /\ Decision(s) # "begin"
<1> SUFFICES ASSUME NEW s PROVE Decision(s) \in Running /\ Decision(s) # "begin"
  OBVIOUS
<1>1. CASE s = "in_review"
  BY <1>1 DEF Decision, Running
<1>2. CASE s = "changes_requested"
  BY <1>2 DEF Decision, Running
<1>3. CASE s = "approved"
  BY <1>3 DEF Decision, Running
<1>4. CASE s \notin {"in_review", "changes_requested", "approved"}
  BY <1>4 DEF Decision, Running
<1> QED
  BY <1>1, <1>2, <1>3, <1>4

----------------------------------------------------------------------------
(* Every step that writes nothing has one of the shapes.                   *)
Sound == TypeOK /\ \A t \in Threads : ThreadSound(t)

Moves(t) ==
  \/ Resume(t) \/ Code(t) \/ CodeRaises(t) \/ Submit(t) \/ MarkQueued(t)
  \/ StartJob(t) \/ BeginLoop(t)
  \/ Review(t) \/ ReviewFails(t) \/ \E blocking \in BOOLEAN : Verdict(t, blocking)
  \/ SendBack(t) \/ Approve(t) \/ RefuseVerdict(t) \/ Suspend(t) \/ Deliver(t)
  \/ EndLoop(t) \/ Escalate(t) \/ GiveUp(t) \/ EndJob(t)
  \/ MarkTask(t) \/ WriteRaises(t)
  \/ t \in Handlers /\ (Poll(t) \/ OperatorApproves(t) \/ OperatorResumes(t) \/ OperatorMarks(t))

LEMMA Advance ==
  ASSUME Sound, NEW t \in Threads, writes[t] = <<>>, UNCHANGED <<keys, snapshot>>,
         NEW place \in HandlerPlaces \cup JobPlaces, NEW list \in Seq(Writes),
         GoAndWrite(t, place, list) \/ (Go(t, place) /\ list = <<>>),
         Quiet(list) \/ place = "begin",
         t \in Handlers => place \in HandlerPlaces,
         t \in Jobs => /\ pc[t] # "idle" /\ place \in JobPlaces \ {"idle", "queued"}
                       /\ pc[t] \in Running => place \in Running \/ (HasMark(list) /\ HasPatch(list))
  PROVE  Shape(t)
<1>1. snapshot \in [Threads -> Records \cup {None}] /\ writes \in [Threads -> Seq(Writes)]
  BY DEF Sound, TypeOK
<1>2. snapshot[t] = None
  BY DEF Sound, ThreadSound, Due
<1>3. snapshot' = [snapshot EXCEPT ![t] = None]
  BY <1>1, <1>2
<1>4. pc' = [pc EXCEPT ![t] = place] /\ writes' = [writes EXCEPT ![t] = list]
  BY <1>1 DEF GoAndWrite, Go
<1>5. Moving(t, place, list)
  BY <1>3, <1>4 DEF Moving
<1> QED
  BY <1>5 DEF Shape

LEMMA Raised ==
  ASSUME Sound, NEW t \in Threads, writes[t] = <<>>, UNCHANGED <<keys, snapshot>>,
         NEW first \in Seq(Writes), Quiet(first), Raise(t, first),
         t \in Jobs => pc[t] \in Running /\ pc[t] # "begin"
  PROVE  Shape(t)
<1>1. CASE t \in Jobs
  <2> DEFINE list == first \o Marking("failed")
  <2>1. "failed" \in Marks /\ "failed" # "processing"
    BY DEF Marks
  <2>2. Marking("failed") \in Seq(Writes)
    BY <2>1, ListsKnown
  <2>3. /\ Quiet(Marking("failed")) /\ HasMark(Marking("failed")) /\ HasPatch(Marking("failed"))
    BY <2>1, QuietLists
  <2>4. list \in Seq(Writes) /\ Quiet(list) /\ HasMark(list) /\ HasPatch(list)
    BY <2>2, <2>3, JoinLaw
  <2>5. GoAndWrite(t, "failed", list)
    BY <1>1 DEF Raise, Running
  <2>6. "failed" \in JobPlaces \ {"idle", "queued"} /\ pc[t] # "idle" /\ t \notin Handlers
    BY <1>1, ThreadKinds DEF JobPlaces, Running
  <2> HIDE DEF list
  <2> QED
    BY <2>4, <2>5, <2>6, Advance
<1>2. CASE t \notin Jobs
  <2>1. GoAndWrite(t, "idle", <<>>) /\ "idle" \in HandlerPlaces
    BY <1>2 DEF Raise, HandlerPlaces
  <2>2. <<>> \in Seq(Writes) /\ Quiet(<<>>)
    BY ListsKnown, QuietLists
  <2> QED
    BY <1>2, <2>1, <2>2, Advance
<1> QED
  BY <1>1, <1>2

(* What the place of a thread says of the thread.                          *)
LEMMA PlaceTells ==
  ASSUME Sound, NEW t \in Threads
  PROVE  /\ pc[t] \in {"resume", "submit", "submitted", "markTask"} => t \in Handlers
         /\ pc[t] \in {"queued", "failed", "giveUp", "finish"} \cup (Running \ {"code"}) => t \in Jobs
         /\ t \in Handlers => pc[t] \in HandlerPlaces
         /\ t \in Jobs => pc[t] \in JobPlaces
<1>1. (t \in Handlers => pc[t] \in HandlerPlaces) /\ (t \in Jobs => pc[t] \in JobPlaces)
  BY DEF Sound, ThreadSound
<1> QED
  BY <1>1, ThreadKinds DEF HandlerPlaces, JobPlaces, Running

(* A job in its loop goes on in its loop.                                  *)
LEMMA LoopGoesOn ==
  ASSUME Sound, NEW t \in Jobs, writes[t] = <<>>, UNCHANGED <<keys, snapshot>>,
         pc[t] \in Running \cup {"queued"}, NEW place \in Running, NEW list \in Seq(Writes),
         GoAndWrite(t, place, list) \/ (Go(t, place) /\ list = <<>>),
         Quiet(list) \/ place = "begin"
  PROVE  Shape(t)
<1>1. t \in Threads /\ t \notin Handlers
  BY ThreadKinds DEF Threads
<1>2. place \in JobPlaces \ {"idle", "queued"} /\ pc[t] # "idle"
  BY DEF JobPlaces, Running
<1> QED
  BY <1>1, <1>2, Advance

(* A job that is past its loop goes on to its end.                         *)
LEMMA EndGoesOn ==
  ASSUME Sound, NEW t \in Jobs, writes[t] = <<>>, UNCHANGED <<keys, snapshot>>,
         pc[t] \in {"failed", "giveUp"}, NEW place \in {"giveUp", "finish"}, NEW list \in Seq(Writes),
         GoAndWrite(t, place, list) \/ (Go(t, place) /\ list = <<>>),
         Quiet(list)
  PROVE  Shape(t)
<1>1. t \in Threads /\ t \notin Handlers
  BY ThreadKinds DEF Threads
<1>2. place \in JobPlaces \ {"idle", "queued"} /\ pc[t] # "idle" /\ pc[t] \notin Running
  BY DEF JobPlaces, Running
<1> QED
  BY <1>1, <1>2, Advance

(* A handler goes on.                                                      *)
LEMMA HandlerGoesOn ==
  ASSUME Sound, NEW t \in Handlers, writes[t] = <<>>, UNCHANGED <<keys, snapshot>>,
         NEW place \in HandlerPlaces, NEW list \in Seq(Writes),
         GoAndWrite(t, place, list) \/ (Go(t, place) /\ list = <<>>),
         Quiet(list)
  PROVE  Shape(t)
<1>1. t \in Threads /\ t \notin Jobs
  BY ThreadKinds DEF Threads
<1> QED
  BY <1>1, Advance

LEMMA JobMoves ==
  ASSUME Sound, NEW t \in Jobs,
         \/ StartJob(t) \/ BeginLoop(t)
         \/ Review(t) \/ ReviewFails(t) \/ \E blocking \in BOOLEAN : Verdict(t, blocking)
         \/ SendBack(t) \/ Approve(t) \/ RefuseVerdict(t) \/ Suspend(t) \/ Deliver(t)
         \/ EndLoop(t) \/ Escalate(t) \/ GiveUp(t) \/ EndJob(t)
  PROVE  Shape(t)
<1> t \in Threads /\ t \notin Handlers
  BY ThreadKinds DEF Threads
<1> <<>> \in Seq(Writes) /\ Quiet(<<>>)
  BY ListsKnown, QuietLists
<1>1. CASE StartJob(t)
  <2>1. "processing" \in Marks
    BY DEF Marks
  <2>2. Marking("processing") \in Seq(Writes)
    BY <2>1, ListsKnown
  <2>3. /\ writes[t] = <<>> /\ pc[t] = "queued" /\ UNCHANGED <<keys, snapshot>>
        /\ GoAndWrite(t, "begin", Marking("processing"))
    BY <1>1 DEF StartJob, At
  <2> QED
    BY <2>2, <2>3, LoopGoesOn DEF Running
<1>2. CASE BeginLoop(t)
  <2>1. /\ writes[t] = <<>> /\ pc[t] = "begin" /\ UNCHANGED <<keys, snapshot>>
        /\ Go(t, Decision(status))
    BY <1>2 DEF BeginLoop, At
  <2>2. Decision(status) \in Running
    BY DecisionRuns
  <2> QED
    BY <2>1, <2>2, LoopGoesOn DEF Running
<1>3. CASE Review(t)
  <2>1. /\ writes[t] = <<>> /\ pc[t] = "review" /\ UNCHANGED <<keys, snapshot>>
        /\ GoAndWrite(t, "verdict", Projection \o Notified)
    BY <1>3 DEF Review, At
  <2>2. Projection \o Notified \in Seq(Writes) /\ Quiet(Projection \o Notified)
    BY ListsKnown, QuietLists, JoinLaw
  <2> QED
    BY <2>1, <2>2, LoopGoesOn DEF Running
<1>4. CASE ReviewFails(t)
  <2> DEFINE e == Event("review_failed", TRUE)
             w == Patch("control", None, None, e)
  <2>1. e \in Events
    BY EventsKnown
  <2>2. w \in Writes
    <3> HIDE DEF e
    <3> QED
      BY <2>1, PatchKnown
  <2>3. w.mark # "processing"
    BY NoneAssumption DEF Patch, Marks
  <2>4. PICK first \in {<<>>, <<w>>} : Raise(t, first)
    BY <1>4 DEF ReviewFails
  <2>5. writes[t] = <<>> /\ pc[t] = "review" /\ UNCHANGED <<keys, snapshot>>
    BY <1>4 DEF ReviewFails, At, store
  <2> HIDE DEF w
  <2>6. <<w>> \in Seq(Writes) /\ Quiet(<<w>>)
    BY <2>2, <2>3 DEF Quiet
  <2>7. first \in Seq(Writes) /\ Quiet(first)
    BY <2>6
  <2> QED
    BY <2>4, <2>5, <2>7, Raised DEF Running
<1>5. ASSUME NEW blocking \in BOOLEAN, Verdict(t, blocking) PROVE Shape(t)
  <2>1. writes[t] = <<>> /\ pc[t] = "verdict" /\ UNCHANGED <<keys, snapshot>>
    BY <1>5 DEF Verdict, At
  <2>2. PICK place \in {"approve_review", "handoff", "request_changes"} : GoAndWrite(t, place, Projection)
    BY <1>5 DEF Verdict
  <2> QED
    BY <2>1, <2>2, LoopGoesOn, ListsKnown, QuietLists DEF Running
<1>6. CASE SendBack(t)
  <2>1. /\ writes[t] = <<>> /\ pc[t] \in {"handoff", "request_changes"} /\ UNCHANGED <<keys, snapshot>>
        /\ Go(t, IF pc[t] = "handoff" THEN "suspend" ELSE "code")
    BY <1>6 DEF SendBack, At
  <2>2. PICK place \in {"suspend", "code"} : Go(t, place)
    BY <2>1
  <2> QED
    BY <2>1, <2>2, LoopGoesOn DEF Running
<1>7. CASE Approve(t)
  <2>1. /\ writes[t] = <<>> /\ pc[t] = "approve_review" /\ UNCHANGED <<keys, snapshot>>
        /\ Go(t, "deliver")
    BY <1>7 DEF Approve, At
  <2> QED
    BY <2>1, LoopGoesOn DEF Running
<1>8. CASE RefuseVerdict(t)
  <2>1. /\ writes[t] = <<>> /\ pc[t] \in {"handoff", "request_changes", "approve_review"}
        /\ UNCHANGED <<keys, snapshot>> /\ Raise(t, <<>>)
    BY <1>8 DEF RefuseVerdict, At
  <2> QED
    BY <2>1, Raised DEF Running
<1>9. CASE Suspend(t)
  <2>1. /\ writes[t] = <<>> /\ pc[t] = "suspend" /\ UNCHANGED <<keys, snapshot>>
        /\ GoAndWrite(t, "done", Notified \o Result("needs_attention"))
    BY <1>9 DEF Suspend, At
  <2>2. /\ Notified \o Result("needs_attention") \in Seq(Writes)
        /\ Quiet(Notified \o Result("needs_attention"))
    BY ListsKnown, QuietLists, JoinLaw
  <2> QED
    BY <2>1, <2>2, LoopGoesOn DEF Running
<1>10. CASE Deliver(t)
  <2>1. /\ writes[t] = <<>> /\ pc[t] = "deliver" /\ UNCHANGED <<keys, snapshot>>
        /\ GoAndWrite(t, "done", IF status = "approved" THEN Notified \o Result("completed") ELSE <<>>)
    BY <1>10 DEF Deliver, At
  <2>2. /\ Notified \o Result("completed") \in Seq(Writes)
        /\ Quiet(Notified \o Result("completed"))
    BY ListsKnown, QuietLists, JoinLaw
  <2>3. PICK list \in Seq(Writes) : GoAndWrite(t, "done", list) /\ Quiet(list)
    BY <2>1, <2>2
  <2> QED
    BY <2>1, <2>3, LoopGoesOn DEF Running
<1>11. CASE EndLoop(t)
  <2> DEFINE list == Marking("completed")
  <2>1. "completed" \in Marks /\ "completed" # "processing"
    BY DEF Marks
  <2>2. list \in Seq(Writes) /\ Quiet(list) /\ HasMark(list) /\ HasPatch(list)
    BY <2>1, ListsKnown, QuietLists
  <2>3. /\ writes[t] = <<>> /\ pc[t] = "done" /\ UNCHANGED <<keys, snapshot>>
        /\ GoAndWrite(t, "finish", list)
    BY <1>11 DEF EndLoop, At
  <2>4. "finish" \in JobPlaces \ {"idle", "queued"} /\ pc[t] # "idle"
    BY <2>3 DEF JobPlaces
  <2> HIDE DEF list
  <2> QED
    BY <2>2, <2>3, <2>4, Advance
<1>12. CASE Escalate(t)
  <2>1. writes[t] = <<>> /\ pc[t] = "failed" /\ UNCHANGED <<keys, snapshot>>
    BY <1>12 DEF Escalate, At
  <2>2. CASE Go(t, "giveUp")
    BY <2>1, <2>2, EndGoesOn
  <2>3. CASE GoAndWrite(t, "finish", Result("needs_attention"))
    BY <2>1, <2>3, EndGoesOn, ListsKnown, QuietLists
  <2> QED
    BY <1>12, <2>2, <2>3 DEF Escalate
<1>13. CASE GiveUp(t)
  <2>1. /\ writes[t] = <<>> /\ pc[t] = "giveUp" /\ UNCHANGED <<keys, snapshot>>
        /\ GoAndWrite(t, "finish", Result("needs_attention"))
    BY <1>13 DEF GiveUp, At
  <2> QED
    BY <2>1, EndGoesOn, ListsKnown, QuietLists
<1>14. CASE EndJob(t)
  BY <1>14 DEF EndJob, At, Go, Shape, Ending
<1> QED
  BY <1>1, <1>2, <1>3, <1>4, <1>5, <1>6, <1>7, <1>8, <1>9, <1>10, <1>11, <1>12, <1>13, <1>14

LEMMA CodeMoves ==
  ASSUME Sound, NEW t \in Threads, Code(t) \/ CodeRaises(t)
  PROVE  Shape(t)
<1> <<>> \in Seq(Writes) /\ Quiet(<<>>)
  BY ListsKnown, QuietLists
<1>1. writes[t] = <<>> /\ pc[t] = "code" /\ UNCHANGED <<keys, snapshot>>
  BY DEF Code, CodeRaises, At
<1>2. CASE CodeRaises(t)
  <2>1. Raise(t, <<>>)
    BY <1>2 DEF CodeRaises
  <2> QED
    BY <1>1, <2>1, Raised DEF Running
<1>3. ASSUME Code(t), t \in Jobs PROVE Shape(t)
  <2>1. PICK s : GoAndWrite(t, Decision(s), Projection)
    BY <1>3 DEF Code
  <2>2. Decision(s) \in Running
    BY DecisionRuns
  <2> QED
    BY <1>1, <1>3, <2>1, <2>2, LoopGoesOn, ListsKnown, QuietLists DEF Running
<1>4. ASSUME Code(t), t \notin Jobs PROVE Shape(t)
  <2>1. PICK place \in {"submit", "idle"} : Go(t, place)
    BY <1>4 DEF Code
  <2>2. t \in Handlers
    BY <1>4, ThreadKinds
  <2> QED
    BY <1>1, <2>1, <2>2, HandlerGoesOn DEF HandlerPlaces
<1> QED
  BY <1>2, <1>3, <1>4

LEMMA HandlerMoves ==
  ASSUME Sound, NEW t \in Handlers,
         \/ Resume(t) \/ Submit(t) \/ MarkQueued(t) \/ MarkTask(t)
         \/ Poll(t) \/ OperatorApproves(t) \/ OperatorResumes(t) \/ OperatorMarks(t)
  PROVE  Shape(t)
<1> t \in Threads /\ t \notin Jobs
  BY ThreadKinds DEF Threads
<1> <<>> \in Seq(Writes) /\ Quiet(<<>>)
  BY ListsKnown, QuietLists
<1>1. CASE Resume(t) \/ Poll(t) \/ OperatorApproves(t) \/ OperatorResumes(t) \/ MarkTask(t)
  <2>1. writes[t] = <<>> /\ UNCHANGED <<keys, snapshot>>
    BY <1>1 DEF Resume, Poll, OperatorApproves, OperatorResumes, MarkTask, Operate, At
  <2>2. PICK place \in {"code", "submit", "idle", "resume"} : Go(t, place)
    BY <1>1 DEF Resume, Poll, OperatorApproves, OperatorResumes, MarkTask
  <2> QED
    BY <2>1, <2>2, HandlerGoesOn DEF HandlerPlaces
<1>2. CASE OperatorMarks(t)
  <2> DEFINE e == Event("needs_attention", FALSE)
             w == Patch("control", "needs_attention", None, e)
  <2>1. writes[t] = <<>> /\ UNCHANGED <<keys, snapshot>>
    BY <1>2 DEF OperatorMarks, Operate, At
  <2>2. CASE Go(t, "markTask")
    BY <2>1, <2>2, HandlerGoesOn DEF HandlerPlaces
  <2>3. CASE GoAndWrite(t, "idle", <<w>>)
    <3>1. e \in Events
      BY EventsKnown
    <3>2. w \in Writes
      <4> HIDE DEF e
      <4> QED
        BY <3>1, PatchKnown DEF Statuses
    <3>3. w.mark # "processing"
      BY NoneAssumption DEF Patch, Marks
    <3> HIDE DEF w
    <3>4. <<w>> \in Seq(Writes) /\ Quiet(<<w>>)
      BY <3>2, <3>3 DEF Quiet
    <3> QED
      BY <2>1, <2>3, <3>4, HandlerGoesOn DEF HandlerPlaces
  <2> QED
    BY <1>2, <2>2, <2>3 DEF OperatorMarks
<1>3. CASE MarkQueued(t)
  <2> DEFINE list == IF mark = "idle" THEN Marking("queued") ELSE <<>>
  <2>1. "queued" \in Marks /\ "queued" # "processing"
    BY DEF Marks
  <2>2. list \in Seq(Writes) /\ Quiet(list)
    BY <2>1, ListsKnown, QuietLists
  <2>3. writes[t] = <<>> /\ UNCHANGED <<keys, snapshot>> /\ GoAndWrite(t, "idle", list)
    BY <1>3 DEF MarkQueued, At
  <2> HIDE DEF list
  <2> QED
    BY <2>2, <2>3, HandlerGoesOn DEF HandlerPlaces
<1>4. CASE Submit(t)
  <2>1. writes[t] = <<>> /\ UNCHANGED snapshot
    BY <1>4 DEF Submit, At
  <2>2. ASSUME t[1] \in keys PROVE Shape(t)
    <3>1. Go(t, "idle") /\ UNCHANGED keys
      BY <1>4, <2>2 DEF Submit
    <3> QED
      BY <2>1, <3>1, HandlerGoesOn DEF HandlerPlaces
  <2>3. ASSUME t[1] \notin keys PROVE Shape(t)
    <3>1. \A s \in Slots : pc[<<t[1], s>>] = "idle"
      <4> TAKE s \in Slots
      <4>1. <<t[1], s>> \in Jobs /\ <<t[1], s>> \in Threads /\ <<t[1], s>>[1] = t[1]
        BY ThreadKinds
      <4> QED
        BY <2>3, <4>1 DEF Sound, ThreadSound
    <3>2. FreeSlots(t[1]) = Slots /\ Slots # {}
      BY <3>1, SlotAssumption DEF FreeSlots
    <3> DEFINE s == CHOOSE j \in FreeSlots(t[1]) : TRUE
    <3>3. s \in Slots
      BY <3>2
    <3>4. /\ keys' = keys \cup {t[1]} /\ UNCHANGED writes
          /\ pc' = [pc EXCEPT ![t] = "submitted", ![<<t[1], s>>] = "queued"]
      BY <1>4, <2>3 DEF Submit
    <3> HIDE DEF s
    <3>5. Granting(t)
      BY <2>1, <2>3, <3>1, <3>3, <3>4 DEF Granting
    <3> QED
      BY <3>5 DEF Shape
  <2> QED
    BY <2>2, <2>3
<1> QED
  BY <1>1, <1>2, <1>3, <1>4

LEMMA FailedWrite ==
  ASSUME Sound, NEW t \in Threads, WriteRaises(t)
  PROVE  Shape(t)
<1>1. /\ writes[t] # <<>> /\ faults' = faults + 1 /\ faults \in Nat /\ UNCHANGED keys
      /\ snapshot' = [snapshot EXCEPT ![t] = None] /\ Raise(t, <<>>)
  BY BoundAssumption DEF WriteRaises, Fault, Sound, TypeOK
<1>2. faults' # 0
  BY <1>1
<1> <<>> \in Seq(Writes) /\ Quiet(<<>>)
  BY ListsKnown, QuietLists
<1>3. CASE t \in Jobs
  <2>1. pc[t] \notin {"idle", "queued"} /\ t \notin Handlers
    BY <1>1, <1>3, ThreadKinds DEF Sound, ThreadSound
  <2>2. "failed" \in Marks /\ "failed" # "processing"
    BY DEF Marks
  <2>3. Marking("failed") \in Seq(Writes) /\ Quiet(Marking("failed"))
    BY <2>2, ListsKnown, QuietLists
  <2>4. <<>> \o Marking("failed") \in Seq(Writes) /\ Quiet(<<>> \o Marking("failed"))
    BY <2>3, JoinLaw
  <2>5. PICK place \in {"finish", "failed"}, list \in Seq(Writes) :
          GoAndWrite(t, place, list) /\ Quiet(list)
    BY <1>1, <1>3, <2>4 DEF Raise
  <2>6. Moving(t, place, list)
    BY <1>1, <1>2, <2>1, <2>5 DEF Moving, GoAndWrite, JobPlaces
  <2> QED
    BY <2>5, <2>6 DEF Shape, JobPlaces
<1>4. CASE t \notin Jobs
  <2>1. GoAndWrite(t, "idle", <<>>)
    BY <1>1, <1>4 DEF Raise
  <2>2. Moving(t, "idle", <<>>)
    BY <1>1, <1>4, <2>1 DEF Moving, GoAndWrite, HandlerPlaces
  <2> QED
    BY <2>2 DEF Shape, HandlerPlaces
<1> QED
  BY <1>3, <1>4

LEMMA MoveShapes ==
  ASSUME Sound, NEW t \in Threads, Moves(t)
  PROVE  Shape(t)
<1>1. CASE Resume(t) \/ Submit(t) \/ MarkQueued(t) \/ MarkTask(t)
  <2>1. pc[t] \in {"resume", "submit", "submitted", "markTask"}
    BY <1>1 DEF Resume, Submit, MarkQueued, MarkTask, At
  <2> QED
    BY <1>1, <2>1, PlaceTells, HandlerMoves
<1>2. CASE t \in Handlers /\ (Poll(t) \/ OperatorApproves(t) \/ OperatorResumes(t) \/ OperatorMarks(t))
  BY <1>2, HandlerMoves
<1>3. CASE \/ StartJob(t) \/ BeginLoop(t)
           \/ Review(t) \/ ReviewFails(t) \/ \E blocking \in BOOLEAN : Verdict(t, blocking)
           \/ SendBack(t) \/ Approve(t) \/ RefuseVerdict(t) \/ Suspend(t) \/ Deliver(t)
           \/ EndLoop(t) \/ Escalate(t) \/ GiveUp(t) \/ EndJob(t)
  <2>1. pc[t] \in {"queued", "failed", "giveUp", "finish"} \cup (Running \ {"code"})
    BY <1>3 DEF StartJob, BeginLoop, Review, ReviewFails, Verdict, SendBack, Approve, RefuseVerdict,
                Suspend, Deliver, EndLoop, Escalate, GiveUp, EndJob, At, Running
  <2> QED
    BY <1>3, <2>1, PlaceTells, JobMoves
<1> QED
  BY <1>1, <1>2, <1>3, CodeMoves, FailedWrite DEF Moves

----------------------------------------------------------------------------
(* What such a step does to the records.                                   *)
RecordsKept ==
  /\ status' \in Statuses /\ UNCHANGED <<mark, lost>>
  /\ record' \in [{"control", "parent"} -> Records]
  /\ record'["control"].mark = record["control"].mark
  /\ log'.last \in BOOLEAN
  /\ rounds' \in 0..MaxRounds
  /\ actions' \in 0..MaxActions /\ faults' \in 0..MaxFaults
  /\ faults' = 0 => faults = 0

LEMMA LoggedType == \A e : Logged(e).last = e.named
BY DEF Logged

LEMMA SetTaskKeeps ==
  ASSUME TypeOK, NEW s \in Statuses, NEW kind, SetTask(s, kind), UNCHANGED <<actions, faults>>
  PROVE  RecordsKept
<1>1. /\ status' = s /\ UNCHANGED <<mark, rounds, lost>>
      /\ record' = [record EXCEPT !["control"].status = s]
      /\ log' = Logged(Event(kind, TRUE))
  BY DEF SetTask
<1>2. log'.last = TRUE
  BY <1>1, LoggedType DEF Event
<1>3. record["control"] \in Records /\ record \in [{"control", "parent"} -> Records]
  BY DEF TypeOK
<1> DEFINE r == [record["control"] EXCEPT !.status = s]
<1>4. r \in Records /\ r.mark = record["control"].mark
  BY <1>3 DEF Records
<1>5. record' = [record EXCEPT !["control"] = r]
  BY <1>1
<1> HIDE DEF r
<1>6. /\ record' \in [{"control", "parent"} -> Records]
      /\ record'["control"].mark = record["control"].mark
  BY <1>3, <1>4, <1>5
<1> QED
  BY <1>1, <1>2, <1>6 DEF RecordsKept, TypeOK

LEMMA MoveKeepsRecords ==
  ASSUME Sound, NEW t \in Threads, Moves(t)
  PROVE  RecordsKept
<1> TypeOK
  BY DEF Sound
<1>0. {"in_review", "failed", "needs_attention", "changes_requested", "approved"} \subseteq Statuses
  BY DEF Statuses, Open
<1>1. ASSUME UNCHANGED store, UNCHANGED <<actions, faults>> PROVE RecordsKept
  BY <1>1 DEF RecordsKept, TypeOK, store
<1>2. CASE \/ Resume(t) \/ Submit(t) \/ MarkQueued(t) \/ StartJob(t) \/ BeginLoop(t) \/ ReviewFails(t)
           \/ RefuseVerdict(t) \/ Deliver(t) \/ EndLoop(t) \/ Escalate(t) \/ EndJob(t) \/ Poll(t)
  BY <1>1, <1>2 DEF Resume, Submit, MarkQueued, StartJob, BeginLoop, ReviewFails, RefuseVerdict,
                    Deliver, EndLoop, Escalate, EndJob, Poll
<1>3. CASE Code(t)
  <2>1. PICK s \in {"in_review", "failed"} : SetTask(s, "status") /\ UNCHANGED <<actions, faults>>
    BY <1>3 DEF Code
  <2> QED
    BY <1>0, <2>1, SetTaskKeeps
<1>4. CASE CodeRaises(t) \/ Suspend(t) \/ GiveUp(t) \/ MarkTask(t)
  <2>1. PICK kind \in {"status", "needs_attention"} :
          SetTask("needs_attention", kind) /\ UNCHANGED <<actions, faults>>
    BY <1>4 DEF CodeRaises, Suspend, GiveUp, MarkTask
  <2> QED
    BY <1>0, <2>1, SetTaskKeeps
<1>5. CASE SendBack(t)
  <2>1. SetTask("changes_requested", "status") /\ UNCHANGED <<actions, faults>>
    BY <1>5 DEF SendBack
  <2> QED
    BY <1>0, <2>1, SetTaskKeeps
<1>6. CASE Approve(t)
  <2>1. UNCHANGED <<actions, faults>> /\ (UNCHANGED store \/ SetTask("approved", "status"))
    BY <1>6 DEF Approve
  <2> QED
    BY <1>0, <1>1, <2>1, SetTaskKeeps
<1>7. CASE Review(t)
  <2>1. /\ log' = Logged(Event("handoff_to_code_review", FALSE))
        /\ UNCHANGED <<status, mark, record, rounds, lost>> /\ UNCHANGED <<actions, faults>>
    BY <1>7 DEF Review
  <2>2. log'.last = FALSE
    BY <2>1, LoggedType DEF Event
  <2> QED
    BY <2>1, <2>2 DEF RecordsKept, TypeOK
<1>8. ASSUME NEW blocking \in BOOLEAN, Verdict(t, blocking) PROVE RecordsKept
  <2>1. /\ log' = Logged(Event("review_returned", FALSE))
        /\ rounds' = IF blocking /\ rounds < MaxRounds THEN rounds + 1 ELSE rounds
        /\ UNCHANGED <<status, mark, record, lost>> /\ UNCHANGED <<actions, faults>>
    BY <1>8 DEF Verdict
  <2>2. log'.last = FALSE
    BY <2>1, LoggedType DEF Event
  <2>3. rounds' \in 0..MaxRounds
    BY <2>1, BoundAssumption DEF TypeOK
  <2> QED
    BY <2>1, <2>2, <2>3 DEF RecordsKept, TypeOK
<1>9. CASE OperatorApproves(t) \/ OperatorResumes(t) \/ OperatorMarks(t)
  <2>1. UNCHANGED <<store, faults>> /\ actions < MaxActions /\ actions' = actions + 1
    BY <1>9 DEF OperatorApproves, OperatorResumes, OperatorMarks, Operate
  <2>2. actions' \in 0..MaxActions
    BY <2>1, BoundAssumption DEF TypeOK
  <2> QED
    BY <2>1, <2>2 DEF RecordsKept, TypeOK, store
<1>10. CASE WriteRaises(t)
  <2>1. UNCHANGED <<store, actions>> /\ faults < MaxFaults /\ faults' = faults + 1
    BY <1>10 DEF WriteRaises, Fault
  <2>2. faults' \in 0..MaxFaults /\ faults' # 0
    BY <2>1, BoundAssumption DEF TypeOK
  <2> QED
    BY <2>1, <2>2 DEF RecordsKept, TypeOK, store
<1> QED
  BY <1>2, <1>3, <1>4, <1>5, <1>6, <1>7, <1>8, <1>9, <1>10 DEF Moves

LEMMA NextCases ==
  ASSUME Next
  PROVE  \/ \E t \in Threads : SetMark(t) \/ ReadRecord(t) \/ WriteRecord(t) \/ Moves(t)
         \/ \E p \in Processes : Crash(p)
<1>1. ASSUME NEW t \in Threads, Step(t) \/ WriteRaises(t)
      PROVE  SetMark(t) \/ ReadRecord(t) \/ WriteRecord(t) \/ Moves(t)
  BY <1>1 DEF Step, Moves
<1>2. ASSUME NEW t \in Handlers, Poll(t) \/ OperatorApproves(t) \/ OperatorResumes(t) \/ OperatorMarks(t)
      PROVE  t \in Threads /\ Moves(t)
  BY <1>2, ThreadKinds DEF Moves, Threads
<1> QED
  BY <1>1, <1>2 DEF Next

----------------------------------------------------------------------------
(* Types are kept.                                                         *)
LEMMA HeadAndTail ==
  ASSUME NEW list \in Seq(Writes), list # <<>>
  PROVE  /\ Head(list) \in Writes /\ Head(list) = list[1] /\ 1 \in 1..Len(list)
         /\ Tail(list) \in Seq(Writes)
         /\ \A i \in 1..Len(Tail(list)) : i + 1 \in 1..Len(list) /\ Tail(list)[i] = list[i + 1]
         /\ \A i \in 1..Len(list) : i # 1 =>
              i - 1 \in 1..Len(Tail(list)) /\ Tail(list)[i - 1] = list[i]
<1>1. Len(list) \in Nat /\ Len(list) # 0
  OBVIOUS
<1>2. Head(list) = list[1] /\ 1 \in 1..Len(list) /\ list[1] \in Writes
  BY <1>1
<1>3. Tail(list) \in Seq(Writes) /\ Len(Tail(list)) = Len(list) - 1
  BY <1>1
<1>4. \A i \in 1..Len(Tail(list)) : Tail(list)[i] = list[i + 1]
  BY <1>1, <1>3
<1>5. ASSUME NEW i \in 1..Len(list), i # 1
      PROVE  i - 1 \in 1..Len(Tail(list)) /\ Tail(list)[i - 1] = list[i]
  <2>1. i - 1 \in 1..Len(Tail(list)) /\ (i - 1) + 1 = i
    BY <1>1, <1>3, <1>5
  <2> QED
    BY <1>4, <2>1
<1>6. \A i \in 1..Len(Tail(list)) : i + 1 \in 1..Len(list)
  BY <1>1, <1>3
<1> QED
  BY <1>2, <1>3, <1>4, <1>5, <1>6

LEMMA WriteTypes ==
  ASSUME NEW w \in Writes
  PROVE  /\ w.op = "mark" => w.mark \in Marks
         /\ w.op = "patch" => /\ w.at \in {"control", "parent"} /\ w.event \in Events \cup {None}
                              /\ w.status \in Statuses \cup {"completed", None}
                              /\ w.mark \in Marks \cup {None}
BY DEF Writes

(* What the write of a patch does.                                         *)
LEMMA PatchWrites ==
  ASSUME Sound, NEW t \in Threads, WriteRecord(t), NEW w, w = Head(writes[t])
  PROVE  /\ w.op = "patch"
         /\ record' \in [{"control", "parent"} -> Records]
         /\ log'.last \in BOOLEAN /\ lost' \in BOOLEAN
         /\ lost' = (lost \/ (w.at = "control" /\ record[w.at] # snapshot[t]))
         /\ w.at # "control" => record'["control"] = record["control"]
         /\ w.at = "control" => record'["control"].mark = Or(w.mark, snapshot[t].mark)
         /\ w.at \in {"control", "parent"}
<1>1. writes[t] # <<>> /\ w.op = "patch" /\ snapshot[t] # None
  BY DEF WriteRecord, Due
<1>2. writes[t] \in Seq(Writes) /\ record \in [{"control", "parent"} -> Records] /\ snapshot[t] \in Records
  BY <1>1 DEF Sound, TypeOK
<1>3. /\ w.at \in {"control", "parent"} /\ w.event \in Events \cup {None}
      /\ w.status \in Statuses \cup {"completed", None}
      /\ w.mark \in Marks \cup {None}
  BY <1>1, <1>2, HeadAndTail, WriteTypes
<1> DEFINE s == Or(w.status, snapshot[t].status)
           m == Or(w.mark, snapshot[t].mark)
           r == [status |-> s, mark |-> m]
<1>4. /\ record' = [record EXCEPT ![w.at] = r]
      /\ lost' = (lost \/ (w.at = "control" /\ record[w.at] # snapshot[t]))
      /\ log' = IF w.event = None THEN log ELSE Logged(w.event)
  BY DEF WriteRecord
<1>5. s \in Statuses \cup {"completed", "issue_created"} /\ m \in Marks
  <2>1. snapshot[t].status \in Statuses \cup {"completed", "issue_created"} /\ snapshot[t].mark \in Marks
    BY <1>2 DEF Records
  <2> QED
    BY <1>3, <2>1 DEF Or
<1>6. r \in Records /\ r.mark = m
  <2> HIDE DEF s, m
  <2> QED
    BY <1>5 DEF Records
<1>7. log'.last \in BOOLEAN
  <2>1. CASE w.event = None
    BY <1>4, <2>1 DEF Sound, TypeOK
  <2>2. CASE w.event # None
    <3>1. w.event.named \in BOOLEAN
      BY <1>3, <2>2 DEF Events
    <3> QED
      BY <1>4, <2>2, <3>1, LoggedType
  <2> QED
    BY <2>1, <2>2
<1>8. lost' \in BOOLEAN
  BY <1>4 DEF Sound, TypeOK
<1> HIDE DEF r
<1>9. /\ record' \in [{"control", "parent"} -> Records]
      /\ w.at # "control" => record'["control"] = record["control"]
      /\ w.at = "control" => record'["control"] = r
  BY <1>2, <1>3, <1>4, <1>6
<1> QED
  BY <1>1, <1>3, <1>4, <1>6, <1>7, <1>8, <1>9

ThreadTypes ==
  /\ keys \subseteq Processes
  /\ pc \in [Threads -> HandlerPlaces \cup JobPlaces]
  /\ writes \in [Threads -> Seq(Writes)]
  /\ snapshot \in [Threads -> Records \cup {None}]

LEMMA ShapeTypes ==
  ASSUME Sound, NEW t \in Threads, Shape(t)
  PROVE  ThreadTypes'
<1>0. ThreadTypes
  BY DEF Sound, TypeOK, ThreadTypes
<1>1. ASSUME NEW place \in HandlerPlaces \cup JobPlaces, NEW list \in Seq(Writes), Moving(t, place, list)
      PROVE  ThreadTypes'
  BY <1>0, <1>1 DEF Moving, ThreadTypes
<1>2. CASE Granting(t)
  <2>1. "submitted" \in HandlerPlaces /\ "queued" \in JobPlaces /\ t[1] \in Processes
    BY ThreadKinds DEF HandlerPlaces, JobPlaces
  <2> QED
    BY <1>0, <1>2, <2>1 DEF Granting, ThreadTypes
<1>3. CASE Ending(t)
  <2>1. "idle" \in HandlerPlaces
    BY DEF HandlerPlaces
  <2> QED
    BY <1>0, <1>3, <2>1 DEF Ending, ThreadTypes
<1> QED
  BY <1>1, <1>2, <1>3 DEF Shape

LEMMA TypesKept ==
  ASSUME Sound, [Next]_vars
  PROVE  TypeOK'
<1> USE DEF Sound
<1>1. ASSUME NEW t \in Threads, SetMark(t) PROVE TypeOK'
  <2>1. writes[t] # <<>> /\ writes[t] \in Seq(Writes) /\ Head(writes[t]).op = "mark"
    BY <1>1 DEF SetMark, Due, TypeOK
  <2>2. mark' \in Marks /\ Tail(writes[t]) \in Seq(Writes)
    BY <1>1, <2>1, HeadAndTail, WriteTypes DEF SetMark
  <2>3. writes' \in [Threads -> Seq(Writes)]
    BY <1>1, <2>2 DEF SetMark, Next1, TypeOK
  <2> QED
    BY <1>1, <2>2, <2>3 DEF SetMark, TypeOK
<1>2. ASSUME NEW t \in Threads, ReadRecord(t) PROVE TypeOK'
  <2>1. writes[t] # <<>> /\ writes[t] \in Seq(Writes) /\ Head(writes[t]).op = "patch"
    BY <1>2 DEF ReadRecord, Due, TypeOK
  <2>2. record[Head(writes[t]).at] \in Records
    BY <2>1, HeadAndTail, WriteTypes DEF TypeOK
  <2>3. snapshot' \in [Threads -> Records \cup {None}]
    BY <1>2, <2>2 DEF ReadRecord, TypeOK
  <2> QED
    BY <1>2, <2>3 DEF ReadRecord, TypeOK, store
<1>3. ASSUME NEW t \in Threads, WriteRecord(t) PROVE TypeOK'
  <2>1. writes[t] # <<>> /\ writes[t] \in Seq(Writes)
    BY <1>3 DEF WriteRecord, Due, TypeOK
  <2>2. Tail(writes[t]) \in Seq(Writes)
    BY <2>1, HeadAndTail
  <2>3. writes' \in [Threads -> Seq(Writes)] /\ snapshot' \in [Threads -> Records \cup {None}]
    BY <1>3, <2>2 DEF WriteRecord, Next1, TypeOK
  <2>4. record' \in [{"control", "parent"} -> Records] /\ log'.last \in BOOLEAN /\ lost' \in BOOLEAN
    BY <1>3, PatchWrites
  <2>5. UNCHANGED <<status, mark, rounds, keys, pc, actions, faults>>
    BY <1>3 DEF WriteRecord
  <2> QED
    BY <2>3, <2>4, <2>5 DEF TypeOK
<1>4. ASSUME NEW t \in Threads, Moves(t) PROVE TypeOK'
  <2>1. ThreadTypes' /\ RecordsKept
    BY <1>4, MoveShapes, ShapeTypes, MoveKeepsRecords
  <2> QED
    BY <2>1 DEF ThreadTypes, RecordsKept, TypeOK
<1>5. ASSUME NEW p \in Processes, Crash(p) PROVE TypeOK'
  <2>1. UNCHANGED store /\ UNCHANGED actions /\ keys' = keys \ {p}
        /\ faults < MaxFaults /\ faults' = faults + 1
    BY <1>5 DEF Crash, Fault
  <2>2. /\ pc' = [t \in Threads |-> IF t[1] = p THEN "idle" ELSE pc[t]]
        /\ writes' = [t \in Threads |-> IF t[1] = p THEN <<>> ELSE writes[t]]
        /\ snapshot' = [t \in Threads |-> IF t[1] = p THEN None ELSE snapshot[t]]
    BY <1>5 DEF Crash
  <2>3. faults' \in 0..MaxFaults
    BY <2>1, BoundAssumption DEF TypeOK
  <2>4. "idle" \in HandlerPlaces /\ <<>> \in Seq(Writes)
    BY DEF HandlerPlaces
  <2>5. /\ pc' \in [Threads -> HandlerPlaces \cup JobPlaces] /\ writes' \in [Threads -> Seq(Writes)]
        /\ snapshot' \in [Threads -> Records \cup {None}]
    BY <2>2, <2>4 DEF TypeOK
  <2> QED
    BY <2>1, <2>3, <2>5 DEF TypeOK, store
<1>6. CASE UNCHANGED vars
  BY <1>6 DEF vars, store, TypeOK
<1> QED
  BY <1>1, <1>2, <1>3, <1>4, <1>5, <1>6, NextCases

----------------------------------------------------------------------------
(* Threads stay sound, and a process runs one job at a time.               *)
LEMMA OthersIdle ==
  ASSUME Sound, OneJobPerTask, NEW t \in Jobs, pc[t] # "idle",
         NEW u \in Jobs, u # t, u[1] = t[1]
  PROVE  pc[u] = "idle"
<1>1. PICK p \in Processes, i \in Slots : t = <<p, i>>
  BY DEF Jobs
<1>2. PICK q \in Processes, j \in Slots : u = <<q, j>>
  BY DEF Jobs
<1>3. p = q /\ i # j
  BY <1>1, <1>2
<1> QED
  BY <1>1, <1>2, <1>3 DEF OneJobPerTask

(* A thread of which nothing changes stays sound while its key is kept.    *)
LEMMA Untouched ==
  ASSUME Sound, NEW u \in Threads,
         pc'[u] = pc[u], writes'[u] = writes[u], snapshot'[u] = snapshot[u],
         u \in Jobs /\ pc[u] # "idle" => u[1] \in keys'
  PROVE  ThreadSound(u)'
BY DEF Sound, ThreadSound, Due

LEMMA WritesKeepSound ==
  ASSUME Sound, NEW t \in Threads, SetMark(t) \/ ReadRecord(t) \/ WriteRecord(t), NEW u \in Threads
  PROVE  ThreadSound(u)'
<1>1. /\ UNCHANGED <<pc, keys>> /\ writes[t] # <<>> /\ writes[t] \in Seq(Writes)
      /\ writes \in [Threads -> Seq(Writes)] /\ snapshot \in [Threads -> Records \cup {None}]
  BY DEF SetMark, ReadRecord, WriteRecord, Due, Sound, TypeOK
<1>2. u \in Jobs /\ pc[u] # "idle" => u[1] \in keys
  BY DEF Sound, ThreadSound
<1>3. CASE u # t
  <2>1. writes'[u] = writes[u] /\ snapshot'[u] = snapshot[u]
    BY <1>1, <1>3 DEF SetMark, ReadRecord, WriteRecord, Next1
  <2> QED
    BY <1>1, <1>2, <2>1, Untouched
<1>4. ASSUME u = t, ReadRecord(t) PROVE ThreadSound(u)'
  BY <1>1, <1>4 DEF ReadRecord, Due, Sound, ThreadSound
<1>5. ASSUME u = t, SetMark(t) \/ WriteRecord(t) PROVE ThreadSound(u)'
  <2>1. writes'[t] = Tail(writes[t])
    BY <1>1, <1>5 DEF SetMark, WriteRecord, Next1
  <2>2. snapshot'[t] = None
    <3>1. CASE SetMark(t)
      <4>1. ~Due(t, "patch")
        BY <3>1 DEF SetMark, Due
      <4> QED
        BY <3>1, <4>1 DEF SetMark, Sound, ThreadSound
    <3>2. CASE WriteRecord(t)
      BY <1>1, <3>2 DEF WriteRecord
    <3> QED
      BY <1>5, <3>1, <3>2
  <2>3. t \in Jobs => pc[t] \notin {"idle", "queued"}
    BY <1>1 DEF Sound, ThreadSound
  <2>4. ASSUME NEW i \in 1..Len(Tail(writes[t])), Tail(writes[t])[i].mark = "processing"
        PROVE  pc[t] = "begin"
    <3>1. i + 1 \in 1..Len(writes[t]) /\ writes[t][i + 1].mark = "processing"
      BY <1>1, <2>4, HeadAndTail
    <3> QED
      BY <3>1 DEF Sound, ThreadSound
  <2>5. (t \in Handlers => pc[t] \in HandlerPlaces) /\ (t \in Jobs => pc[t] \in JobPlaces)
    BY PlaceTells
  <2> QED
    BY <1>1, <1>2, <1>5, <2>1, <2>2, <2>3, <2>4, <2>5 DEF ThreadSound
<1> QED
  BY <1>3, <1>4, <1>5

LEMMA ShapesKeepSound ==
  ASSUME Sound, OneJobPerTask, NEW t \in Threads, Shape(t), NEW u \in Threads
  PROVE  ThreadSound(u)'
<1>0. /\ pc \in [Threads -> HandlerPlaces \cup JobPlaces] /\ writes \in [Threads -> Seq(Writes)]
      /\ snapshot \in [Threads -> Records \cup {None}]
  BY DEF Sound, TypeOK
<1>1. u \in Jobs /\ pc[u] # "idle" => u[1] \in keys
  BY DEF Sound, ThreadSound
<1>2. ASSUME NEW place \in HandlerPlaces \cup JobPlaces, NEW list \in Seq(Writes), Moving(t, place, list)
      PROVE  ThreadSound(u)'
  <2>1. CASE u # t
    <3>1. pc'[u] = pc[u] /\ writes'[u] = writes[u] /\ snapshot'[u] = snapshot[u] /\ keys' = keys
      BY <1>0, <1>2, <2>1 DEF Moving
    <3> QED
      BY <1>1, <3>1, Untouched
  <2>2. CASE u = t
    <3>1. pc'[t] = place /\ writes'[t] = list /\ snapshot'[t] = None /\ keys' = keys
      BY <1>0, <1>2 DEF Moving
    <3>2. Quiet(list) \/ place = "begin"
      BY <1>2 DEF Moving
    <3>3. t \in Handlers => place \in HandlerPlaces
      BY <1>2 DEF Moving
    <3>4. t \in Jobs => place \in JobPlaces \ {"idle", "queued"} /\ pc[t] # "idle"
      BY <1>2 DEF Moving
    <3> QED
      BY <1>1, <2>2, <3>1, <3>2, <3>3, <3>4 DEF ThreadSound, Quiet
  <2> QED
    BY <2>1, <2>2
<1>3. CASE Granting(t)
  <2>1. PICK s \in Slots : /\ pc[<<t[1], s>>] = "idle"
                           /\ pc' = [pc EXCEPT ![t] = "submitted", ![<<t[1], s>>] = "queued"]
    BY <1>3 DEF Granting
  <2> DEFINE j == <<t[1], s>>
  <2>2. j \in Jobs /\ j \in Threads /\ j \notin Handlers /\ t \in Handlers /\ t \notin Jobs /\ j # t
        /\ j[1] = t[1]
    BY <1>3, ThreadKinds DEF Granting
  <2>3. UNCHANGED <<writes, snapshot>> /\ keys' = keys \cup {t[1]}
    BY <1>3 DEF Granting
  <2> HIDE DEF j
  <2>4. pc' = [pc EXCEPT ![t] = "submitted", ![j] = "queued"] /\ pc[j] = "idle"
    BY <2>1 DEF j
  <2>5. CASE u \notin {t, j}
    <3>1. pc'[u] = pc[u]
      BY <1>0, <2>4, <2>5
    <3> QED
      BY <1>1, <2>3, <3>1, Untouched
  <2>6. CASE u = t
    <3>1. pc'[t] = "submitted" /\ "submitted" \in HandlerPlaces
      BY <1>0, <2>2, <2>4 DEF HandlerPlaces
    <3>2. pc[t] # "begin"
      BY <2>2, PlaceTells DEF HandlerPlaces
    <3> QED
      BY <2>2, <2>3, <2>6, <3>1, <3>2 DEF Sound, ThreadSound, Due
  <2>7. CASE u = j
    <3>1. pc'[j] = "queued" /\ "queued" \in JobPlaces
      BY <1>0, <2>2, <2>4 DEF JobPlaces
    <3>2. writes[j] = <<>>
      BY <2>2, <2>4 DEF Sound, ThreadSound
    <3>3. j[1] \in keys'
      BY <2>2, <2>3
    <3> QED
      BY <2>2, <2>3, <2>7, <3>1, <3>2, <3>3 DEF Sound, ThreadSound, Due
  <2> QED
    BY <2>5, <2>6, <2>7
<1>4. CASE Ending(t)
  <2>1. /\ t \in Jobs /\ t \notin Handlers /\ pc[t] = "finish" /\ writes[t] = <<>>
        /\ pc' = [pc EXCEPT ![t] = "idle"] /\ keys' = keys \ {t[1]} /\ UNCHANGED <<writes, snapshot>>
    BY <1>4, ThreadKinds DEF Ending
  <2>2. CASE u # t
    <3>1. pc'[u] = pc[u]
      BY <1>0, <2>1, <2>2
    <3>2. u \in Jobs /\ pc[u] # "idle" => u[1] # t[1]
      BY <2>1, <2>2, OthersIdle
    <3> QED
      BY <1>1, <2>1, <3>1, <3>2, Untouched
  <2>3. CASE u = t
    <3>1. pc'[t] = "idle" /\ "idle" \in JobPlaces
      BY <1>0, <2>1 DEF JobPlaces
    <3> QED
      BY <2>1, <2>3, <3>1 DEF Sound, ThreadSound, Due
  <2> QED
    BY <2>2, <2>3
<1> QED
  BY <1>2, <1>3, <1>4 DEF Shape

LEMMA CrashKeepsSound ==
  ASSUME Sound, NEW p \in Processes, Crash(p), NEW u \in Threads
  PROVE  ThreadSound(u)'
<1>1. /\ pc' = [t \in Threads |-> IF t[1] = p THEN "idle" ELSE pc[t]]
      /\ writes' = [t \in Threads |-> IF t[1] = p THEN <<>> ELSE writes[t]]
      /\ snapshot' = [t \in Threads |-> IF t[1] = p THEN None ELSE snapshot[t]]
      /\ keys' = keys \ {p}
  BY DEF Crash
<1>2. CASE u[1] # p
  <2>1. u \in Jobs /\ pc[u] # "idle" => u[1] \in keys
    BY DEF Sound, ThreadSound
  <2> QED
    BY <1>1, <1>2, <2>1, Untouched
<1>3. CASE u[1] = p
  <2>1. pc'[u] = "idle" /\ writes'[u] = <<>> /\ snapshot'[u] = None
    BY <1>1, <1>3
  <2>2. "idle" \in HandlerPlaces /\ "idle" \in JobPlaces
    BY DEF HandlerPlaces, JobPlaces
  <2> QED
    BY <2>1, <2>2 DEF ThreadSound
<1> QED
  BY <1>2, <1>3

LEMMA SoundKept ==
  ASSUME Sound, OneJobPerTask, [Next]_vars
  PROVE  Sound'
<1>1. TypeOK'
  BY TypesKept
<1>2. ASSUME NEW u \in Threads PROVE ThreadSound(u)'
  <2>1. ASSUME NEW t \in Threads, SetMark(t) \/ ReadRecord(t) \/ WriteRecord(t) PROVE ThreadSound(u)'
    BY <2>1, WritesKeepSound
  <2>2. ASSUME NEW t \in Threads, Moves(t) PROVE ThreadSound(u)'
    BY <2>2, MoveShapes, ShapesKeepSound
  <2>3. ASSUME NEW p \in Processes, Crash(p) PROVE ThreadSound(u)'
    BY <2>3, CrashKeepsSound
  <2>4. CASE UNCHANGED vars
    BY <2>4 DEF vars, Sound, ThreadSound, Due
  <2> QED
    BY <2>1, <2>2, <2>3, <2>4, NextCases
<1> QED
  BY <1>1, <1>2 DEF Sound

LEMMA OneJobKept ==
  ASSUME Sound, OneJobPerTask, [Next]_vars
  PROVE  OneJobPerTask'
<1>0. pc \in [Threads -> HandlerPlaces \cup JobPlaces]
  BY DEF Sound, TypeOK
<1> SUFFICES ASSUME NEW p \in Processes, NEW i \in Slots, NEW j \in Slots, i # j
             PROVE  pc'[<<p, i>>] = "idle" \/ pc'[<<p, j>>] = "idle"
  BY DEF OneJobPerTask
<1> DEFINE a == <<p, i>>
           b == <<p, j>>
<1>1. a \in Jobs /\ b \in Jobs /\ a \in Threads /\ b \in Threads /\ a # b /\ a[1] = p /\ b[1] = p
  BY ThreadKinds
<1>2. pc[a] = "idle" \/ pc[b] = "idle"
  BY DEF OneJobPerTask
<1> HIDE DEF a, b
<1> SUFFICES pc'[a] = "idle" \/ pc'[b] = "idle"
  BY DEF a, b
<1>3. ASSUME UNCHANGED pc PROVE pc'[a] = "idle" \/ pc'[b] = "idle"
  BY <1>2, <1>3
<1>4. ASSUME NEW t \in Threads, NEW place \in HandlerPlaces \cup JobPlaces, NEW list \in Seq(Writes),
             Moving(t, place, list)
      PROVE  pc'[a] = "idle" \/ pc'[b] = "idle"
  <2>1. pc' = [pc EXCEPT ![t] = place] /\ (t \in Jobs => pc[t] # "idle")
    BY <1>4 DEF Moving
  <2> QED
    BY <1>0, <1>1, <1>2, <2>1
<1>5. ASSUME NEW t \in Threads, Granting(t) PROVE pc'[a] = "idle" \/ pc'[b] = "idle"
  <2>1. PICK s \in Slots : pc' = [pc EXCEPT ![t] = "submitted", ![<<t[1], s>>] = "queued"]
    BY <1>5 DEF Granting
  <2> DEFINE c == <<t[1], s>>
  <2>2. t \notin Jobs /\ t[1] \notin keys /\ c \in Threads /\ c[1] = t[1]
    BY <1>5, ThreadKinds DEF Granting
  <2> HIDE DEF c
  <2>3. \A u \in Threads \ {t, c} : pc'[u] = pc[u]
    BY <1>0, <2>1 DEF c
  <2>4. CASE p = t[1]
    <3>1. pc[a] = "idle" /\ pc[b] = "idle"
      BY <1>1, <2>2, <2>4 DEF Sound, ThreadSound
    <3>2. a # t /\ b # t /\ (a # c \/ b # c)
      BY <1>1, <2>2
    <3> QED
      BY <1>1, <2>3, <3>1, <3>2
  <2>5. CASE p # t[1]
    <3>1. a \notin {t, c} /\ b \notin {t, c}
      BY <1>1, <2>2, <2>5
    <3> QED
      BY <1>1, <1>2, <2>3, <3>1
  <2> QED
    BY <2>4, <2>5
<1>6. ASSUME NEW t \in Threads, Ending(t) PROVE pc'[a] = "idle" \/ pc'[b] = "idle"
  BY <1>0, <1>1, <1>2, <1>6 DEF Ending
<1>7. ASSUME NEW q \in Processes, Crash(q) PROVE pc'[a] = "idle" \/ pc'[b] = "idle"
  <2>1. pc' = [t \in Threads |-> IF t[1] = q THEN "idle" ELSE pc[t]]
    BY <1>7 DEF Crash
  <2> QED
    BY <1>1, <1>2, <2>1
<1>8. ASSUME NEW t \in Threads, SetMark(t) \/ ReadRecord(t) \/ WriteRecord(t) PROVE UNCHANGED pc
  BY <1>8 DEF SetMark, ReadRecord, WriteRecord
<1>9. ASSUME NEW t \in Threads, Moves(t) PROVE pc'[a] = "idle" \/ pc'[b] = "idle"
  BY <1>4, <1>5, <1>6, <1>9, MoveShapes DEF Shape
<1>10. CASE UNCHANGED vars
  BY <1>3, <1>10 DEF vars
<1> QED
  BY <1>3, <1>7, <1>8, <1>9, <1>10, NextCases

----------------------------------------------------------------------------
(* "processing" stays a promise: the job that wrote it goes on until it    *)
(* has written another mark.                                               *)
LEMMA OnlyJobsBegin ==
  ASSUME Sound, NEW t \in Threads, writes[t] # <<>>, Head(writes[t]).mark = "processing"
  PROVE  t \in Jobs /\ pc[t] = "begin"
<1>1. writes[t] \in Seq(Writes)
  BY DEF Sound, TypeOK
<1>2. pc[t] = "begin"
  BY <1>1, HeadAndTail DEF Sound, ThreadSound
<1> QED
  BY <1>2, PlaceTells DEF Running

(* A step other than a write keeps what its thread owes, and no step       *)
(* touches what another thread owes.                                       *)
LEMMA ShapesKeepDebts ==
  ASSUME Sound, NEW t \in Threads, Shape(t), faults' = 0, NEW u \in Jobs
  PROVE  (OwesMark(u) => OwesMark(u)') /\ (OwesPatch(u) => OwesPatch(u)')
<1>0. pc \in [Threads -> HandlerPlaces \cup JobPlaces] /\ writes \in [Threads -> Seq(Writes)]
  BY DEF Sound, TypeOK
<1> u \in Threads /\ u \notin Handlers
  BY ThreadKinds DEF Threads
<1>1. ASSUME pc'[u] = pc[u], writes'[u] = writes[u]
      PROVE  (OwesMark(u) => OwesMark(u)') /\ (OwesPatch(u) => OwesPatch(u)')
  BY <1>1 DEF OwesMark, OwesPatch
<1>2. ASSUME pc[u] \notin Running, writes[u] = <<>> PROVE ~OwesMark(u) /\ ~OwesPatch(u)
  BY <1>2 DEF OwesMark, OwesPatch
<1>3. ASSUME NEW place \in HandlerPlaces \cup JobPlaces, NEW list \in Seq(Writes), Moving(t, place, list)
      PROVE  (OwesMark(u) => OwesMark(u)') /\ (OwesPatch(u) => OwesPatch(u)')
  <2>1. pc' = [pc EXCEPT ![t] = place] /\ writes' = [writes EXCEPT ![t] = list]
    BY <1>3 DEF Moving
  <2>2. CASE u # t
    BY <1>0, <1>1, <2>1, <2>2
  <2>3. CASE u = t /\ pc[t] \in Running
    <3>1. pc'[u] = place /\ writes'[u] = list
      BY <1>0, <2>1, <2>3
    <3>2. place \in Running \/ (HasMark(list) /\ HasPatch(list))
      BY <1>3, <2>3 DEF Moving
    <3> QED
      BY <3>1, <3>2 DEF OwesMark, OwesPatch, HasMark, HasPatch
  <2>4. CASE u = t /\ pc[t] \notin Running
    <3>1. writes[u] = <<>>
      BY <1>3, <2>4 DEF Moving
    <3> QED
      BY <1>2, <2>4, <3>1
  <2> QED
    BY <2>2, <2>3, <2>4
<1>4. CASE Granting(t)
  <2>1. PICK s \in Slots : /\ pc[<<t[1], s>>] = "idle"
                           /\ pc' = [pc EXCEPT ![t] = "submitted", ![<<t[1], s>>] = "queued"]
    BY <1>4 DEF Granting
  <2>2. t \in Handlers /\ UNCHANGED writes
    BY <1>4 DEF Granting
  <2>3. CASE u = <<t[1], s>>
    <3>1. pc[u] = "idle" /\ writes[u] = <<>>
      BY <2>1, <2>3 DEF Sound, ThreadSound
    <3> QED
      BY <1>2, <3>1 DEF Running
  <2>4. CASE u # <<t[1], s>>
    <3>1. pc'[u] = pc[u]
      BY <1>0, <2>1, <2>2, <2>4
    <3> QED
      BY <1>1, <2>2, <3>1
  <2> QED
    BY <2>3, <2>4
<1>5. CASE Ending(t)
  <2>1. UNCHANGED writes /\ pc' = [pc EXCEPT ![t] = "idle"] /\ pc[t] = "finish" /\ writes[t] = <<>>
    BY <1>5 DEF Ending
  <2>2. CASE u = t
    BY <1>2, <2>1, <2>2 DEF Running
  <2>3. CASE u # t
    BY <1>0, <1>1, <2>1, <2>3
  <2> QED
    BY <2>2, <2>3
<1> QED
  BY <1>3, <1>4, <1>5 DEF Shape

LEMMA MarksKept ==
  ASSUME Sound, MarksSound, [Next]_vars
  PROVE  MarksSound'
<1> SUFFICES ASSUME faults' = 0
             PROVE  /\ mark' = "processing" => \E u \in Jobs : OwesMark(u)'
                    /\ record'["control"].mark = "processing" /\ ~lost' => \E u \in Jobs : OwesPatch(u)'
  BY DEF MarksSound
<1> DEFINE Goal == /\ mark' = "processing" => \E u \in Jobs : OwesMark(u)'
                   /\ record'["control"].mark = "processing" /\ ~lost' => \E u \in Jobs : OwesPatch(u)'
<1>0. /\ pc \in [Threads -> HandlerPlaces \cup JobPlaces] /\ writes \in [Threads -> Seq(Writes)]
      /\ record \in [{"control", "parent"} -> Records]
  BY DEF Sound, TypeOK
<1>a. ASSUME NEW t \in Threads, SetMark(t) PROVE Goal
  <2>1. /\ writes[t] # <<>> /\ writes[t] \in Seq(Writes) /\ Head(writes[t]).op = "mark"
        /\ UNCHANGED <<record, lost, pc, faults>>
        /\ mark' = Head(writes[t]).mark /\ writes' = [writes EXCEPT ![t] = Tail(writes[t])]
    BY <1>0, <1>a DEF SetMark, Due, Next1
  <2>2. ASSUME mark' = "processing" PROVE \E u \in Jobs : OwesMark(u)'
    <3>1. t \in Jobs /\ pc[t] = "begin"
      BY <2>1, <2>2, OnlyJobsBegin
    <3> QED
      BY <2>1, <3>1 DEF OwesMark, Running
  <2>3. ASSUME record'["control"].mark = "processing", ~lost' PROVE \E u \in Jobs : OwesPatch(u)'
    <3>1. PICK u \in Jobs : OwesPatch(u)
      BY <2>1, <2>3 DEF MarksSound
    <3>2. u \in Threads
      BY DEF Threads
    <3>3. CASE pc[u] \in Running
      BY <2>1, <3>3 DEF OwesPatch
    <3>4. CASE u # t
      BY <1>0, <2>1, <3>1, <3>2, <3>4 DEF OwesPatch
    <3>5. ASSUME u = t, NEW n \in 1..Len(writes[t]), writes[t][n].op = "patch",
                 writes[t][n].at = "control", writes[t][n].mark # None
          PROVE  OwesPatch(t)'
      <4>1. n # 1
        BY <2>1, <3>5, HeadAndTail
      <4>2. n - 1 \in 1..Len(Tail(writes[t])) /\ Tail(writes[t])[n - 1] = writes[t][n]
        BY <2>1, <4>1, HeadAndTail
      <4>3. writes'[t] = Tail(writes[t])
        BY <1>0, <2>1
      <4> QED
        BY <3>5, <4>2, <4>3 DEF OwesPatch
    <3> QED
      BY <3>1, <3>3, <3>4, <3>5 DEF OwesPatch
  <2> QED
    BY <2>2, <2>3
<1>b. ASSUME NEW t \in Threads, ReadRecord(t) PROVE Goal
  <2>1. UNCHANGED <<record, mark, lost, pc, writes, faults>>
    BY <1>b DEF ReadRecord, store
  <2> QED
    BY <2>1 DEF MarksSound, OwesMark, OwesPatch
<1>c. ASSUME NEW t \in Threads, WriteRecord(t) PROVE Goal
  <2> DEFINE w == Head(writes[t])
  <2>1. /\ writes[t] # <<>> /\ writes[t] \in Seq(Writes) /\ w \in Writes
        /\ UNCHANGED <<mark, pc, faults>> /\ writes' = [writes EXCEPT ![t] = Tail(writes[t])]
        /\ writes'[t] = Tail(writes[t])
    BY <1>0, <1>c, HeadAndTail DEF WriteRecord, Due, Next1
  <2>2. /\ w.op = "patch" /\ lost' = (lost \/ (w.at = "control" /\ record[w.at] # snapshot[t]))
        /\ w.at # "control" => record'["control"] = record["control"]
        /\ w.at = "control" => record'["control"].mark = Or(w.mark, snapshot[t].mark)
    BY <1>c, PatchWrites
  <2>3. ASSUME mark' = "processing" PROVE \E u \in Jobs : OwesMark(u)'
    <3>1. PICK u \in Jobs : OwesMark(u)
      BY <2>1, <2>3 DEF MarksSound
    <3>2. u \in Threads
      BY DEF Threads
    <3>3. CASE pc[u] \in Running
      BY <2>1, <3>3 DEF OwesMark
    <3>4. CASE u # t
      BY <1>0, <2>1, <3>1, <3>2, <3>4 DEF OwesMark
    <3>5. ASSUME u = t, NEW n \in 1..Len(writes[t]), writes[t][n].op = "mark"
          PROVE  OwesMark(t)'
      <4>1. n # 1
        BY <2>1, <2>2, <3>5, HeadAndTail
      <4>2. n - 1 \in 1..Len(Tail(writes[t])) /\ Tail(writes[t])[n - 1] = writes[t][n]
        BY <2>1, <4>1, HeadAndTail
      <4> QED
        BY <2>1, <3>5, <4>2 DEF OwesMark
    <3> QED
      BY <3>1, <3>3, <3>4, <3>5 DEF OwesMark
  <2>4. ASSUME record'["control"].mark = "processing", ~lost' PROVE \E u \in Jobs : OwesPatch(u)'
    <3>1. ~lost /\ (w.at = "control" => record[w.at] = snapshot[t])
      BY <2>2, <2>4 DEF Sound, TypeOK
    <3>2. CASE w.at = "control" /\ w.mark # None
      <4>1. w.mark = "processing"
        BY <2>2, <2>4, <3>2 DEF Or
      <4>2. t \in Jobs /\ pc[t] = "begin"
        BY <2>1, <4>1, OnlyJobsBegin
      <4> QED
        BY <2>1, <4>2 DEF OwesPatch, Running
    <3>3. ASSUME ~(w.at = "control" /\ w.mark # None) PROVE \E u \in Jobs : OwesPatch(u)'
      <4>1. record["control"].mark = "processing"
        BY <2>2, <2>4, <3>1, <3>3 DEF Or
      <4>2. PICK u \in Jobs : OwesPatch(u)
        BY <2>1, <3>1, <4>1 DEF MarksSound
      <4>3. u \in Threads
        BY DEF Threads
      <4>4. CASE pc[u] \in Running
        BY <2>1, <4>4 DEF OwesPatch
      <4>5. CASE u # t
        BY <1>0, <2>1, <4>2, <4>3, <4>5 DEF OwesPatch
      <4>6. ASSUME u = t, NEW n \in 1..Len(writes[t]), writes[t][n].op = "patch",
                   writes[t][n].at = "control", writes[t][n].mark # None
            PROVE  OwesPatch(t)'
        <5>1. n # 1
          BY <2>1, <3>3, <4>6, HeadAndTail
        <5>2. n - 1 \in 1..Len(Tail(writes[t])) /\ Tail(writes[t])[n - 1] = writes[t][n]
          BY <2>1, <5>1, HeadAndTail
        <5> QED
          BY <2>1, <4>6, <5>2 DEF OwesPatch
      <4> QED
        BY <4>2, <4>4, <4>5, <4>6 DEF OwesPatch
    <3> QED
      BY <3>2, <3>3
  <2> QED
    BY <2>3, <2>4
<1>d. ASSUME NEW t \in Threads, Moves(t) PROVE Goal
  <2>1. faults = 0 /\ UNCHANGED <<mark, lost>> /\ record'["control"].mark = record["control"].mark
    BY <1>d, MoveKeepsRecords DEF RecordsKept
  <2>2. \A u \in Jobs : (OwesMark(u) => OwesMark(u)') /\ (OwesPatch(u) => OwesPatch(u)')
    BY <1>d, MoveShapes, ShapesKeepDebts
  <2> QED
    BY <2>1, <2>2 DEF MarksSound
<1>e. ASSUME NEW p \in Processes, Crash(p) PROVE Goal
  BY <1>e DEF Crash, Fault, Sound, TypeOK
<1>f. CASE UNCHANGED vars
  <2>1. Goal
    BY <1>f DEF vars, store, MarksSound, OwesMark, OwesPatch
  <2> QED
    BY <2>1
<1> QED
  BY <1>a, <1>b, <1>c, <1>d, <1>e, <1>f, NextCases

----------------------------------------------------------------------------
(* The invariant at the start.                                             *)
LEMMA InitHolds == Init => FollowUpInvariant
<1> SUFFICES ASSUME Init PROVE FollowUpInvariant
  OBVIOUS
<1>1. TypeOK
  <2>1. status \in Statuses /\ mark \in Marks
    BY DEF Init, Statuses, Open, Marks
  <2>2. record \in [{"control", "parent"} -> Records]
    BY DEF Init, Records, Statuses, Open, Marks
  <2>3. log.last \in BOOLEAN /\ lost \in BOOLEAN /\ keys \subseteq Processes
    BY DEF Init
  <2>4. rounds \in 0..MaxRounds /\ actions \in 0..MaxActions /\ faults \in 0..MaxFaults
    BY BoundAssumption DEF Init
  <2>5. pc \in [Threads -> HandlerPlaces \cup JobPlaces]
    BY DEF Init, HandlerPlaces
  <2>6. writes \in [Threads -> Seq(Writes)] /\ snapshot \in [Threads -> Records \cup {None}]
    BY DEF Init
  <2> QED
    BY <2>1, <2>2, <2>3, <2>4, <2>5, <2>6 DEF TypeOK
<1>2. ASSUME NEW t \in Threads PROVE ThreadSound(t)
  <2>1. pc[t] = "idle" /\ writes[t] = <<>> /\ snapshot[t] = None
    BY DEF Init
  <2> QED
    BY <2>1 DEF ThreadSound, HandlerPlaces, JobPlaces
<1>3. OneJobPerTask
  BY ThreadKinds DEF Init, OneJobPerTask
<1>4. MarksSound
  <2>1. mark = "idle" /\ record["control"].mark = "idle"
    BY DEF Init
  <2> QED
    BY <2>1 DEF MarksSound
<1> QED
  BY <1>1, <1>2, <1>3, <1>4 DEF FollowUpInvariant

LEMMA InvariantKept == FollowUpInvariant /\ [Next]_vars => FollowUpInvariant'
BY SoundKept, OneJobKept, MarksKept DEF FollowUpInvariant, Sound

(* The invariant that the others follow from: the threads are sound, and   *)
(* what they owe is kept (background_jobs.py, events.py, automation.py).   *)
THEOREM FollowUpsAreSound == Spec => []FollowUpInvariant
BY InitHolds, InvariantKept, PTL DEF Spec

(* Every record, log, place, list of writes and snapshot is of its type.   *)
THEOREM FollowUpTypeOK == Spec => []TypeOK
<1>1. FollowUpInvariant => TypeOK
  BY DEF FollowUpInvariant
<1> QED
  BY <1>1, FollowUpsAreSound, PTL

(* Whatever the number of slots, of threads that ask and of crashes, a     *)
(* process runs one follow-up of the task at a time: the set of active     *)
(* keys of background_jobs.py is never behind its executor.                *)
THEOREM OneJobAlways == Spec => []OneJobPerTask
<1>1. FollowUpInvariant => OneJobPerTask
  BY DEF FollowUpInvariant
<1> QED
  BY <1>1, FollowUpsAreSound, PTL

(* For any number of processes: without faults, "processing" is shown only *)
(* while a job is at work, on the control task, too, unless a patch was    *)
(* lost (automation.py:316-335, 501-554).                                  *)
THEOREM MarksAreAlwaysTrue == Spec => []MarksAreTrue
<1>1. ASSUME FollowUpInvariant PROVE MarksAreTrue
  <2>1. ASSUME NEW t \in Jobs, OwesMark(t) \/ OwesPatch(t) PROVE AtWork(t)
    <3>1. t \in Threads
      BY DEF Threads
    <3>2. CASE pc[t] \in Running
      BY <3>2 DEF AtWork, Running
    <3>3. CASE \E n \in 1..Len(writes[t]) : TRUE
      <4>1. writes[t] # <<>>
        BY <3>3
      <4> QED
        BY <4>1 DEF AtWork
    <3> QED
      BY <2>1, <3>2, <3>3 DEF OwesMark, OwesPatch
  <2> QED
    BY <1>1, <2>1 DEF FollowUpInvariant, MarksSound, MarksAreTrue
<1> QED
  BY <1>1, FollowUpsAreSound, PTL
----------------------------------------------------------------------------
(* What the lists of writes leave in the log.                              *)
NamedList(list) == \A i \in 1..Len(list) : Named(list[i])

LEMMA NamedShort ==
  ASSUME NEW a, NEW b, Named(a), Named(b)
  PROVE  NamedList(<<>>) /\ NamedList(<<a>>) /\ NamedList(<<a, b>>)
<1>1. Len(<<a>>) = 1 /\ Len(<<a, b>>) = 2 /\ 1..1 = {1} /\ 1..2 = {1, 2}
  OBVIOUS
<1>2. <<a>>[1] = a /\ <<a, b>>[1] = a /\ <<a, b>>[2] = b
  OBVIOUS
<1>3. NamedList(<<>>)
  BY DEF NamedList
<1> QED
  BY <1>1, <1>2, <1>3 DEF NamedList

LEMMA NamedJoin ==
  ASSUME NEW a \in Seq(Writes), NEW b \in Seq(Writes), NamedList(a), NamedList(b)
  PROVE  NamedList(a \o b)
<1>1. /\ Len(a \o b) = Len(a) + Len(b) /\ Len(a) \in Nat /\ Len(b) \in Nat
      /\ \A i \in 1..Len(a) : (a \o b)[i] = a[i]
      /\ \A i \in 1..Len(b) : (a \o b)[Len(a) + i] = b[i]
  OBVIOUS
<1> SUFFICES ASSUME NEW i \in 1..Len(a \o b) PROVE Named((a \o b)[i])
  BY DEF NamedList
<1>2. CASE i \in 1..Len(a)
  BY <1>1, <1>2 DEF NamedList
<1>3. CASE i \notin 1..Len(a)
  <2>1. i - Len(a) \in 1..Len(b) /\ i = Len(a) + (i - Len(a))
    BY <1>1, <1>3
  <2>2. (a \o b)[i] = b[i - Len(a)]
    BY <1>1, <2>1
  <2> QED
    BY <2>1, <2>2 DEF NamedList
<1> QED
  BY <1>2, <1>3

(* A patch whose event names the task, and one without a mark or an event. *)
LEMMA NamedPatch ==
  ASSUME NEW at, NEW s, NEW m,
         NEW kind \in {"follow_up", "follow_up.failed", "channel_notified", "result", "review_failed",
                       "needs_attention"}
  PROVE  Named(Patch(at, s, m, Event(kind, TRUE))) /\ Named(Patch(at, s, None, None))
<1> DEFINE e == Event(kind, TRUE)
<1>1. e # None /\ e.named
  <2>1. e \in Events
    BY EventsKnown
  <2>2. e.named
    BY DEF Event
  <2> HIDE DEF e
  <2> QED
    BY <2>1, <2>2, NoneAssumption
<1> HIDE DEF e
<1>2. Patch(at, s, m, e).event = e
  BY DEF Patch
<1>3. Named(Patch(at, s, m, e))
  BY <1>1, <1>2 DEF Named
<1>4. Patch(at, s, None, None).event = None /\ Patch(at, s, None, None).mark = None
  BY DEF Patch
<1>5. Named(Patch(at, s, None, None))
  BY <1>4 DEF Named
<1> QED
  BY <1>3, <1>5 DEF e

LEMMA NamedLists ==
  /\ NamedList(<<>>) /\ NamedList(Projection) /\ NamedList(Notified)
  /\ \A s : NamedList(Marking(s)) /\ NamedList(Result(s))
<1>1. Named(Patch("control", None, None, None))
  BY NamedPatch
<1>2. Named(Patch("control", None, None, Event("channel_notified", TRUE)))
  BY NamedPatch
<1>3. NamedList(<<>>) /\ NamedList(Projection)
  BY <1>1, NamedShort DEF Projection
<1>4. NamedList(Notified)
  <2>1. Named(Patch("parent", None, None, None))
    BY NamedPatch
  <2> QED
    BY <1>2, <2>1, NamedShort DEF Notified
<1>5. ASSUME NEW s PROVE NamedList(Result(s))
  <2>1. Named(Patch("control", s, None, Event("result", TRUE))) /\ Named(Patch("parent", s, None, None))
    BY NamedPatch
  <2> QED
    BY <2>1, NamedShort DEF Result
<1>6. ASSUME NEW s PROVE NamedList(Marking(s))
  <2> DEFINE a == [op |-> "mark", mark |-> s]
             b == Patch("control", None, s, Event(IF s = "failed" THEN "follow_up.failed" ELSE "follow_up", TRUE))
  <2>1. a.op # "patch"
    OBVIOUS
  <2>2. Marking(s) = <<a, b>>
    BY DEF Marking
  <2>3. Named(b)
    <3>1. CASE s = "failed"
      BY <3>1, NamedPatch
    <3>2. CASE s # "failed"
      BY <3>2, NamedPatch
    <3> QED
      BY <3>1, <3>2
  <2> HIDE DEF a, b
  <2>4. Named(a)
    BY <2>1 DEF Named
  <2> QED
    BY <2>2, <2>3, <2>4, NamedShort
<1> QED
  BY <1>3, <1>4, <1>5, <1>6

(* The list that a step leaves its thread with.                            *)
Listing(t) ==
  \/ UNCHANGED writes
  \/ \E list : NamedList(list) /\ writes' = [writes EXCEPT ![t] = list]

LEMMA RaisedList ==
  ASSUME NEW t, NEW first \in Seq(Writes), NamedList(first), Raise(t, first)
  PROVE  Listing(t)
<1>1. "failed" \in Marks
  BY DEF Marks
<1>2. NamedList(first \o Marking("failed"))
  BY <1>1, ListsKnown, NamedLists, NamedJoin
<1>3. PICK list \in {<<>>, first \o Marking("failed")} : \E place : GoAndWrite(t, place, list)
  <2>1. CASE t \notin Jobs \/ pc[t] \in {"begin", "failed", "giveUp", "finish"}
    <3>1. GoAndWrite(t, "finish", <<>>) \/ GoAndWrite(t, "idle", <<>>)
      BY <2>1 DEF Raise
    <3> QED
      BY <3>1
  <2>2. CASE t \in Jobs /\ pc[t] \notin {"begin", "failed", "giveUp", "finish"}
    <3>1. GoAndWrite(t, "failed", first \o Marking("failed"))
      BY <2>2 DEF Raise
    <3> QED
      BY <3>1
  <2> QED
    BY <2>1, <2>2
<1>4. NamedList(list)
  BY <1>2, <1>3, NamedLists
<1> QED
  BY <1>3, <1>4 DEF Listing, GoAndWrite

LEMMA MovesList ==
  ASSUME NEW t, Moves(t)
  PROVE  Listing(t)
<1> \A place, list : GoAndWrite(t, place, list) /\ NamedList(list) => Listing(t)
  BY DEF GoAndWrite, Listing
<1> \A place : Go(t, place) => Listing(t)
  BY DEF Go, Listing
<1> <<>> \in Seq(Writes) /\ NamedList(<<>>) /\ NamedList(Projection)
  BY NamedLists
<1>1. CASE \/ Resume(t) \/ Submit(t) \/ BeginLoop(t) \/ SendBack(t) \/ Approve(t) \/ EndJob(t)
           \/ MarkTask(t) \/ Poll(t) \/ OperatorApproves(t) \/ OperatorResumes(t)
  <2>1. CASE Submit(t)
    BY <2>1 DEF Submit, Listing
  <2>2. CASE \/ Resume(t) \/ BeginLoop(t) \/ SendBack(t) \/ Approve(t) \/ EndJob(t)
             \/ MarkTask(t) \/ Poll(t) \/ OperatorApproves(t) \/ OperatorResumes(t)
    <3>1. \E place : Go(t, place)
      BY <2>2 DEF Resume, BeginLoop, SendBack, Approve, EndJob, MarkTask, Poll, OperatorApproves,
                  OperatorResumes
    <3> QED
      BY <3>1
  <2> QED
    BY <1>1, <2>1, <2>2
<1>2. CASE Code(t)
  <2>1. PICK place : GoAndWrite(t, place, Projection) \/ Go(t, place)
    BY <1>2 DEF Code
  <2> QED
    BY <2>1
<1>3. CASE CodeRaises(t) \/ RefuseVerdict(t) \/ WriteRaises(t)
  <2>1. Raise(t, <<>>)
    BY <1>3 DEF CodeRaises, RefuseVerdict, WriteRaises
  <2> QED
    BY <2>1, RaisedList
<1>4. CASE MarkQueued(t)
  <2>1. PICK list \in {Marking("queued"), <<>>} : GoAndWrite(t, "idle", list)
    BY <1>4 DEF MarkQueued
  <2> QED
    BY <2>1, NamedLists
<1>5. CASE StartJob(t) \/ EndLoop(t)
  <2>1. PICK place, s : GoAndWrite(t, place, Marking(s))
    BY <1>5 DEF StartJob, EndLoop
  <2> QED
    BY <2>1, NamedLists
<1>6. CASE Review(t)
  <2>1. NamedList(Projection \o Notified)
    BY NamedLists, ListsKnown, NamedJoin
  <2> QED
    BY <1>6, <2>1 DEF Review
<1>7. CASE ReviewFails(t)
  <2> DEFINE w == Patch("control", None, None, Event("review_failed", TRUE))
  <2>1. Named(w)
    BY NamedPatch
  <2>2. w \in Writes
    <3>1. Event("review_failed", TRUE) \in Events
      BY EventsKnown
    <3> QED
      BY <3>1, PatchKnown
  <2>3. PICK first \in {<<>>, <<w>>} : Raise(t, first)
    BY <1>7 DEF ReviewFails
  <2> HIDE DEF w
  <2>4. <<w>> \in Seq(Writes) /\ NamedList(<<w>>)
    <3>1. <<w>> \in Seq(Writes)
      BY <2>2, ShortLists
    <3>2. NamedList(<<w>>)
      BY <2>1, NamedShort
    <3> QED
      BY <3>1, <3>2
  <2>5. first \in Seq(Writes) /\ NamedList(first)
    BY <2>3, <2>4
  <2> QED
    BY <2>3, <2>5, RaisedList
<1>8. CASE \E blocking \in BOOLEAN : Verdict(t, blocking)
  <2>1. PICK place : GoAndWrite(t, place, Projection)
    BY <1>8 DEF Verdict
  <2> QED
    BY <2>1
<1>9. CASE Suspend(t) \/ Deliver(t)
  <2>1. /\ NamedList(Notified \o Result("needs_attention"))
        /\ NamedList(Notified \o Result("completed"))
    BY NamedLists, ListsKnown, NamedJoin
  <2>2. PICK list \in {Notified \o Result("needs_attention"), Notified \o Result("completed"), <<>>} :
          GoAndWrite(t, "done", list)
    BY <1>9 DEF Suspend, Deliver
  <2> QED
    BY <2>1, <2>2
<1>10. CASE Escalate(t) \/ GiveUp(t)
  <2>1. PICK place : GoAndWrite(t, place, Result("needs_attention")) \/ Go(t, place)
    BY <1>10 DEF Escalate, GiveUp
  <2> QED
    BY <2>1, NamedLists
<1>11. CASE OperatorMarks(t)
  <2> DEFINE e == Event("needs_attention", FALSE)
             w == Patch("control", "needs_attention", None, e)
  <2>1. w.mark = None /\ w.event = e /\ e.kind = "needs_attention"
    BY DEF Patch, Event
  <2>2. GoAndWrite(t, "idle", <<w>>) \/ Go(t, "markTask")
    BY <1>11 DEF OperatorMarks
  <2> HIDE DEF e, w
  <2>3. Named(w)
    BY <2>1 DEF Named
  <2>4. NamedList(<<w>>)
    BY <2>3, NamedShort
  <2> QED
    BY <2>2, <2>4
<1> QED
  BY <1>1, <1>2, <1>3, <1>4, <1>5, <1>6, <1>7, <1>8, <1>9, <1>10, <1>11 DEF Moves

(* What such a step appends to the log: nothing, an event that names the   *)
(* task, or, when a job hands over to the reviewer, one that does not.     *)
Logging(t) ==
  \/ UNCHANGED log
  \/ \E kind : log' = Logged(Event(kind, TRUE))
  \/ /\ t \in Jobs /\ pc'[t] \in Running
     /\ \E kind \in {"handoff_to_code_review", "review_returned"} : log' = Logged(Event(kind, FALSE))

LEMMA MovesLog ==
  ASSUME Sound, NEW t \in Threads, Moves(t)
  PROVE  Logging(t)
<1>0. pc \in [Threads -> HandlerPlaces \cup JobPlaces]
  BY DEF Sound, TypeOK
<1>1. CASE \/ Resume(t) \/ Submit(t) \/ MarkQueued(t) \/ StartJob(t) \/ BeginLoop(t) \/ ReviewFails(t)
           \/ RefuseVerdict(t) \/ Deliver(t) \/ EndLoop(t) \/ Escalate(t) \/ EndJob(t) \/ Poll(t)
           \/ OperatorApproves(t) \/ OperatorResumes(t) \/ OperatorMarks(t) \/ WriteRaises(t)
  <2>1. UNCHANGED store
    BY <1>1 DEF Resume, Submit, MarkQueued, StartJob, BeginLoop, ReviewFails, RefuseVerdict,
                Deliver, EndLoop, Escalate, EndJob, Poll, OperatorApproves, OperatorResumes,
                OperatorMarks, WriteRaises
  <2> QED
    BY <2>1 DEF store, Logging
<1>2. CASE Code(t) \/ CodeRaises(t) \/ Suspend(t) \/ GiveUp(t) \/ MarkTask(t) \/ SendBack(t) \/ Approve(t)
  <2>1. UNCHANGED store \/ \E s, kind : SetTask(s, kind)
    BY <1>2 DEF Code, CodeRaises, Suspend, GiveUp, MarkTask, SendBack, Approve
  <2> QED
    BY <2>1 DEF store, SetTask, Logging
<1>3. CASE Review(t)
  <2>1. /\ pc[t] = "review" /\ pc' = [pc EXCEPT ![t] = "verdict"]
        /\ log' = Logged(Event("handoff_to_code_review", FALSE))
    BY <1>3 DEF Review, At, GoAndWrite
  <2>2. t \in Jobs /\ pc'[t] \in Running
    BY <1>0, <2>1, PlaceTells DEF Running
  <2> QED
    BY <2>1, <2>2 DEF Logging
<1>4. CASE \E blocking \in BOOLEAN : Verdict(t, blocking)
  <2>1. pc[t] = "verdict" /\ log' = Logged(Event("review_returned", FALSE))
    BY <1>4 DEF Verdict, At
  <2>2. PICK place \in {"approve_review", "handoff", "request_changes"} : pc' = [pc EXCEPT ![t] = place]
    BY <1>4 DEF Verdict, GoAndWrite
  <2>3. t \in Jobs /\ pc'[t] \in Running
    BY <1>0, <2>1, <2>2, PlaceTells DEF Running
  <2> QED
    BY <2>1, <2>3 DEF Logging
<1> QED
  BY <1>1, <1>2, <1>3, <1>4 DEF Moves
LEMMA LoggedLaw ==
  ASSUME LogSound, NEW e, e.named \in BOOLEAN
  PROVE  /\ Logged(e).last = e.named
         /\ Logged(e).latest \in LatestEvents
         /\ \A kind \in {"follow_up.failed", "needs_attention"} :
              /\ kind = e.kind => Logged(e).latest[kind] = <<e.named>>
              /\ kind # e.kind => Logged(e).latest[kind] = log.latest[kind]
<1> DEFINE Kinds == {"follow_up.failed", "needs_attention"}
           Ends == {<<>>, <<TRUE>>, <<FALSE>>}
<1>1. log.latest \in [Kinds -> Ends]
  BY DEF LogSound, LatestEvents
<1>2. DOMAIN log.latest = Kinds
  BY <1>1
<1>3. Logged(e).latest = [kind \in Kinds |-> IF kind = e.kind THEN <<e.named>> ELSE log.latest[kind]]
  BY <1>2 DEF Logged
<1>4. <<e.named>> \in Ends
  BY Zenon
<1>5. \A kind \in Kinds : (IF kind = e.kind THEN <<e.named>> ELSE log.latest[kind]) \in Ends
  BY <1>1, <1>4
<1>6. Logged(e).last = e.named
  BY DEF Logged
<1> HIDE DEF Kinds, Ends
<1>7. Logged(e).latest \in [Kinds -> Ends]
  BY <1>3, <1>5
<1>8. ASSUME NEW kind \in Kinds
      PROVE  /\ kind = e.kind => Logged(e).latest[kind] = <<e.named>>
             /\ kind # e.kind => Logged(e).latest[kind] = log.latest[kind]
  BY <1>3
<1> QED
  BY <1>6, <1>7, <1>8 DEF Kinds, Ends, LatestEvents

(* A last event that does not name the task is owed one that does.         *)
LEMMA DebtKept ==
  ASSUME Sound, LogSound, NEW t \in Threads,
         SetMark(t) \/ (WriteRecord(t) /\ Named(Head(writes[t])) /\ log' = log),
         NEW u \in Jobs, OwesPatch(u),
         WriteRecord(t) => Head(writes[t]).event = None
  PROVE  OwesPatch(u)'
<1>0. u \in Threads /\ writes \in [Threads -> Seq(Writes)]
  BY DEF Sound, TypeOK, Threads
<1>1. /\ writes[t] # <<>> /\ writes[t] \in Seq(Writes) /\ UNCHANGED pc
      /\ writes' = [writes EXCEPT ![t] = Tail(writes[t])]
  BY <1>0 DEF SetMark, WriteRecord, Due, Next1
<1>2. Head(writes[t]).op # "patch" \/ Head(writes[t]).mark = None
  BY DEF SetMark, WriteRecord, Due, Named
<1>3. CASE pc[u] \in Running
  BY <1>1, <1>3 DEF OwesPatch
<1>4. CASE u # t
  BY <1>0, <1>1, <1>4 DEF OwesPatch
<1>5. ASSUME u = t, NEW n \in 1..Len(writes[t]), writes[t][n].op = "patch",
             writes[t][n].at = "control", writes[t][n].mark # None
      PROVE  OwesPatch(t)'
  <2>1. n # 1
    BY <1>1, <1>2, <1>5, HeadAndTail
  <2>2. n - 1 \in 1..Len(Tail(writes[t])) /\ Tail(writes[t])[n - 1] = writes[t][n]
    BY <1>1, <2>1, HeadAndTail
  <2>3. writes'[t] = Tail(writes[t])
    BY <1>0, <1>1
  <2> QED
    BY <1>5, <2>2, <2>3 DEF OwesPatch
<1> QED
  BY <1>3, <1>4, <1>5 DEF OwesPatch

LEMMA LogKept ==
  ASSUME Sound, RecoveryInvariant, [Next]_vars
  PROVE  LogSound'
<1>0. /\ LogSound
      /\ \A t \in Threads : \A i \in 1..Len(writes[t]) : Named(writes[t][i])
      /\ pc \in [Threads -> HandlerPlaces \cup JobPlaces] /\ writes \in [Threads -> Seq(Writes)]
      /\ faults \in Nat
  BY BoundAssumption DEF RecoveryInvariant, Sound, TypeOK
<1>1. ASSUME UNCHANGED log,
             faults' = 0 => faults = 0 /\ ((\E u \in Jobs : OwesPatch(u)) => \E u \in Jobs : OwesPatch(u)')
      PROVE  LogSound'
  BY <1>0, <1>1 DEF LogSound
<1>2. ASSUME NEW e, e.named, e.named \in BOOLEAN, log' = Logged(e) PROVE LogSound'
  <2>1. /\ Logged(e).last = e.named
        /\ Logged(e).latest \in LatestEvents
        /\ \A kind \in {"follow_up.failed", "needs_attention"} :
             /\ kind = e.kind => Logged(e).latest[kind] = <<e.named>>
             /\ kind # e.kind => Logged(e).latest[kind] = log.latest[kind]
    <3>1. LogSound /\ e.named \in BOOLEAN
      BY <1>0, <1>2
    <3> QED
      BY <3>1, LoggedLaw
  <2>2. <<e.named>> # <<FALSE>>
    BY <1>2
  <2>3. log.latest["follow_up.failed"] # <<FALSE>>
    BY <1>0 DEF LogSound
  <2>4. Logged(e).latest["follow_up.failed"] # <<FALSE>>
    BY <2>1, <2>2, <2>3
  <2>5. log'.last /\ log'.latest \in LatestEvents /\ log'.latest["follow_up.failed"] # <<FALSE>>
    BY <1>2, <2>1, <2>4
  <2> QED
    BY <2>5 DEF LogSound, LatestEvents
<1>3. ASSUME NEW e, ~e.named, e.named \in BOOLEAN, log' = Logged(e), e.kind # "follow_up.failed",
             \/ e.kind = "needs_attention"
             \/ \E u \in Jobs : OwesPatch(u)'
      PROVE  LogSound'
  <2>1. /\ Logged(e).latest \in LatestEvents
        /\ Logged(e).latest["follow_up.failed"] = log.latest["follow_up.failed"]
        /\ e.kind = "needs_attention" => Logged(e).latest["needs_attention"] = <<e.named>>
    BY <1>0, <1>3, LoggedLaw
  <2>2. e.named = FALSE
    BY <1>3, Zenon
  <2>3. log.latest["follow_up.failed"] # <<FALSE>>
    BY <1>0 DEF LogSound
  <2>4. /\ log'.latest \in LatestEvents /\ log'.latest["follow_up.failed"] # <<FALSE>>
        /\ e.kind = "needs_attention" => log'.latest["needs_attention"] = <<FALSE>>
    BY <1>3, <2>1, <2>2, <2>3
  <2> QED
    BY <1>3, <2>4 DEF LogSound, LatestEvents
<1>4. ASSUME NEW t \in Threads, Moves(t) PROVE LogSound'
  <2>1. faults' = 0 => faults = 0
    BY <1>4, MoveKeepsRecords DEF RecordsKept
  <2>2. ASSUME faults' = 0, NEW u \in Jobs, OwesPatch(u) PROVE OwesPatch(u)'
    BY <1>4, <2>2, MoveShapes, ShapesKeepDebts
  <2>3. CASE UNCHANGED log
    BY <1>1, <2>1, <2>2, <2>3
  <2>4. ASSUME NEW kind, log' = Logged(Event(kind, TRUE)) PROVE LogSound'
    <3>1. Event(kind, TRUE).named = TRUE
      BY DEF Event
    <3> QED
      BY <1>2, <2>4, <3>1
  <2>5. ASSUME t \in Jobs, pc'[t] \in Running,
               NEW kind \in {"handoff_to_code_review", "review_returned"},
               log' = Logged(Event(kind, FALSE))
        PROVE  LogSound'
    <3>1. Event(kind, FALSE).named = FALSE /\ Event(kind, FALSE).kind = kind
      BY DEF Event
    <3>2. OwesPatch(t)'
      BY <2>5 DEF OwesPatch
    <3>3. kind # "follow_up.failed"
      OBVIOUS
    <3> QED
      BY <1>3, <2>5, <3>1, <3>2, <3>3
  <2> QED
    BY <1>4, <2>3, <2>4, <2>5, MovesLog DEF Logging
<1>5. ASSUME NEW t \in Threads, SetMark(t) PROVE LogSound'
  <2>1. UNCHANGED <<log, faults>> /\ ~WriteRecord(t)
    BY <1>5 DEF SetMark, WriteRecord, Due
  <2>2. \A u \in Jobs : OwesPatch(u) => OwesPatch(u)'
    BY <1>0, <1>5, <2>1, DebtKept
  <2> QED
    BY <1>1, <2>1, <2>2
<1>6. ASSUME NEW t \in Threads, ReadRecord(t) PROVE LogSound'
  <2>1. UNCHANGED <<log, faults, pc, writes>>
    BY <1>6 DEF ReadRecord, store
  <2>2. \A u \in Jobs : OwesPatch(u) => OwesPatch(u)'
    BY <2>1 DEF OwesPatch
  <2> QED
    BY <1>1, <2>1, <2>2
<1>7. ASSUME NEW t \in Threads, WriteRecord(t) PROVE LogSound'
  <2>0. PICK w : w = Head(writes[t])
    OBVIOUS
  <2>1. /\ writes[t] # <<>> /\ writes[t] \in Seq(Writes) /\ w.op = "patch" /\ UNCHANGED faults
        /\ log' = IF w.event = None THEN log ELSE Logged(w.event)
    BY <1>0, <1>7, <2>0 DEF WriteRecord, Due
  <2>2. w \in Writes /\ w = writes[t][1] /\ 1 \in 1..Len(writes[t])
    BY <2>0, <2>1, HeadAndTail
  <2>3. Named(w)
    BY <1>0, <2>2
  <2>4. w.event \in Events \cup {None}
    BY <2>1, <2>2, WriteTypes
  <2>5. CASE w.event = None
    <3>1. UNCHANGED log
      BY <2>1, <2>5
    <3>2. \A u \in Jobs : OwesPatch(u) => OwesPatch(u)'
      BY <1>0, <1>7, <2>0, <2>3, <2>5, <3>1, DebtKept
    <3> QED
      BY <1>1, <2>1, <3>1, <3>2
  <2>6. CASE w.event # None
    <3>0. PICK e : e = w.event
      OBVIOUS
    <3>1. log' = Logged(e) /\ e \in Events
      BY <2>1, <2>4, <2>6, <3>0
    <3>2. e.named \in BOOLEAN
      BY <3>1, Zenon DEF Events
    <3>3. e.named \/ e.kind = "needs_attention"
      BY <2>1, <2>3, <2>6, <3>0 DEF Named
    <3>4. CASE e.named
      BY <1>2, <3>1, <3>2, <3>4
    <3>5. CASE ~e.named
      BY <1>3, <3>1, <3>2, <3>3, <3>5
    <3> QED
      BY <3>4, <3>5
  <2> QED
    BY <2>5, <2>6
<1>8. ASSUME NEW p \in Processes, Crash(p) PROVE LogSound'
  <2>1. UNCHANGED log /\ faults' = faults + 1
    BY <1>8 DEF Crash, Fault, store
  <2>2. faults' # 0
    BY <1>0, <2>1
  <2> QED
    BY <1>1, <2>1, <2>2
<1>9. CASE UNCHANGED vars
  <2>1. UNCHANGED <<log, faults, pc, writes>>
    BY <1>9 DEF vars, store
  <2>2. \A u \in Jobs : OwesPatch(u) => OwesPatch(u)'
    BY <2>1 DEF OwesPatch
  <2> QED
    BY <1>1, <2>1, <2>2
<1> QED
  BY <1>4, <1>5, <1>6, <1>7, <1>8, <1>9, NextCases

LEMMA NamesKept ==
  ASSUME Sound, \A t \in Threads : NamedList(writes[t]), [Next]_vars
  PROVE  \A t \in Threads : NamedList(writes[t])'
<1>0. writes \in [Threads -> Seq(Writes)]
  BY DEF Sound, TypeOK
<1> SUFFICES ASSUME NEW u \in Threads PROVE NamedList(writes'[u])
  BY DEF NamedList
<1>1. NamedList(writes[u])
  OBVIOUS
<1>2. ASSUME NEW t \in Threads, NEW list, NamedList(list), writes' = [writes EXCEPT ![t] = list]
      PROVE  NamedList(writes'[u])
  <2>1. writes'[u] = IF u = t THEN list ELSE writes[u]
    BY <1>0, <1>2
  <2> QED
    BY <1>1, <1>2, <2>1
<1>3. ASSUME UNCHANGED writes PROVE NamedList(writes'[u])
  BY <1>1, <1>3
<1>4. ASSUME NEW t \in Threads, SetMark(t) \/ WriteRecord(t) PROVE NamedList(writes'[u])
  <2>1. /\ writes[t] # <<>> /\ writes[t] \in Seq(Writes)
        /\ writes' = [writes EXCEPT ![t] = Tail(writes[t])]
    BY <1>0, <1>4 DEF SetMark, WriteRecord, Due, Next1
  <2>2. \A i \in 1..Len(Tail(writes[t])) :
          i + 1 \in 1..Len(writes[t]) /\ Tail(writes[t])[i] = writes[t][i + 1]
    BY <2>1, HeadAndTail
  <2>3. NamedList(Tail(writes[t]))
    BY <2>2 DEF NamedList
  <2> QED
    BY <1>2, <2>1, <2>3
<1>5. ASSUME NEW t \in Threads, Moves(t) PROVE NamedList(writes'[u])
  <2>1. CASE UNCHANGED writes
    BY <1>3, <2>1
  <2>2. ASSUME NEW list, NamedList(list), writes' = [writes EXCEPT ![t] = list]
        PROVE  NamedList(writes'[u])
    BY <1>2, <2>2
  <2> QED
    BY <1>5, <2>1, <2>2, MovesList DEF Listing
<1>6. ASSUME NEW p \in Processes, Crash(p) PROVE NamedList(writes'[u])
  <2>1. writes' = [t \in Threads |-> IF t[1] = p THEN <<>> ELSE writes[t]]
    BY <1>6 DEF Crash
  <2>2. writes'[u] = <<>> \/ writes'[u] = writes[u]
    BY <2>1
  <2> QED
    BY <1>1, <2>2, NamedLists
<1>7. ASSUME NEW t \in Threads, ReadRecord(t) PROVE UNCHANGED writes
  BY <1>7 DEF ReadRecord
<1> QED
  BY <1>3, <1>4, <1>5, <1>6, <1>7, NextCases DEF vars

LEMMA RecoveryInit == Init => RecoveryInvariant
<1> SUFFICES ASSUME Init PROVE RecoveryInvariant
  OBVIOUS
<1>1. ASSUME NEW t \in Threads, NEW i \in 1..Len(writes[t]) PROVE Named(writes[t][i])
  BY DEF Init
<1>2. log.last /\ log.latest = [kind \in {"follow_up.failed", "needs_attention"} |-> <<>>]
  BY DEF Init, Preferred
<1>3. <<>> # <<FALSE>>
  OBVIOUS
<1>4. LogSound
  BY <1>2, <1>3 DEF LogSound, LatestEvents
<1> QED
  BY <1>1, <1>4 DEF RecoveryInvariant

LEMMA RecoveryKept == FollowUpInvariant /\ RecoveryInvariant /\ [Next]_vars => RecoveryInvariant'
<1> SUFFICES ASSUME FollowUpInvariant, RecoveryInvariant, [Next]_vars PROVE RecoveryInvariant'
  OBVIOUS
<1>1. Sound
  BY DEF FollowUpInvariant, Sound
<1>2. \A t \in Threads : NamedList(writes[t])
  BY DEF RecoveryInvariant, NamedList
<1>3. \A t \in Threads : NamedList(writes[t])'
  BY <1>1, <1>2, NamesKept
<1>4. LogSound'
  BY <1>1, LogKept
<1> QED
  BY <1>3, <1>4 DEF RecoveryInvariant, NamedList

(* What the log tells is sound: every patch that is still to be written    *)
(* leaves an event that names the task, but for the operator's, and a      *)
(* handover to the reviewer, which does not, is followed by the mark that  *)
(* does (automation.py:501-554, task_registry.py:231-260).                 *)
THEOREM LogsAreSound == Spec => []RecoveryInvariant
BY RecoveryInit, RecoveryKept, FollowUpsAreSound, PTL DEF Spec

(* For any number of processes, threads and rounds: once no job is at work *)
(* the operator's action reaches the coding task, unless an operator has   *)
(* marked the control task alone, or a fault struck (task_registry.py:     *)
(* 231-260, 373-385; automation.py:377-465).                               *)
THEOREM RecoveryAlwaysReaches == Spec => []RecoveryReaches
<1>1. ASSUME FollowUpInvariant, RecoveryInvariant PROVE RecoveryReaches
  <2> SUFFICES ASSUME log.latest["needs_attention"] # <<FALSE>>, ~(faults > 0),
                      ~\E t \in Jobs : AtWork(t)
               PROVE  RecoveryEvent
    BY DEF RecoveryReaches
  <2>1. faults = 0
    BY <1>1, BoundAssumption DEF FollowUpInvariant, TypeOK
  <2>2. ASSUME NEW t \in Jobs PROVE ~OwesPatch(t)
    <3>1. pc[t] \notin Running /\ writes[t] = <<>>
      BY DEF AtWork, Running
    <3> QED
      BY <3>1 DEF OwesPatch
  <2>3. /\ log.last
        /\ log.latest["follow_up.failed"] \in {<<>>, <<TRUE>>}
        /\ log.latest["needs_attention"] \in {<<>>, <<TRUE>>}
    BY <1>1, <2>1, <2>2 DEF RecoveryInvariant, LogSound, LatestEvents
  <2>4. Preferred[1] = "follow_up.failed" /\ Preferred[2] = "needs_attention"
    BY DEF Preferred
  <2> DEFINE Has(n) == log.latest[Preferred[n]] # <<>>
             First(n) == Has(n) /\ \A k \in 1..(n - 1) : ~Has(k)
             c == CHOOSE n \in 1..2 : First(n)
  <2>5. \A n \in 1..2 : Has(n) => log.latest[Preferred[n]][1] = TRUE
    <3>1. \A n \in 1..2 : n = 1 \/ n = 2
      OBVIOUS
    <3>2. \A n \in 1..2 : log.latest[Preferred[n]] \in {<<>>, <<TRUE>>}
      BY <2>3, <2>4, <3>1
    <3>3. <<TRUE>>[1] = TRUE
      OBVIOUS
    <3> QED
      BY <3>2, <3>3
  <2>6. ASSUME \E n \in 1..2 : Has(n) PROVE c \in 1..2 /\ Has(c)
    <3>1. \E n \in 1..2 : First(n)
      <4>1. CASE Has(1)
        <5>1. First(1)
          BY <4>1
        <5> QED
          BY <5>1
      <4>2. CASE ~Has(1)
        <5>1. Has(2)
          BY <2>6, <4>2
        <5>2. First(2)
          BY <4>2, <5>1
        <5> QED
          BY <5>2
      <4> QED
        BY <4>1, <4>2
    <3> QED
      BY <3>1
  <2>7. CASE record["control"].status = "needs_attention" /\ \E n \in 1..2 : Has(n)
    <3>1. log.latest[Preferred[c]][1] = TRUE
      BY <2>5, <2>6, <2>7
    <3>2. RecoveryEvent = log.latest[Preferred[c]][1]
      BY <2>7 DEF RecoveryEvent
    <3> QED
      BY <3>1, <3>2
  <2>8. CASE ~(record["control"].status = "needs_attention" /\ \E n \in 1..2 : Has(n))
    BY <2>3, <2>8 DEF RecoveryEvent
  <2> QED
    BY <2>7, <2>8
<1> QED
  BY <1>1, FollowUpsAreSound, LogsAreSound, PTL
=============================================================================
