--------------------------- MODULE GatewayProofs ---------------------------
(***************************************************************************)
(* What holds of the gateway for every number of threads, messages,        *)
(* endpoints and issues, and however often the channel delivers.           *)
(*                                                                         *)
(* The inductive invariant is GatewayInvariant of Gateway.  A step of a    *)
(* thread h is described by where it goes and what its locals become       *)
(* (Moved); what the thread may rely on (FrameFits) survives every step of *)
(* everybody else, because issues, tasks and runs are only ever added.     *)
(***************************************************************************)
EXTENDS Gateway, QueueTheorems, FiniteSetTheorems, SequenceTheorems, TLAPS

CodingIsRalphs(r) ==
  /\ r \in [intent : {"none", "stats_query", "sleep_coding", "general"}, agent : Agents,
            refused : BOOLEAN]
  /\ r.intent = "sleep_coding" => r.agent = "ralph"

LEMMA ToLaw ==
  ASSUME NEW intent \in {"stats_query", "sleep_coding", "general"}, NEW agent \in Agents,
         intent = "sleep_coding" => agent = "ralph"
  PROVE  CodingIsRalphs(To(intent, agent))
BY DEF To, CodingIsRalphs

LEMMA DefaultLaw ==
  ASSUME NEW b, b.agent \in Agents
  PROVE  CodingIsRalphs(DefaultRoute(b))
<1>1. CodingIsRalphs(NoRoute)
  BY DEF NoRoute, CodingIsRalphs, Agents
<1>2. CodingIsRalphs(To("sleep_coding", "ralph")) /\ CodingIsRalphs(To("general", "main-agent"))
  BY ToLaw DEF Agents
<1>3. CodingIsRalphs(To("general", b.agent))
  BY ToLaw DEF Agents
<1> QED
  BY <1>1, <1>2, <1>3, Zenon DEF DefaultRoute

LEMMA RefusedLaw ==
  ASSUME NEW b, b.agent \in Agents
  PROVE  CodingIsRalphs(Refused(b))
<1> DEFINE fallback == IF DefaultRoute(b) = NoRoute THEN To("general", "main-agent")
                       ELSE DefaultRoute(b)
<1>1. CodingIsRalphs(fallback)
  BY ToLaw, DefaultLaw DEF Agents
<1>2. Refused(b) = [fallback EXCEPT !.refused = TRUE]
  BY DEF Refused
<1> HIDE DEF fallback
<1> QED
  BY <1>1, <1>2 DEF CodingIsRalphs

LEMMA RouteOfLaw ==
  ASSUME NEW says, NEW b, b.agent \in Agents
  PROVE  CodingIsRalphs(RouteOf(says, b))
<1>1. /\ CodingIsRalphs(To("stats_query", "main-agent"))
      /\ CodingIsRalphs(To("sleep_coding", "ralph"))
      /\ CodingIsRalphs(To("general", "main-agent"))
  BY ToLaw DEF Agents
<1>2. CodingIsRalphs(Refused(b)) /\ CodingIsRalphs(DefaultRoute(b))
  BY RefusedLaw, DefaultLaw
<1> QED
  BY <1>1, <1>2, Zenon DEF RouteOf

LEMMA BindingLaw ==
  ASSUME NEW id
  PROVE  BindingOf(Endpoints, id).agent \in Agents
<1>1. CASE \E n \in 1..Len(Endpoints) : Endpoints[n].id = id
  <2> DEFINE k == CHOOSE n \in 1..Len(Endpoints) : Endpoints[n].id = id
  <2>1. k \in 1..Len(Endpoints)
    BY <1>1
  <2>2. BindingOf(Endpoints, id).agent = Endpoints[k].agent
    BY <1>1 DEF BindingOf
  <2> QED
    BY <2>1, <2>2 DEF Agents
<1>2. CASE ~\E n \in 1..Len(Endpoints) : Endpoints[n].id = id
  BY <1>2 DEF BindingOf, Unbound, Agents
<1> QED
  BY <1>1, <1>2

(* Only Ralph's route is one for coding (routing.py:38-120).               *)
LEMMA RouteLaw ==
  ASSUME sent \in Conversations, NEW m \in Messages
  PROVE  CodingIsRalphs(RouteTo(m))
<1> DEFINE s == sent[m]
           b == BindingOf(Endpoints, EndpointOf(Endpoints, s.endpoint, s.source, s.refs, Default))
<1>1. s \in UNION {{c[x] : x \in Messages} : c \in Conversations}
  OBVIOUS
<1>2. RouteTo(m) = RouteOf(s.says, b)
  BY <1>1 DEF RouteTo, Routes
<1>3. b.agent \in Agents
  BY BindingLaw
<1> QED
  BY <1>2, <1>3, RouteOfLaw

----------------------------------------------------------------------------
(* A step of thread h: where it goes and what its locals become.           *)
Moved(h, place, f) == /\ pc' = [pc EXCEPT ![h] = place]
                      /\ frame' = [frame EXCEPT ![h] = f]

Others(h) == \A g \in Handlers : g # h => pc'[g] = pc[g] /\ frame'[g] = frame[g]

LEMMA MovedLaw ==
  ASSUME Typed, NEW h \in Handlers, NEW place, NEW f, Moved(h, place, f)
  PROVE  pc'[h] = place /\ frame'[h] = f /\ Others(h)
BY DEF Typed, Moved, Others

LEMMA MovedType ==
  ASSUME Typed, NEW h \in Handlers, NEW place \in Places, NEW f \in Frames, Moved(h, place, f)
  PROVE  pc' \in [Handlers -> Places] /\ frame' \in [Handlers -> Frames]
BY DEF Typed, Moved

LEMMA SameTypes ==
  ASSUME sent' = sent
  PROVE  Sessions' = Sessions /\ Frames' = Frames
BY DEF Sessions, Frames

LEMMA MessageLaw ==
  ASSUME TypeOK, NEW m \in Messages
  PROVE  /\ sent[m].session \in Sessions
         /\ UserSession(m) \in Sessions
         /\ sent[m].issue \in Nat
<1>1. sent \in Conversations
  BY DEF TypeOK, Typed
<1>2. \A x \in Messages : sent[x].session \in Sessions
  BY DEF Sessions
<1>3. HasParent(sent[m].issue) => issues[sent[m].issue].msg \in Messages
  BY DEF TypeOK, ReferencesExist, HasParent
<1> QED
  BY <1>1, <1>2, <1>3, ConversationAssumption DEF UserSession

LEMMA RequestLaw ==
  ASSUME TypeOK, NEW m \in Messages
  PROVE  /\ RequestId(m) \in Messages \X Nat
         /\ RequestId(m)[1] = m
         /\ IsFiniteSet(WithRun(RequestId(m)))
<1> DEFINE mine == {r \in runs : r[1] = m}
<1>1. IsFiniteSet(runs)
  BY DEF TypeOK, Typed
<1>2. IsFiniteSet(mine)
  BY <1>1, FS_Subset
<1>3. Cardinality(mine) \in Nat
  BY <1>2, FS_CardinalityType
<1>4. RequestId(m) \in Messages \X Nat /\ RequestId(m)[1] = m
  BY <1>3 DEF RequestId
<1> QED
  BY <1>1, <1>4, FS_AddElement DEF WithRun

LEMMA EnterLaneType ==
  ASSUME active \in Entries, queued \in Seq(Entries), NEW e \in Entries, EnterLane(e)
  PROVE  active' \in Entries /\ queued' \in Seq(Entries)
<1>1. Without(queued, e) \in Seq(Entries)
  BY WithoutType
<1> QED
  BY <1>1 DEF EnterLane

LEMMA LeftType ==
  ASSUME NEW a \in Entries, NEW q \in Seq(Entries), NEW e
  PROVE  /\ Left(<<a, q>>, e)[1] \in Entries
         /\ Left(<<a, q>>, e)[2] \in Seq(Entries)
         /\ Left(<<a, q>>, e) = <<Left(<<a, q>>, e)[1], Left(<<a, q>>, e)[2]>>
<1>1. Without(q, e) \in Seq(Entries)
  BY WithoutType
<1>2. Nobody \in Entries
  BY DEF Nobody, Entries
<1>3. CASE a = e /\ q = <<>>
  BY <1>2, <1>3 DEF Left
<1>4. CASE a = e /\ q # <<>>
  <2>1. Head(q) \in Entries /\ Tail(q) \in Seq(Entries)
    BY <1>4
  <2> QED
    BY <1>4, <2>1 DEF Left
<1>5. CASE a # e
  BY <1>1, <1>5 DEF Left
<1> QED
  BY <1>3, <1>4, <1>5

LEMMA ReleasedType ==
  ASSUME TypeOK, NEW k
  PROVE  Released(k)[1] \in Entries /\ Released(k)[2] \in Seq(Entries)
<1> DEFINE own == Left(<<active, queued>>, Child(k))
<1>1. active \in Entries /\ queued \in Seq(Entries)
  BY DEF TypeOK, Typed
<1>2. own[1] \in Entries /\ own[2] \in Seq(Entries) /\ own = <<own[1], own[2]>>
  BY <1>1, LeftType
<1>3. Released(k) = IF tasks[k].parent THEN Left(own, Parent(tasks[k].issue)) ELSE own
  BY DEF Released
<1> HIDE DEF own
<1>4. /\ Left(own, Parent(tasks[k].issue))[1] \in Entries
      /\ Left(own, Parent(tasks[k].issue))[2] \in Seq(Entries)
  BY <1>2, LeftType
<1> QED
  BY <1>2, <1>3, <1>4

LEMMA EntryTypes ==
  /\ Nobody \in Entries
  /\ \A i \in Nat : Parent(i) \in Entries
  /\ \A k \in Nat : Child(k) \in Entries
  /\ NoReceipt \in Answers
  /\ NoFrame \in Frames
BY DEF Nobody, Parent, Child, Entries, NoReceipt, Answers, NoFrame, Frames

LEMMA TypedInit == Init => Typed
<1> SUFFICES ASSUME Init PROVE Typed
  OBVIOUS
<1>1. IsFiniteSet({}) /\ {} \subseteq Messages \X Nat
  BY FS_EmptySet
<1>2. "none" \in Agents /\ 0 \in 0..MaxFaults
  BY BoundAssumption DEF Agents
<1>3. issues \in Seq([msg : Messages \cup {None}, parent : BOOLEAN])
  BY DEF Init
<1>4. pc \in [Handlers -> Places]
  BY DEF Init, Places
<1>5. sessions \in [Sessions -> [agent : Agents, turn : Answers]]
  BY <1>2, EntryTypes DEF Init
<1>6. queued \in Seq(Entries) /\ tasks = <<>>
  BY DEF Init
<1>7. tasks \in Seq([issue : Nat, parent : BOOLEAN, status : TaskStatuses])
  BY <1>6
<1> QED
  BY <1>1, <1>2, <1>3, <1>4, <1>5, <1>6, <1>7, EntryTypes DEF Init, Typed

(* A thread's locals are well typed, and it is at work for a message.      *)
LEMMA FrameLaw ==
  ASSUME GatewayInvariant, NEW h \in Handlers
  PROVE  /\ frame[h] \in Frames
         /\ pc[h] # "idle" => frame[h].msg \in Messages
         /\ Locked(h) /\ pc[h] # "open" =>
              /\ frame[h].user \in Sessions /\ frame[h].request \in runs
              /\ frame[h].request \in Messages \X Nat
              /\ frame[h].request[1] = frame[h].msg
BY DEF GatewayInvariant, TypeOK, Typed, FrameSound

(* Where a step of the work on a message leads, and with which locals.     *)
LEMMA ChatMoves ==
  ASSUME Typed, NEW h \in Handlers, Chat(h)
  PROVE  Moved(h, "record",
               [frame[h] EXCEPT !.state = "completed"])
BY DEF Chat, GoTo, Moved, Typed

LEMMA CreateIssueMoves ==
  ASSUME Typed, NEW h \in Handlers, CreateIssue(h)
  PROVE  Moved(h, "parent",
               [frame[h] EXCEPT !.issue = Len(issues) + 1])
BY DEF CreateIssue, GoTo, Moved, Typed

LEMMA CreateParentMoves ==
  ASSUME Typed, NEW h \in Handlers, CreateParent(h)
  PROVE  Moved(h, "enter",
               frame[h])
BY DEF CreateParent, GoTo, Moved, Typed

LEMMA EnterAsParentMoves ==
  ASSUME Typed, NEW h \in Handlers, EnterAsParent(h)
  PROVE  Moved(h, "record",
               [frame[h] EXCEPT !.task = Parent(frame[h].issue),
                                              !.state = IF Granted(Parent(frame[h].issue)) THEN "accepted" ELSE "queued"])
BY DEF EnterAsParent, GoTo, Moved, Typed

LEMMA StartTaskMoves ==
  ASSUME Typed, NEW h \in Handlers, StartTask(h)
  PROVE  Moved(h, "plan",
               [frame[h] EXCEPT !.task = Child(Len(tasks) + 1)])
BY DEF StartTask, GoTo, Moved, Typed

LEMMA PlanReadyMoves ==
  ASSUME Typed, NEW h \in Handlers, PlanReady(h)
  PROVE  Moved(h, "enter_direct",
               frame[h])
BY DEF PlanReady, GoTo, Moved, Typed

LEMMA EnterAsTaskMoves ==
  ASSUME Typed, NEW h \in Handlers, EnterAsTask(h)
  PROVE  Moved(h, "record",
               [frame[h] EXCEPT !.state = "accepted"])
BY DEF EnterAsTask, GoTo, Moved, Typed

LEMMA RecordRequestMoves ==
  ASSUME Typed, NEW h \in Handlers, RecordRequest(h)
  PROVE  Moved(h, "turn",
               frame[h])
BY DEF RecordRequest, GoTo, Moved, Typed

LEMMA RecordAnswerMoves ==
  ASSUME Typed, NEW h \in Handlers, RecordAnswer(h)
  PROVE  Moved(h, "answered",
               frame[h])
BY DEF RecordAnswer, GoTo, Moved, Typed

LEMMA ReadStatusMoves ==
  ASSUME Typed, NEW h \in Handlers, ReadStatus(h)
  PROVE  Moved(h, "approve",
               [frame[h] EXCEPT !.seen = tasks[frame[h].task[2]].status])
BY DEF ReadStatus, GoTo, Moved, Typed

LEMMA CheckBusyMoves ==
  ASSUME Typed, NEW h \in Handlers, CheckBusy(h)
  PROVE  \/ /\ active # Nobody
            /\ Moved(h, "record", [frame[h] EXCEPT !.state = "running"])
         \/ Moved(h, "record", [frame[h] EXCEPT !.state = "completed"])
         \/ Moved(h, "start", frame[h])
BY DEF CheckBusy, GoTo, Moved, Typed

OpenedAs(h) == [frame[h] EXCEPT !.user = UserSession(frame[h].msg), !.request = RequestId(frame[h].msg)]

LEMMA OpenSessionsMoves ==
  ASSUME Typed, NEW h \in Handlers, OpenSessions(h)
  PROVE  \/ Moved(h, "record", [OpenedAs(h) EXCEPT !.state = "completed"])
         \/ RouteTo(frame[h].msg).agent = "ralph" /\ Moved(h, "direct", OpenedAs(h))
         \/ RouteTo(frame[h].msg).agent # "ralph" /\ Moved(h, "intake", OpenedAs(h))
BY DEF OpenSessions, GoTo, Moved, OpenedAs, Typed

Cached(f, r) == [f EXCEPT !.cached = TRUE, !.task = r.task, !.state = r.state]

LEMMA LockMoves ==
  ASSUME Typed, NEW h \in Handlers, Lock(h)
  PROVE  LET m == frame[h].msg
         IN \/ /\ receipts[m] # NoReceipt /\ owner' = owner
               /\ Moved(h, "answered", Cached(frame[h], receipts[m]))
            \/ /\ receipts[m] = NoReceipt /\ owner[sent[m].session] = None
               /\ owner' = [owner EXCEPT ![sent[m].session] = h]
               /\ Moved(h, "open", frame[h])
BY DEF Lock, GoTo, Moved, Cached, Typed

LEMMA ReceiveMoves ==
  ASSUME Typed, NEW h \in Handlers, NEW m \in Messages, Receive(h, m)
  PROVE  \/ /\ receipts[m] # NoReceipt
            /\ Moved(h, "answered", Cached([NoFrame EXCEPT !.msg = m], receipts[m]))
         \/ Moved(h, "lock", [NoFrame EXCEPT !.msg = m])
BY DEF Receive, GoTo, Moved, Cached, Typed

LEMMA LeaveMoves ==
  ASSUME NEW h \in Handlers, Leave(h)
  PROVE  Moved(h, "idle", NoFrame)
BY DEF Leave, GoTo, Moved

(* Every step of a thread keeps the types of its place and its locals.     *)
LEMMA CachedType ==
  ASSUME NEW f \in Frames, NEW r \in Answers
  PROVE  Cached(f, r) \in Frames
BY DEF Cached, Frames, Answers

LEMMA OpenedType ==
  ASSUME GatewayInvariant, NEW h \in Handlers, frame[h].msg \in Messages
  PROVE  OpenedAs(h) \in Frames
<1>1. UserSession(frame[h].msg) \in Sessions /\ RequestId(frame[h].msg) \in Messages \X Nat
  BY MessageLaw, RequestLaw DEF GatewayInvariant
<1>2. frame[h] \in Frames
  BY FrameLaw
<1> QED
  BY <1>1, <1>2 DEF OpenedAs, Frames

LEMMA FreshType == \A m \in Messages : [NoFrame EXCEPT !.msg = m] \in Frames
BY EntryTypes DEF Frames, NoFrame

(* A sequence that is changed at one place, if it has that place.          *)
LEMMA ChangedAt ==
  ASSUME NEW S, NEW q \in Seq(S), NEW k, NEW x, k \in 1..Len(q) => x \in S
  PROVE  /\ [q EXCEPT ![k] = x] \in Seq(S)
         /\ Len([q EXCEPT ![k] = x]) = Len(q)
         /\ \A j \in 1..Len(q) : [q EXCEPT ![k] = x][j] = IF j = k THEN x ELSE q[j]
<1>1. CASE k \in 1..Len(q)
  BY <1>1, ExceptSeq
<1>2. CASE k \notin 1..Len(q)
  <2>1. DOMAIN q = 1..Len(q)
    OBVIOUS
  <2>2. [q EXCEPT ![k] = x] = q
    BY <1>2, <2>1
  <2> QED
    BY <1>2, <2>2
<1> QED
  BY <1>1, <1>2

(* The parts of the type invariant that a thread's work leaves alone.      *)
LEMMA TypedFrom ==
  ASSUME Typed, UNCHANGED <<sent, deliveries, acked, receipts, owner, broken, faults>>,
         pc' \in [Handlers -> Places], frame' \in [Handlers -> Frames],
         sessions' \in [Sessions -> [agent : Agents, turn : Answers]],
         runs' \subseteq Messages \X Nat, IsFiniteSet(runs'), requests' \subseteq runs',
         issues' \in Seq([msg : Messages \cup {None}, parent : BOOLEAN]),
         tasks' \in Seq([issue : Nat, parent : BOOLEAN, status : TaskStatuses]),
         active' \in Entries, queued' \in Seq(Entries), early' \subseteq Nat, unrecorded' \subseteq Nat
  PROVE  Typed'
BY SameTypes DEF Typed

LEMMA AgentType ==
  ASSUME Typed, NEW s \in Sessions, NEW agent \in Agents
  PROVE  WithAgent(s, agent) \in [Sessions -> [agent : Agents, turn : Answers]]
BY DEF Typed, WithAgent

LEMMA TypedOpen ==
  ASSUME GatewayInvariant, NEW h \in Handlers, OpenSessions(h) PROVE Typed'
<1> DEFINE m == frame[h].msg
<1>1. m \in Messages /\ frame[h] \in Frames /\ TypeOK /\ Typed
  BY FrameLaw DEF OpenSessions, GatewayInvariant, TypeOK
<1>2. OpenedAs(h) \in Frames
  BY <1>1, OpenedType
<1>3. [OpenedAs(h) EXCEPT !.state = "completed"] \in Frames
  BY <1>2 DEF Frames
<1>4. pc' \in [Handlers -> Places] /\ frame' \in [Handlers -> Frames]
  BY <1>1, <1>2, <1>3, OpenSessionsMoves, MovedType DEF Places
<1>5. RouteTo(m).agent \in Agents
  BY <1>1, RouteLaw DEF Typed, CodingIsRalphs
<1>6. sessions' \in [Sessions -> [agent : Agents, turn : Answers]]
  <2>1. sessions' = WithAgent(UserSession(m), RouteTo(m).agent)
    BY DEF OpenSessions
  <2> QED
    BY <1>1, <1>5, <2>1, AgentType, MessageLaw
<1>7. runs' \subseteq Messages \X Nat /\ IsFiniteSet(runs') /\ requests' \subseteq runs'
  BY <1>1, RequestLaw DEF OpenSessions, WithRun, Typed
<1> QED
  BY <1>1, <1>4, <1>6, <1>7, TypedFrom DEF OpenSessions, SameMessage, history, lane, Typed

LEMMA TypedIntake ==
  ASSUME GatewayInvariant, NEW h \in Handlers, Chat(h) \/ CreateIssue(h) \/ CreateParent(h)
  PROVE  Typed'
<1>1. frame[h].msg \in Messages /\ frame[h] \in Frames /\ TypeOK /\ Typed
  BY FrameLaw DEF Chat, CreateIssue, CreateParent, GatewayInvariant, TypeOK
<1>2. WithAgent(sent[frame[h].msg].session, "main-agent") \in [Sessions -> [agent : Agents, turn : Answers]]
  BY <1>1, AgentType, MessageLaw DEF Agents
<1>3. CASE Chat(h)
  <2>1. [frame[h] EXCEPT !.state = "completed"] \in Frames
    BY <1>1 DEF Frames
  <2>2. pc' \in [Handlers -> Places] /\ frame' \in [Handlers -> Frames]
    BY <1>1, <1>3, <2>1, ChatMoves, MovedType DEF Places
  <2> QED
    BY <1>1, <1>2, <1>3, <2>2, TypedFrom DEF Chat, SameMessage, history, ledger, lane, Typed
<1>4. CASE CreateIssue(h)
  <2>1. Len(issues) + 1 \in Nat
    BY <1>1 DEF Typed
  <2>2. [frame[h] EXCEPT !.issue = Len(issues) + 1] \in Frames
    BY <1>1, <2>1 DEF Frames
  <2>3. pc' \in [Handlers -> Places] /\ frame' \in [Handlers -> Frames]
    BY <1>1, <1>4, <2>2, CreateIssueMoves, MovedType DEF Places
  <2>4. issues' \in Seq([msg : Messages \cup {None}, parent : BOOLEAN])
    BY <1>1, <1>4 DEF CreateIssue, Typed
  <2> QED
    BY <1>1, <1>2, <1>4, <2>3, <2>4, TypedFrom
       DEF CreateIssue, SameMessage, history, ledger, lane, Typed
<1>5. CASE CreateParent(h)
  <2>1. pc' \in [Handlers -> Places] /\ frame' \in [Handlers -> Frames]
    BY <1>1, <1>5, CreateParentMoves, MovedType DEF Places
  <2>2. issues' \in Seq([msg : Messages \cup {None}, parent : BOOLEAN])
    <3> DEFINE R == [msg : Messages \cup {None}, parent : BOOLEAN]
    <3>1. issues \in Seq(R)
      BY <1>1 DEF Typed
    <3>2. \A r \in R : [r EXCEPT !.parent = TRUE] \in R
      OBVIOUS
    <3>3. issues' = [issues EXCEPT ![frame[h].issue] = [issues[frame[h].issue] EXCEPT !.parent = TRUE]]
      BY <1>5 DEF CreateParent
    <3> HIDE DEF R
    <3>4. frame[h].issue \in 1..Len(issues) => issues[frame[h].issue] \in R
      BY <3>1
    <3>5. issues' \in Seq(R)
      BY <3>1, <3>2, <3>3, <3>4, ChangedAt
    <3> QED
      BY <3>5 DEF R
  <2> QED
    BY <1>1, <1>5, <2>1, <2>2, TypedFrom DEF CreateParent, SameMessage, history, ledger, lane, Typed
<1> QED
  BY <1>3, <1>4, <1>5

LEMMA TypedEnter ==
  ASSUME GatewayInvariant, NEW h \in Handlers, EnterAsParent(h) \/ EnterAsTask(h)
  PROVE  Typed'
<1>1. frame[h] \in Frames /\ TypeOK /\ Typed
  BY FrameLaw DEF GatewayInvariant, TypeOK
<1>2. CASE EnterAsParent(h)
  <2> DEFINE e == Parent(frame[h].issue)
  <2>1. e \in Entries /\ frame[h].issue \in Nat
    BY <1>1, EntryTypes DEF Frames
  <2>2. [frame[h] EXCEPT !.task = e, !.state = IF Granted(e) THEN "accepted" ELSE "queued"] \in Frames
    BY <1>1, <2>1 DEF Frames
  <2>3. pc' \in [Handlers -> Places] /\ frame' \in [Handlers -> Frames]
    BY <1>1, <1>2, <2>2, EnterAsParentMoves, MovedType DEF Places
  <2>4. active' \in Entries /\ queued' \in Seq(Entries)
    BY <1>1, <1>2, <2>1, EnterLaneType DEF EnterAsParent, Typed
  <2>5. early' \subseteq Nat /\ unrecorded' \subseteq Nat
    BY <1>1, <1>2, <2>1 DEF EnterAsParent, Typed
  <2> QED
    BY <1>1, <1>2, <2>3, <2>4, <2>5, TypedFrom DEF EnterAsParent, ledger, Typed
<1>3. CASE EnterAsTask(h)
  <2>1. frame[h].task \in Entries /\ [frame[h] EXCEPT !.state = "accepted"] \in Frames
    BY <1>1 DEF Frames
  <2>2. pc' \in [Handlers -> Places] /\ frame' \in [Handlers -> Frames]
    BY <1>1, <1>3, <2>1, EnterAsTaskMoves, MovedType DEF Places
  <2>3. active' \in Entries /\ queued' \in Seq(Entries)
    BY <1>1, <1>3, <2>1, EnterLaneType DEF EnterAsTask, Typed
  <2> QED
    BY <1>1, <1>3, <2>2, <2>3, TypedFrom DEF EnterAsTask, SameMessage, history, ledger, Typed
<1> QED
  BY <1>2, <1>3

(* Changes of a coding task's status.                                      *)
LEMMA StatusType ==
  ASSUME Typed, NEW k, NEW status \in TaskStatuses
  PROVE  [tasks EXCEPT ![k].status = status] \in
           Seq([issue : Nat, parent : BOOLEAN, status : TaskStatuses])
<1> DEFINE R == [issue : Nat, parent : BOOLEAN, status : TaskStatuses]
           one == [tasks[k] EXCEPT !.status = status]
<1>1. tasks \in Seq(R)
  BY DEF Typed
<1>2. \A r \in R : [r EXCEPT !.status = status] \in R
  OBVIOUS
<1> HIDE DEF R
<1>3. k \in 1..Len(tasks) => tasks[k] \in R
  BY <1>1
<1>4. k \in 1..Len(tasks) => one \in R
  BY <1>2, <1>3
<1>5. [tasks EXCEPT ![k].status = status] = [tasks EXCEPT ![k] = one]
  OBVIOUS
<1> HIDE DEF one
<1>6. [tasks EXCEPT ![k] = one] \in Seq(R)
  BY <1>1, <1>4, ChangedAt
<1> QED
  BY <1>5, <1>6 DEF R

LEMMA TypedDirect ==
  ASSUME GatewayInvariant, NEW h \in Handlers, CheckBusy(h) \/ StartTask(h) \/ PlanReady(h)
  PROVE  Typed'
<1>1. frame[h] \in Frames /\ TypeOK /\ Typed
  BY FrameLaw DEF GatewayInvariant, TypeOK
<1>2. CASE CheckBusy(h)
  <2>1. /\ [frame[h] EXCEPT !.state = "running"] \in Frames
        /\ [frame[h] EXCEPT !.state = "completed"] \in Frames
    BY <1>1 DEF Frames
  <2>2. pc' \in [Handlers -> Places] /\ frame' \in [Handlers -> Frames]
    BY <1>1, <1>2, <2>1, CheckBusyMoves, MovedType DEF Places
  <2> QED
    BY <1>1, <1>2, <2>2, TypedFrom DEF CheckBusy, SameMessage, SameWork, history, ledger, lane, Typed
<1>3. CASE StartTask(h)
  <2>1. Child(Len(tasks) + 1) \in Entries
    BY <1>1, EntryTypes DEF Typed
  <2>2. [frame[h] EXCEPT !.task = Child(Len(tasks) + 1)] \in Frames
    BY <1>1, <2>1 DEF Frames
  <2>3. pc' \in [Handlers -> Places] /\ frame' \in [Handlers -> Frames]
    BY <1>1, <1>3, <2>2, StartTaskMoves, MovedType DEF Places
  <2>4. /\ sent[frame[h].msg].issue \in 1..Len(issues)
        /\ tasks' = Append(tasks, [issue |-> sent[frame[h].msg].issue,
                                   parent |-> HasParent(sent[frame[h].msg].issue),
                                   status |-> "created"])
    BY <1>3 DEF StartTask
  <2>5. HasParent(sent[frame[h].msg].issue) \in BOOLEAN
    BY <2>4, Zenon DEF HasParent
  <2>6. sent[frame[h].msg].issue \in Nat
    BY <1>1, <2>4 DEF Typed
  <2>7. tasks' \in Seq([issue : Nat, parent : BOOLEAN, status : TaskStatuses])
    BY <1>1, <2>4, <2>5, <2>6 DEF Typed, TaskStatuses
  <2> QED
    BY <1>1, <1>3, <2>3, <2>7, TypedFrom DEF StartTask, SameMessage, history, ledger, lane, Typed
<1>4. CASE PlanReady(h)
  <2>1. pc' \in [Handlers -> Places] /\ frame' \in [Handlers -> Frames]
    BY <1>1, <1>4, PlanReadyMoves, MovedType DEF Places
  <2>2. tasks' \in Seq([issue : Nat, parent : BOOLEAN, status : TaskStatuses])
    BY <1>1, <1>4, StatusType DEF PlanReady, TaskStatuses
  <2> QED
    BY <1>1, <1>4, <2>1, <2>2, TypedFrom DEF PlanReady, SameMessage, history, ledger, lane, Typed
<1> QED
  BY <1>2, <1>3, <1>4

LEMMA TypedRequest ==
  ASSUME GatewayInvariant, NEW h \in Handlers, RecordRequest(h)
  PROVE  Typed'
<1>1. frame[h] \in Frames /\ TypeOK /\ Typed
  BY FrameLaw DEF GatewayInvariant, TypeOK
<1>2. pc' \in [Handlers -> Places] /\ frame' \in [Handlers -> Frames]
  BY <1>1, RecordRequestMoves, MovedType DEF Places
<1>3. requests' \subseteq runs'
  BY <1>1, FrameLaw DEF RecordRequest, Typed, Locked
<1> QED
  BY <1>1, <1>2, <1>3, TypedFrom DEF RecordRequest, SameMessage, history, lane, Typed

(* What is left of the types: the answer, the lock and the errors.         *)
LEMMA TypedAnswer ==
  ASSUME GatewayInvariant, NEW h \in Handlers, RecordAnswer(h)
  PROVE  Typed'
<1> DEFINE m == frame[h].msg
<1>1. /\ m \in Messages /\ frame[h] \in Frames /\ TypeOK /\ Typed
      /\ frame[h].user \in Sessions /\ frame[h].request \in Messages \X Nat
  BY FrameLaw DEF RecordAnswer, Locked, GatewayInvariant, TypeOK
<1>2. pc' \in [Handlers -> Places] /\ frame' \in [Handlers -> Frames]
  BY <1>1, RecordAnswerMoves, MovedType DEF Places
<1>3. Answer(h) \in Answers
  BY <1>1 DEF Answer, Answers, Frames
<1>4. sessions' \in [Sessions -> [agent : Agents, turn : Answers]]
  BY <1>1, <1>3 DEF RecordAnswer, WithTurn, Typed
<1>5. receipts' \in [Messages -> Answers]
  BY <1>1, <1>3 DEF RecordAnswer, Typed
<1>6. owner' \in [Sessions -> Handlers \cup {None}]
  BY <1>1 DEF RecordAnswer, Typed
<1> HIDE DEF m
<1>7. UNCHANGED <<sent, deliveries, acked, broken, early, unrecorded, faults, runs, requests, issues, tasks, active, queued>>
  BY DEF RecordAnswer, history, ledger, lane
<1> QED
  BY <1>1, <1>2, <1>4, <1>5, <1>6, <1>7, SameTypes DEF Typed

LEMMA TypedLock ==
  ASSUME GatewayInvariant, NEW h \in Handlers, Lock(h)
  PROVE  Typed'
<1>1. /\ frame[h].msg \in Messages /\ frame[h] \in Frames /\ TypeOK /\ Typed
      /\ sent[frame[h].msg].session \in Sessions /\ receipts[frame[h].msg] \in Answers
  BY FrameLaw, MessageLaw DEF Lock, GatewayInvariant, TypeOK, Typed
<1>2. Cached(frame[h], receipts[frame[h].msg]) \in Frames
  BY <1>1, CachedType
<1>3. pc' \in [Handlers -> Places] /\ frame' \in [Handlers -> Frames]
  <2>0. "answered" \in Places /\ "open" \in Places
    BY DEF Places
  <2>1. PICK place \in Places, f \in Frames : Moved(h, place, f)
    BY <1>1, <1>2, <2>0, LockMoves
  <2> QED
    BY <1>1, <2>1, MovedType
<1>4. owner' \in [Sessions -> Handlers \cup {None}]
  <2>1. owner' = owner \/ owner' = [owner EXCEPT ![sent[frame[h].msg].session] = h]
    BY <1>1, LockMoves
  <2> QED
    BY <1>1, <2>1 DEF Typed
<1>5. UNCHANGED <<sent, deliveries, acked, receipts, broken, early, unrecorded, faults, sessions, runs, requests,
                  issues, tasks, active, queued>>
  BY DEF Lock, SameWork, history, ledger, lane
<1> QED
  BY <1>1, <1>3, <1>4, <1>5, SameTypes DEF Typed

LEMMA TypedReceive ==
  ASSUME GatewayInvariant, NEW h \in Handlers, NEW m \in Messages, Receive(h, m)
  PROVE  Typed'
<1>1. TypeOK /\ Typed /\ receipts[m] \in Answers
  BY DEF GatewayInvariant, TypeOK, Typed
<1>2. /\ [NoFrame EXCEPT !.msg = m] \in Frames
      /\ Cached([NoFrame EXCEPT !.msg = m], receipts[m]) \in Frames
  BY <1>1, CachedType, FreshType
<1>3. pc' \in [Handlers -> Places] /\ frame' \in [Handlers -> Frames]
  BY <1>1, <1>2, ReceiveMoves, MovedType DEF Places
<1>4. deliveries' \in [Messages -> Nat]
  BY <1>1 DEF Receive, Typed
<1>5. UNCHANGED <<sent, acked, receipts, owner, broken, early, unrecorded, faults, sessions, runs, requests,
                  issues, tasks, active, queued>>
  BY DEF Receive, SameWork, history, ledger, lane
<1> QED
  BY <1>1, <1>3, <1>4, <1>5, SameTypes DEF Typed

(* The rows of the two registries.                                         *)
LEMMA RowTypes ==
  ASSUME Typed
  PROVE  /\ \A i \in 1..Len(issues) : /\ i \in Nat /\ issues[i].parent \in BOOLEAN
                                      /\ issues[i].msg \in Messages \cup {None}
         /\ \A k \in 1..Len(tasks) : /\ k \in Nat /\ tasks[k].issue \in Nat
                                     /\ tasks[k].parent \in BOOLEAN
                                     /\ tasks[k].status \in TaskStatuses
<1> DEFINE R == [msg : Messages \cup {None}, parent : BOOLEAN]
           T == [issue : Nat, parent : BOOLEAN, status : TaskStatuses]
<1>1. issues \in Seq(R) /\ tasks \in Seq(T)
  BY DEF Typed
<1>2. \A r \in R : r.parent \in BOOLEAN /\ r.msg \in Messages \cup {None}
  BY Zenon
<1>3. \A t \in T : /\ t.issue \in Nat /\ t.parent \in BOOLEAN
                   /\ t.status \in TaskStatuses
  BY Zenon
<1> HIDE DEF R, T
<1>4. \A i \in 1..Len(issues) : i \in Nat /\ issues[i] \in R
  BY <1>1
<1>5. \A k \in 1..Len(tasks) : k \in Nat /\ tasks[k] \in T
  BY <1>1
<1> QED
  BY <1>2, <1>3, <1>4, <1>5, Zenon

(* A thread that is about to approve has read the status of a coding task. *)
LEMMA ApprovesLaw ==
  ASSUME GatewayInvariant, NEW h \in Handlers, pc[h] = "answered", Approves(h)
  PROVE  /\ frame[h].task[1] = "task" /\ frame[h].task[2] \in 1..Len(tasks)
         /\ tasks[frame[h].task[2]].status \in TaskStatuses
<1>1. FrameSound(h) /\ Typed
  BY DEF GatewayInvariant, TypeOK
<1>2. frame[h].task[1] # "parent" /\ frame[h].task # Nobody /\ Known(frame[h].task)
  BY <1>1 DEF FrameSound, Approves
<1>3. frame[h].task[1] = "task" /\ frame[h].task[2] \in 1..Len(tasks)
  BY <1>2 DEF Known
<1> QED
  BY <1>1, <1>3, RowTypes

LEMMA LeftInType ==
  ASSUME Typed, NEW k \in 1..Len(tasks)
  PROVE  LeftIn(tasks[k].issue) \subseteq Nat /\ unrecorded \subseteq Nat
<1>1. tasks[k].issue \in Nat
  BY RowTypes
<1> QED
  BY <1>1 DEF LeftIn, Typed

LEMMA TypedFollow ==
  ASSUME GatewayInvariant, NEW h \in Handlers, Reply(h) \/ ReadStatus(h) \/ Approve(h)
  PROVE  Typed'
<1>1. /\ frame[h].msg \in Messages /\ frame[h] \in Frames /\ TypeOK /\ Typed
  BY FrameLaw DEF Reply, ReadStatus, Approve, GatewayInvariant, TypeOK
<1>2. Leave(h) => pc' \in [Handlers -> Places] /\ frame' \in [Handlers -> Frames]
  BY <1>1, LeaveMoves, MovedType, EntryTypes DEF Places
<1>3. CASE Reply(h)
  <2>1. UNCHANGED <<sent, deliveries, receipts, owner, broken, early, unrecorded, faults, sessions, runs, requests,
                    issues, tasks, active, queued>>
    BY <1>3 DEF Reply, SameWork, history, ledger, lane
  <2>2. Leave(h) /\ acked' \subseteq Messages
    BY <1>1, <1>3 DEF Reply, Acknowledge, Typed
  <2> QED
    BY <1>1, <1>2, <2>1, <2>2, SameTypes DEF Typed
<1>4. CASE ReadStatus(h)
  <2>1. UNCHANGED <<sent, deliveries, acked, receipts, owner, broken, early, unrecorded, faults, sessions, runs, requests,
                    issues, tasks, active, queued>>
    BY <1>4 DEF ReadStatus, SameMessage, SameWork, history, ledger, lane
  <2>2. [frame[h] EXCEPT !.seen = tasks[frame[h].task[2]].status] \in Frames
    BY <1>1, <1>4, ApprovesLaw DEF ReadStatus, Frames
  <2>3. pc' \in [Handlers -> Places] /\ frame' \in [Handlers -> Frames]
    BY <1>1, <1>4, <2>2, ReadStatusMoves, MovedType DEF Places
  <2> QED
    BY <1>1, <2>1, <2>3, SameTypes DEF Typed
<1>5. CASE Approve(h)
  <2>1. UNCHANGED <<sent, deliveries, receipts, owner, broken, early, faults, sessions, runs, requests,
                    issues, active, queued>>
    BY <1>5 DEF Approve, history, ledger, lane
  <2>2. PICK s \in {"in_review", "over"} : tasks' = [tasks EXCEPT ![frame[h].task[2]].status = s]
    BY <1>5 DEF Approve
  <2>3. Leave(h) /\ acked' \subseteq Messages
    BY <1>1, <1>5 DEF Approve, Acknowledge, Typed
  <2>4. tasks' \in Seq([issue : Nat, parent : BOOLEAN, status : TaskStatuses])
    BY <1>1, <2>2, StatusType DEF TaskStatuses
  <2>5. unrecorded' \subseteq Nat
    <3>1. frame[h].task[1] = "task" /\ Known(frame[h].task)
      BY <1>5 DEF Approve, GatewayInvariant, FrameSound
    <3>2. frame[h].task[2] \in 1..Len(tasks)
      BY <3>1 DEF Known, Nobody
    <3>3. unrecorded' = unrecorded \/ unrecorded' = LeftIn(tasks[frame[h].task[2]].issue)
      BY <1>5 DEF Approve
    <3> QED
      BY <1>1, <3>2, <3>3, LeftInType
  <2> QED
    BY <1>1, <1>2, <2>1, <2>3, <2>4, <2>5, SameTypes DEF Typed
<1> QED
  BY <1>3, <1>4, <1>5

(* The deliveries that are under way have been counted.                    *)
LEMMA HandlingLaw ==
  ASSUME GatewayInvariant, NEW m \in Messages
  PROVE  /\ IsFiniteSet(Handling(m)) /\ Cardinality(Handling(m)) \in Nat
         /\ deliveries[m] \in Nat /\ Cardinality(Handling(m)) <= deliveries[m]
         /\ \A h \in Handling(m) : deliveries[m] > 0
<1>1. IsFiniteSet(Handling(m))
  BY HandlerAssumption, FS_Subset DEF Handling
<1>2. Cardinality(Handling(m)) \in Nat
  BY <1>1, FS_CardinalityType
<1>3. Handling(m) # {} => Cardinality(Handling(m)) # 0
  BY <1>1, FS_EmptySet
<1>4. deliveries[m] \in Nat /\ Cardinality(Handling(m)) <= deliveries[m]
  BY DEF GatewayInvariant, DeliveriesCounted, TypeOK, Typed
<1> QED
  BY <1>1, <1>2, <1>3, <1>4

LEMMA TypedAbandon ==
  ASSUME GatewayInvariant, NEW h \in Handlers, Abandon(h), faults' \in 0..MaxFaults,
         deliveries' \in [Messages -> Nat]
  PROVE  Typed'
<1>1. TypeOK /\ Typed /\ (Made(h) => frame[h].msg \in Messages)
  BY FrameLaw DEF GatewayInvariant, TypeOK, Made, Locked
<1>2. pc' \in [Handlers -> Places] /\ frame' \in [Handlers -> Frames]
  BY <1>1, LeaveMoves, MovedType, EntryTypes DEF Places, Abandon
<1>3. owner' \in [Sessions -> Handlers \cup {None}]
  BY <1>1 DEF Abandon, Typed
<1>4. broken' \in [Messages -> Nat]
  BY <1>1 DEF Abandon, Typed
<1>5. UNCHANGED <<sent, acked, receipts, early, unrecorded, sessions, runs, requests, issues, tasks, active, queued>>
  BY DEF Abandon, SameWork, ledger, lane
<1> QED
  BY <1>1, <1>2, <1>3, <1>4, <1>5, SameTypes DEF Typed

LEMMA OneMoreFault == faults \in 0..MaxFaults /\ faults < MaxFaults => faults + 1 \in 0..MaxFaults
BY BoundAssumption

LEMMA TypedErrors ==
  ASSUME GatewayInvariant, NEW h \in Handlers, Raise(h) \/ Fail(h)
  PROVE  Typed'
<1>1. Typed
  BY DEF GatewayInvariant, TypeOK
<1>2. CASE Raise(h)
  BY <1>1, <1>2, TypedAbandon DEF Raise, Typed
<1>3. CASE Fail(h)
  <2> DEFINE m == frame[h].msg
  <2>1. m \in Messages /\ h \in Handling(m)
    BY <1>3, FrameLaw DEF Fail, Handling
  <2>2. deliveries[m] \in Nat /\ deliveries[m] > 0
    BY <2>1, HandlingLaw
  <2>3. deliveries' = [deliveries EXCEPT ![m] = @ - 1] /\ Abandon(h)
    BY <1>3 DEF Fail
  <2>4. deliveries' \in [Messages -> Nat]
    <3>1. deliveries[m] - 1 \in Nat /\ deliveries \in [Messages -> Nat]
      BY <1>1, <2>2 DEF Typed
    <3> HIDE DEF m
    <3> QED
      BY <2>3, <3>1
  <2>5. faults' \in 0..MaxFaults
    BY <1>1, <1>3, OneMoreFault DEF Fail, Typed
  <2> QED
    BY <2>3, <2>4, <2>5, TypedAbandon
<1> QED
  BY <1>2, <1>3

LEMMA TypedCrash ==
  ASSUME GatewayInvariant, Crash
  PROVE  Typed'
<1>1. Typed
  BY DEF GatewayInvariant, TypeOK
<1>2. faults' \in 0..MaxFaults
  BY <1>1, OneMoreFault DEF Crash, Typed
<1>3. deliveries' \in [Messages -> Nat]
  <2>1. deliveries' = [m \in Messages |-> deliveries[m] - Cardinality(Handling(m))]
    BY DEF Crash, Handling
  <2>2. \A m \in Messages : deliveries[m] - Cardinality(Handling(m)) \in Nat
    BY HandlingLaw
  <2> QED
    BY <2>1, <2>2
<1>4. broken' \in [Messages -> Nat]
  <2> DEFINE lost(m) == {h \in Handlers : frame[h].msg = m /\ Made(h)}
  <2>1. broken' = [m \in Messages |-> broken[m] + Cardinality(lost(m))]
    BY DEF Crash
  <2>2. \A m \in Messages : IsFiniteSet(lost(m))
    BY HandlerAssumption, FS_Subset
  <2>3. \A m \in Messages : Cardinality(lost(m)) \in Nat
    BY <2>2, FS_CardinalityType
  <2> HIDE DEF lost
  <2> QED
    BY <1>1, <2>1, <2>3 DEF Typed
<1>5. pc' \in [Handlers -> Places] /\ frame' \in [Handlers -> Frames] /\ owner' \in [Sessions -> Handlers \cup {None}]
  BY EntryTypes DEF Crash, Places
<1>6. UNCHANGED <<sent, acked, receipts, early, unrecorded, sessions, runs, requests, issues, tasks, active, queued>>
  BY DEF Crash, SameWork, ledger, lane
<1> QED
  BY <1>1, <1>2, <1>3, <1>4, <1>5, <1>6, SameTypes DEF Typed

LEMMA TypedWorker ==
  ASSUME GatewayInvariant,
         \/ \E i \in 1..Len(issues) : PollStarts(i)
         \/ \E k \in 1..Len(tasks) : TaskEnds(k) \/ TaskStops(k)
  PROVE  Typed'
<1>1. TypeOK /\ Typed
  BY DEF GatewayInvariant, TypeOK
<1>2. ASSUME NEW i \in 1..Len(issues), PollStarts(i) PROVE Typed'
  <2>1. i \in Nat /\ issues[i].parent \in BOOLEAN
    BY <1>1, RowTypes
  <2>2. tasks' = Append(tasks, [issue |-> i, parent |-> issues[i].parent,
                               status |-> "awaiting_confirmation"])
    BY <1>2 DEF PollStarts
  <2>3. tasks' \in Seq([issue : Nat, parent : BOOLEAN, status : TaskStatuses])
    BY <1>1, <2>1, <2>2 DEF Typed, TaskStatuses
  <2>4. active' \in Entries /\ queued' \in Seq(Entries)
    <3>1. EnterLane(Parent(i)) \/ UNCHANGED <<active, queued>>
      BY <1>2, Zenon DEF PollStarts, lane
    <3> QED
      BY <1>1, <2>1, <3>1, EnterLaneType, EntryTypes DEF Typed
  <2>5. UNCHANGED <<sent, deliveries, acked, receipts, owner, broken, early, unrecorded, faults, sessions, runs, requests,
                    issues, pc, frame>>
    BY <1>2 DEF PollStarts, history, ledger
  <2> QED
    BY <1>1, <2>3, <2>4, <2>5, SameTypes DEF Typed
<1>3. ASSUME NEW k \in 1..Len(tasks), TaskEnds(k) PROVE Typed'
  <2>1. tasks' \in Seq([issue : Nat, parent : BOOLEAN, status : TaskStatuses])
    BY <1>1, <1>3, StatusType DEF TaskEnds, TaskStatuses
  <2>2. active' \in Entries /\ queued' \in Seq(Entries)
    BY <1>1, <1>3, ReleasedType DEF TaskEnds
  <2>3. UNCHANGED <<sent, deliveries, acked, receipts, owner, broken, early, faults, sessions, runs, requests,
                    issues, pc, frame>>
    BY <1>3 DEF TaskEnds, ledger
  <2>4. unrecorded' \subseteq Nat
    BY <1>1, <1>3 DEF TaskEnds, Typed
  <2> QED
    BY <1>1, <2>1, <2>2, <2>3, <2>4, SameTypes DEF Typed
<1>4. ASSUME NEW k \in 1..Len(tasks), TaskStops(k) PROVE Typed'
  <2>1. tasks' \in Seq([issue : Nat, parent : BOOLEAN, status : TaskStatuses])
    BY <1>1, <1>4, StatusType DEF TaskStops, TaskStatuses
  <2>2. UNCHANGED <<sent, deliveries, acked, receipts, owner, broken, early, faults, sessions, runs, requests,
                    issues, pc, frame, active, queued>>
    BY <1>4 DEF TaskStops, ledger, lane
  <2>3. unrecorded' \subseteq Nat
    BY <1>1, <1>4, LeftInType DEF TaskStops
  <2> QED
    BY <1>1, <2>1, <2>2, <2>3, SameTypes DEF Typed
<1> QED
  BY <1>2, <1>3, <1>4

LEMMA TypedStep == GatewayInvariant /\ [Next]_vars => Typed'
<1> SUFFICES ASSUME GatewayInvariant, [Next]_vars PROVE Typed'
  OBVIOUS
<1>1. CASE UNCHANGED vars
  BY <1>1, SameTypes DEF vars, ledger, lane, history, GatewayInvariant, TypeOK, Typed
<1>2. CASE Next
  BY <1>2, TypedOpen, TypedIntake, TypedEnter, TypedDirect, TypedRequest, TypedAnswer, TypedLock,
     TypedReceive, TypedFollow, TypedErrors, TypedCrash, TypedWorker, Zenon DEF Next, Step
<1> QED
  BY <1>1, <1>2
----------------------------------------------------------------------------
(* Issues, tasks and run sessions are only ever added: the message of an   *)
(* issue and the issue of a task stay, a parent that is made stays made.   *)
IssuesGrow ==
  /\ Len(issues) <= Len(issues')
  /\ \A i \in 1..Len(issues) :
       issues'[i].msg = issues[i].msg /\ (issues[i].parent => issues'[i].parent)

TasksGrow ==
  /\ Len(tasks) <= Len(tasks')
  /\ \A k \in 1..Len(tasks) :
       tasks'[k].issue = tasks[k].issue /\ tasks'[k].parent = tasks[k].parent

(* A step that adds no task, and one that ends none.                       *)
SameTasks ==
  /\ Len(tasks') = Len(tasks)
  /\ \A k \in 1..Len(tasks) :
       tasks'[k].issue = tasks[k].issue /\ tasks'[k].parent = tasks[k].parent

NoneEnds == \A k \in 1..Len(tasks) : Over(k)' => Over(k)

SameIssues ==
  /\ Len(issues') = Len(issues)
  /\ \A i \in 1..Len(issues) : issues'[i].msg = issues[i].msg

LEMMA AppendLaw ==
  ASSUME NEW S, NEW q \in Seq(S), NEW x \in S
  PROVE  /\ Len(q) \in Nat
         /\ Len(Append(q, x)) = Len(q) + 1
         /\ Append(q, x)[Len(q) + 1] = x
         /\ \A i \in 1..Len(q) : Append(q, x)[i] = q[i]
OBVIOUS

LEMMA LengthTypes == Typed => Len(issues) \in Nat /\ Len(tasks) \in Nat
BY DEF Typed

LEMMA IssueAdded ==
  ASSUME Typed, NEW m \in Messages, issues' = Append(issues, [msg |-> m, parent |-> FALSE])
  PROVE  /\ IssuesGrow
         /\ Len(issues') = Len(issues) + 1
         /\ issues'[Len(issues) + 1] = [msg |-> m, parent |-> FALSE]
         /\ \A i \in 1..Len(issues) : issues'[i] = issues[i]
<1> DEFINE R == [msg : Messages \cup {None}, parent : BOOLEAN]
           row == [msg |-> m, parent |-> FALSE]
<1>1. issues \in Seq(R) /\ row \in R
  BY DEF Typed
<1> HIDE DEF R, row
<1>2. issues' = Append(issues, row)
  BY DEF row
<1>3. /\ Len(issues) \in Nat /\ Len(issues') = Len(issues) + 1
      /\ issues'[Len(issues) + 1] = row
      /\ \A i \in 1..Len(issues) : issues'[i] = issues[i]
  BY <1>1, <1>2, AppendLaw
<1>4. Len(issues) <= Len(issues')
  BY <1>3
<1> QED
  BY <1>3, <1>4 DEF IssuesGrow, row

LEMMA ParentMade ==
  ASSUME Typed, NEW k \in 1..Len(issues), issues' = [issues EXCEPT ![k].parent = TRUE]
  PROVE  IssuesGrow /\ SameIssues /\ issues'[k].parent
         /\ \A i \in 1..Len(issues) : i # k => issues'[i] = issues[i]
<1> DEFINE R == [msg : Messages \cup {None}, parent : BOOLEAN]
           row == [issues[k] EXCEPT !.parent = TRUE]
<1>1. issues \in Seq(R)
  BY DEF Typed
<1>2. \A r \in R : /\ [r EXCEPT !.parent = TRUE] \in R
                   /\ [r EXCEPT !.parent = TRUE].msg = r.msg /\ [r EXCEPT !.parent = TRUE].parent
  OBVIOUS
<1> HIDE DEF R
<1>3. issues[k] \in R
  BY <1>1
<1>4. row \in R /\ row.msg = issues[k].msg /\ row.parent
  BY <1>2, <1>3, Zenon
<1> HIDE DEF row
<1>5. issues' = [issues EXCEPT ![k] = row]
  BY DEF row
<1>6. row \in R
  BY <1>4
<1>7. /\ Len(issues') = Len(issues)
      /\ \A i \in 1..Len(issues) : issues'[i] = IF i = k THEN row ELSE issues[i]
  BY <1>1, <1>5, <1>6, ChangedAt
<1>8. Len(issues) \in Nat
  BY <1>1
<1> QED
  BY <1>4, <1>7, <1>8 DEF IssuesGrow, SameIssues

LEMMA TaskAdded ==
  ASSUME Typed, NEW i \in Nat, NEW parent \in BOOLEAN, NEW status \in TaskStatuses,
         tasks' = Append(tasks, [issue |-> i, parent |-> parent, status |-> status])
  PROVE  /\ TasksGrow
         /\ Len(tasks') = Len(tasks) + 1
         /\ tasks'[Len(tasks) + 1] =
              [issue |-> i, parent |-> parent, status |-> status]
         /\ \A k \in 1..Len(tasks) : tasks'[k] = tasks[k]
<1> DEFINE R == [issue : Nat, parent : BOOLEAN, status : TaskStatuses]
           row == [issue |-> i, parent |-> parent, status |-> status]
<1>1. tasks \in Seq(R) /\ row \in R
  BY DEF Typed
<1> HIDE DEF R, row
<1>2. tasks' = Append(tasks, row)
  BY DEF row
<1>3. /\ Len(tasks) \in Nat /\ Len(tasks') = Len(tasks) + 1
      /\ tasks'[Len(tasks) + 1] = row
      /\ \A k \in 1..Len(tasks) : tasks'[k] = tasks[k]
  BY <1>1, <1>2, AppendLaw
<1>4. Len(tasks) <= Len(tasks')
  BY <1>3
<1> QED
  BY <1>3, <1>4 DEF TasksGrow, row

LEMMA StatusSet ==
  ASSUME Typed, NEW k, NEW status \in TaskStatuses,
         tasks' = [tasks EXCEPT ![k].status = status]
  PROVE  /\ TasksGrow /\ SameTasks
         /\ status # "over" => NoneEnds
         /\ \A j \in 1..Len(tasks) : j # k => tasks'[j] = tasks[j]
<1> DEFINE R == [issue : Nat, parent : BOOLEAN, status : TaskStatuses]
           row == [tasks[k] EXCEPT !.status = status]
<1>1. tasks \in Seq(R)
  BY DEF Typed
<1>2. \A t \in R : /\ [t EXCEPT !.status = status] \in R
                   /\ [t EXCEPT !.status = status].issue = t.issue
                   /\ [t EXCEPT !.status = status].parent = t.parent
                   /\ [t EXCEPT !.status = status].status = status
  OBVIOUS
<1> HIDE DEF R
<1>3. k \in 1..Len(tasks) => tasks[k] \in R
  BY <1>1
<1>4. k \in 1..Len(tasks) => /\ row \in R /\ row.issue = tasks[k].issue
                             /\ row.parent = tasks[k].parent /\ row.status = status
  BY <1>2, <1>3
<1>5. tasks' = [tasks EXCEPT ![k] = row]
  OBVIOUS
<1> HIDE DEF row
<1>6. /\ Len(tasks') = Len(tasks)
      /\ \A j \in 1..Len(tasks) : tasks'[j] = IF j = k THEN row ELSE tasks[j]
  BY <1>1, <1>4, <1>5, ChangedAt
<1>7. SameTasks
  BY <1>4, <1>6 DEF SameTasks
<1>8. Len(tasks) \in Nat
  BY <1>1
<1>9. TasksGrow
  BY <1>7, <1>8 DEF TasksGrow, SameTasks
<1>10. status # "over" => NoneEnds
  BY <1>4, <1>6 DEF NoneEnds, Over
<1> QED
  BY <1>6, <1>7, <1>9, <1>10

LEMMA SameRows ==
  ASSUME Typed
  PROVE  /\ issues' = issues => IssuesGrow /\ SameIssues
         /\ tasks' = tasks => TasksGrow /\ SameTasks /\ NoneEnds
         /\ SameTasks => TasksGrow
BY LengthTypes DEF IssuesGrow, SameIssues, TasksGrow, SameTasks, NoneEnds, Over
----------------------------------------------------------------------------
(* The execution lane, as one object.                                      *)
LEMMA AppendedLaw ==
  ASSUME NEW q \in Seq(Entries), NEW e \in Entries, NoRepeats(q), e \notin Elements(q)
  PROVE  NoRepeats(Append(q, e)) /\ Elements(Append(q, e)) = Elements(q) \cup {e}
<1>1. /\ Len(q) \in Nat /\ Len(Append(q, e)) = Len(q) + 1
      /\ Append(q, e)[Len(q) + 1] = e
      /\ \A i \in 1..Len(q) : Append(q, e)[i] = q[i]
  BY AppendLaw
<1> DEFINE w == Append(q, e)
<1> HIDE DEF w
<1>2. \A i \in 1..Len(q) : q[i] # e
  BY DEF Elements
<1>3. NoRepeats(w)
  BY <1>1, <1>2 DEF NoRepeats, w
<1>4. Elements(w) = Elements(q) \cup {e}
  BY <1>1 DEF Elements, w
<1> QED
  BY <1>3, <1>4 DEF w

LEMMA TailLaw ==
  ASSUME NEW q \in Seq(Entries), NoRepeats(q), q # <<>>
  PROVE  /\ NoRepeats(Tail(q)) /\ Head(q) \in Elements(q)
         /\ Elements(Tail(q)) \subseteq Elements(q) /\ Head(q) \notin Elements(Tail(q))
<1>1. /\ Len(q) \in Nat /\ Len(q) > 0 /\ Head(q) = q[1]
      /\ Len(Tail(q)) = Len(q) - 1 /\ \A i \in 1..Len(q) - 1 : Tail(q)[i] = q[i + 1]
  OBVIOUS
<1> QED
  BY <1>1 DEF NoRepeats, Elements

(* Entering the lane adds nobody else to it and keeps it well formed.      *)
LEMMA EnterLaneLaw ==
  ASSUME Typed, LaneSound, NEW e \in Entries, e # Nobody, EnterLane(e)
  PROVE  LaneSound' /\ Lane' \subseteq Lane \cup {e}
<1>1. active \in Entries /\ queued \in Seq(Entries)
  BY DEF Typed
<1>2. CASE Granted(e)
  <2>1. active' = e /\ queued' = Without(queued, e)
    BY <1>2 DEF EnterLane
  <2>2. /\ NoRepeats(Without(queued, e)) /\ e \notin Elements(Without(queued, e))
        /\ Elements(Without(queued, e)) \subseteq Elements(queued)
    BY <1>1, WithoutLaw DEF LaneSound
  <2> QED
    BY <2>1, <2>2 DEF LaneSound, Lane
<1>3. CASE ~Granted(e) /\ e \in Elements(queued)
  BY <1>3 DEF EnterLane, LaneSound, Lane
<1>4. CASE ~Granted(e) /\ e \notin Elements(queued)
  <2>1. active' = active /\ queued' = Append(queued, e) /\ active # e
    BY <1>4 DEF EnterLane, Granted
  <2>2. NoRepeats(queued') /\ Elements(queued') = Elements(queued) \cup {e}
    BY <1>1, <1>4, <2>1, AppendedLaw DEF LaneSound
  <2> QED
    BY <2>1, <2>2 DEF LaneSound, Lane
<1> QED
  BY <1>2, <1>3, <1>4

(* A row of the lane: its owner and its queue.                             *)
WellFormed(row) ==
  /\ row[1] \in Entries /\ row[2] \in Seq(Entries) /\ row = <<row[1], row[2]>>
  /\ NoRepeats(row[2]) /\ row[1] \notin Elements(row[2]) /\ Nobody \notin Elements(row[2])

In(row) == Elements(row[2]) \cup {row[1]}

(* Leaving the lane removes the entry, whether it owned it or waited.      *)
LEMMA LeftLaw ==
  ASSUME NEW row, WellFormed(row), NEW e, e # Nobody
  PROVE  WellFormed(Left(row, e)) /\ In(Left(row, e)) \subseteq In(row) \cup {Nobody}
         /\ e \notin In(Left(row, e))
<1> DEFINE a == row[1]
           q == row[2]
<1>1. /\ a \in Entries /\ q \in Seq(Entries) /\ NoRepeats(q) /\ a \notin Elements(q)
      /\ Nobody \notin Elements(q)
  BY DEF WellFormed
<1>2. CASE a = e /\ q = <<>>
  <2>1. Left(row, e) = <<Nobody, <<>>>>
    BY <1>2 DEF Left
  <2>2. Elements(<<>>) = {} /\ NoRepeats(<<>>) /\ Nobody \in Entries
    BY EntryTypes DEF Elements, NoRepeats
  <2> QED
    BY <2>1, <2>2 DEF WellFormed, In
<1>3. CASE a = e /\ q # <<>>
  <2>1. Left(row, e) = <<Head(q), Tail(q)>>
    BY <1>3 DEF Left
  <2>2. Head(q) \in Entries /\ Tail(q) \in Seq(Entries)
    BY <1>1, <1>3
  <2>3. /\ NoRepeats(Tail(q)) /\ Head(q) \in Elements(q)
        /\ Elements(Tail(q)) \subseteq Elements(q) /\ Head(q) \notin Elements(Tail(q))
    BY <1>1, <1>3, TailLaw
  <2> QED
    BY <1>1, <1>3, <2>1, <2>2, <2>3 DEF WellFormed, In
<1>4. CASE a # e
  <2>1. Left(row, e) = <<a, Without(q, e)>>
    BY <1>4 DEF Left
  <2>2. /\ Without(q, e) \in Seq(Entries)
        /\ NoRepeats(Without(q, e)) /\ e \notin Elements(Without(q, e))
        /\ Elements(Without(q, e)) \subseteq Elements(q)
    BY <1>1, WithoutType, WithoutLaw
  <2> QED
    BY <1>1, <1>4, <2>1, <2>2 DEF WellFormed, In
<1> QED
  BY <1>2, <1>3, <1>4

(* The end of a coding task takes it, and its parent, out of the lane.     *)
LEMMA ReleasedLaw ==
  ASSUME Typed, LaneSound, NEW k, TaskEnds(k)
  PROVE  /\ LaneSound' /\ Lane' \subseteq Lane \cup {Nobody}
         /\ tasks[k].parent => Parent(tasks[k].issue) \notin Lane'
<1> DEFINE row == <<active, queued>>
           own == Left(row, Child(k))
           e == Parent(tasks[k].issue)
<1>1. WellFormed(row) /\ In(row) = Lane
  BY DEF WellFormed, Typed, LaneSound, In, Lane
<1>2. Child(k) # Nobody /\ e # Nobody
  BY DEF Child, Parent, Nobody
<1>3. WellFormed(own) /\ In(own) \subseteq In(row) \cup {Nobody}
  BY <1>1, <1>2, LeftLaw
<1>4. Released(k) = IF tasks[k].parent THEN Left(own, e) ELSE own
  BY DEF Released
<1> HIDE DEF row, own, e
<1>5. /\ WellFormed(Left(own, e)) /\ In(Left(own, e)) \subseteq In(own) \cup {Nobody}
      /\ e \notin In(Left(own, e))
  BY <1>2, <1>3, LeftLaw
<1>6. /\ WellFormed(Released(k)) /\ In(Released(k)) \subseteq In(row) \cup {Nobody}
      /\ tasks[k].parent => e \notin In(Released(k))
  BY <1>3, <1>4, <1>5
<1>7. active' = Released(k)[1] /\ queued' = Released(k)[2]
  BY DEF TaskEnds
<1>8. Lane' = In(Released(k))
  BY <1>7 DEF Lane, In
<1>9. LaneSound'
  BY <1>6, <1>7 DEF LaneSound, WellFormed
<1> QED
  BY <1>1, <1>6, <1>8, <1>9 DEF e
----------------------------------------------------------------------------
(* What a step does to the records: most steps do nothing, and no step     *)
(* loses any.                                                              *)
Unexcused == early' = early /\ unrecorded' = unrecorded

SameRecords ==
  issues' = issues /\ tasks' = tasks /\ active' = active /\ queued' = queued /\ Unexcused

Quiet(h) ==
  \/ Lock(h) \/ OpenSessions(h) \/ Chat(h) \/ CheckBusy(h) \/ RecordRequest(h) \/ RecordAnswer(h)
  \/ ReadStatus(h) \/ Reply(h) \/ Raise(h) \/ Fail(h) \/ \E m \in Messages : Receive(h, m)

LEMMA QuietLaw ==
  ASSUME NEW h \in Handlers, Quiet(h)
  PROVE  SameRecords
<1>1. Lock(h) \/ (\E m \in Messages : Receive(h, m)) \/ CheckBusy(h) \/ ReadStatus(h) \/ Reply(h)
        => SameRecords
  BY DEF Lock, Receive, CheckBusy, ReadStatus, Reply, SameRecords, Unexcused, SameMessage, SameWork, history, lane
<1>2. OpenSessions(h) \/ Chat(h) \/ RecordRequest(h) \/ RecordAnswer(h) => SameRecords
  BY DEF OpenSessions, Chat, RecordRequest, RecordAnswer, SameRecords, Unexcused, SameMessage, history, lane
<1>3. Raise(h) \/ Fail(h) => SameRecords
  BY DEF Raise, Fail, Abandon, SameRecords, Unexcused, SameWork, lane
<1> QED
  BY <1>1, <1>2, <1>3 DEF Quiet

LEMMA CrashLaw == Crash => SameRecords
BY DEF Crash, SameRecords, Unexcused, SameWork, lane

(* The other steps, and what each of them leaves alone.                    *)
Writes(h) ==
  \/ CreateIssue(h) \/ CreateParent(h) \/ EnterAsParent(h) \/ StartTask(h) \/ PlanReady(h)
  \/ EnterAsTask(h) \/ Approve(h)

LEMMA StepsSplit ==
  ASSUME Next
  PROVE  \/ \E h \in Handlers : Quiet(h) \/ Writes(h)
         \/ Crash
         \/ \E i \in 1..Len(issues) : PollStarts(i)
         \/ \E k \in 1..Len(tasks) : TaskEnds(k) \/ TaskStops(k)
BY Zenon DEF Next, Step, Quiet, Writes

LEMMA RunsGrow ==
  ASSUME [Next]_vars
  PROVE  sent' = sent /\ runs \subseteq runs'
<1>1. ASSUME NEW h \in Handlers, Quiet(h) PROVE sent' = sent /\ runs \subseteq runs'
  <2>1. OpenSessions(h) => sent' = sent /\ runs \subseteq runs'
    BY DEF OpenSessions, SameMessage, WithRun
  <2>2. Lock(h) \/ (\E m \in Messages : Receive(h, m)) \/ CheckBusy(h) \/ ReadStatus(h) \/ Reply(h)
          => sent' = sent /\ runs' = runs
    BY DEF Lock, Receive, CheckBusy, ReadStatus, Reply, SameMessage, SameWork, ledger
  <2>3. Chat(h) \/ RecordRequest(h) \/ RecordAnswer(h) => sent' = sent /\ runs' = runs
    BY DEF Chat, RecordRequest, RecordAnswer, SameMessage, ledger
  <2>4. Raise(h) \/ Fail(h) => sent' = sent /\ runs' = runs
    BY DEF Raise, Fail, Abandon, SameWork, ledger
  <2> QED
    BY <1>1, <2>1, <2>2, <2>3, <2>4 DEF Quiet
<1>2. ASSUME NEW h \in Handlers, Writes(h) PROVE sent' = sent /\ runs' = runs
  BY <1>2 DEF Writes, CreateIssue, CreateParent, EnterAsParent, StartTask, PlanReady, EnterAsTask,
     Approve, SameMessage, ledger
<1>3. (\E i \in 1..Len(issues) : PollStarts(i)) \/ (\E k \in 1..Len(tasks) : TaskEnds(k) \/ TaskStops(k))
        => sent' = sent /\ runs' = runs
  BY DEF PollStarts, TaskEnds, TaskStops, ledger
<1>4. Crash => sent' = sent /\ runs' = runs
  BY DEF Crash, SameWork, ledger
<1>5. UNCHANGED vars => sent' = sent /\ runs' = runs
  BY DEF vars, ledger
<1> QED
  BY <1>1, <1>2, <1>3, <1>4, <1>5, StepsSplit

(* A step that writes, as it changes the issues, the tasks and the lane.   *)
LEMMA CreateIssueDoes ==
  ASSUME GatewayInvariant, NEW h \in Handlers, CreateIssue(h)
  PROVE  /\ frame[h].msg \in Messages
         /\ issues' = Append(issues, [msg |-> frame[h].msg, parent |-> FALSE])
         /\ tasks' = tasks /\ active' = active /\ queued' = queued /\ Unexcused
BY FrameLaw DEF CreateIssue, SameMessage, Unexcused, history, lane

LEMMA CreateParentDoes ==
  ASSUME GatewayInvariant, NEW h \in Handlers, CreateParent(h)
  PROVE  /\ frame[h].issue \in 1..Len(issues) /\ issues[frame[h].issue].msg = frame[h].msg
         /\ frame[h].msg \in Messages
         /\ issues' = [issues EXCEPT ![frame[h].issue].parent = TRUE]
         /\ tasks' = tasks /\ active' = active /\ queued' = queued /\ Unexcused
<1>1. FrameSound(h) /\ pc[h] = "parent"
  BY DEF CreateParent, GatewayInvariant
<1>2. frame[h].issue \in WorkOf(frame[h].msg) /\ frame[h].msg \in Messages
  BY <1>1 DEF FrameSound
<1> QED
  BY <1>2 DEF CreateParent, SameMessage, Unexcused, history, lane, WorkOf

LEMMA EnterAsParentDoes ==
  ASSUME GatewayInvariant, NEW h \in Handlers, EnterAsParent(h)
  PROVE  /\ HasParent(frame[h].issue) /\ EnterLane(Parent(frame[h].issue))
         /\ Parent(frame[h].issue) \in Entries /\ Parent(frame[h].issue) # Nobody
         /\ issues' = issues /\ tasks' = tasks /\ unrecorded' = unrecorded
         /\ early' = IF \E k \in 1..Len(tasks) : tasks[k].issue = frame[h].issue
                     THEN early \cup {frame[h].issue} ELSE early
<1>1. HasParent(frame[h].issue)
  BY DEF EnterAsParent, GatewayInvariant, FrameSound
<1>2. frame[h].issue \in Nat
  BY <1>1, LengthTypes DEF HasParent, GatewayInvariant, TypeOK
<1>3. Parent(frame[h].issue) \in Entries /\ Parent(frame[h].issue) # Nobody
  BY <1>2, EntryTypes DEF Parent, Nobody
<1> QED
  BY <1>1, <1>3 DEF EnterAsParent

LEMMA StartTaskDoes ==
  ASSUME GatewayInvariant, NEW h \in Handlers, StartTask(h)
  PROVE  LET i == sent[frame[h].msg].issue
         IN /\ i \in 1..Len(issues) /\ i \in Nat /\ HasParent(i) \in BOOLEAN
            /\ tasks' = Append(tasks, [issue |-> i, parent |-> HasParent(i), status |-> "created"])
            /\ issues' = issues /\ active' = active /\ queued' = queued /\ Unexcused
<1> DEFINE i == sent[frame[h].msg].issue
<1>1. i \in 1..Len(issues)
  BY DEF StartTask
<1>2. i \in Nat
  BY <1>1, LengthTypes DEF GatewayInvariant, TypeOK
<1>3. HasParent(i) \in BOOLEAN
  BY Zenon DEF HasParent
<1> QED
  BY <1>1, <1>2, <1>3 DEF StartTask, SameMessage, Unexcused, history, lane

LEMMA PlanReadyDoes ==
  ASSUME NEW h \in Handlers, PlanReady(h)
  PROVE  /\ tasks' = [tasks EXCEPT ![frame[h].task[2]].status = "awaiting_confirmation"]
         /\ issues' = issues /\ active' = active /\ queued' = queued /\ Unexcused
BY DEF PlanReady, SameMessage, Unexcused, history, lane

LEMMA EnterAsTaskDoes ==
  ASSUME GatewayInvariant, NEW h \in Handlers, EnterAsTask(h)
  PROVE  /\ frame[h].task[1] = "task" /\ Known(frame[h].task) /\ frame[h].task \in Entries
         /\ frame[h].task # Nobody /\ EnterLane(frame[h].task)
         /\ issues' = issues /\ tasks' = tasks /\ Unexcused
<1>1. FrameSound(h) /\ pc[h] = "enter_direct" /\ frame[h] \in Frames
  BY FrameLaw DEF EnterAsTask, GatewayInvariant
<1>2. frame[h].task[1] = "task" /\ Known(frame[h].task) /\ frame[h].task \in Entries
  BY <1>1 DEF FrameSound, Frames
<1> QED
  BY <1>2 DEF EnterAsTask, SameMessage, Unexcused, history, Nobody

LEMMA ApproveDoes ==
  ASSUME GatewayInvariant, NEW h \in Handlers, Approve(h)
  PROVE  LET k == frame[h].task[2]
         IN /\ k \in 1..Len(tasks) /\ Leave(h)
            /\ issues' = issues /\ active' = active /\ queued' = queued /\ early' = early
            /\ \/ tasks' = [tasks EXCEPT ![k].status = "in_review"] /\ unrecorded' = unrecorded
               \/ /\ tasks' = [tasks EXCEPT ![k].status = "over"]
                  /\ unrecorded' = LeftIn(tasks[k].issue)
<1>1. frame[h].task[1] = "task" /\ Known(frame[h].task)
  BY DEF Approve, GatewayInvariant, FrameSound
<1>2. frame[h].task[2] \in 1..Len(tasks)
  BY <1>1 DEF Known, Nobody
<1> QED
  BY <1>2 DEF Approve, Acknowledge, lane

LEMMA PollStartsDoes ==
  ASSUME GatewayInvariant, NEW i \in 1..Len(issues), PollStarts(i)
  PROVE  /\ i \in Nat /\ issues[i].parent \in BOOLEAN
         /\ tasks' = Append(tasks, [issue |-> i, parent |-> issues[i].parent,
                                    status |-> "awaiting_confirmation"])
         /\ Parent(i) \in Entries /\ Parent(i) # Nobody
         /\ \/ issues[i].parent /\ EnterLane(Parent(i))
            \/ ~issues[i].parent /\ active' = active /\ queued' = queued
         /\ issues' = issues /\ Unexcused
<1>1. i \in Nat /\ issues[i].parent \in BOOLEAN
  BY RowTypes DEF GatewayInvariant, TypeOK
<1>2. Parent(i) \in Entries /\ Parent(i) # Nobody
  BY <1>1, EntryTypes DEF Parent, Nobody
<1> QED
  BY <1>1, <1>2 DEF PollStarts, Unexcused, history, lane

LEMMA TaskEndsDoes ==
  ASSUME NEW k \in 1..Len(tasks), TaskEnds(k)
  PROVE  /\ tasks' = [tasks EXCEPT ![k].status = "over"]
         /\ issues' = issues /\ early' = early
         /\ unrecorded' = IF tasks[k].parent THEN unrecorded \ {tasks[k].issue} ELSE unrecorded
BY DEF TaskEnds

LEMMA TaskStopsDoes ==
  ASSUME NEW k \in 1..Len(tasks), TaskStops(k)
  PROVE  /\ tasks' = [tasks EXCEPT ![k].status = "over"]
         /\ issues' = issues /\ early' = early /\ active' = active /\ queued' = queued
         /\ unrecorded' = LeftIn(tasks[k].issue)
BY DEF TaskStops, lane

LEMMA RecordsGrow ==
  ASSUME GatewayInvariant, [Next]_vars
  PROVE  IssuesGrow /\ TasksGrow
<1>1. Typed
  BY DEF GatewayInvariant, TypeOK
<1>2. SameRecords \/ UNCHANGED vars => IssuesGrow /\ TasksGrow
  BY <1>1, SameRows DEF SameRecords, vars
<1>3. ASSUME NEW h \in Handlers, Writes(h) PROVE IssuesGrow /\ TasksGrow
  <2>1. CASE CreateIssue(h)
    BY <1>1, <2>1, CreateIssueDoes, IssueAdded, SameRows
  <2>2. CASE CreateParent(h)
    BY <1>1, <2>2, CreateParentDoes, ParentMade, SameRows
  <2>3. CASE EnterAsParent(h)
    BY <1>1, <2>3, EnterAsParentDoes, SameRows
  <2>4. CASE StartTask(h)
    BY <1>1, <2>4, StartTaskDoes, TaskAdded, SameRows DEF TaskStatuses
  <2>5. CASE PlanReady(h)
    BY <1>1, <2>5, PlanReadyDoes, StatusSet, SameRows DEF TaskStatuses
  <2>6. CASE EnterAsTask(h)
    BY <1>1, <2>6, EnterAsTaskDoes, SameRows
  <2>7. CASE Approve(h)
    BY <1>1, <2>7, ApproveDoes, StatusSet, SameRows DEF TaskStatuses
  <2> QED
    BY <1>3, <2>1, <2>2, <2>3, <2>4, <2>5, <2>6, <2>7 DEF Writes
<1>4. ASSUME NEW i \in 1..Len(issues), PollStarts(i) PROVE IssuesGrow /\ TasksGrow
  BY <1>1, <1>4, PollStartsDoes, TaskAdded, SameRows DEF TaskStatuses
<1>5. ASSUME NEW k \in 1..Len(tasks), TaskEnds(k) \/ TaskStops(k) PROVE IssuesGrow /\ TasksGrow
  BY <1>1, <1>5, TaskEndsDoes, TaskStopsDoes, StatusSet, SameRows DEF TaskStatuses
<1> QED
  BY <1>2, <1>3, <1>4, <1>5, StepsSplit, QuietLaw, CrashLaw

LEMMA KnownStays ==
  ASSUME Typed, IssuesGrow, TasksGrow, NEW e, Known(e)
  PROVE  Known(e)'
<1>1. Len(issues) \in Nat /\ Len(tasks) \in Nat
  BY LengthTypes
<1>2. \A i \in 1..Len(issues) : issues[i].parent => issues'[i].parent
  BY DEF IssuesGrow
<1> QED
  BY <1>1, <1>2 DEF Known, HasParent, IssuesGrow, TasksGrow
----------------------------------------------------------------------------
(* The lane stays well formed and names tasks of the registry.             *)
LEMMA InvariantParts ==
  ASSUME GatewayInvariant
  PROVE  /\ Typed /\ ReferencesExist /\ LocksHeld /\ LaneSound /\ ReceiptsSound /\ WorkCounted
         /\ ParentsHaveWork /\ DeliveriesCounted /\ TypeOK
         /\ \A h \in Handlers : FrameSound(h)
BY DEF GatewayInvariant, TypeOK

LEMMA SameLane ==
  ASSUME active' = active, queued' = queued
  PROVE  Lane' = Lane /\ (LaneSound => LaneSound')
BY DEF Lane, LaneSound

LEMMA LaneStep ==
  ASSUME GatewayInvariant, [Next]_vars
  PROVE  LaneSound' /\ \A e \in Lane' : Known(e)'
<1>1. Typed /\ LaneSound /\ ReferencesExist
  BY InvariantParts
<1>2. \A e : Known(e) => Known(e)'
  BY <1>1, RecordsGrow, KnownStays
<1>3. Known(Nobody)' /\ \A e \in Lane : Known(e)
  BY <1>1 DEF Known, ReferencesExist
<1>4. CASE active' = active /\ queued' = queued
  BY <1>1, <1>2, <1>3, <1>4, SameLane
<1>5. ASSUME NEW e \in Entries, e # Nobody, Known(e), EnterLane(e)
      PROVE  LaneSound' /\ \A x \in Lane' : Known(x)'
  BY <1>1, <1>2, <1>3, <1>5, EnterLaneLaw
<1>6. SameRecords \/ UNCHANGED vars => active' = active /\ queued' = queued
  BY DEF SameRecords, vars, lane
<1>7. ASSUME NEW h \in Handlers, Writes(h)
      PROVE  LaneSound' /\ \A e \in Lane' : Known(e)'
  <2>1. CASE CreateIssue(h)
    BY <1>4, <2>1, CreateIssueDoes
  <2>2. CASE CreateParent(h)
    BY <1>4, <2>2, CreateParentDoes
  <2>3. CASE EnterAsParent(h)
    <3>1. Known(Parent(frame[h].issue))
      BY <2>3, EnterAsParentDoes DEF Known, Parent
    <3> QED
      BY <1>5, <2>3, <3>1, EnterAsParentDoes
  <2>4. CASE StartTask(h)
    BY <1>4, <2>4, StartTaskDoes
  <2>5. CASE PlanReady(h)
    BY <1>4, <2>5, PlanReadyDoes
  <2>6. CASE EnterAsTask(h)
    BY <1>5, <2>6, EnterAsTaskDoes
  <2>7. CASE Approve(h)
    BY <1>4, <2>7, ApproveDoes
  <2> QED
    BY <1>7, <2>1, <2>2, <2>3, <2>4, <2>5, <2>6, <2>7 DEF Writes
<1>8. ASSUME NEW i \in 1..Len(issues), PollStarts(i)
      PROVE  LaneSound' /\ \A e \in Lane' : Known(e)'
  <2>1. issues[i].parent => Known(Parent(i))
    BY DEF Known, Parent, HasParent
  <2> QED
    BY <1>4, <1>5, <1>8, <2>1, PollStartsDoes
<1>9. ASSUME NEW k \in 1..Len(tasks), TaskEnds(k)
      PROVE  LaneSound' /\ \A e \in Lane' : Known(e)'
  <2>1. LaneSound' /\ Lane' \subseteq Lane \cup {Nobody}
    BY <1>1, <1>9, ReleasedLaw
  <2> QED
    BY <1>2, <1>3, <2>1
<1>10. ASSUME NEW k \in 1..Len(tasks), TaskStops(k)
       PROVE  LaneSound' /\ \A e \in Lane' : Known(e)'
  BY <1>4, <1>10, TaskStopsDoes
<1> QED
  BY <1>4, <1>6, <1>7, <1>8, <1>9, <1>10, StepsSplit, QuietLaw, CrashLaw

(* Only RecordAnswer writes a receipt.                                     *)
LEMMA ReceiptsKept ==
  ASSUME [Next]_vars
  PROVE  receipts' = receipts \/ \E h \in Handlers : RecordAnswer(h)
<1>1. ASSUME NEW h \in Handlers, Quiet(h), ~RecordAnswer(h) PROVE receipts' = receipts
  BY <1>1 DEF Quiet, Lock, OpenSessions, Chat, CheckBusy, RecordRequest, ReadStatus, Reply, Raise,
     Fail, Abandon, Receive, SameMessage
<1>2. ASSUME NEW h \in Handlers, Writes(h) PROVE receipts' = receipts
  BY <1>2 DEF Writes, CreateIssue, CreateParent, EnterAsParent, StartTask, PlanReady, EnterAsTask,
     Approve, SameMessage
<1>3. Crash \/ (\E i \in 1..Len(issues) : PollStarts(i)) \/ (\E k \in 1..Len(tasks) : TaskEnds(k) \/ TaskStops(k))
        => receipts' = receipts
  BY DEF Crash, PollStarts, TaskEnds, TaskStops
<1>4. UNCHANGED vars => receipts' = receipts
  BY DEF vars
<1> QED
  BY <1>1, <1>2, <1>3, <1>4, StepsSplit

LEMMA AnswerWritten ==
  ASSUME Typed, NEW h \in Handlers, RecordAnswer(h), NEW m \in Messages
  PROVE  receipts'[m] = receipts[m] \/ (m = frame[h].msg /\ receipts'[m] = Answer(h))
<1> DEFINE n == frame[h].msg
           a == Answer(h)
<1>1. receipts' = receipts \/ receipts' = [receipts EXCEPT ![n] = a]
  BY DEF RecordAnswer
<1>2. receipts \in [Messages -> Answers]
  BY DEF Typed
<1> HIDE DEF n, a
<1>3. receipts'[m] = receipts[m] \/ (m = n /\ receipts'[m] = a)
  BY <1>1, <1>2
<1> QED
  BY <1>3 DEF n, a

LEMMA ReferencesStep ==
  ASSUME GatewayInvariant, [Next]_vars
  PROVE  ReferencesExist'
<1>1. Typed /\ ReferencesExist /\ Len(issues) \in Nat /\ Len(tasks) \in Nat
  BY InvariantParts, LengthTypes
<1>2. IssuesGrow /\ TasksGrow
  BY RecordsGrow
<1>3. \A e \in Lane' : Known(e)'
  BY LaneStep
<1>4. \A k \in 1..Len(tasks') : tasks'[k].issue \in 1..Len(issues')
  <2>1. \A k \in 1..Len(tasks) : tasks'[k].issue \in 1..Len(issues')
    BY <1>1, <1>2 DEF ReferencesExist, IssuesGrow, TasksGrow
  <2>2. ASSUME NEW i \in 1..Len(issues), NEW p \in BOOLEAN, NEW s \in TaskStatuses,
               tasks' = Append(tasks, [issue |-> i, parent |-> p, status |-> s])
        PROVE  \A k \in 1..Len(tasks') : tasks'[k].issue \in 1..Len(issues')
    <3>1. i \in Nat /\ i \in 1..Len(issues')
      BY <1>1, <1>2 DEF IssuesGrow
    <3>2. Len(tasks') = Len(tasks) + 1 /\ tasks'[Len(tasks) + 1].issue = i
      BY <1>1, <2>2, <3>1, TaskAdded
    <3> QED
      BY <1>1, <2>1, <3>1, <3>2
  <2>3. SameRecords \/ UNCHANGED vars => Len(tasks') = Len(tasks)
    BY DEF SameRecords, vars
  <2>4. ASSUME NEW h \in Handlers, Writes(h)
        PROVE  \A k \in 1..Len(tasks') : tasks'[k].issue \in 1..Len(issues')
    <3>1. CreateIssue(h) \/ CreateParent(h) \/ EnterAsParent(h) \/ EnterAsTask(h)
            => Len(tasks') = Len(tasks)
      BY CreateIssueDoes, CreateParentDoes, EnterAsParentDoes, EnterAsTaskDoes
    <3>2. PlanReady(h) \/ Approve(h) => SameTasks
      BY <1>1, PlanReadyDoes, ApproveDoes, StatusSet DEF TaskStatuses
    <3>3. CASE StartTask(h)
      BY <2>2, <3>3, StartTaskDoes DEF TaskStatuses
    <3> QED
      BY <2>1, <2>4, <3>1, <3>2, <3>3 DEF Writes, SameTasks
  <2>5. ASSUME NEW i \in 1..Len(issues), PollStarts(i)
        PROVE  \A k \in 1..Len(tasks') : tasks'[k].issue \in 1..Len(issues')
    BY <2>2, <2>5, PollStartsDoes DEF TaskStatuses
  <2>6. ASSUME NEW k \in 1..Len(tasks), TaskEnds(k) \/ TaskStops(k) PROVE Len(tasks') = Len(tasks)
    BY <1>1, <2>6, TaskEndsDoes, TaskStopsDoes, StatusSet DEF TaskStatuses, SameTasks
  <2> QED
    BY <2>1, <2>3, <2>4, <2>5, <2>6, StepsSplit, QuietLaw, CrashLaw
<1>5. \A i \in 1..Len(issues') : issues'[i].parent => issues'[i].msg \in Messages
  <2>1. \A i \in 1..Len(issues) : issues[i].parent => issues[i].msg \in Messages
    BY <1>1 DEF ReferencesExist
  <2>2. CASE issues' = issues
    BY <2>1, <2>2
  <2>3. ASSUME NEW h \in Handlers, CreateIssue(h)
        PROVE  \A i \in 1..Len(issues') : issues'[i].parent => issues'[i].msg \in Messages
    <3>1. /\ Len(issues') = Len(issues) + 1 /\ ~issues'[Len(issues) + 1].parent
          /\ \A i \in 1..Len(issues) : issues'[i] = issues[i]
      <4>1. frame[h].msg \in Messages /\ issues' = Append(issues, [msg |-> frame[h].msg, parent |-> FALSE])
        BY <2>3, CreateIssueDoes
      <4>2. [msg |-> frame[h].msg, parent |-> FALSE].parent = FALSE
        OBVIOUS
      <4> QED
        BY <1>1, <4>1, <4>2, IssueAdded
    <3> QED
      BY <1>1, <2>1, <3>1
  <2>4. ASSUME NEW h \in Handlers, CreateParent(h)
        PROVE  \A i \in 1..Len(issues') : issues'[i].parent => issues'[i].msg \in Messages
    <3>1. /\ frame[h].issue \in 1..Len(issues) /\ issues[frame[h].issue].msg \in Messages
          /\ issues' = [issues EXCEPT ![frame[h].issue].parent = TRUE]
      BY <2>4, CreateParentDoes
    <3>2. /\ SameIssues
          /\ \A i \in 1..Len(issues) : i # frame[h].issue => issues'[i] = issues[i]
      BY <1>1, <3>1, ParentMade
    <3> QED
      BY <2>1, <3>1, <3>2 DEF SameIssues
  <2>5. SameRecords \/ UNCHANGED vars => issues' = issues
    BY DEF SameRecords, vars
  <2>6. ASSUME NEW h \in Handlers, Writes(h), ~CreateIssue(h), ~CreateParent(h) PROVE issues' = issues
    BY <2>6, EnterAsParentDoes, StartTaskDoes, PlanReadyDoes, EnterAsTaskDoes, ApproveDoes DEF Writes
  <2>7. ASSUME NEW i \in 1..Len(issues), PollStarts(i) PROVE issues' = issues
    BY <2>7, PollStartsDoes
  <2>8. ASSUME NEW k \in 1..Len(tasks), TaskEnds(k) \/ TaskStops(k) PROVE issues' = issues
    BY <2>8, TaskEndsDoes, TaskStopsDoes
  <2> QED
    BY <2>2, <2>3, <2>4, <2>5, <2>6, <2>7, <2>8, StepsSplit, QuietLaw, CrashLaw
<1>6. ASSUME NEW m \in Messages PROVE Known(receipts[m].task)'
  <2>1. \A e : Known(e) => Known(e)'
    BY <1>1, <1>2, KnownStays
  <2>2. Known(receipts[m].task)
    BY <1>1 DEF ReferencesExist
  <2>3. CASE receipts' = receipts
    BY <2>1, <2>2, <2>3 DEF Known, HasParent
  <2>4. ASSUME NEW h \in Handlers, RecordAnswer(h) PROVE Known(receipts[m].task)'
    <3>1. Known(frame[h].task) /\ Answer(h).task = frame[h].task
      BY InvariantParts DEF FrameSound, Answer
    <3>2. receipts'[m].task = receipts[m].task \/ receipts'[m].task = frame[h].task
      BY <1>1, <2>4, <3>1, AnswerWritten
    <3> QED
      BY <2>1, <2>2, <3>1, <3>2 DEF Known, HasParent
  <2> QED
    BY <2>3, <2>4, ReceiptsKept
<1> QED
  BY <1>3, <1>4, <1>5, <1>6 DEF ReferencesExist
----------------------------------------------------------------------------
(* A parent in the lane keeps a task to wait for.                          *)
Excused == early \cup unrecorded

Waits(i) ==
  (Parent(i) \in Lane /\ (\E k \in 1..Len(tasks) : tasks[k].issue = i) /\ i \notin Excused)
    => \E k \in 1..Len(tasks) : tasks[k].issue = i /\ ~Over(k) /\ tasks[k].parent

LEMMA WaitsLaw == ParentsHaveWork <=> \A i \in 1..Len(issues) : Waits(i)
BY DEF ParentsHaveWork, Waits, Excused

LEMMA WaitsStays ==
  ASSUME NEW i, Waits(i), SameTasks, NoneEnds,
         Parent(i) \in Lane' => Parent(i) \in Lane, i \notin Excused' => i \notin Excused
  PROVE  Waits(i)'
BY DEF Waits, SameTasks, NoneEnds

LEMMA ParentsDiffer ==
  /\ \A i, j : Parent(i) = Parent(j) => i = j
  /\ \A i : Parent(i) # Nobody
  /\ \A i, e : Parent(i) = e => e[1] = "parent" /\ e[2] = i
BY DEF Parent, Nobody

(* A new task of an issue waits for the parent, if the parent is there.    *)
LEMMA WaitsForNew ==
  ASSUME Typed, NEW i, NEW j \in Nat, NEW p \in BOOLEAN, NEW s \in TaskStatuses,
         tasks' = Append(tasks, [issue |-> j, parent |-> p, status |-> s]), s # "over",
         Waits(i), Unexcused,
         i # j /\ Parent(i) \in Lane' => Parent(i) \in Lane,
         i = j /\ Parent(i) \in Lane' => p
  PROVE  Waits(i)'
<1> DEFINE n == Len(tasks) + 1
<1>1. /\ Len(tasks) \in Nat /\ Len(tasks') = n
      /\ tasks'[n] = [issue |-> j, parent |-> p, status |-> s]
      /\ \A k \in 1..Len(tasks) : tasks'[k] = tasks[k]
  BY TaskAdded, LengthTypes
<1>2. n \in 1..Len(tasks') /\ 1..Len(tasks) \subseteq 1..Len(tasks')
  BY <1>1
<1>3. \A k \in 1..Len(tasks') : k = n \/ k \in 1..Len(tasks)
  BY <1>1
<1>4. tasks'[n].issue = j /\ tasks'[n].parent = p /\ tasks'[n].status # "over"
  BY <1>1
<1> HIDE DEF n
<1>5. CASE i = j
  BY <1>2, <1>4, <1>5 DEF Waits, Over
<1>6. CASE i # j
  <2>1. \A k \in 1..Len(tasks') : tasks'[k].issue = i => k \in 1..Len(tasks) /\ tasks[k].issue = i
    BY <1>1, <1>3, <1>4, <1>6
  <2>2. SUFFICES ASSUME Parent(i) \in Lane', \E k \in 1..Len(tasks') : tasks'[k].issue = i,
                        i \notin Excused'
                 PROVE  \E k \in 1..Len(tasks') :
                          tasks'[k].issue = i /\ tasks'[k].status # "over" /\ tasks'[k].parent
    BY DEF Waits, Over
  <2>3. PICK k \in 1..Len(tasks) : tasks[k].issue = i /\ tasks[k].status # "over" /\ tasks[k].parent
    BY <1>6, <2>1, <2>2 DEF Waits, Over, Excused, Unexcused
  <2>4. k \in 1..Len(tasks') /\ tasks'[k] = tasks[k]
    BY <1>1, <1>2
  <2> QED
    BY <2>3, <2>4
<1> QED
  BY <1>5, <1>6

(* A recorded end lets the task's parent go ...                            *)
LEMMA WaitsAfterEnd ==
  ASSUME Typed, LaneSound, NEW i, NEW k \in 1..Len(tasks), TaskEnds(k), Waits(i)
  PROVE  Waits(i)'
<1>1. /\ early' = early /\ SameTasks
      /\ unrecorded' = IF tasks[k].parent THEN unrecorded \ {tasks[k].issue} ELSE unrecorded
      /\ \A j \in 1..Len(tasks) : j # k => tasks'[j] = tasks[j]
  BY TaskEndsDoes, StatusSet DEF TaskStatuses
<1>2. /\ Parent(i) \in Lane' => Parent(i) \in Lane
      /\ tasks[k].parent => Parent(tasks[k].issue) \notin Lane'
  BY ReleasedLaw, ParentsDiffer
<1>3. SUFFICES ASSUME Parent(i) \in Lane', \E j \in 1..Len(tasks') : tasks'[j].issue = i,
                      i \notin Excused'
               PROVE  \E j \in 1..Len(tasks') :
                        tasks'[j].issue = i /\ tasks'[j].status # "over" /\ tasks'[j].parent
  BY DEF Waits, Over
<1>4. (\E j \in 1..Len(tasks) : tasks[j].issue = i) /\ i \notin Excused
  BY <1>1, <1>2, <1>3 DEF SameTasks, Excused
<1>5. PICK j \in 1..Len(tasks) : tasks[j].issue = i /\ tasks[j].status # "over" /\ tasks[j].parent
  BY <1>2, <1>3, <1>4 DEF Waits, Over
<1>6. j # k
  BY <1>2, <1>3, <1>5
<1> QED
  BY <1>1, <1>5, <1>6 DEF SameTasks

(* ... and an end that is not recorded excuses it.                         *)
LEMMA WaitsAfterStop ==
  ASSUME Typed, NEW i, NEW k \in 1..Len(tasks), tasks' = [tasks EXCEPT ![k].status = "over"],
         active' = active, queued' = queued, early' = early,
         unrecorded' = LeftIn(tasks[k].issue), Waits(i)
  PROVE  Waits(i)'
<1>0. PICK s \in TaskStatuses : tasks' = [tasks EXCEPT ![k].status = s]
  <2>1. "over" \in TaskStatuses
    BY DEF TaskStatuses
  <2> QED
    BY <2>1
<1>1. /\ SameTasks /\ Lane' = Lane
      /\ \A j \in 1..Len(tasks) : j # k => tasks'[j] = tasks[j]
  <2>1. SameTasks /\ \A j \in 1..Len(tasks) : j # k => tasks'[j] = tasks[j]
    BY <1>0, StatusSet
  <2>2. Lane' = Lane
    BY SameLane
  <2> QED
    BY <2>1, <2>2
<1>2. SUFFICES ASSUME Parent(i) \in Lane', \E j \in 1..Len(tasks') : tasks'[j].issue = i,
                      i \notin Excused'
               PROVE  \E j \in 1..Len(tasks') :
                        tasks'[j].issue = i /\ tasks'[j].status # "over" /\ tasks'[j].parent
  BY DEF Waits, Over
<1>3. tasks[k].issue # i /\ i \notin Excused
  BY <1>1, <1>2 DEF LeftIn, Excused
<1>4. PICK j \in 1..Len(tasks) : tasks[j].issue = i /\ tasks[j].status # "over" /\ tasks[j].parent
  BY <1>1, <1>2, <1>3 DEF Waits, Over, SameTasks
<1> QED
  BY <1>1, <1>3, <1>4 DEF SameTasks

LEMMA ParentsStep ==
  ASSUME GatewayInvariant, [Next]_vars
  PROVE  ParentsHaveWork'
<1>1. /\ Typed /\ LaneSound /\ ReferencesExist /\ Len(issues) \in Nat
      /\ \A i \in 1..Len(issues) : Waits(i)
  BY InvariantParts, LengthTypes, WaitsLaw
<1>2. SUFFICES ASSUME NEW i \in 1..Len(issues') PROVE Waits(i)'
  BY WaitsLaw DEF ParentsHaveWork, Waits, Excused
<1>3. CASE Len(issues') = Len(issues) + 1 /\ i = Len(issues) + 1 /\ tasks' = tasks
  <2>1. \A k \in 1..Len(tasks') : tasks'[k].issue # i
    BY <1>1, <1>3 DEF ReferencesExist
  <2> QED
    BY <2>1 DEF Waits
<1>4. ASSUME i \in 1..Len(issues), SameTasks, NoneEnds, Unexcused, active' = active, queued' = queued
      PROVE  Waits(i)'
  BY <1>1, <1>4, WaitsStays, SameLane DEF Unexcused, Excused
<1>5. CASE SameRecords \/ UNCHANGED vars
  BY <1>1, <1>2, <1>4, <1>5, SameRows DEF SameRecords, Unexcused, vars, lane, history
<1>6. ASSUME NEW h \in Handlers, Writes(h) PROVE Waits(i)'
  <2>1. CASE CreateIssue(h)
    <3>1. Len(issues') = Len(issues) + 1
      BY <1>1, <2>1, CreateIssueDoes, IssueAdded
    <3>2. SameTasks /\ NoneEnds /\ tasks' = tasks /\ Unexcused /\ active' = active /\ queued' = queued
      BY <1>1, <2>1, CreateIssueDoes, SameRows
    <3>3. i \in 1..Len(issues) \/ i = Len(issues) + 1
      BY <1>1, <1>2, <3>1
    <3> QED
      BY <1>3, <1>4, <3>1, <3>2, <3>3
  <2>2. CASE CreateParent(h)
    BY <1>1, <1>2, <1>4, <2>2, CreateParentDoes, ParentMade, SameRows DEF SameIssues
  <2>3. CASE EnterAsParent(h)
    <3> DEFINE j == frame[h].issue
    <3>1. /\ Lane' \subseteq Lane \cup {Parent(j)} /\ SameTasks /\ NoneEnds /\ tasks' = tasks
          /\ issues' = issues /\ unrecorded' = unrecorded
          /\ early' = IF \E k \in 1..Len(tasks) : tasks[k].issue = j THEN early \cup {j} ELSE early
      BY <1>1, <2>3, EnterAsParentDoes, EnterLaneLaw, SameRows
    <3> HIDE DEF j
    <3>2. CASE i = j
      BY <3>1, <3>2 DEF Waits, Excused
    <3>3. CASE i # j
      <4>1. Parent(i) # Parent(j)
        BY <3>3, ParentsDiffer
      <4>2. (Parent(i) \in Lane' => Parent(i) \in Lane) /\ (i \notin Excused' => i \notin Excused)
        BY <3>1, <4>1 DEF Excused
      <4>3. Waits(i)
        BY <1>1, <1>2, <3>1
      <4> QED
        BY <3>1, <4>2, <4>3, WaitsStays
    <3> QED
      BY <3>2, <3>3
  <2>4. CASE StartTask(h)
    <3> DEFINE j == sent[frame[h].msg].issue
    <3>1. /\ j \in Nat /\ HasParent(j) \in BOOLEAN /\ "created" \in TaskStatuses
          /\ tasks' = Append(tasks, [issue |-> j, parent |-> HasParent(j), status |-> "created"])
          /\ Lane' = Lane /\ Unexcused /\ issues' = issues
      BY <2>4, StartTaskDoes, SameLane DEF TaskStatuses
    <3> HIDE DEF j
    <3>2. i = j /\ Parent(i) \in Lane' => HasParent(j)
      <4>1. Known(Parent(i)) => HasParent(i)
        BY DEF Known, Parent, Nobody
      <4> QED
        BY <1>1, <3>1, <4>1 DEF ReferencesExist
    <3>3. Waits(i)
      BY <1>1, <1>2, <3>1
    <3> QED
      BY <1>1, <3>1, <3>2, <3>3, WaitsForNew
  <2>5. CASE PlanReady(h)
    BY <1>1, <1>2, <1>4, <2>5, PlanReadyDoes, StatusSet DEF TaskStatuses
  <2>6. CASE EnterAsTask(h)
    <3>1. /\ Lane' \subseteq Lane \cup {frame[h].task} /\ SameTasks /\ NoneEnds /\ Unexcused
          /\ issues' = issues /\ frame[h].task[1] = "task"
      BY <1>1, <2>6, EnterAsTaskDoes, EnterLaneLaw, SameRows
    <3>2. Parent(i) # frame[h].task
      BY <3>1, ParentsDiffer
    <3>3. Waits(i)
      BY <1>1, <1>2, <3>1
    <3> QED
      BY <3>1, <3>2, <3>3, WaitsStays DEF Unexcused, Excused
  <2>7. CASE Approve(h)
    <3>1. PICK k : k = frame[h].task[2]
      OBVIOUS
    <3>2. /\ k \in 1..Len(tasks) /\ issues' = issues /\ active' = active /\ queued' = queued
          /\ early' = early
          /\ \/ tasks' = [tasks EXCEPT ![k].status = "in_review"] /\ unrecorded' = unrecorded
             \/ tasks' = [tasks EXCEPT ![k].status = "over"] /\ unrecorded' = LeftIn(tasks[k].issue)
      BY <2>7, <3>1, ApproveDoes
    <3>3. CASE tasks' = [tasks EXCEPT ![k].status = "in_review"] /\ unrecorded' = unrecorded
      BY <1>1, <1>2, <1>4, <3>2, <3>3, StatusSet DEF TaskStatuses, Unexcused
    <3>4. CASE tasks' = [tasks EXCEPT ![k].status = "over"] /\ unrecorded' = LeftIn(tasks[k].issue)
      BY <1>1, <1>2, <3>2, <3>4, WaitsAfterStop
    <3> QED
      BY <3>2, <3>3, <3>4
  <2> QED
    BY <1>6, <2>1, <2>2, <2>3, <2>4, <2>5, <2>6, <2>7 DEF Writes
<1>7. ASSUME NEW j \in 1..Len(issues), PollStarts(j) PROVE Waits(i)'
  <2> DEFINE p == issues[j].parent
  <2>1. /\ j \in Nat /\ p \in BOOLEAN /\ "awaiting_confirmation" \in TaskStatuses
        /\ tasks' = Append(tasks, [issue |-> j, parent |-> p, status |-> "awaiting_confirmation"])
        /\ Unexcused /\ issues' = issues
    BY <1>7, PollStartsDoes DEF TaskStatuses
  <2>2. \/ p /\ Lane' \subseteq Lane \cup {Parent(j)}
        \/ ~p /\ Lane' = Lane
    BY <1>1, <1>7, PollStartsDoes, EnterLaneLaw, SameLane
  <2>3. Known(Parent(j)) => p
    BY DEF Known, Parent, Nobody, HasParent
  <2> HIDE DEF p
  <2>4. i = j /\ Parent(i) \in Lane' => p
    BY <1>1, <2>2, <2>3 DEF ReferencesExist
  <2>5. i # j /\ Parent(i) \in Lane' => Parent(i) \in Lane
    BY <2>2, ParentsDiffer
  <2>6. Waits(i)
    BY <1>1, <1>2, <2>1
  <2> QED
    BY <1>1, <2>1, <2>4, <2>5, <2>6, WaitsForNew
<1>8. ASSUME NEW k \in 1..Len(tasks), TaskEnds(k) PROVE Waits(i)'
  BY <1>1, <1>2, <1>8, TaskEndsDoes, WaitsAfterEnd
<1>9. ASSUME NEW k \in 1..Len(tasks), TaskStops(k) PROVE Waits(i)'
  BY <1>1, <1>2, <1>9, TaskStopsDoes, WaitsAfterStop
<1> QED
  BY <1>5, <1>6, <1>7, <1>8, <1>9, StepsSplit, QuietLaw, CrashLaw
----------------------------------------------------------------------------
(* FrameSound, for a place and locals that a thread may have.              *)
FrameFits(p, f) ==
  /\ f.msg \in Messages <=> p # "idle"
  /\ p \in {"lock", "open", "intake", "direct", "start"} => f.issue = 0 /\ f.task = Nobody
  /\ f.issue # 0 => f.issue \in WorkOf(f.msg)
  /\ p \in {"parent", "enter"} => f.issue # 0
  /\ p = "enter" => HasParent(f.issue)
  /\ p \in {"plan", "enter_direct"} => f.task[1] = "task"
  /\ p \notin {"idle", "lock", "answered", "approve", "open"} =>
       f.user \in Sessions /\ f.request \in runs /\ f.request[1] = f.msg
  /\ Known(f.task)
  /\ p \in {"intake", "parent", "enter"} => RouteTo(f.msg).intent # "sleep_coding"
  /\ f.task[1] = "parent" => RouteTo(f.msg).intent # "sleep_coding"
  /\ p = "approve" => f.task[1] = "task"

LEMMA FitsLaw ==
  ASSUME NEW h
  PROVE  FrameSound(h) <=> FrameFits(pc[h], frame[h])
BY DEF FrameSound, FrameFits, Locked

LEMMA FitsNext ==
  ASSUME NEW h, NEW p, NEW f, pc'[h] = p, frame'[h] = f, FrameFits(p, f)'
  PROVE  FrameSound(h)'
BY DEF FrameSound, FrameFits, Locked, WorkOf, HasParent, Known, RouteTo

(* What a thread relies on is there after every step.                      *)
LEMMA ScopeGrows ==
  ASSUME GatewayInvariant, [Next]_vars
  PROVE  /\ \A m : WorkOf(m) \subseteq WorkOf(m)'
         /\ \A i : HasParent(i) => HasParent(i)'
         /\ \A e : Known(e) => Known(e)'
         /\ \A m : RouteTo(m)' = RouteTo(m)
         /\ Sessions' = Sessions /\ runs \subseteq runs'
<1>1. /\ Typed /\ IssuesGrow /\ TasksGrow /\ sent' = sent /\ runs \subseteq runs'
      /\ Len(issues) \in Nat /\ Len(tasks) \in Nat
  BY InvariantParts, RecordsGrow, RunsGrow, LengthTypes
<1>2. \A m : WorkOf(m) \subseteq WorkOf(m)'
  BY <1>1 DEF WorkOf, IssuesGrow
<1>3. \A i : HasParent(i) => HasParent(i)'
  BY <1>1 DEF HasParent, IssuesGrow
<1>4. \A m : RouteTo(m)' = RouteTo(m)
  BY <1>1 DEF RouteTo
<1> QED
  BY <1>1, <1>2, <1>3, <1>4, KnownStays, SameTypes

LEMMA FitsStays ==
  ASSUME GatewayInvariant, [Next]_vars, NEW p, NEW f, FrameFits(p, f)
  PROVE  FrameFits(p, f)'
<1>1. /\ WorkOf(f.msg) \subseteq WorkOf(f.msg)' /\ (HasParent(f.issue) => HasParent(f.issue)')
      /\ (Known(f.task) => Known(f.task)') /\ RouteTo(f.msg)' = RouteTo(f.msg)
      /\ Sessions' = Sessions /\ runs \subseteq runs'
  BY ScopeGrows
<1> QED
  BY <1>1 DEF FrameFits

LEMMA IdleFits == FrameFits("idle", NoFrame)
BY NoneAssumption DEF FrameFits, NoFrame, Known, Nobody

(* Each step of a thread leads to a place where its locals fit.            *)
LEMMA FrameParts ==
  ASSUME GatewayInvariant, NEW h \in Handlers
  PROVE  FrameFits(pc[h], frame[h]) /\ frame[h] \in Frames
BY InvariantParts, FitsLaw, FrameLaw

LEMMA NextIsStep ==
  ASSUME NEW h \in Handlers, Quiet(h) \/ Writes(h)
  PROVE  [Next]_vars
BY Zenon DEF Next, Step, Quiet, Writes

LEMMA IntakeFits ==
  ASSUME GatewayInvariant, NEW h \in Handlers,
         Chat(h) \/ CreateIssue(h) \/ CreateParent(h) \/ EnterAsParent(h)
  PROVE  FrameSound(h)' /\ Others(h)
<1>0. PICK p, f : p = pc[h] /\ f = frame[h]
  OBVIOUS
<1>1. Typed /\ FrameFits(p, f) /\ f \in Frames /\ Len(issues) \in Nat
  BY <1>0, FrameParts, InvariantParts, LengthTypes
<1>2. FrameFits(p, f)'
  <2>1. [Next]_vars
    BY <1>0, NextIsStep DEF Quiet, Writes
  <2> QED
    BY <1>0, <1>1, <2>1, FitsStays
<1>3. CASE Chat(h)
  <2>0. PICK g : g = [f EXCEPT !.state = "completed"]
    OBVIOUS
  <2>1. /\ p = "intake" /\ g.msg = f.msg /\ g.issue = f.issue /\ g.task = f.task
        /\ g.user = f.user /\ g.request = f.request
    BY <1>0, <2>0, <1>1, <1>3 DEF Chat, Frames
  <2>2. pc'[h] = "record" /\ frame'[h] = g /\ Others(h)
    <3>1. Moved(h, "record", g)
      BY <1>0, <2>0, <1>1, <1>3, ChatMoves, Zenon
    <3> QED
      BY <1>1, <3>1, MovedLaw
  <2>3. FrameFits("record", g)'
    BY <1>0, <2>0, <1>2, <2>1 DEF FrameFits
  <2> QED
    BY <1>0, <2>0, <2>2, <2>3, FitsNext
<1>4. CASE CreateIssue(h)
  <2>0. PICK n, g : n = Len(issues) + 1 /\ g = [f EXCEPT !.issue = n]
    OBVIOUS
  <2>1. /\ p = "intake" /\ g.msg = f.msg /\ g.issue = n /\ g.task = f.task
        /\ g.user = f.user /\ g.request = f.request
    BY <1>0, <2>0, <1>1, <1>4 DEF CreateIssue, Frames
  <2>2. pc'[h] = "parent" /\ frame'[h] = g /\ Others(h)
    <3>1. Moved(h, "parent", g)
      BY <1>0, <2>0, <1>1, <1>4, CreateIssueMoves, Zenon
    <3> QED
      BY <1>1, <3>1, MovedLaw
  <2>3. n # 0 /\ n \in WorkOf(f.msg)'
    <3>1. /\ f.msg \in Messages
          /\ issues' = Append(issues, [msg |-> f.msg, parent |-> FALSE])
      BY <1>0, <2>0, <1>4, CreateIssueDoes
    <3>2. Len(issues') = n /\ issues'[n] = [msg |-> f.msg, parent |-> FALSE]
      BY <1>0, <2>0, <1>1, <3>1, IssueAdded
    <3> QED
      BY <1>0, <2>0, <1>1, <3>2 DEF WorkOf
  <2>4. FrameFits("parent", g)'
    BY <1>0, <2>0, <1>2, <2>1, <2>3 DEF FrameFits
  <2> QED
    BY <1>0, <2>0, <2>2, <2>4, FitsNext
<1>5. CASE CreateParent(h)
  <2>1. p = "parent"
    BY <1>0, <1>5 DEF CreateParent
  <2>2. pc'[h] = "enter" /\ frame'[h] = f /\ Others(h)
    BY <1>0, <1>1, <1>5, CreateParentMoves, MovedLaw
  <2>3. HasParent(f.issue)'
    BY <1>0, <1>1, <1>5, CreateParentDoes, ParentMade DEF HasParent, SameIssues
  <2>4. FrameFits("enter", f)'
    BY <1>0, <1>2, <2>1, <2>3 DEF FrameFits
  <2> QED
    BY <1>0, <2>2, <2>4, FitsNext
<1>6. CASE EnterAsParent(h)
  <2>0. PICK e, g : e = Parent(f.issue) /\ g = [f EXCEPT !.task = e, !.state = IF Granted(e) THEN "accepted" ELSE "queued"]
    OBVIOUS
  <2>1. /\ p = "enter" /\ g.msg = f.msg /\ g.issue = f.issue /\ g.task = e
        /\ g.user = f.user /\ g.request = f.request
    BY <1>0, <2>0, <1>1, <1>6 DEF EnterAsParent, Frames
  <2>2. pc'[h] = "record" /\ frame'[h] = g /\ Others(h)
    <3>1. Moved(h, "record", g)
      BY <1>0, <2>0, <1>1, <1>6, EnterAsParentMoves, Zenon
    <3> QED
      BY <1>1, <3>1, MovedLaw
  <2>3. Known(e)
    BY <1>0, <2>0, <1>6, EnterAsParentDoes DEF Known, Parent
  <2>4. Known(e)'
    BY <1>0, <2>0, <1>6, <2>3, NextIsStep, ScopeGrows DEF Writes
  <2>5. FrameFits("record", g)'
    BY <1>0, <2>0, <1>2, <2>1, <2>4 DEF FrameFits
  <2> QED
    BY <1>0, <2>0, <2>2, <2>5, FitsNext
<1> QED
  BY <1>3, <1>4, <1>5, <1>6

LEMMA DirectFits ==
  ASSUME GatewayInvariant, NEW h \in Handlers,
         CheckBusy(h) \/ StartTask(h) \/ PlanReady(h) \/ EnterAsTask(h)
  PROVE  FrameSound(h)' /\ Others(h)
<1>0. PICK p, f : p = pc[h] /\ f = frame[h]
  OBVIOUS
<1>1. Typed /\ FrameFits(p, f) /\ f \in Frames /\ Len(tasks) \in Nat
  BY <1>0, FrameParts, InvariantParts, LengthTypes
<1>2. FrameFits(p, f)'
  <2>1. [Next]_vars
    BY <1>0, NextIsStep DEF Quiet, Writes
  <2> QED
    BY <1>0, <1>1, <2>1, FitsStays
<1>3. ASSUME NEW s, NEW g, g = [f EXCEPT !.state = s]
      PROVE  /\ g.msg = f.msg /\ g.issue = f.issue /\ g.task = f.task
             /\ g.user = f.user /\ g.request = f.request
  BY <1>0, <1>1, <1>3 DEF Frames
<1>4. CASE CheckBusy(h)
  <2>1. p = "direct"
    BY <1>0, <1>4 DEF CheckBusy
  <2>2. ASSUME NEW s, Moved(h, "record", [f EXCEPT !.state = s]) PROVE FrameSound(h)' /\ Others(h)
    <3>0. PICK g : g = [f EXCEPT !.state = s]
      OBVIOUS
    <3>1. pc'[h] = "record" /\ frame'[h] = g /\ Others(h)
      BY <1>0, <3>0, <1>1, <2>2, MovedLaw
    <3>2. /\ g.msg = f.msg /\ g.issue = f.issue /\ g.task = f.task
          /\ g.user = f.user /\ g.request = f.request
      BY <1>0, <3>0, <1>3
    <3>3. FrameFits("record", g)'
      BY <1>0, <3>0, <1>2, <2>1, <3>2 DEF FrameFits
    <3> QED
      BY <1>0, <3>0, <3>1, <3>3, FitsNext
  <2>3. ASSUME Moved(h, "start", f) PROVE FrameSound(h)' /\ Others(h)
    <3>1. pc'[h] = "start" /\ frame'[h] = f /\ Others(h)
      BY <1>0, <1>1, <2>3, MovedLaw
    <3>2. FrameFits("start", f)'
      BY <1>0, <1>2, <2>1 DEF FrameFits
    <3> QED
      BY <1>0, <3>1, <3>2, FitsNext
  <2> QED
    BY <1>0, <1>1, <1>4, <2>2, <2>3, CheckBusyMoves
<1>5. CASE StartTask(h)
  <2>0. PICK e, g : e = Child(Len(tasks) + 1) /\ g = [f EXCEPT !.task = e]
    OBVIOUS
  <2>1. /\ p = "start" /\ g.msg = f.msg /\ g.issue = f.issue /\ g.task = e
        /\ g.user = f.user /\ g.request = f.request
    BY <1>0, <2>0, <1>1, <1>5 DEF StartTask, Frames
  <2>2. pc'[h] = "plan" /\ frame'[h] = g /\ Others(h)
    <3>1. Moved(h, "plan", g)
      BY <1>0, <2>0, <1>1, <1>5, StartTaskMoves, Zenon
    <3> QED
      BY <1>1, <3>1, MovedLaw
  <2>3. Known(e)' /\ e[1] = "task"
    <3>1. Len(tasks') = Len(tasks) + 1
      BY <1>0, <2>0, <1>1, <1>5, StartTaskDoes, TaskAdded DEF TaskStatuses
    <3> QED
      BY <1>0, <2>0, <1>1, <3>1 DEF Known, Child
  <2>4. FrameFits("plan", g)'
    BY <1>0, <2>0, <1>2, <2>1, <2>3 DEF FrameFits
  <2> QED
    BY <1>0, <2>0, <2>2, <2>4, FitsNext
<1>6. CASE PlanReady(h)
  <2>1. p = "plan" /\ pc'[h] = "enter_direct" /\ frame'[h] = f /\ Others(h)
    BY <1>0, <1>1, <1>6, PlanReadyMoves, MovedLaw DEF PlanReady
  <2>2. FrameFits("enter_direct", f)'
    BY <1>0, <1>2, <2>1 DEF FrameFits
  <2> QED
    BY <1>0, <2>1, <2>2, FitsNext
<1>7. CASE EnterAsTask(h)
  <2>0. PICK g : g = [f EXCEPT !.state = "accepted"]
    OBVIOUS
  <2>1. p = "enter_direct" /\ pc'[h] = "record" /\ frame'[h] = g /\ Others(h)
    BY <1>0, <2>0, <1>1, <1>7, EnterAsTaskMoves, MovedLaw DEF EnterAsTask
  <2>2. /\ g.msg = f.msg /\ g.issue = f.issue /\ g.task = f.task
        /\ g.user = f.user /\ g.request = f.request
    BY <1>0, <2>0, <1>3
  <2>3. FrameFits("record", g)'
    BY <1>0, <2>0, <1>2, <2>1, <2>2 DEF FrameFits
  <2> QED
    BY <1>0, <2>0, <2>1, <2>3, FitsNext
<1> QED
  BY <1>4, <1>5, <1>6, <1>7
LEMMA OpenFits ==
  ASSUME GatewayInvariant, NEW h \in Handlers, OpenSessions(h)
  PROVE  FrameSound(h)' /\ Others(h)
<1>0. PICK p, f, o : p = pc[h] /\ f = frame[h] /\ o = OpenedAs(h)
  OBVIOUS
<1>1. Typed /\ FrameFits(p, f) /\ f \in Frames /\ p = "open" /\ f.msg \in Messages
  <2>1. FrameFits(p, f) /\ f \in Frames /\ p = "open"
    BY <1>0, FrameParts DEF OpenSessions
  <2> QED
    BY <2>1, InvariantParts DEF FrameFits
<1>2. FrameFits(p, f)'
  <2>1. [Next]_vars
    BY NextIsStep DEF Quiet
  <2> QED
    BY <1>1, <2>1, FitsStays
<1>3. UserSession(f.msg) \in Sessions /\ RequestId(f.msg)[1] = f.msg
  BY <1>1, InvariantParts, MessageLaw, RequestLaw
<1>4. /\ o.msg = f.msg /\ o.issue = f.issue /\ o.task = f.task
      /\ o.user = UserSession(f.msg) /\ o.request = RequestId(f.msg)
  BY <1>0, <1>1 DEF OpenedAs, Frames
<1>5. o.user \in Sessions' /\ o.request \in runs' /\ o.request[1] = f.msg
  <2>1. Sessions' = Sessions /\ runs' = WithRun(RequestId(f.msg))
    BY <1>0, SameTypes DEF OpenSessions, SameMessage
  <2> QED
    BY <1>3, <1>4, <2>1 DEF WithRun
<1>6. RouteTo(f.msg)' = RouteTo(f.msg)
  BY NextIsStep, ScopeGrows DEF Quiet
<1>7. RouteTo(f.msg).agent # "ralph" => RouteTo(f.msg).intent # "sleep_coding"
  BY <1>1, RouteLaw DEF Typed, CodingIsRalphs
<1>8. CASE Moved(h, "record", [o EXCEPT !.state = "completed"])
  <2>0. PICK g : g = [o EXCEPT !.state = "completed"]
    OBVIOUS
  <2>1. o \in Frames
    BY <1>0, <1>1, OpenedType
  <2>2. /\ g.msg = f.msg /\ g.issue = f.issue /\ g.task = f.task
        /\ g.user = o.user /\ g.request = o.request
    BY <1>4, <2>0, <2>1 DEF Frames
  <2>3. pc'[h] = "record" /\ frame'[h] = g /\ Others(h)
    BY <1>1, <1>8, <2>0, MovedLaw
  <2>4. FrameFits("record", g)'
    BY <1>1, <1>2, <1>5, <2>2 DEF FrameFits
  <2> QED
    BY <2>3, <2>4, FitsNext
<1>9. CASE Moved(h, "direct", o)
  <2>1. pc'[h] = "direct" /\ frame'[h] = o /\ Others(h)
    BY <1>1, <1>9, MovedLaw
  <2>2. FrameFits("direct", o)'
    BY <1>1, <1>2, <1>4, <1>5 DEF FrameFits
  <2> QED
    BY <2>1, <2>2, FitsNext
<1>10. CASE RouteTo(f.msg).agent # "ralph" /\ Moved(h, "intake", o)
  <2>1. pc'[h] = "intake" /\ frame'[h] = o /\ Others(h)
    BY <1>1, <1>10, MovedLaw
  <2>2. FrameFits("intake", o)'
    BY <1>1, <1>2, <1>4, <1>5, <1>6, <1>7, <1>10 DEF FrameFits
  <2> QED
    BY <2>1, <2>2, FitsNext
<1> QED
  BY <1>0, <1>1, <1>8, <1>9, <1>10, OpenSessionsMoves

LEMMA RecordFits ==
  ASSUME GatewayInvariant, NEW h \in Handlers, RecordRequest(h) \/ RecordAnswer(h)
  PROVE  FrameSound(h)' /\ Others(h)
<1>0. PICK p, f : p = pc[h] /\ f = frame[h]
  OBVIOUS
<1>1. Typed /\ FrameFits(p, f)
  BY <1>0, FrameParts, InvariantParts
<1>2. FrameFits(p, f)'
  <2>1. [Next]_vars
    BY NextIsStep DEF Quiet
  <2> QED
    BY <1>1, <2>1, FitsStays
<1>3. CASE RecordRequest(h)
  <2>1. p = "record" /\ pc'[h] = "turn" /\ frame'[h] = f /\ Others(h)
    BY <1>0, <1>1, <1>3, RecordRequestMoves, MovedLaw DEF RecordRequest
  <2>2. FrameFits("turn", f)'
    BY <1>2, <2>1 DEF FrameFits
  <2> QED
    BY <2>1, <2>2, FitsNext
<1>4. CASE RecordAnswer(h)
  <2>1. p = "turn" /\ pc'[h] = "answered" /\ frame'[h] = f /\ Others(h)
    BY <1>0, <1>1, <1>4, RecordAnswerMoves, MovedLaw DEF RecordAnswer
  <2>2. FrameFits("answered", f)'
    BY <1>2, <2>1 DEF FrameFits
  <2> QED
    BY <2>1, <2>2, FitsNext
<1> QED
  BY <1>3, <1>4

(* The locals of a thread whose message has a receipt already.             *)
LEMMA CachedFits ==
  ASSUME GatewayInvariant, [Next]_vars, NEW f \in Frames, f.msg \in Messages, f.issue = 0,
         NEW g, g = Cached(f, receipts[f.msg])
  PROVE  FrameFits("answered", g)'
<1>0. PICK e : e = receipts[f.msg].task
  OBVIOUS
<1>1. g.msg = f.msg /\ g.issue = 0 /\ g.task = e
  BY <1>0 DEF Cached, Frames
<1>2. Known(e) /\ (e[1] = "parent" => RouteTo(f.msg).intent # "sleep_coding")
  BY <1>0, InvariantParts DEF ReferencesExist, ReceiptsSound
<1>3. Known(e)' /\ RouteTo(f.msg)' = RouteTo(f.msg)
  BY <1>2, ScopeGrows
<1> QED
  BY <1>1, <1>2, <1>3 DEF FrameFits

LEMMA LockFits ==
  ASSUME GatewayInvariant, NEW h \in Handlers, Lock(h)
  PROVE  FrameSound(h)' /\ Others(h)
<1>0. PICK p, f, g : p = pc[h] /\ f = frame[h] /\ g = Cached(frame[h], receipts[frame[h].msg])
  OBVIOUS
<1>1. Typed /\ FrameFits(p, f) /\ f \in Frames /\ p = "lock" /\ [Next]_vars
  BY <1>0, FrameParts, InvariantParts, NextIsStep DEF Lock, Quiet
<1>2. FrameFits(p, f)'
  BY <1>1, FitsStays
<1>3. f.msg \in Messages /\ f.issue = 0
  BY <1>1 DEF FrameFits
<1>4. CASE Moved(h, "answered", g)
  <2>1. FrameFits("answered", g)'
    BY <1>0, <1>1, <1>3, CachedFits
  <2>2. pc'[h] = "answered" /\ frame'[h] = g /\ Others(h)
    BY <1>1, <1>4, MovedLaw
  <2> QED
    BY <2>1, <2>2, FitsNext
<1>5. CASE Moved(h, "open", f)
  <2>1. FrameFits("open", f)'
    BY <1>1, <1>2 DEF FrameFits
  <2>2. pc'[h] = "open" /\ frame'[h] = f /\ Others(h)
    BY <1>1, <1>5, MovedLaw
  <2> QED
    BY <2>1, <2>2, FitsNext
<1> QED
  BY <1>0, <1>1, <1>4, <1>5, LockMoves

LEMMA ReceiveFits ==
  ASSUME GatewayInvariant, NEW h \in Handlers, NEW m \in Messages, Receive(h, m)
  PROVE  FrameSound(h)' /\ Others(h)
<1>0. PICK f, g : f = [NoFrame EXCEPT !.msg = m] /\ g = Cached(f, receipts[m])
  OBVIOUS
<1>1. Typed /\ [Next]_vars
  BY InvariantParts, NextIsStep DEF Quiet
<1>2. f \in Frames /\ f.msg = m /\ f.issue = 0 /\ f.task = Nobody
  BY <1>0, FreshType DEF NoFrame
<1>3. CASE Moved(h, "answered", g)
  <2>1. FrameFits("answered", g)'
    BY <1>0, <1>1, <1>2, CachedFits
  <2>2. pc'[h] = "answered" /\ frame'[h] = g /\ Others(h)
    BY <1>1, <1>3, MovedLaw
  <2> QED
    BY <2>1, <2>2, FitsNext
<1>4. CASE Moved(h, "lock", f)
  <2>1. FrameFits("lock", f)'
    BY <1>2 DEF FrameFits, Known, Nobody
  <2>2. pc'[h] = "lock" /\ frame'[h] = f /\ Others(h)
    BY <1>1, <1>4, MovedLaw
  <2> QED
    BY <2>1, <2>2, FitsNext
<1> QED
  BY <1>0, <1>1, <1>3, <1>4, ReceiveMoves

LEMMA FollowFits ==
  ASSUME GatewayInvariant, NEW h \in Handlers,
         Reply(h) \/ ReadStatus(h) \/ Approve(h) \/ Raise(h) \/ Fail(h)
  PROVE  FrameSound(h)' /\ Others(h)
<1>0. PICK p, f : p = pc[h] /\ f = frame[h]
  OBVIOUS
<1>1. Typed /\ FrameFits(p, f) /\ f \in Frames
  BY <1>0, FrameParts, InvariantParts
<1>2. [Next]_vars
  BY NextIsStep DEF Quiet, Writes
<1>3. CASE Leave(h)
  <2>0. PICK g : g = NoFrame
    OBVIOUS
  <2>1. pc'[h] = "idle" /\ frame'[h] = g /\ Others(h)
    BY <1>1, <1>3, <2>0, LeaveMoves, MovedLaw
  <2>2. FrameFits("idle", g)'
    BY <1>2, <2>0, IdleFits, FitsStays
  <2> QED
    BY <2>1, <2>2, FitsNext
<1>4. CASE ReadStatus(h)
  <2>0. PICK g : g = [f EXCEPT !.seen = tasks[f.task[2]].status]
    OBVIOUS
  <2>1. p = "answered" /\ f.task[1] = "task"
    BY <1>0, <1>4, ApprovesLaw DEF ReadStatus
  <2>2. /\ g.msg = f.msg /\ g.issue = f.issue /\ g.task = f.task
        /\ g.user = f.user /\ g.request = f.request
    BY <1>1, <2>0 DEF Frames
  <2>3. Moved(h, "approve", g)
    BY <1>0, <1>1, <1>4, <2>0, ReadStatusMoves
  <2>4. pc'[h] = "approve" /\ frame'[h] = g /\ Others(h)
    BY <1>1, <2>3, MovedLaw
  <2>5. FrameFits(p, f)'
    BY <1>1, <1>2, FitsStays
  <2>6. FrameFits("approve", g)'
    BY <2>1, <2>2, <2>5 DEF FrameFits
  <2> QED
    BY <2>4, <2>6, FitsNext
<1>5. Reply(h) \/ Approve(h) \/ Raise(h) \/ Fail(h) => Leave(h)
  BY DEF Reply, Approve, Raise, Fail, Acknowledge, Abandon
<1> QED
  BY <1>3, <1>4, <1>5

LEMMA FrameStep ==
  ASSUME GatewayInvariant, [Next]_vars
  PROVE  \A g \in Handlers : FrameSound(g)'
<1>1. SUFFICES ASSUME NEW g \in Handlers PROVE FrameSound(g)'
  OBVIOUS
<1>2. PICK p, f : p = pc[g] /\ f = frame[g]
  OBVIOUS
<1>3. FrameFits(p, f)'
  BY <1>2, FrameParts, FitsStays
<1>4. pc'[g] = pc[g] /\ frame'[g] = frame[g] => FrameSound(g)'
  BY <1>2, <1>3, FitsNext
<1>5. ASSUME NEW h \in Handlers, Quiet(h) \/ Writes(h) PROVE FrameSound(g)'
  <2>1. FrameSound(h)' /\ Others(h)
    BY <1>5, IntakeFits, DirectFits, OpenFits, RecordFits, LockFits, ReceiveFits, FollowFits, Zenon
       DEF Quiet, Writes
  <2> QED
    BY <1>4, <2>1 DEF Others
<1>6. CASE Crash
  <2>0. PICK q : q = NoFrame
    OBVIOUS
  <2>1. pc'[g] = "idle" /\ frame'[g] = q
    BY <1>6, <2>0 DEF Crash
  <2>2. FrameFits("idle", q)'
    BY <2>0, IdleFits, FitsStays
  <2> QED
    BY <2>1, <2>2, FitsNext
<1>7. (\E i \in 1..Len(issues) : PollStarts(i)) \/ (\E k \in 1..Len(tasks) : TaskEnds(k) \/ TaskStops(k))
        \/ UNCHANGED vars => pc' = pc /\ frame' = frame
  BY DEF PollStarts, TaskEnds, TaskStops, vars
<1> QED
  BY <1>4, <1>5, <1>6, <1>7, StepsSplit
----------------------------------------------------------------------------
(* The work on a message between the lock and the answer.                  *)
Works(h) ==
  \/ OpenSessions(h) \/ Chat(h) \/ CreateIssue(h) \/ CreateParent(h) \/ EnterAsParent(h)
  \/ CheckBusy(h) \/ StartTask(h) \/ PlanReady(h) \/ EnterAsTask(h) \/ RecordRequest(h)

Follows(h) == ReadStatus(h) \/ Reply(h) \/ Approve(h)

LEMMA ThreadsSplit ==
  ASSUME NEW h \in Handlers, Quiet(h) \/ Writes(h)
  PROVE  \/ Works(h) \/ Follows(h) \/ Lock(h) \/ RecordAnswer(h)
         \/ (\E m \in Messages : Receive(h, m)) \/ Raise(h) \/ Fail(h)
BY Zenon DEF Quiet, Writes, Works, Follows

(* While it works, a thread keeps its message and what it has made.        *)
LEMMA WorksLaw ==
  ASSUME GatewayInvariant, NEW h \in Handlers, Works(h)
  PROVE  /\ Locked(h) /\ Locked(h)' /\ Others(h)
         /\ frame'[h].msg = frame[h].msg
         /\ Made(h) => Made(h)'
         /\ deliveries' = deliveries /\ receipts' = receipts /\ owner' = owner /\ broken' = broken
<1>0. PICK f : f = frame[h]
  OBVIOUS
<1>1. Typed /\ f \in Frames /\ FrameFits(pc[h], f)
  BY <1>0, FrameParts, InvariantParts
<1>2. deliveries' = deliveries /\ receipts' = receipts /\ owner' = owner /\ broken' = broken
  BY DEF Works, OpenSessions, Chat, CreateIssue, CreateParent, EnterAsParent, CheckBusy, StartTask,
     PlanReady, EnterAsTask, RecordRequest, SameMessage, history
<1>3. Others(h)
  BY IntakeFits, DirectFits, OpenFits, RecordFits, Zenon DEF Works
<1>4. ASSUME NEW p, NEW g, Moved(h, p, g), g.msg = f.msg, Locked(h),
             p \notin {"idle", "lock", "answered", "approve"},
             f.issue # 0 \/ f.task # Nobody => g.issue # 0 \/ g.task # Nobody
      PROVE  /\ Locked(h) /\ Locked(h)' /\ frame'[h].msg = frame[h].msg /\ (Made(h) => Made(h)')
  <2>1. pc'[h] = p /\ frame'[h] = g
    BY <1>1, <1>4, MovedLaw
  <2> QED
    BY <1>0, <1>4, <2>1 DEF Locked, Made
<1>5. ASSUME NEW p, NEW g, Moved(h, p, g), g.msg = f.msg, g.issue = f.issue, g.task = f.task,
             Locked(h), p \notin {"idle", "lock", "answered", "approve"}
      PROVE  /\ Locked(h) /\ Locked(h)' /\ frame'[h].msg = frame[h].msg /\ (Made(h) => Made(h)')
  BY <1>4, <1>5
<1>6. ASSUME NEW s, NEW g, g = [f EXCEPT !.state = s]
      PROVE  g.msg = f.msg /\ g.issue = f.issue /\ g.task = f.task
  BY <1>1, <1>6 DEF Frames
<1>7. Works(h) => Locked(h)
  BY DEF Works, OpenSessions, Chat, CreateIssue, CreateParent, EnterAsParent, CheckBusy, StartTask,
     PlanReady, EnterAsTask, RecordRequest, Locked
<1>8. CASE OpenSessions(h)
  <2>0. PICK o : o = OpenedAs(h)
    OBVIOUS
  <2>1. o.msg = f.msg /\ o.issue = f.issue /\ o.task = f.task
    BY <1>0, <1>1, <2>0 DEF OpenedAs, Frames
  <2>2. f.msg \in Messages /\ o \in Frames
    BY <1>0, <1>1, <1>8, <2>0, OpenedType DEF FrameFits, OpenSessions
  <2>3. ASSUME NEW g, g = [o EXCEPT !.state = "completed"]
        PROVE  g.msg = f.msg /\ g.issue = f.issue /\ g.task = f.task
    BY <2>1, <2>2, <2>3 DEF Frames
  <2>4. \/ Moved(h, "record", [o EXCEPT !.state = "completed"])
        \/ Moved(h, "direct", o) \/ Moved(h, "intake", o)
    BY <1>1, <1>8, <2>0, OpenSessionsMoves
  <2> QED
    BY <1>2, <1>3, <1>5, <1>7, <2>1, <2>3, <2>4
<1>9. CASE Chat(h) \/ EnterAsTask(h) \/ CheckBusy(h)
  <2>1. \/ \E s : Moved(h, "record", [f EXCEPT !.state = s])
        \/ Moved(h, "start", f)
    BY <1>0, <1>1, <1>9, ChatMoves, EnterAsTaskMoves, CheckBusyMoves
  <2> QED
    BY <1>2, <1>3, <1>5, <1>6, <1>7, <2>1
<1>10. CASE CreateParent(h) \/ PlanReady(h) \/ RecordRequest(h)
  <2>1. Moved(h, "enter", f) \/ Moved(h, "enter_direct", f) \/ Moved(h, "turn", f)
    BY <1>0, <1>1, <1>10, CreateParentMoves, PlanReadyMoves, RecordRequestMoves
  <2> QED
    BY <1>2, <1>3, <1>5, <1>7, <2>1
<1>11. CASE CreateIssue(h)
  <2>0. PICK g : g = [f EXCEPT !.issue = Len(issues) + 1]
    OBVIOUS
  <2>1. g.msg = f.msg /\ g.issue # 0
    BY <1>1, <2>0, LengthTypes DEF Frames
  <2>2. Moved(h, "parent", g)
    BY <1>0, <1>1, <1>11, <2>0, CreateIssueMoves, Zenon
  <2> QED
    BY <1>2, <1>3, <1>4, <1>7, <2>1, <2>2
<1>12. CASE EnterAsParent(h)
  <2>0. PICK e, s, g : /\ e = Parent(f.issue) /\ s = (IF Granted(e) THEN "accepted" ELSE "queued")
                       /\ g = [f EXCEPT !.task = e, !.state = s]
    OBVIOUS
  <2>1. g.msg = f.msg /\ g.task # Nobody
    BY <1>1, <2>0, ParentsDiffer DEF Frames
  <2>2. Moved(h, "record", g)
    BY <1>0, <1>1, <1>12, <2>0, EnterAsParentMoves, Zenon
  <2> QED
    BY <1>2, <1>3, <1>4, <1>7, <2>1, <2>2
<1>13. CASE StartTask(h)
  <2>0. PICK e, g : e = Child(Len(tasks) + 1) /\ g = [f EXCEPT !.task = e]
    OBVIOUS
  <2>1. g.msg = f.msg /\ g.task # Nobody
    BY <1>1, <2>0 DEF Frames, Child, Nobody
  <2>2. Moved(h, "plan", g)
    BY <1>0, <1>1, <1>13, <2>0, StartTaskMoves, Zenon
  <2> QED
    BY <1>2, <1>3, <1>4, <1>7, <2>1, <2>2
<1> QED
  BY <1>8, <1>9, <1>10, <1>11, <1>12, <1>13 DEF Works
(* A thread that answers, waits or follows up holds no lock.               *)
LEMMA FollowsLaw ==
  ASSUME GatewayInvariant, NEW h \in Handlers, Follows(h)
  PROVE  /\ ~Locked(h) /\ ~Locked(h)' /\ Others(h)
         /\ frame'[h].msg = frame[h].msg \/ frame'[h] = NoFrame
         /\ deliveries' = deliveries /\ receipts' = receipts /\ owner' = owner /\ broken' = broken
<1>1. Typed /\ frame[h] \in Frames
  BY FrameParts, InvariantParts
<1>2. deliveries' = deliveries /\ receipts' = receipts /\ owner' = owner /\ broken' = broken
  BY DEF Follows, ReadStatus, Reply, Approve, SameMessage, history
<1>3. Others(h) /\ ~Locked(h)
  BY FollowFits DEF Follows, ReadStatus, Reply, Approve, Locked
<1>4. CASE Leave(h)
  BY <1>1, <1>2, <1>3, <1>4, LeaveMoves, MovedLaw DEF Locked
<1>5. CASE ReadStatus(h)
  <2>0. PICK g : g = [frame[h] EXCEPT !.seen = tasks[frame[h].task[2]].status]
    OBVIOUS
  <2>1. g.msg = frame[h].msg
    BY <1>1, <2>0 DEF Frames
  <2>2. pc'[h] = "approve" /\ frame'[h] = g
    BY <1>1, <1>5, <2>0, ReadStatusMoves, MovedLaw
  <2> QED
    BY <1>2, <1>3, <2>1, <2>2 DEF Locked
<1> QED
  BY <1>4, <1>5 DEF Follows, Reply, Approve, Acknowledge

LEMMA LockLaw ==
  ASSUME GatewayInvariant, NEW h \in Handlers, Lock(h)
  PROVE  LET m == frame[h].msg
         IN /\ m \in Messages /\ ~Locked(h) /\ Others(h) /\ frame'[h].msg = m
            /\ deliveries' = deliveries /\ receipts' = receipts /\ broken' = broken
            /\ \/ ~Locked(h)' /\ owner' = owner
               \/ /\ receipts[m] = NoReceipt /\ owner[sent[m].session] = None
                  /\ owner' = [owner EXCEPT ![sent[m].session] = h]
<1>0. PICK f, g : f = frame[h] /\ g = Cached(frame[h], receipts[frame[h].msg])
  OBVIOUS
<1>1. Typed /\ f \in Frames /\ f.msg \in Messages /\ ~Locked(h) /\ Others(h)
  BY <1>0, FrameLaw, InvariantParts, LockFits DEF Lock, Locked
<1>2. deliveries' = deliveries /\ receipts' = receipts /\ broken' = broken
  BY DEF Lock, history
<1>3. g.msg = f.msg
  BY <1>0, <1>1 DEF Cached, Frames
<1>4. CASE Moved(h, "answered", g) /\ owner' = owner
  BY <1>0, <1>1, <1>2, <1>3, <1>4, MovedLaw DEF Locked
<1>5. CASE /\ receipts[f.msg] = NoReceipt /\ owner[sent[f.msg].session] = None
           /\ owner' = [owner EXCEPT ![sent[f.msg].session] = h]
           /\ Moved(h, "open", f)
  BY <1>0, <1>1, <1>2, <1>5, MovedLaw
<1> QED
  BY <1>0, <1>1, <1>4, <1>5, LockMoves

LEMMA RecordAnswerLaw ==
  ASSUME GatewayInvariant, NEW h \in Handlers, RecordAnswer(h)
  PROVE  LET m == frame[h].msg
         IN /\ m \in Messages /\ Locked(h) /\ ~Locked(h)' /\ Others(h) /\ frame'[h].msg = m
            /\ deliveries' = deliveries /\ broken' = broken
            /\ owner' = [owner EXCEPT ![sent[m].session] = None]
<1>1. Typed /\ frame[h].msg \in Messages /\ Locked(h) /\ Others(h)
  BY FrameLaw, InvariantParts, RecordFits DEF RecordAnswer, Locked
<1>2. pc'[h] = "answered" /\ frame'[h] = frame[h]
  BY <1>1, RecordAnswerMoves, MovedLaw
<1> QED
  BY <1>1, <1>2 DEF RecordAnswer, Locked, history

LEMMA ReceiveLaw ==
  ASSUME GatewayInvariant, NEW h \in Handlers, NEW m \in Messages, Receive(h, m)
  PROVE  /\ ~Locked(h) /\ ~Locked(h)' /\ Others(h)
         /\ frame[h].msg \notin Messages /\ frame'[h].msg = m
         /\ deliveries' = [deliveries EXCEPT ![m] = @ + 1]
         /\ receipts' = receipts /\ owner' = owner /\ broken' = broken
<1>0. PICK f, g : f = [NoFrame EXCEPT !.msg = m] /\ g = Cached(f, receipts[m])
  OBVIOUS
<1>1. Typed /\ FrameSound(h) /\ pc[h] = "idle" /\ Others(h)
  BY InvariantParts, ReceiveFits DEF Receive
<1>2. f \in Frames /\ f.msg = m
  BY <1>0, FreshType DEF NoFrame
<1>3. g.msg = m
  BY <1>0, <1>2 DEF Cached, Frames
<1>4. Moved(h, "answered", g) \/ Moved(h, "lock", f)
  BY <1>0, <1>1, ReceiveMoves
<1>5. ~Locked(h)' /\ frame'[h].msg = m
  BY <1>1, <1>2, <1>3, <1>4, MovedLaw DEF Locked
<1> QED
  BY <1>1, <1>5 DEF Receive, FrameSound, Locked, history

LEMMA AbandonLaw ==
  ASSUME GatewayInvariant, NEW h \in Handlers, Raise(h) \/ Fail(h)
  PROVE  /\ frame[h].msg \in Messages /\ ~Locked(h)' /\ Others(h) /\ frame'[h] = NoFrame
         /\ receipts' = receipts
         /\ owner' = [s \in Sessions |-> IF owner[s] = h THEN None ELSE owner[s]]
         /\ broken' = IF Made(h) THEN [broken EXCEPT ![frame[h].msg] = @ + 1] ELSE broken
         /\ \/ deliveries' = deliveries
            \/ deliveries' = [deliveries EXCEPT ![frame[h].msg] = @ - 1]
<1>1. Typed /\ Others(h) /\ Abandon(h)
  BY InvariantParts, FollowFits DEF Raise, Fail
<1>2. frame[h].msg \in Messages
  BY FrameLaw DEF Raise, Fail
<1>3. pc'[h] = "idle" /\ frame'[h] = NoFrame
  BY <1>1, LeaveMoves, MovedLaw DEF Abandon
<1>4. deliveries' = deliveries \/ deliveries' = [deliveries EXCEPT ![frame[h].msg] = @ - 1]
  BY DEF Raise, Fail
<1> QED
  BY <1>1, <1>2, <1>3, <1>4 DEF Abandon, Locked

(* What the worker does, and a stutter, concern no thread.                 *)
LEMMA WorkerLaw ==
  ASSUME \/ \E i \in 1..Len(issues) : PollStarts(i)
         \/ \E k \in 1..Len(tasks) : TaskEnds(k) \/ TaskStops(k)
         \/ UNCHANGED vars
  PROVE  /\ pc' = pc /\ frame' = frame /\ owner' = owner /\ receipts' = receipts
         /\ deliveries' = deliveries /\ broken' = broken /\ issues' = issues
BY DEF PollStarts, TaskEnds, TaskStops, vars, history

LEMMA CrashesAll ==
  ASSUME Crash, NEW h \in Handlers
  PROVE  ~Locked(h)' /\ frame'[h] = NoFrame
BY DEF Crash, Locked

----------------------------------------------------------------------------
(* Who works has the lock: of two threads, one holds it.                   *)
Holds(g) == owner[sent[frame[g].msg].session] = g

LEMMA HoldsStays ==
  ASSUME NEW g, sent' = sent, frame'[g].msg = frame[g].msg, Holds(g),
         owner'[sent[frame[g].msg].session] = owner[sent[frame[g].msg].session]
  PROVE  Holds(g)'
BY DEF Holds

LEMMA LocksStep ==
  ASSUME GatewayInvariant, [Next]_vars
  PROVE  LocksHeld'
<1>1. /\ Typed /\ TypeOK /\ sent' = sent
      /\ \A g \in Handlers : Locked(g) => Holds(g) /\ frame[g].msg \in Messages
  BY InvariantParts, RunsGrow, FrameLaw DEF LocksHeld, Holds, Locked
<1>2. SUFFICES ASSUME NEW g \in Handlers, Locked(g)' PROVE Holds(g)'
  BY DEF LocksHeld, Holds, Locked
<1>3. /\ Locked(g) => sent[frame[g].msg].session \in Sessions
      /\ owner \in [Sessions -> Handlers \cup {None}] /\ None \notin Handlers
  BY <1>1, MessageLaw, NoneAssumption DEF Typed
<1>4. CASE pc' = pc /\ frame' = frame /\ owner' = owner
  BY <1>1, <1>2, <1>4 DEF Holds, Locked
<1>5. ASSUME NEW h \in Handlers, Others(h), g # h
      PROVE  Locked(g) /\ Holds(g) /\ frame'[g].msg = frame[g].msg
  BY <1>1, <1>2, <1>5 DEF Others, Locked
<1>6. ASSUME NEW h \in Handlers, Works(h) \/ Follows(h) PROVE Holds(g)'
  <2>1. CASE g = h
    BY <1>1, <1>2, <1>6, <2>1, WorksLaw, FollowsLaw, HoldsStays
  <2>2. CASE g # h
    BY <1>1, <1>5, <1>6, <2>2, WorksLaw, FollowsLaw, HoldsStays
  <2> QED
    BY <2>1, <2>2
<1>7. ASSUME NEW h \in Handlers, Lock(h) PROVE Holds(g)'
  <2>0. PICK m : m = frame[h].msg
    OBVIOUS
  <2>1. /\ m \in Messages /\ Others(h) /\ frame'[h].msg = m
        /\ \/ ~Locked(h)' /\ owner' = owner
           \/ owner[sent[m].session] = None /\ owner' = [owner EXCEPT ![sent[m].session] = h]
    BY <1>7, <2>0, LockLaw
  <2>2. sent[m].session \in Sessions
    BY <1>1, <2>1, MessageLaw
  <2>3. CASE g = h
    BY <1>1, <1>2, <1>3, <2>1, <2>2, <2>3 DEF Holds
  <2>4. CASE g # h
    <3>1. Locked(g) /\ Holds(g) /\ frame'[g].msg = frame[g].msg
      BY <1>5, <2>1, <2>4
    <3>2. sent[frame[g].msg].session # sent[m].session \/ owner' = owner
      BY <1>3, <2>1, <3>1 DEF Holds
    <3>3. owner'[sent[frame[g].msg].session] = owner[sent[frame[g].msg].session]
      BY <1>3, <2>1, <3>1, <3>2
    <3> QED
      BY <1>1, <3>1, <3>3, HoldsStays
  <2> QED
    BY <2>3, <2>4
<1>8. ASSUME NEW h \in Handlers, RecordAnswer(h) PROVE Holds(g)'
  <2>0. PICK m : m = frame[h].msg
    OBVIOUS
  <2>1. /\ Others(h) /\ ~Locked(h)' /\ Locked(h)
        /\ owner' = [owner EXCEPT ![sent[m].session] = None]
    BY <1>8, <2>0, RecordAnswerLaw
  <2>2. g # h
    BY <1>2, <2>1
  <2>3. Locked(g) /\ Holds(g) /\ frame'[g].msg = frame[g].msg
    BY <1>5, <2>1, <2>2
  <2>4. sent[frame[g].msg].session # sent[m].session
    BY <1>1, <2>0, <2>1, <2>2, <2>3 DEF Holds
  <2>5. owner'[sent[frame[g].msg].session] = owner[sent[frame[g].msg].session]
    BY <1>3, <2>1, <2>3, <2>4
  <2> QED
    BY <1>1, <2>3, <2>5, HoldsStays
<1>9. ASSUME NEW h \in Handlers, NEW m \in Messages, Receive(h, m) PROVE Holds(g)'
  <2>1. ~Locked(h)' /\ Others(h) /\ owner' = owner
    BY <1>9, ReceiveLaw
  <2>2. g # h
    BY <1>2, <2>1
  <2> QED
    BY <1>1, <1>5, <2>1, <2>2, HoldsStays
<1>10. ASSUME NEW h \in Handlers, Raise(h) \/ Fail(h) PROVE Holds(g)'
  <2>1. /\ ~Locked(h)' /\ Others(h)
        /\ owner' = [s \in Sessions |-> IF owner[s] = h THEN None ELSE owner[s]]
    BY <1>10, AbandonLaw
  <2>2. g # h
    BY <1>2, <2>1
  <2>3. Locked(g) /\ Holds(g) /\ frame'[g].msg = frame[g].msg
    BY <1>5, <2>1, <2>2
  <2>4. owner'[sent[frame[g].msg].session] = owner[sent[frame[g].msg].session]
    BY <1>3, <2>1, <2>2, <2>3 DEF Holds
  <2> QED
    BY <1>1, <2>3, <2>4, HoldsStays
<1> QED
  BY <1>2, <1>4, <1>6, <1>7, <1>8, <1>9, <1>10, StepsSplit, ThreadsSplit, WorkerLaw, CrashesAll
----------------------------------------------------------------------------
(* A receipt is written once, by the thread that holds the lock.           *)
LEMMA ReceiptsStep ==
  ASSUME GatewayInvariant, [Next]_vars
  PROVE  ReceiptsSound'
<1>1. /\ Typed /\ ReceiptsSound /\ sent' = sent
      /\ \A g \in Handlers : Locked(g) => Holds(g) /\ frame[g].msg \in Messages
  BY InvariantParts, RunsGrow, FrameLaw DEF LocksHeld, Holds, Locked
<1>2. ASSUME NEW m \in Messages
      PROVE  receipts'[m].task[1] = "parent" => RouteTo(m)'.intent # "sleep_coding"
  <2>1. RouteTo(m)' = RouteTo(m)
    BY ScopeGrows
  <2>2. receipts[m].task[1] = "parent" => RouteTo(m).intent # "sleep_coding"
    BY <1>1 DEF ReceiptsSound
  <2>3. ASSUME NEW h \in Handlers, RecordAnswer(h)
        PROVE  receipts'[m].task[1] = "parent" => RouteTo(m).intent # "sleep_coding"
    <3>1. frame[h].task[1] = "parent" => RouteTo(frame[h].msg).intent # "sleep_coding"
      BY InvariantParts DEF FrameSound
    <3>2. receipts'[m] = receipts[m] \/ (m = frame[h].msg /\ receipts'[m].task = frame[h].task)
      <4>1. Answer(h).task = frame[h].task
        BY DEF Answer
      <4> QED
        BY <1>1, <2>3, <4>1, AnswerWritten
    <3>3. CASE receipts'[m] = receipts[m]
      BY <2>2, <3>3
    <3>4. CASE m = frame[h].msg /\ receipts'[m].task = frame[h].task
      BY <3>1, <3>4, Zenon
    <3> QED
      BY <3>2, <3>3, <3>4
  <2> QED
    BY <2>1, <2>2, <2>3, ReceiptsKept
<1>3. ASSUME NEW g \in Handlers, Locked(g)' PROVE receipts'[frame'[g].msg] = NoReceipt
  <2>1. \A x \in Handlers : Locked(x) => receipts[frame[x].msg] = NoReceipt
    BY <1>1 DEF ReceiptsSound
  <2>2. CASE pc' = pc /\ frame' = frame /\ receipts' = receipts
    BY <1>3, <2>1, <2>2 DEF Locked
  <2>3. ASSUME NEW h \in Handlers, Others(h), g # h
        PROVE  Locked(g) /\ frame'[g] = frame[g]
    BY <1>3, <2>3 DEF Others, Locked
  <2>4. ASSUME NEW h \in Handlers, Works(h) \/ Follows(h)
        PROVE  receipts'[frame'[g].msg] = NoReceipt
    <3>1. CASE g = h
      BY <1>3, <2>1, <2>4, <3>1, WorksLaw, FollowsLaw
    <3>2. CASE g # h
      BY <2>1, <2>3, <2>4, <3>2, WorksLaw, FollowsLaw
    <3> QED
      BY <3>1, <3>2
  <2>5. ASSUME NEW h \in Handlers, Lock(h) PROVE receipts'[frame'[g].msg] = NoReceipt
    <3>1. /\ Others(h) /\ frame'[h].msg = frame[h].msg /\ receipts' = receipts
          /\ ~Locked(h)' \/ receipts[frame[h].msg] = NoReceipt
      BY <2>5, LockLaw
    <3>2. CASE g = h
      BY <1>3, <3>1, <3>2
    <3>3. CASE g # h
      BY <2>1, <2>3, <3>1, <3>3
    <3> QED
      BY <3>2, <3>3
  <2>6. ASSUME NEW h \in Handlers, RecordAnswer(h) PROVE receipts'[frame'[g].msg] = NoReceipt
    <3>1. Others(h) /\ ~Locked(h)' /\ Locked(h)
      BY <2>6, RecordAnswerLaw
    <3>2. g # h
      BY <1>3, <3>1
    <3>3. Locked(g) /\ frame'[g] = frame[g] /\ Holds(g) /\ Holds(h) /\ frame[g].msg \in Messages
      BY <1>1, <2>3, <3>1, <3>2
    <3>4. frame[g].msg # frame[h].msg
      BY <3>2, <3>3 DEF Holds
    <3> QED
      BY <1>1, <2>1, <2>6, <3>3, <3>4, AnswerWritten
  <2>7. ASSUME NEW h \in Handlers,
               Raise(h) \/ Fail(h) \/ \E m \in Messages : Receive(h, m)
        PROVE  receipts'[frame'[g].msg] = NoReceipt
    <3>1. Others(h) /\ ~Locked(h)' /\ receipts' = receipts
      BY <2>7, AbandonLaw, ReceiveLaw
    <3> QED
      BY <1>3, <2>1, <2>3, <3>1
  <2> QED
    BY <1>3, <2>2, <2>4, <2>5, <2>6, <2>7, StepsSplit, ThreadsSplit, WorkerLaw, CrashesAll
<1> QED
  BY <1>2, <1>3 DEF ReceiptsSound, Locked

----------------------------------------------------------------------------
(* Every thread that handles a message is one of its deliveries.           *)
LEMMA HandlingStays ==
  ASSUME NEW h \in Handlers, Others(h), NEW m \in Messages,
         frame'[h].msg = frame[h].msg \/ frame'[h] = NoFrame
  PROVE  Handling(m)' \subseteq Handling(m)
BY NoneAssumption DEF Handling, Others, NoFrame

LEMMA HandlingShrinks ==
  ASSUME GatewayInvariant, NEW m \in Messages, NEW S \in SUBSET Handling(m)
  PROVE  IsFiniteSet(S) /\ Cardinality(S) \in Nat /\ Cardinality(S) <= deliveries[m]
         /\ \A h \in Handling(m) \ S : Cardinality(S) <= deliveries[m] - 1
<1>1. /\ IsFiniteSet(Handling(m)) /\ Cardinality(Handling(m)) \in Nat
      /\ deliveries[m] \in Nat /\ Cardinality(Handling(m)) <= deliveries[m]
  BY HandlingLaw
<1>2. IsFiniteSet(S) /\ Cardinality(S) \in Nat /\ Cardinality(S) <= Cardinality(Handling(m))
  BY <1>1, FS_Subset, FS_CardinalityType
<1>3. ASSUME NEW h \in Handling(m) \ S PROVE Cardinality(S) <= deliveries[m] - 1
  <2>1. IsFiniteSet(S \cup {h}) /\ Cardinality(S \cup {h}) = Cardinality(S) + 1
    BY <1>2, <1>3, FS_AddElement
  <2>2. Cardinality(S \cup {h}) <= Cardinality(Handling(m))
    BY <1>1, <1>3, FS_Subset
  <2> QED
    BY <1>1, <1>2, <2>1, <2>2
<1> QED
  BY <1>1, <1>2, <1>3

LEMMA DeliveriesStep ==
  ASSUME GatewayInvariant, [Next]_vars
  PROVE  DeliveriesCounted'
<1>1. Typed /\ \A h \in Handlers : frame[h] \in Frames
  BY InvariantParts, FrameLaw
<1>2. SUFFICES ASSUME NEW m \in Messages PROVE Cardinality(Handling(m)') <= deliveries'[m]
  BY DEF DeliveriesCounted
<1>3. ASSUME NEW h \in Handlers, Others(h), deliveries' = deliveries,
             frame'[h].msg = frame[h].msg \/ frame'[h] = NoFrame
      PROVE  Cardinality(Handling(m)') <= deliveries'[m]
  BY <1>3, HandlingStays, HandlingShrinks
<1>4. CASE frame' = frame /\ deliveries' = deliveries
  BY <1>4, HandlingLaw DEF Handling
<1>5. ASSUME NEW h \in Handlers, Works(h) \/ Follows(h) \/ Lock(h) \/ RecordAnswer(h)
      PROVE  Cardinality(Handling(m)') <= deliveries'[m]
  BY <1>3, <1>5, WorksLaw, FollowsLaw, LockLaw, RecordAnswerLaw
<1>6. ASSUME NEW h \in Handlers, NEW n \in Messages, Receive(h, n)
      PROVE  Cardinality(Handling(m)') <= deliveries'[m]
  <2>1. /\ Others(h) /\ frame[h].msg \notin Messages /\ frame'[h].msg = n
        /\ deliveries' = [deliveries EXCEPT ![n] = @ + 1]
    BY <1>6, ReceiveLaw
  <2>2. Handling(m)' = IF m = n THEN Handling(m) \cup {h} ELSE Handling(m)
    BY <2>1 DEF Handling, Others
  <2>3. deliveries'[m] = IF m = n THEN deliveries[m] + 1 ELSE deliveries[m]
    BY <1>1, <2>1 DEF Typed
  <2>4. /\ IsFiniteSet(Handling(m)) /\ Cardinality(Handling(m)) \in Nat
        /\ deliveries[m] \in Nat /\ Cardinality(Handling(m)) <= deliveries[m]
    BY HandlingLaw
  <2>5. h \notin Handling(m)
    BY <2>1 DEF Handling
  <2>6. Cardinality(Handling(m) \cup {h}) = Cardinality(Handling(m)) + 1
    BY <2>4, <2>5, FS_AddElement
  <2>7. CASE m = n
    BY <2>2, <2>3, <2>4, <2>6, <2>7
  <2>8. CASE m # n
    BY <2>2, <2>3, <2>4, <2>8
  <2> QED
    BY <2>7, <2>8
<1>7. ASSUME NEW h \in Handlers, Raise(h) \/ Fail(h)
      PROVE  Cardinality(Handling(m)') <= deliveries'[m]
  <2>0. PICK n, S : n = frame[h].msg /\ S = Handling(m)'
    OBVIOUS
  <2>1. /\ Others(h) /\ frame'[h] = NoFrame /\ n \in Messages
        /\ \/ deliveries' = deliveries
           \/ deliveries' = [deliveries EXCEPT ![n] = @ - 1]
    BY <1>7, <2>0, AbandonLaw
  <2>2. S \subseteq Handling(m) /\ h \notin S
    <3>1. Handling(m)' \subseteq Handling(m)
      BY <2>1, HandlingStays
    <3>2. S \subseteq Handling(m)
      BY <2>0, <3>1
    <3> QED
      BY <2>0, <2>1, <3>2, NoneAssumption DEF Handling, NoFrame
  <2>3. m = n => h \in Handling(m)
    BY <2>0 DEF Handling
  <2>4. Cardinality(S) <= deliveries[m] /\ (m = n => Cardinality(S) <= deliveries[m] - 1)
    BY <2>2, <2>3, HandlingShrinks
  <2>5. deliveries'[m] = deliveries[m] \/ (m = n /\ deliveries'[m] = deliveries[m] - 1)
    BY <1>1, <2>1 DEF Typed
  <2>6. Cardinality(S) <= deliveries'[m]
    BY <2>4, <2>5
  <2> QED
    BY <2>0, <2>6
<1>8. CASE Crash
  <2>1. Handling(m)' = {}
    BY <1>8, NoneAssumption DEF Crash, Handling, NoFrame
  <2>2. deliveries'[m] = deliveries[m] - Cardinality(Handling(m))
    BY <1>8 DEF Crash, Handling
  <2>3. /\ Cardinality(Handling(m)) \in Nat /\ deliveries[m] \in Nat
        /\ Cardinality(Handling(m)) <= deliveries[m]
    BY HandlingLaw
  <2>4. Cardinality({}) = 0
    BY FS_EmptySet
  <2> QED
    BY <2>1, <2>2, <2>3, <2>4
<1> QED
  BY <1>4, <1>5, <1>6, <1>7, <1>8, StepsSplit, ThreadsSplit, WorkerLaw
----------------------------------------------------------------------------
(* The work of a message is accounted for.                                 *)
Carried(m) == receipts[m] # NoReceipt \/ \E g \in Handling(m) : Made(g)

Counted(m) == Cardinality(WorkOf(m)) <= broken[m] + (IF Carried(m) THEN 1 ELSE 0)

LEMMA CountedLaw == WorkCounted <=> \A m \in Messages : Keyed(m) => Counted(m)
BY DEF WorkCounted, Counted, Carried

LEMMA WorkTypes ==
  ASSUME Typed, NEW m
  PROVE  IsFiniteSet(WorkOf(m)) /\ Cardinality(WorkOf(m)) \in Nat
<1>1. IsFiniteSet(1..Len(issues))
  BY LengthTypes, FS_Interval
<1>2. IsFiniteSet(WorkOf(m))
  BY <1>1, FS_Subset DEF WorkOf
<1> QED
  BY <1>2, FS_CardinalityType

(* Nothing new, and what carried the work still does or is counted.        *)
LEMMA CountKept ==
  ASSUME NEW w \in Nat, NEW b \in Nat, NEW c \in Nat, NEW C, NEW D,
         w <= b + (IF C THEN 1 ELSE 0), b <= c, C => D \/ c >= b + 1
  PROVE  w <= c + (IF D THEN 1 ELSE 0)
OBVIOUS

LEMMA CountedKept ==
  ASSUME GatewayInvariant, [Next]_vars, NEW m \in Messages, Keyed(m), WorkOf(m)' = WorkOf(m),
         broken[m] <= broken'[m], Carried(m) => Carried(m)' \/ broken'[m] >= broken[m] + 1
  PROVE  Counted(m)'
<1>0. PICK w, b, c : w = Cardinality(WorkOf(m)) /\ b = broken[m] /\ c = broken'[m]
  OBVIOUS
<1>1. Typed /\ Typed' /\ Counted(m)
  BY InvariantParts, TypedStep, CountedLaw
<1>2. w \in Nat /\ b \in Nat /\ c \in Nat
  BY <1>0, <1>1, WorkTypes DEF Typed
<1>3. w <= b + (IF Carried(m) THEN 1 ELSE 0)
  BY <1>0, <1>1 DEF Counted
<1>4. w <= c + (IF Carried(m)' THEN 1 ELSE 0)
  BY <1>0, <1>2, <1>3, CountKept
<1> QED
  BY <1>0, <1>4 DEF Counted

LEMMA CarriedByOthers ==
  ASSUME NEW h \in Handlers, Others(h), NEW m, NEW g \in Handling(m), Made(g), g # h
  PROVE  g \in Handling(m)' /\ Made(g)'
BY DEF Others, Handling, Made, Locked

LEMMA CarriedOn ==
  ASSUME NEW h \in Handlers, Others(h), NEW m, receipts'[m] = receipts[m] \/ receipts'[m] # NoReceipt,
         Carried(m),
         h \in Handling(m) /\ Made(h) => (h \in Handling(m)' /\ Made(h)') \/ receipts'[m] # NoReceipt
  PROVE  Carried(m)'
<1>1. CASE receipts[m] # NoReceipt
  BY <1>1 DEF Carried
<1>2. ASSUME NEW g \in Handling(m), Made(g) PROVE Carried(m)'
  <2>1. CASE g = h
    BY <1>2, <2>1 DEF Carried
  <2>2. CASE g # h
    <3>1. g \in Handling(m)' /\ Made(g)'
      BY <1>2, <2>2, CarriedByOthers
    <3> QED
      BY <3>1 DEF Carried
  <2> QED
    BY <2>1, <2>2
<1> QED
  BY <1>1, <1>2 DEF Carried

(* Who is at work on a message alone has not made anything when it opens   *)
(* the issue: the lock keeps the others out.                               *)
LEMMA NothingYet ==
  ASSUME GatewayInvariant, NEW h \in Handlers, CreateIssue(h)
  PROVE  ~Carried(frame[h].msg)
<1>1. /\ LocksHeld /\ ReceiptsSound /\ FrameSound(h) /\ pc[h] = "intake" /\ Locked(h)
  BY InvariantParts DEF CreateIssue, Locked
<1>2. receipts[frame[h].msg] = NoReceipt /\ ~Made(h)
  BY <1>1 DEF ReceiptsSound, FrameSound, Made
<1>3. ASSUME NEW g \in Handling(frame[h].msg), Made(g) PROVE FALSE
  <2>1. g \in Handlers /\ Locked(g) /\ frame[g].msg = frame[h].msg
    BY <1>3 DEF Handling, Made
  <2>2. g = h
    BY <1>1, <2>1 DEF LocksHeld
  <2> QED
    BY <1>2, <1>3, <2>2
<1> QED
  BY <1>2, <1>3 DEF Carried

LEMMA CreateIssueCounts ==
  ASSUME GatewayInvariant, NEW h \in Handlers, CreateIssue(h), NEW m \in Messages, Keyed(m)
  PROVE  Counted(m)'
<1>0. PICK n, k : n = frame[h].msg /\ k = Len(issues) + 1
  OBVIOUS
<1>1. /\ Typed /\ Counted(m) /\ [Next]_vars /\ n \in Messages /\ Len(issues) \in Nat
      /\ issues' = Append(issues, [msg |-> n, parent |-> FALSE])
  BY <1>0, InvariantParts, CountedLaw, NextIsStep, CreateIssueDoes, LengthTypes DEF Writes
<1>2. /\ Len(issues') = k /\ issues'[k] = [msg |-> n, parent |-> FALSE]
      /\ \A i \in 1..Len(issues) : issues'[i] = issues[i]
  BY <1>0, <1>1, IssueAdded
<1>3. /\ Others(h) /\ frame'[h].msg = frame[h].msg /\ (Made(h) => Made(h)')
      /\ receipts' = receipts /\ broken' = broken
  BY WorksLaw DEF Works
<1>4. CASE m # n
  <2>1. WorkOf(m)' = WorkOf(m)
    BY <1>0, <1>1, <1>2, <1>4 DEF WorkOf
  <2>2. Carried(m) => Carried(m)'
    BY <1>3, CarriedOn DEF Handling
  <2>3. broken[m] <= broken'[m]
    BY <1>1, <1>3 DEF Typed
  <2> QED
    BY <1>1, <2>1, <2>2, <2>3, CountedKept
<1>5. CASE m = n
  <2>0. PICK S, b : S = WorkOf(m) /\ b = broken[m]
    OBVIOUS
  <2>1. WorkOf(m)' = S \cup {k} /\ k \notin S
    BY <1>0, <1>1, <1>2, <1>5, <2>0 DEF WorkOf
  <2>2. IsFiniteSet(S) /\ Cardinality(S) \in Nat /\ b \in Nat
    BY <1>1, <2>0, WorkTypes DEF Typed
  <2>3. Cardinality(S \cup {k}) = Cardinality(S) + 1
    BY <2>1, <2>2, FS_AddElement
  <2>4. ~Carried(m)
    BY <1>0, <1>5, NothingYet
  <2>5. Cardinality(S) <= b
    BY <1>1, <2>0, <2>2, <2>4 DEF Counted
  <2>6. Carried(m)'
    <3>1. frame'[h].issue = k /\ pc'[h] = "parent"
      <4>1. Moved(h, "parent", [frame[h] EXCEPT !.issue = k])
        BY <1>0, <1>1, CreateIssueMoves
      <4>2. pc'[h] = "parent" /\ frame'[h] = [frame[h] EXCEPT !.issue = k]
        BY <1>1, <4>1, MovedLaw
      <4> QED
        BY <4>2, FrameLaw DEF Frames
    <3>2. h \in Handling(m)' /\ Made(h)'
      BY <1>0, <1>1, <1>3, <1>5, <3>1 DEF Handling, Made, Locked
    <3> QED
      BY <3>2 DEF Carried
  <2>7. Cardinality(WorkOf(m)') <= b + 1
    BY <2>1, <2>2, <2>3, <2>5
  <2> QED
    BY <1>3, <2>0, <2>6, <2>7 DEF Counted
<1> QED
  BY <1>4, <1>5
(* No other step opens an issue.                                           *)
LEMMA SameWorkOf ==
  ASSUME GatewayInvariant, [Next]_vars, ~\E h \in Handlers : CreateIssue(h), NEW m
  PROVE  WorkOf(m)' = WorkOf(m)
<1>1. Typed
  BY InvariantParts
<1>2. SameIssues => WorkOf(m)' = WorkOf(m)
  BY DEF SameIssues, WorkOf
<1>3. issues' = issues => SameIssues
  BY <1>1, SameRows
<1>4. SameRecords => issues' = issues
  BY DEF SameRecords
<1>5. ASSUME NEW h \in Handlers, Writes(h), ~CreateIssue(h) PROVE SameIssues
  <2>1. CASE CreateParent(h)
    BY <1>1, <2>1, CreateParentDoes, ParentMade
  <2>2. CASE EnterAsParent(h) \/ StartTask(h) \/ PlanReady(h) \/ EnterAsTask(h) \/ Approve(h)
    BY <1>3, <2>2, EnterAsParentDoes, StartTaskDoes, PlanReadyDoes, EnterAsTaskDoes, ApproveDoes
  <2> QED
    BY <1>5, <2>1, <2>2 DEF Writes
<1> QED
  BY <1>2, <1>3, <1>4, <1>5, StepsSplit, QuietLaw, CrashLaw, WorkerLaw

(* An answer is never the empty receipt: it names its message.             *)
LEMMA AnswerIsReceipt ==
  ASSUME GatewayInvariant, NEW h \in Handlers, Locked(h), pc[h] # "open"
  PROVE  Answer(h) # NoReceipt
<1>1. frame[h].request[1] = frame[h].msg /\ frame[h].msg \in Messages
  BY FrameLaw DEF Locked
<1>2. frame[h].request # <<None, 0>>
  BY <1>1, NoneAssumption
<1> QED
  BY <1>2 DEF Answer, NoReceipt

LEMMA RecordAnswerCounts ==
  ASSUME GatewayInvariant, NEW h \in Handlers, RecordAnswer(h), NEW m \in Messages, Keyed(m)
  PROVE  Carried(m) => Carried(m)'
<1>1. /\ Typed /\ Others(h) /\ Locked(h) /\ frame[h].msg \in Messages /\ pc[h] = "turn"
  BY InvariantParts, RecordAnswerLaw DEF RecordAnswer
<1>2. Answer(h) # NoReceipt
  BY <1>1, AnswerIsReceipt
<1>3. receipts'[m] = receipts[m] \/ receipts'[m] # NoReceipt
  BY <1>1, <1>2, AnswerWritten
<1>4. m = frame[h].msg => receipts'[m] # NoReceipt
  <2>1. CASE m = frame[h].msg
    <3>1. receipts' = [receipts EXCEPT ![frame[h].msg] = Answer(h)]
      BY <2>1 DEF RecordAnswer
    <3>2. receipts'[m] = Answer(h)
      BY <1>1, <2>1, <3>1 DEF Typed
    <3> QED
      BY <1>2, <3>2
  <2> QED
    BY <2>1
<1> QED
  BY <1>1, <1>3, <1>4, CarriedOn DEF Handling

LEMMA AbandonCounts ==
  ASSUME GatewayInvariant, NEW h \in Handlers, Raise(h) \/ Fail(h), NEW m \in Messages
  PROVE  /\ broken[m] <= broken'[m]
         /\ Carried(m) => Carried(m)' \/ broken'[m] >= broken[m] + 1
<1>1. /\ Typed /\ Others(h) /\ receipts' = receipts /\ frame[h].msg \in Messages
      /\ broken' = IF Made(h) THEN [broken EXCEPT ![frame[h].msg] = @ + 1] ELSE broken
  BY InvariantParts, AbandonLaw
<1>2. broken \in [Messages -> Nat] /\ broken[m] \in Nat
  BY <1>1 DEF Typed
<1>3. CASE Made(h) /\ m = frame[h].msg
  <2>1. broken'[m] = broken[m] + 1
    BY <1>1, <1>2, <1>3
  <2> QED
    BY <1>2, <2>1
<1>4. CASE ~(Made(h) /\ m = frame[h].msg)
  <2>1. broken'[m] = broken[m]
    BY <1>1, <1>2, <1>4
  <2>2. Carried(m) => Carried(m)'
    BY <1>1, <1>4, CarriedOn DEF Handling
  <2> QED
    BY <1>2, <2>1, <2>2
<1> QED
  BY <1>3, <1>4

LEMMA CrashCounts ==
  ASSUME GatewayInvariant, Crash, NEW m \in Messages
  PROVE  /\ broken[m] <= broken'[m]
         /\ Carried(m) => Carried(m)' \/ broken'[m] >= broken[m] + 1
<1>0. PICK L : L = {h \in Handlers : frame[h].msg = m /\ Made(h)}
  OBVIOUS
<1>1. broken[m] \in Nat
  BY InvariantParts DEF Typed
<1>2. IsFiniteSet(L)
  BY <1>0, HandlerAssumption, FS_Subset
<1>3. Cardinality(L) \in Nat /\ (L # {} => Cardinality(L) # 0)
  BY <1>2, FS_CardinalityType, FS_EmptySet
<1>4. broken'[m] = broken[m] + Cardinality(L) /\ receipts' = receipts
  BY <1>0 DEF Crash
<1>5. CASE receipts[m] # NoReceipt
  <2>1. Carried(m)'
    BY <1>4, <1>5 DEF Carried
  <2> QED
    BY <1>1, <1>3, <1>4, <2>1
<1>6. CASE receipts[m] = NoReceipt
  <2>1. Carried(m) => L # {}
    BY <1>0, <1>6 DEF Carried, Handling
  <2> QED
    BY <1>1, <1>3, <1>4, <2>1
<1> QED
  BY <1>5, <1>6

LEMMA WorkStep ==
  ASSUME GatewayInvariant, [Next]_vars
  PROVE  WorkCounted'
<1>1. Typed /\ sent' = sent /\ Typed'
  BY InvariantParts, RunsGrow, TypedStep
<1>2. SUFFICES ASSUME NEW m \in Messages, Keyed(m) PROVE Counted(m)'
  BY <1>1 DEF WorkCounted, Counted, Carried, Keyed
<1>3. broken[m] \in Nat
  BY <1>1 DEF Typed
<1>4. CASE \E h \in Handlers : CreateIssue(h)
  BY <1>2, <1>4, CreateIssueCounts
<1>5. SUFFICES ASSUME ~\E h \in Handlers : CreateIssue(h)
               PROVE  /\ broken[m] <= broken'[m]
                      /\ Carried(m) => Carried(m)' \/ broken'[m] >= broken[m] + 1
  BY <1>2, <1>4, SameWorkOf, CountedKept
<1>6. ASSUME NEW h \in Handlers, Works(h) \/ Follows(h) \/ Lock(h)
      PROVE  broken' = broken /\ (Carried(m) => Carried(m)')
  <2>1. /\ Others(h) /\ receipts' = receipts /\ broken' = broken
        /\ Made(h) => frame'[h].msg = frame[h].msg /\ Made(h)'
    BY <1>6, WorksLaw, FollowsLaw, LockLaw DEF Made
  <2> QED
    BY <2>1, CarriedOn DEF Handling
<1>7. ASSUME NEW h \in Handlers, NEW n \in Messages, Receive(h, n)
      PROVE  broken' = broken /\ (Carried(m) => Carried(m)')
  <2>1. Others(h) /\ receipts' = receipts /\ broken' = broken /\ ~Made(h)
    BY <1>7, ReceiveLaw DEF Made
  <2> QED
    BY <2>1, CarriedOn
<1>8. ASSUME NEW h \in Handlers, RecordAnswer(h)
      PROVE  broken' = broken /\ (Carried(m) => Carried(m)')
  BY <1>2, <1>8, RecordAnswerCounts, RecordAnswerLaw
<1>9. CASE pc' = pc /\ frame' = frame /\ receipts' = receipts /\ broken' = broken
  <2>1. Carried(m) => Carried(m)'
    BY <1>9 DEF Carried, Handling, Made, Locked
  <2> QED
    BY <1>3, <1>9, <2>1
<1>10. broken' = broken /\ (Carried(m) => Carried(m)')
         => /\ broken[m] <= broken'[m]
            /\ Carried(m) => Carried(m)' \/ broken'[m] >= broken[m] + 1
  BY <1>3
<1> QED
  BY <1>6, <1>7, <1>8, <1>9, <1>10, AbandonCounts, CrashCounts, StepsSplit, ThreadsSplit, WorkerLaw

----------------------------------------------------------------------------
LEMMA InvariantInit == Init => GatewayInvariant
<1> SUFFICES ASSUME Init PROVE GatewayInvariant
  OBVIOUS
<1>1. Typed
  BY TypedInit
<1>2. /\ issues = <<[msg |-> None, parent |-> FALSE]>> /\ tasks = <<>>
      /\ active = Nobody /\ queued = <<>>
      /\ \A m \in Messages : receipts[m] = NoReceipt /\ deliveries[m] = 0 /\ broken[m] = 0
      /\ \A h \in Handlers : pc[h] = "idle" /\ frame[h] = NoFrame
  BY DEF Init
<1>3. /\ Len(issues) = 1 /\ issues[1].msg = None /\ issues[1].parent = FALSE
      /\ Len(tasks) = 0 /\ Elements(queued) = {}
  BY <1>2 DEF Elements
<1>4. NoReceipt.task = Nobody /\ NoFrame.msg = None
  BY DEF NoReceipt, NoFrame
<1>5. Lane = {Nobody} /\ Known(Nobody)
  BY <1>2, <1>3 DEF Lane, Known
<1>6. ReferencesExist
  BY <1>2, <1>3, <1>4, <1>5 DEF ReferencesExist
<1>7. \A h \in Handlers : ~Locked(h) /\ FrameSound(h)
  <2>1. \A h \in Handlers : FrameFits(pc[h], frame[h])
    BY <1>2, IdleFits
  <2> QED
    BY <1>2, <2>1, FitsLaw DEF Locked
<1>8. LocksHeld /\ ReceiptsSound
  BY <1>2, <1>4, <1>7 DEF LocksHeld, ReceiptsSound, Nobody
<1>9. DeliveriesCounted
  <2>1. \A m \in Messages : Handling(m) = {}
    BY <1>2, <1>4, NoneAssumption DEF Handling
  <2>2. Cardinality({}) = 0
    BY FS_EmptySet
  <2>3. \A m \in Messages : Cardinality(Handling(m)) = 0 /\ deliveries[m] = 0
    BY <1>2, <2>1, <2>2, Zenon
  <2> QED
    BY <2>3 DEF DeliveriesCounted
<1>10. LaneSound
  BY <1>2, <1>3 DEF LaneSound, NoRepeats
<1>11. WorkCounted
  <2>1. \A m \in Messages : WorkOf(m) = {}
    <3>1. \A i \in 1..Len(issues) : issues[i].msg = None
      BY <1>3
    <3> QED
      BY <3>1, NoneAssumption, Zenon DEF WorkOf
  <2>2. Cardinality({}) = 0
    BY FS_EmptySet
  <2>3. ASSUME NEW m \in Messages PROVE Counted(m)
    <3>1. Cardinality(WorkOf(m)) = 0 /\ broken[m] = 0
      BY <1>2, <2>1, <2>2
    <3>2. CASE Carried(m)
      BY <3>1, <3>2 DEF Counted
    <3>3. CASE ~Carried(m)
      BY <3>1, <3>3 DEF Counted
    <3> QED
      BY <3>2, <3>3
  <2> QED
    BY <2>3, CountedLaw
<1>12. ParentsHaveWork
  BY <1>3 DEF ParentsHaveWork
<1> QED
  BY <1>1, <1>6, <1>7, <1>8, <1>9, <1>10, <1>11, <1>12 DEF GatewayInvariant, TypeOK

LEMMA InvariantStep == GatewayInvariant /\ [Next]_vars => GatewayInvariant'
<1> SUFFICES ASSUME GatewayInvariant, [Next]_vars PROVE GatewayInvariant'
  OBVIOUS
<1>1. Typed' /\ ReferencesExist' /\ LocksHeld'
  BY TypedStep, ReferencesStep, LocksStep
<1>2. (\A h \in Handlers : FrameSound(h)') /\ ReceiptsSound' /\ DeliveriesCounted'
  BY FrameStep, ReceiptsStep, DeliveriesStep
<1>3. LaneSound' /\ WorkCounted' /\ ParentsHaveWork'
  BY LaneStep, WorkStep, ParentsStep
<1> QED
  BY <1>1, <1>2, <1>3 DEF GatewayInvariant, TypeOK

LEMMA InvariantHolds == Spec => []GatewayInvariant
BY InvariantInit, InvariantStep, PTL DEF Spec

(* Whatever the number of threads, messages, endpoints and issues: what    *)
(* the records refer to exists, and the thread that works for a message    *)
(* holds the lock of its session (gateway.py:64-74).                       *)
THEOREM GatewayTypeCorrect == Spec => []TypeOK
<1>1. GatewayInvariant => TypeOK
  BY DEF GatewayInvariant
<1> QED
  BY <1>1, InvariantHolds, PTL

(* A message with an id opens one issue, however often and however         *)
(* concurrently it is delivered, and one more only for an attempt that     *)
(* broke off after it had opened one (gateway.py:57-72, 150-152).          *)
THEOREM WorkOnce == Spec => []WorkIsDoneOnce
<1>1. GatewayInvariant => WorkIsDoneOnce
  <2> SUFFICES ASSUME GatewayInvariant, NEW m \in Messages, Keyed(m)
               PROVE  Cardinality(WorkOf(m)) <= 1 + broken[m]
    BY DEF WorkIsDoneOnce
  <2>1. Typed /\ Counted(m)
    BY InvariantParts, CountedLaw
  <2>2. Cardinality(WorkOf(m)) \in Nat /\ broken[m] \in Nat
    BY <2>1, WorkTypes DEF Typed
  <2> QED
    BY <2>1, <2>2 DEF Counted
<1> QED
  BY <1>1, InvariantHolds, PTL

(* No step changes an answer that was recorded (gateway.py:70-73, 151):    *)
(* the second look at the receipts is made under the lock.                 *)
THEOREM AnswersStay == Spec => AnswersAreStable
<1>1. GatewayInvariant /\ [Next]_vars =>
        [\A m \in Messages : receipts[m] # NoReceipt => receipts'[m] = receipts[m]]_vars
  <2> SUFFICES ASSUME GatewayInvariant, [Next]_vars, NEW m \in Messages, receipts[m] # NoReceipt
               PROVE  receipts'[m] = receipts[m]
    OBVIOUS
  <2>1. ASSUME NEW h \in Handlers, RecordAnswer(h) PROVE receipts'[m] = receipts[m]
    <3>1. Typed /\ Locked(h) /\ ReceiptsSound
      BY <2>1, InvariantParts, RecordAnswerLaw
    <3>2. receipts[frame[h].msg] = NoReceipt
      BY <3>1 DEF ReceiptsSound
    <3> QED
      BY <2>1, <3>1, <3>2, AnswerWritten
  <2> QED
    BY <2>1, ReceiptsKept
<1> QED
  BY <1>1, InvariantHolds, PTL DEF Spec, AnswersAreStable

(* A parent in the lane whose task the worker began after the parent had   *)
(* its place always has a task that is not over: it is not left behind     *)
(* (gateway.py:369, automation.py:841-852).                                *)
THEOREM LaneIsNotStuck == Spec => []LaneEntriesHaveWork
<1>1. GatewayInvariant => LaneEntriesHaveWork
  BY DEF GatewayInvariant, ParentsHaveWork, LaneEntriesHaveWork
<1> QED
  BY <1>1, InvariantHolds, PTL
=============================================================================
