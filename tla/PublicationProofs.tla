------------------------- MODULE PublicationProofs -------------------------
(***************************************************************************)
(* For every set of callers, every change and every number of rounds and   *)
(* failures: the MCP session keeps the promise of ToolCalls, nothing that  *)
(* is not validated reaches GitHub, what is in review is published, and a  *)
(* recorded pull request is open.                                          *)
(*                                                                         *)
(* The argument: every step is a step of the session (SessionMove) or      *)
(* leaves the session alone, so what concerns the session is shown apart   *)
(* from the round.  Of the round, RoundInvariant says for every place what *)
(* the places before it have established.                                  *)
(***************************************************************************)
EXTENDS Publication, TLAPS

(* What a step may do to the session.                                      *)
CallMove(c) ==
  \/ Ask(c) \/ Acquire(c) \/ CallerStep(c) \/ Take(c) \/ Answer(c)
  \/ Serve(c, "ok") \/ Serve(c, "refused")
  \/ \E error \in Breaks : SessionBreaks(c, error)

ThreadMove == Started \/ ThreadEnds \/ \E error \in Breaks : StartFails(error)

Untouched == UNCHANGED <<holder, session, cause, call>> /\ (UNCHANGED faults \/ Fault)

SessionMove ==
  \/ \E c \in Callers : CallMove(c)
  \/ ThreadMove
  \/ SessionsLost /\ Fault
  \/ Untouched

LEMMA FaultLaw ==
  ASSUME SessionTypeOK, UNCHANGED faults \/ Fault
  PROVE  faults' \in 0..MaxFaults
BY FaultAssumption DEF SessionTypeOK, Fault

(* Every step of the round is a step of its session, or none.              *)
LEMMA StepsOfSession == [Next]_vars => SessionMove
<1> USE CoderAssumption DEF SessionMove, sessionVars
<1> SUFFICES ASSUME [Next]_vars PROVE SessionMove
  OBVIOUS
<1>1. CASE UNCHANGED vars
  BY <1>1 DEF vars, Untouched
<1>2. CASE StartRound
  BY <1>2 DEF StartRound, Untouched
<1>3. CASE RoundStep
  <2>1. CASE EnsureBranch
    BY <2>1 DEF EnsureBranch, WorkspaceCall, Untouched
  <2>2. CASE PrepareWorktree \/ CaptureEvidence \/ ValidationPasses \/ CommitChanges \/ PushSkipped
    BY <2>2 DEF PrepareWorktree, CaptureEvidence, ValidationPasses, CommitChanges, PushSkipped, Untouched
  <2>3. CASE WriteArtifact
    BY <2>3 DEF WriteArtifact, Untouched
  <2>4. CASE ValidationFails
    BY <2>4 DEF ValidationFails, Cleaned, Untouched
  <2>5. CASE PushOverMcp
    BY <2>5 DEF PushOverMcp, WorkspaceCall, Untouched
  <2>6. CASE PushWithGit
    BY <2>6 DEF PushWithGit, Untouched
  <2>7. CASE OpenPullRequest
    BY <2>7 DEF OpenPullRequest, CallMove, Untouched
  <2>8. CASE PullRequestAnswered \/ Publish \/ LabelFails \/ RecordFailure
    BY <2>8 DEF PullRequestAnswered, Publish, LabelFails, RecordFailure, Untouched
  <2>9. CASE Label
    BY <2>9 DEF Label, CallMove
  <2> QED
    BY <1>3, <2>1, <2>2, <2>3, <2>4, <2>5, <2>6, <2>7, <2>8, <2>9 DEF RoundStep
<1>4. CASE ServeCoder
  BY <1>4 DEF ServeCoder, CallMove
<1>5. CASE SessionStep
  BY <1>5 DEF SessionStep, ThreadStep, CallMove, ThreadMove
<1>6. CASE ExecutionFails
  BY <1>6 DEF ExecutionFails, Untouched
<1>7. CASE \E c \in Callers : AskOther(c) \/ ServeOther(c)
  BY <1>7 DEF AskOther, ServeOther, CallMove
<1>8. CASE Review("ready") \/ Review("approved") \/ NextTask
  BY <1>8 DEF Review, NextTask, Untouched
<1>9. CASE Cancel
  BY <1>9 DEF Cancel, Cleaned, Untouched
<1>10. CASE Crash
  BY <1>10 DEF Crash
<1> QED
  BY <1>1, <1>2, <1>3, <1>4, <1>5, <1>6, <1>7, <1>8, <1>9, <1>10 DEF Next

(* The session's invariant.                                                *)
LEMMA SessionInvariantInit == SessionInit => SessionInvariant
BY FaultAssumption DEF SessionInit, SessionInvariant, SessionTypeOK, CallSound, Calls, NoCall, Sessions,
   Phases, Breaks

LEMMA CallMoveLaw ==
  ASSUME SessionInvariant, NEW c \in Callers, CallMove(c)
  PROVE  SessionInvariant'
<1>1. /\ SessionTypeOK /\ (session \in {"ending", "dead"} => cause \in Breaks)
      /\ \A d \in Callers : CallSound(call[d])
      /\ call \in [Callers -> Calls] /\ call[c] \in Calls /\ CallSound(call[c])
  BY DEF SessionInvariant, SessionTypeOK
<1>2. /\ UNCHANGED faults \/ Fault
      /\ session' \in Sessions /\ cause' \in Breaks \cup {"none"}
      /\ session' \in {"ending", "dead"} => cause' \in Breaks
      /\ session # "none" => session' # "none"
      /\ holder' \in Callers \cup {Nobody}
  BY <1>1 DEF CallMove, Ask, Acquire, CallerStep, Submit, Reconnect, Return, Take, Answer, Serve,
     SessionBreaks, SessionTypeOK, Ensured, Sessions, Breaks, To
<1> DEFINE Replaced == /\ call' = [call EXCEPT ![c] = call'[c]]
                       /\ call'[c] \in Calls
                       /\ CallSound(call[c])'
<1>3. Replaced
  <2>1. CASE Ask(c)
    BY <1>1, <2>1 DEF Ask, NoCall, Calls, Phases, CallSound
  <2>2. CASE Acquire(c)
    BY <1>1, <2>2 DEF Acquire, To, Calls, Phases, CallSound, Ensured
  <2>3. CASE Submit(c)
    BY <1>1, <2>3 DEF Submit, Alive, Calls, Phases, CallSound, Breaks, SessionTypeOK, Sessions
  <2>4. CASE Reconnect(c)
    BY <1>1, <2>4 DEF Reconnect, Recoverable, Calls, Phases, CallSound, Ensured, Breaks
  <2>5. CASE Return(c)
    BY <1>1, <2>5 DEF Return, To, Calls, Phases, CallSound
  <2>6. CASE Take(c) \/ Answer(c)
    BY <1>1, <2>6 DEF Take, Answer, To, Calls, Phases, CallSound
  <2>7. CASE Serve(c, "ok") \/ Serve(c, "refused")
    BY <1>1, <2>7 DEF Serve, Calls, Phases, CallSound
  <2>8. ASSUME NEW error \in Breaks, SessionBreaks(c, error) PROVE Replaced
    BY <1>1, <2>8 DEF SessionBreaks, Calls, Phases, CallSound, Breaks
  <2> QED
    BY <2>1, <2>2, <2>3, <2>4, <2>5, <2>6, <2>7, <2>8 DEF CallMove, CallerStep
<1>5. call' \in [Callers -> Calls]
  BY <1>1, <1>3 DEF SessionTypeOK
<1>6. ASSUME NEW d \in Callers PROVE CallSound(call[d])'
  <2>1. CASE d = c
    BY <1>3, <2>1
  <2>2. CASE d # c
    BY <1>1, <1>2, <1>3, <2>2 DEF SessionTypeOK, CallSound
  <2> QED
    BY <2>1, <2>2
<1> QED
  BY <1>1, <1>2, <1>5, <1>6, FaultLaw DEF SessionInvariant, SessionTypeOK

LEMMA SessionInvariantStep == SessionInvariant /\ SessionMove => SessionInvariant'
<1> SUFFICES ASSUME SessionInvariant, SessionMove PROVE SessionInvariant'
  OBVIOUS
<1>1. /\ SessionTypeOK /\ (session \in {"ending", "dead"} => cause \in Breaks)
      /\ \A d \in Callers : CallSound(call[d])
  BY DEF SessionInvariant
<1>2. CASE \E c \in Callers : CallMove(c)
  BY <1>2, CallMoveLaw
<1>3. CASE ThreadMove
  <2>1. /\ UNCHANGED <<holder, call>> /\ (UNCHANGED faults \/ Fault)
        /\ session' \in Sessions \ {"none"} /\ cause' \in Breaks \cup {"none"}
        /\ session' \in {"ending", "dead"} => cause' \in Breaks
    BY <1>1, <1>3 DEF ThreadMove, Started, ThreadEnds, StartFails, SessionTypeOK, Sessions
  <2> QED
    BY <1>1, <2>1, FaultLaw DEF SessionInvariant, SessionTypeOK, CallSound
<1>4. CASE SessionsLost /\ Fault
  BY <1>1, <1>4, FaultLaw DEF SessionsLost, SessionInvariant, SessionTypeOK, CallSound, Calls, NoCall,
     Sessions, Phases, Breaks
<1>5. CASE Untouched
  BY <1>1, <1>5, FaultLaw DEF Untouched, SessionInvariant, SessionTypeOK, CallSound
<1> QED
  BY <1>2, <1>3, <1>4, <1>5 DEF SessionMove

(* The promise of ToolCalls: a step of the session is one of its steps, or *)
(* none that it knows of.                                                  *)
LEMMA PromiseInit == SessionInit => Promise!Init
BY DEF SessionInit, Promise!Init, NoCall

LEMMA PromiseStep == SessionInvariant /\ SessionMove => [Promise!Next]_(Promise!vars)
<1> SUFFICES ASSUME SessionInvariant, SessionMove PROVE [Promise!Next]_(Promise!vars)
  OBVIOUS
<1>1. call \in [Callers -> Calls] /\ \A d \in Callers : CallSound(call[d])
  BY DEF SessionInvariant, SessionTypeOK
<1>2. ASSUME NEW c \in Callers, CallMove(c) PROVE [Promise!Next]_(Promise!vars)
  <2>1. CASE Ask(c)
    <3>1. Promise!Ask(c)
      BY <1>1, <2>1 DEF Ask, Promise!Ask, NoCall, Calls
    <3> QED
      BY <3>1 DEF Promise!Next
  <2>2. CASE Serve(c, "ok") \/ Serve(c, "refused")
    <3>1. Promise!Run(c)
      BY <1>1, <2>2 DEF Serve, Promise!Run, Calls, CallSound
    <3> QED
      BY <3>1 DEF Promise!Next
  <2>3. CASE Return(c)
    <3>1. call[c].reply \in {"ok", "refused"} \cup Breaks
      BY <1>1, <2>3 DEF Return, CallSound
    <3>2. Promise!End(c, call[c].reply)
      BY <1>1, <2>3, <3>1 DEF Return, To, Promise!End, Promise!ToolResults, Calls, CallSound, Breaks
    <3>3. call[c].reply \in Promise!ToolResults \cup Promise!Errors
      BY <3>1 DEF Promise!ToolResults, Promise!Errors, Breaks
    <3>4. \E how \in Promise!ToolResults \cup Promise!Errors : Promise!End(c, how)
      BY <3>2, <3>3 DEF Promise!End
    <3> QED
      BY <3>4 DEF Promise!Next
  <2>4. ASSUME \/ Acquire(c) \/ Submit(c) \/ Reconnect(c) \/ Take(c) \/ Answer(c)
               \/ \E error \in Breaks : SessionBreaks(c, error)
        PROVE  UNCHANGED Promise!vars
    <3> DEFINE Hidden == /\ call[c].phase # "idle" /\ call'[c].phase # "idle"
                         /\ call'[c].runs = call[c].runs
                         /\ \A d \in Callers \ {c} : call'[d] = call[d]
                         /\ DOMAIN call' = Callers
    <3>1. ASSUME Acquire(c) \/ Take(c) \/ Answer(c) PROVE Hidden
      BY <1>1, <3>1 DEF Acquire, Take, Answer, To, Calls
    <3>2. ASSUME Submit(c) PROVE Hidden
      BY <1>1, <3>2 DEF Submit, Calls
    <3>3. ASSUME Reconnect(c) PROVE Hidden
      BY <1>1, <3>3 DEF Reconnect, Calls
    <3>4. ASSUME NEW error \in Breaks, SessionBreaks(c, error) PROVE Hidden
      BY <1>1, <3>4 DEF SessionBreaks, Calls
    <3>5. Hidden
      BY <2>4, <3>1, <3>2, <3>3, <3>4
    <3>6. {d \in Callers : call'[d].phase # "idle"} = {d \in Callers : call[d].phase # "idle"}
      BY <3>5
    <3>7. [d \in Callers |-> call'[d].runs] = [d \in Callers |-> call[d].runs]
      BY <3>5
    <3>8. [d \in Callers |-> IF call'[d].phase = "idle" THEN call'[d].reply ELSE "none"]
          = [d \in Callers |-> IF call[d].phase = "idle" THEN call[d].reply ELSE "none"]
      BY <3>5
    <3> QED
      BY <3>6, <3>7, <3>8 DEF Promise!vars
  <2> QED
    BY <1>2, <2>1, <2>2, <2>3, <2>4 DEF CallMove, CallerStep
<1>3. CASE ThreadMove \/ Untouched
  BY <1>3 DEF ThreadMove, Started, ThreadEnds, StartFails, Untouched, Promise!vars
<1>4. CASE SessionsLost /\ Fault
  <2>1. Promise!Restart
    BY <1>4 DEF SessionsLost, Promise!Restart, NoCall
  <2> QED
    BY <2>1 DEF Promise!Next
<1> QED
  BY <1>2, <1>3, <1>4 DEF SessionMove

(* A call_tool that returns a result has run the tool, and no call runs it *)
(* more than twice, for any number of threads that share the session       *)
(* (app/runtime/mcp.py:132-141).                                           *)
THEOREM SessionKeepsPromise == Spec => ImplementsToolCalls
<1>1. Init => SessionInvariant /\ Promise!Init
  BY SessionInvariantInit, PromiseInit DEF Init
<1>2. SessionInvariant /\ [Next]_vars => SessionInvariant' /\ [Promise!Next]_(Promise!vars)
  BY StepsOfSession, SessionInvariantStep, PromiseStep
<1> QED
  BY <1>1, <1>2, PTL DEF Spec, ImplementsToolCalls, Promise!Spec

----------------------------------------------------------------------------
(* The round.  Contents and worktrees are closed under what it does.       *)
LEMMA ContentLaws ==
  /\ Nothing \in Contents /\ Fresh \in Trees /\ NoTree \in Trees
  /\ round \in Rounds =>
       \A files \in Contents, names \in SUBSET Paths : Written(files, names) \in Contents
  /\ \A files \in Contents, names \in SUBSET Paths : Only(files, names) \in Contents
  /\ \A files, pushed \in Contents : Onto(files, pushed) \in Contents
<1>1. 0 \in Rounds
  BY RoundAssumption DEF Rounds
<1> QED
  BY <1>1 DEF Contents, Trees, Nothing, Fresh, NoTree, Written, Only, Onto

LEMMA FilesLaw ==
  ASSUME worktree \in Trees, NEW files \in Contents
  PROVE  [worktree EXCEPT !.files = files] \in Trees
BY DEF Trees

LEMMA RemoteLaw ==
  ASSUME remote \in Trees, NEW files \in Contents
  PROVE  /\ [remote EXCEPT !.files = files] \in Trees
         /\ [remote EXCEPT !.exists = TRUE] \in Trees
BY DEF Trees

LEMMA TypeInit == Init => TypeOK
<1> SUFFICES ASSUME Init PROVE TypeOK
  OBVIOUS
<1>1. SessionTypeOK
  BY SessionInvariantInit DEF Init, SessionInvariant
<1>2. row \in [status : {"ready", "in_review"} \cup Ends, evidence : Contents, pr : BOOLEAN]
  BY ContentLaws DEF Init, NewRow
<1>3. round \in Rounds /\ validated \in SUBSET Rounds /\ attempt \in 0..3
  BY RoundAssumption DEF Init, Rounds
<1> QED
  BY <1>1, <1>2, <1>3, ContentLaws, ModeAssumption DEF Init, TypeOK

(* What a step that leaves the round where it is may change.               *)
Elsewhere == UNCHANGED <<mode, row, step, round, change, github, attempt, poisoned, refused>>

LEMMA TypeStep == TypeOK /\ AttemptsLeft /\ [Next]_vars /\ SessionTypeOK' => TypeOK'
<1> SUFFICES ASSUME TypeOK, AttemptsLeft, [Next]_vars, SessionTypeOK' PROVE TypeOK'
  OBVIOUS
<1> USE DEF change, github
<1>1. /\ mode \in {"dry", "local", "git", "mcp"}
      /\ row \in [status : {"ready", "in_review"} \cup Ends, evidence : Contents, pr : BOOLEAN]
      /\ round \in Rounds /\ round \in Nat /\ evidence \in Contents /\ worktree \in Trees
      /\ worktree.files \in Contents /\ remote.files \in Contents
      /\ pending \in SUBSET Paths /\ local \in Contents /\ remote \in Trees
      /\ attempt \in 0..3 /\ validated \in SUBSET Rounds
  BY RoundAssumption DEF TypeOK, Trees, Rounds
<1>2. Nothing \in Contents /\ Fresh \in Trees /\ NoTree \in Trees
  BY ContentLaws
<1>3. CASE Elsewhere
  <2>1. UNCHANGED <<mode, row, step, round, evidence, worktree, pending, local, validated,
                    remote, prOpen, attempt, poisoned, refused>>
    BY <1>3 DEF Elsewhere
  <2> QED
    BY <2>1 DEF TypeOK
<1>4. CASE StartRound
  <2>1. round' \in Rounds /\ attempt' \in 0..3
    BY <1>1, <1>4, RoundAssumption DEF StartRound, Rounds
  <2>2. /\ step' = "branch" /\ evidence' \in Contents /\ refused' \in BOOLEAN
        /\ UNCHANGED <<mode, row, worktree, pending, local, validated, remote, prOpen, poisoned>>
    BY <1>2, <1>4 DEF StartRound, At
  <2> QED
    BY <1>1, <2>1, <2>2 DEF TypeOK
<1>5. CASE EnsureBranch
  BY <1>1, <1>5, RemoteLaw DEF EnsureBranch, WorkspaceCall, Fails, TypeOK
<1>6. CASE PrepareWorktree
  BY <1>1, <1>2, <1>6 DEF PrepareWorktree, At, TypeOK
<1>7. CASE WriteArtifact
  <2> PICK names \in SUBSET Paths :
        /\ pending' = names
        /\ step' \in {"capture", "record"}
        /\ \/ UNCHANGED worktree
           \/ \E some \in SUBSET names : worktree' = [worktree EXCEPT !.files = Written(@, some)]
    BY <1>7 DEF WriteArtifact, Fails
  <2>1. worktree' \in Trees
    BY <1>1, ContentLaws, FilesLaw
  <2> QED
    BY <1>7, <2>1 DEF WriteArtifact, TypeOK
<1>8. CASE CaptureEvidence
  <2>1. Collected \in Contents
    BY <1>1, ContentLaws DEF Collected
  <2> QED
    BY <1>2, <1>8, <2>1 DEF CaptureEvidence, Fails, TypeOK
<1>9. CASE ValidationPasses
  <2>1. worktree' \in Trees
    BY <1>1, <1>9, ContentLaws, FilesLaw DEF ValidationPasses
  <2> QED
    BY <1>1, <1>9, <2>1 DEF ValidationPasses, At, TypeOK
<1>10. CASE ValidationFails \/ Cancel
  BY <1>1, <1>2, <1>10 DEF ValidationFails, Cancel, Cleaned, At, TypeOK, Ends
<1>11. CASE CommitChanges
  BY <1>1, <1>11, ContentLaws DEF CommitChanges, At, TypeOK
<1>12. CASE PushOverMcp
  <2>1. Collected \in Contents
    BY <1>1, ContentLaws DEF Collected
  <2>2. [remote EXCEPT !.files = Onto(@, Collected)] \in Trees
    BY <1>1, <2>1, ContentLaws, RemoteLaw
  <2>3. remote' \in Trees /\ step' \in {"pr", "record"} /\ poisoned' \in BOOLEAN /\ refused' \in BOOLEAN
    BY <1>12, <1>1, <2>2 DEF PushOverMcp, WorkspaceCall, Fails, TypeOK
  <2> QED
    BY <1>12, <2>3 DEF PushOverMcp, TypeOK
<1>13. CASE PushWithGit
  <2>1. [exists |-> TRUE, files |-> local] \in Trees
    BY <1>1 DEF Trees
  <2>2. remote' \in Trees /\ step' \in {"pr", "record"}
    BY <1>1, <1>13, <2>1 DEF PushWithGit, Fails
  <2> QED
    BY <1>13, <2>2 DEF PushWithGit, TypeOK
<1>14. CASE PushSkipped \/ PullRequestAnswered \/ LabelFails \/ Label
  BY <1>14 DEF PushSkipped, PullRequestAnswered, LabelFails, Label, At, Fails, TypeOK
<1>15. CASE OpenPullRequest
  <2>1. attempt' \in 0..3
    BY <1>1, <1>15 DEF OpenPullRequest, AttemptsLeft
  <2> QED
    BY <1>15, <2>1 DEF OpenPullRequest, TypeOK
<1>16. CASE Publish
  BY <1>1, <1>16 DEF Publish, TypeOK
<1>17. CASE RecordFailure \/ Review("ready") \/ Review("approved")
  BY <1>1, <1>17 DEF RecordFailure, Review, At, TypeOK, Ends
<1>18. CASE NextTask
  BY <1>1, <1>2, <1>18 DEF NextTask, NewRow, TypeOK
<1>19. CASE ServeCoder
  <2>1. prOpen' \in BOOLEAN
    BY <1>19 DEF ServeCoder, TypeOK, PullRequestPossible
  <2> QED
    BY <1>19, <2>1 DEF ServeCoder, TypeOK
<1>20. CASE ExecutionFails
  BY <1>1, <1>2, <1>20 DEF ExecutionFails, Fails, TypeOK
<1>21. CASE Crash
  BY <1>1, <1>2, <1>21 DEF Crash, TypeOK
<1> QED
  BY <1>3, <1>4, <1>5, <1>6, <1>7, <1>8, <1>9, <1>10, <1>11, <1>12, <1>13, <1>14, <1>15, <1>16,
     <1>17, <1>18, <1>19, <1>20, <1>21
     DEF Next, RoundStep, vars, Elsewhere, SessionStep, AskOther, ServeOther

LEMMA AttemptsStep == AttemptsLeft /\ TypeOK /\ [Next]_vars => AttemptsLeft'
<1> SUFFICES ASSUME AttemptsLeft, TypeOK, [Next]_vars PROVE AttemptsLeft'
  OBVIOUS
<1> USE DEF AttemptsLeft, Working, At, Fails
<1>1. CASE UNCHANGED <<step, attempt>>
  BY <1>1
<1>2. CASE StartRound \/ EnsureBranch \/ PrepareWorktree \/ WriteArtifact \/ CaptureEvidence
  BY <1>2 DEF StartRound, EnsureBranch, WorkspaceCall, PrepareWorktree, WriteArtifact, CaptureEvidence
<1>3. CASE ValidationPasses \/ ValidationFails \/ CommitChanges \/ PushOverMcp \/ PushWithGit \/ PushSkipped
  BY <1>3 DEF ValidationPasses, ValidationFails, CommitChanges, PushOverMcp, WorkspaceCall, PushWithGit,
     PushSkipped
<1>4. CASE OpenPullRequest \/ PullRequestAnswered \/ Label \/ Publish \/ LabelFails \/ RecordFailure
  BY <1>4 DEF OpenPullRequest, PullRequestAnswered, Label, Publish, LabelFails, RecordFailure
<1>5. CASE ExecutionFails \/ Crash
  BY <1>5 DEF ExecutionFails, Crash
<1> QED
  BY <1>1, <1>2, <1>3, <1>4, <1>5 DEF Next, RoundStep, vars, SessionStep, AskOther, ServeOther,
     ServeCoder, Review, Cancel, NextTask

(* Of what the others and the session do, nothing answers the coder "ok".  *)
LEMMA ReplyLaw ==
  ASSUME SessionInvariant, SessionStep \/ \E c \in Callers : AskOther(c) \/ ServeOther(c)
  PROVE  call'[Coder].reply = "ok" => call[Coder].reply = "ok"
<1> USE CoderAssumption
<1>1. call \in [Callers -> Calls] /\ (session \in {"ending", "dead"} => cause \in Breaks)
      /\ session \in Sessions
  BY DEF SessionInvariant, SessionTypeOK
<1>2. CASE \E c \in Callers : Acquire(c) \/ Take(c) \/ Answer(c) \/ Return(c)
  BY <1>1, <1>2 DEF Acquire, Take, Answer, Return, To, Calls
<1>3. CASE \E c \in Callers : Submit(c)
  BY <1>1, <1>3, CallMoveLaw DEF Submit, Calls, Alive, Sessions, Breaks, SessionInvariant, CallSound
<1>4. CASE \E c \in Callers : Reconnect(c)
  BY <1>1, <1>4 DEF Reconnect, Calls
<1>5. CASE \E c \in Callers : \E error \in Breaks : SessionBreaks(c, error)
  BY <1>1, <1>5 DEF SessionBreaks, Calls, Breaks
<1>6. CASE Started \/ ThreadEnds \/ \E error \in Breaks : StartFails(error)
  BY <1>6 DEF Started, ThreadEnds, StartFails
<1>7. CASE \E c \in Callers : AskOther(c)
  BY <1>1, <1>7 DEF AskOther, Ask, NoCall, Calls
<1>8. CASE \E c \in Callers : ServeOther(c)
  BY <1>1, <1>8 DEF ServeOther, Serve, Calls
<1> QED
  BY <1>2, <1>3, <1>4, <1>5, <1>6, <1>7, <1>8 DEF SessionStep, ThreadStep, CallerStep

LEMMA OpenStep == OpenSound /\ TypeOK /\ SessionInvariant /\ [Next]_vars => OpenSound'
<1> SUFFICES ASSUME OpenSound, TypeOK, SessionInvariant, [Next]_vars PROVE OpenSound'
  OBVIOUS
<1> USE DEF OpenSound, RecordedPRIsOpen, At, Fails, change, github
<1>1. remote \in Trees /\ Coder \in Callers /\ call \in [Callers -> Calls]
  BY CoderAssumption DEF TypeOK, SessionInvariant, SessionTypeOK
<1>2. CASE SessionStep \/ \E c \in Callers : AskOther(c) \/ ServeOther(c)
  BY <1>2, ReplyLaw DEF SessionStep, AskOther, ServeOther
<1>3. CASE EnsureBranch
  BY <1>1, <1>3 DEF EnsureBranch, WorkspaceCall, Trees
<1>4. CASE PushOverMcp
  BY <1>1, <1>4 DEF PushOverMcp, WorkspaceCall, Trees
<1>5. CASE PushWithGit
  BY <1>1, <1>5 DEF PushWithGit, Trees
<1>6. CASE OpenPullRequest
  BY <1>1, <1>6 DEF OpenPullRequest, Ask, NoCall
<1>7. CASE ServeCoder
  <2>1. step = "created" /\ call'[Coder].reply = "ok" => PullRequestPossible
    BY <1>1, <1>7 DEF ServeCoder, Serve, Calls
  <2>2. /\ prOpen => prOpen'
        /\ prOpen' => prOpen \/ PullRequestPossible
        /\ step = "created" /\ PullRequestPossible => prOpen'
        /\ UNCHANGED <<mode, row, step, remote>>
    BY <1>7 DEF ServeCoder
  <2> QED
    BY <2>1, <2>2 DEF PullRequestPossible
<1>8. CASE PullRequestAnswered \/ Label \/ LabelFails
  BY <1>8 DEF PullRequestAnswered, CallOver, Label, LabelFails
<1>9. CASE Publish
  BY <1>9 DEF Publish, CallOver
<1>10. CASE RecordFailure \/ Review("ready") \/ Review("approved") \/ Cancel
  <2>1. row'.pr = row.pr
    BY <1>10 DEF RecordFailure, Review, Cancel, TypeOK
  <2> QED
    BY <1>10, <2>1 DEF RecordFailure, Review, Cancel
<1>11. CASE ValidationFails
  <2>1. row'.pr = row.pr
    BY <1>11 DEF ValidationFails, TypeOK
  <2> QED
    BY <1>11, <2>1 DEF ValidationFails
<1>12. CASE NextTask
  BY <1>12 DEF NextTask, NewRow
<1>13. CASE Crash \/ ExecutionFails
  BY <1>13 DEF Crash, ExecutionFails
<1>14. CASE StartRound \/ PrepareWorktree \/ WriteArtifact \/ CaptureEvidence \/ ValidationPasses
            \/ CommitChanges \/ PushSkipped
  BY <1>14 DEF StartRound, PrepareWorktree, WriteArtifact, CaptureEvidence, ValidationPasses,
     CommitChanges, PushSkipped
<1>15. CASE UNCHANGED vars
  BY <1>15 DEF vars, sessionVars
<1> QED
  BY <1>2, <1>3, <1>4, <1>5, <1>6, <1>7, <1>8, <1>9, <1>10, <1>11, <1>12, <1>13, <1>14, <1>15
     DEF Next, RoundStep

(* What a round collects is its own.                                       *)
LEMMA CollectedLaw ==
  ASSUME TypeOK, \A p \in Paths : worktree.files[p] \in {0, round}
  PROVE  /\ Collected \in Contents
         /\ \A p \in Paths : Collected[p] \in {0, round}
         /\ \A p \in Paths : Collected[p] # 0 =>
              worktree.files[p] = round /\ (p \in Ignored => p \in pending)
         /\ \A p \in Paths : worktree.files[p] # 0 /\ (p \in Ignored => p \in pending) =>
              Collected[p] = worktree.files[p]
<1>1. worktree.files \in Contents /\ pending \in SUBSET Paths
  BY DEF TypeOK, Trees
<1>2. Collected \in Contents
  BY <1>1, ContentLaws DEF Collected
<1> QED
  BY <1>1, <1>2 DEF Collected, Only

LEMMA ContentStep ==
  ContentSound /\ EvidenceSound /\ TypeOK /\ [Next]_vars => ContentSound'
<1> SUFFICES ASSUME ContentSound, EvidenceSound, TypeOK, [Next]_vars PROVE ContentSound'
  OBVIOUS
<1> USE DEF ContentSound, UnvalidatedStaysLocal, At, Fails, change, github, Working, Publishing
<1>1. remote \in Trees /\ worktree \in Trees /\ remote.files \in Contents /\ worktree.files \in Contents
      /\ pending \in SUBSET Paths /\ local \in Contents /\ round \in Nat
  BY RoundAssumption DEF TypeOK, Trees, Rounds
<1>2. CASE UNCHANGED <<mode, step, round, worktree, remote, local, validated>>
  BY <1>2
<1>3. CASE UNCHANGED <<mode, round, worktree, remote, local, validated>>
           /\ step' \in {"idle", "branch", "record"}
  BY <1>3
<1>4. CASE StartRound
  BY <1>4 DEF StartRound
<1>5. CASE EnsureBranch
  BY <1>1, <1>5 DEF EnsureBranch, WorkspaceCall, Trees
<1>6. CASE PrepareWorktree
  <2>1. worktree' = (IF mode = "dry" THEN worktree ELSE Fresh) /\ step' = "write"
        /\ UNCHANGED <<mode, round, remote, validated>>
    BY <1>6 DEF PrepareWorktree
  <2>2. \A p \in Paths : Fresh.files[p] = 0 /\ NoTree.files[p] = 0
    BY DEF Fresh, NoTree, Nothing
  <2>3. \A p \in Paths : worktree'.files[p] = 0
    BY <2>1, <2>2
  <2> QED
    BY <2>1, <2>3
<1>7. CASE WriteArtifact
  <2>1. \/ UNCHANGED worktree
        \/ /\ mode # "dry"
           /\ \E some \in SUBSET Paths : worktree' = [worktree EXCEPT !.files = Written(@, some)]
    BY <1>7 DEF WriteArtifact
  <2>2. \A p \in Paths : worktree'.files[p] \in {0, round}
    BY <1>1, <1>7, <2>1 DEF WriteArtifact, Written, Trees
  <2> QED
    BY <1>7, <2>1, <2>2 DEF WriteArtifact
<1>8. CASE ValidationPasses
  <2>1. mode # "dry"
    <3>1. evidence # Nothing /\ evidence \in Contents
      BY <1>8 DEF ValidationPasses, EvidenceSound, TypeOK
    <3>2. PICK p \in Paths : evidence[p] # 0
      BY <3>1 DEF Nothing, Contents
    <3>3. worktree.files[p] # 0
      BY <1>8, <3>2 DEF ValidationPasses, EvidenceSound
    <3> QED
      BY <3>3 DEF NoTree, Nothing
  <2>2. \A p \in Paths : worktree'.files[p] \in {0, round}
    BY <1>1, <1>8 DEF ValidationPasses, Written, Trees
  <2> QED
    BY <1>8, <2>1, <2>2 DEF ValidationPasses
<1>9. CASE ValidationFails \/ Cancel
  BY <1>9 DEF ValidationFails, Cancel, Cleaned
<1>10. CASE CommitChanges
  BY <1>10 DEF CommitChanges
<1>11. CASE PushOverMcp
  <2>1. \A p \in Paths : Collected[p] \in {0, round}
    BY <1>11, CollectedLaw DEF PushOverMcp
  <2>2. \A p \in Paths : remote'.files[p] \in {remote.files[p], round}
    BY <1>1, <1>11, <2>1 DEF PushOverMcp, WorkspaceCall, Onto, Trees
  <2> QED
    BY <1>11, <2>2 DEF PushOverMcp
<1>12. CASE PushWithGit
  <2>1. \A p \in Paths : remote'.files[p] \in {remote.files[p], 0, round}
    BY <1>1, <1>12 DEF PushWithGit, Only
  <2> QED
    BY <1>12, <2>1 DEF PushWithGit
<1>13. CASE CaptureEvidence \/ PushSkipped \/ OpenPullRequest \/ PullRequestAnswered \/ Label
  BY <1>13 DEF CaptureEvidence, PushSkipped, OpenPullRequest, PullRequestAnswered, Label, CallOver
<1>14. CASE ExecutionFails
  BY <1>14 DEF ExecutionFails
<1> QED
  BY <1>2, <1>3, <1>4, <1>5, <1>6, <1>7, <1>8, <1>9, <1>10, <1>11, <1>12, <1>13, <1>14
     DEF Next, RoundStep, vars, SessionStep, AskOther, ServeOther, ServeCoder, Publish, LabelFails,
         RecordFailure, Review, NextTask, Crash

LEMMA EvidenceStep ==
  EvidenceSound /\ ContentSound /\ OpenSound /\ TypeOK /\ [Next]_vars => EvidenceSound'
<1> SUFFICES ASSUME EvidenceSound, ContentSound, OpenSound, TypeOK, [Next]_vars PROVE EvidenceSound'
  OBVIOUS
<1> USE DEF EvidenceSound, ReviewedIsPublished, At, Fails, change, github, Working, Publishing
<1>1. remote \in Trees /\ worktree \in Trees /\ remote.files \in Contents /\ worktree.files \in Contents
      /\ pending \in SUBSET Paths /\ local \in Contents /\ round \in Nat /\ evidence \in Contents
  BY RoundAssumption DEF TypeOK, Trees, Rounds
<1>2. CASE UNCHANGED <<mode, row, step, round, change, github, refused>>
  BY <1>2
<1>3. CASE /\ UNCHANGED row /\ step # "idle"
           /\ step' \in {"branch", "worktree", "write", "capture", "record"}
  BY <1>3
<1>4. CASE row'.status # "in_review" /\ step' = "idle"
  BY <1>4
<1>5. CASE StartRound
  BY <1>5 DEF StartRound
<1>6. CASE CaptureEvidence
  <2>1. step' = "validate" => evidence' = Collected
    BY <1>6 DEF CaptureEvidence
  <2>2. \A p \in Paths : worktree.files[p] \in {0, round}
    BY <1>6 DEF CaptureEvidence, ContentSound
  <2> QED
    BY <1>6, <2>1, <2>2, CollectedLaw DEF CaptureEvidence
<1>7. CASE ValidationPasses
  <2>1. \A p \in Paths : worktree'.files[p] \in {worktree.files[p], round}
    BY <1>1, <1>7 DEF ValidationPasses, Written, Trees
  <2> QED
    BY <1>7, <2>1 DEF ValidationPasses
<1>8. CASE CommitChanges
  BY <1>8 DEF CommitChanges
<1>9. CASE PushOverMcp
  <2>1. \A p \in Paths : evidence[p] # 0 => Collected[p] = round /\ round # 0
    BY <1>9, CollectedLaw DEF PushOverMcp, ContentSound
  <2>2. Collected # Nothing
    <3>1. PICK p \in Paths : evidence[p] # 0
      BY <1>1, <1>9 DEF PushOverMcp, Nothing, Contents
    <3> QED
      BY <2>1, <3>1 DEF Nothing
  <2>3. step' = "pr" =>
          refused' \/ \A p \in Paths : evidence[p] # 0 => remote'.files[p] = round
    BY <1>1, <1>9, <2>1, <2>2 DEF PushOverMcp, WorkspaceCall, Onto, Trees
  <2> QED
    BY <1>9, <2>3 DEF PushOverMcp, WorkspaceCall
<1>10. CASE PushWithGit
  <2>1. step' = "pr" => \A p \in Paths \ Ignored : evidence[p] # 0 => remote'.files[p] = round
    BY <1>1, <1>10 DEF PushWithGit, ContentSound, Only
  <2> QED
    BY <1>10, <2>1 DEF PushWithGit
<1>11. CASE PushSkipped \/ OpenPullRequest \/ PullRequestAnswered \/ Label
  BY <1>11 DEF PushSkipped, OpenPullRequest, PullRequestAnswered, Label, CallOver
<1>12. CASE Publish
  <2>1. mode # "local"
    BY <1>12 DEF Publish, CallOver, OpenSound
  <2> QED
    BY <1>12, <2>1 DEF Publish, CallOver
<1>13. CASE Crash
  BY <1>13 DEF Crash
<1>14. CASE Review("ready") \/ Review("approved") \/ NextTask \/ Cancel \/ ValidationFails \/ RecordFailure
  <2>1. row'.status # "in_review" /\ step' = "idle"
    BY <1>14 DEF Review, NextTask, NewRow, Cancel, ValidationFails, RecordFailure, TypeOK
  <2> QED
    BY <1>4, <2>1
<1> QED
  BY <1>2, <1>3, <1>5, <1>6, <1>7, <1>8, <1>9, <1>10, <1>11, <1>12, <1>13, <1>14
     DEF Next, RoundStep, vars, SessionStep, AskOther, ServeOther, ServeCoder, EnsureBranch,
         WorkspaceCall, PrepareWorktree, WriteArtifact, LabelFails, CallOver, ExecutionFails

----------------------------------------------------------------------------
LEMMA RoundInvariantInit == Init => RoundInvariant
BY TypeInit, SessionInvariantInit DEF Init, RoundInvariant, AttemptsLeft, OpenSound, RecordedPRIsOpen,
   ContentSound, UnvalidatedStaysLocal, EvidenceSound, ReviewedIsPublished, Working, Publishing, NewRow,
   NoTree, Nothing

LEMMA RoundInvariantStep == RoundInvariant /\ [Next]_vars => RoundInvariant'
<1> SUFFICES ASSUME RoundInvariant, [Next]_vars PROVE RoundInvariant'
  OBVIOUS
<1>1. SessionInvariant' /\ SessionTypeOK'
  BY StepsOfSession, SessionInvariantStep DEF RoundInvariant, SessionInvariant
<1> QED
  BY <1>1, TypeStep, AttemptsStep, OpenStep, ContentStep, EvidenceStep DEF RoundInvariant

(* The places of the round mean what the comments of RoundInvariant say.   *)
THEOREM RoundInvariantHolds == Spec => []RoundInvariant
BY RoundInvariantInit, RoundInvariantStep, PTL DEF Spec

(* The types, for any number of rounds, callers and faults.                *)
THEOREM PublicationTypeOK == Spec => []TypeOK
BY RoundInvariantHolds, PTL DEF RoundInvariant

(* What is under review is in the worktree and on the pull request's       *)
(* branch (workflow.py:226-509, git_workspace.py:98-209, 253-327).         *)
THEOREM ReviewedIsAlwaysPublished == Spec => []ReviewedIsPublished
BY RoundInvariantHolds, PTL DEF RoundInvariant, EvidenceSound

(* Nothing that did not pass validation reaches GitHub                     *)
(* (git_workspace.py:25-51, workflow.py:333-367).                          *)
THEOREM UnvalidatedAlwaysStaysLocal == Spec => []UnvalidatedStaysLocal
BY RoundInvariantHolds, PTL DEF RoundInvariant, ContentSound

(* A recorded pull request is open, whatever the session does to the calls *)
(* that open it (github_bridge.py:125-169, mcp.py:132-141).                *)
THEOREM RecordedPRIsAlwaysOpen == Spec => []RecordedPRIsOpen
BY RoundInvariantHolds, PTL DEF RoundInvariant, OpenSound
=============================================================================
