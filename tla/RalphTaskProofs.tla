-------------------------- MODULE RalphTaskProofs --------------------------
(***************************************************************************)
(* For every set of actors and every number of faults: the control task    *)
(* agrees with the coding task unless it alone was written since, no phase *)
(* of a transaction is ever committed, what is in review is ready for it,  *)
(* the ends of a task are final and a recorded pull request is reused.     *)
(*                                                                         *)
(* The argument: only the holder of the write lock has a draft, what it    *)
(* committed to in earlier phases is still in the draft when it commits    *)
(* (DraftSound), and nothing else changes the row meanwhile (LockHeld).    *)
(***************************************************************************)
EXTENDS RalphTask, TLAPS

USE DEF InTransaction, CodingPhases, Recording

LEMMA TaskInvariantInit == Init => TaskInvariant
<1> SUFFICES ASSUME Init PROVE TaskInvariant
  OBVIOUS
<1>1. NoRow \in Rows /\ NoControl \in Controls
  BY DEF NoRow, NoControl, Rows, Controls, Statuses
<1>2. TypeOK
  <2>1. /\ pc \in [Actors -> {"idle"}] /\ action \in [Actors -> {"approve_plan"}]
        /\ seen \in [Actors -> Reads]
    BY <1>1 DEF Init, Reads, Statuses
  <2>2. 0 \in 0..MaxFaults
    BY FaultAssumption
  <2>3. action \in [Actors -> TaskActions]
    BY <2>1 DEF TaskActions
  <2> QED
    BY <1>1, <2>1, <2>2, <2>3 DEF Init, TypeOK
<1>3. ControlMirrorsTask /\ OnlySettledStatuses /\ ReviewedWorkIsReady
  BY DEF Init, ControlMirrorsTask, OnlySettledStatuses, ReviewedWorkIsReady, NoRow, NoControl
<1>4. \A a \in Actors : pc[a] = "idle" /\ writer # a
  BY NoneAssumption DEF Init
<1>5. row.status = "absent" /\ ~row.pr
  BY DEF Init, NoRow
<1>6. LockHeld /\ DraftSound /\ PlannedOnce
  BY <1>4, <1>5 DEF LockHeld, DraftSound, PlannedOnce
<1> QED
  BY <1>2, <1>3, <1>6 DEF TaskInvariant

(* A decision moves to one of three statuses and only from a status that   *)
(* a committed task can have (application.py:250-305).                     *)
LEMMA DecisionLaw ==
  ASSUME NEW act \in Decisions
  PROVE  /\ TargetOf(act) \in {"changes_requested", "approved", "cancelled"}
         /\ TargetOf(act) \in {"changes_requested", "approved"} =>
              AllowedFrom(act) \subseteq {"in_review", "approved", "changes_requested"}
         /\ AllowedFrom(act) \cap {"absent", "failed", "cancelled", "needs_attention"} = {}
BY DEF Decisions, TargetOf, AllowedFrom

LEMMA CodingLaw ==
  AllowedFrom("approve_plan") = {"awaiting_confirmation", "changes_requested"}
BY DEF AllowedFrom

(* What a short transaction that only sets the status keeps.               *)
LEMMA SetStatusLaw ==
  ASSUME TaskInvariant, NEW status \in Statuses, SetStatus(status),
         NEW a \in Actors, pc[a] \notin InTransaction \cup {"insert"},
         \/ pc' = pc
         \/ \E where \in {"idle", "handoff"} : pc' = [pc EXCEPT ![a] = where],
         row.status # "absent",
         status \in {"changes_requested", "approved", "cancelled", "needs_attention"},
         stale' \in BOOLEAN, stale => stale',
         ~stale' /\ status \in {"approved", "changes_requested"} => Ready(row),
         UNCHANGED <<action, seen, prs, faults>>
  PROVE  TaskInvariant'
<1>1. /\ TypeOK /\ ControlMirrorsTask /\ OnlySettledStatuses
      /\ ReviewedWorkIsReady /\ LockHeld /\ DraftSound /\ PlannedOnce
  BY DEF TaskInvariant
<1>2. /\ row' = [row EXCEPT !.status = status] /\ ctl' = [ctl EXCEPT !.status = status]
      /\ writer = None /\ writer' = None /\ apart' = FALSE
      /\ draft' = [row |-> NoRow, ctl |-> NoControl]
  BY DEF SetStatus, Commit
<1>3. /\ row'.status = status /\ row'.pr = row.pr /\ row'.validation = row.validation
      /\ row'.evidence = row.evidence /\ ctl'.status = status /\ ctl'.pr = ctl.pr
  BY <1>1, <1>2 DEF TypeOK, Rows, Controls
<1>4. TypeOK'
  <2>1. pc' \in [Actors -> InTransaction \cup Recording
                          \cup {"idle", "insert", "resume", "decide", "failure"}]
    BY <1>1 DEF TypeOK
  <2>2. row' \in Rows /\ ctl' \in Controls /\ draft' \in [row : Rows, ctl : Controls]
    BY <1>1, <1>2 DEF TypeOK, Rows, Controls, NoRow, NoControl, Statuses
  <2> QED
    BY <1>1, <1>2, <2>1, <2>2 DEF TypeOK
<1>5. ControlMirrorsTask' /\ OnlySettledStatuses'
  BY <1>1, <1>2, <1>3 DEF ControlMirrorsTask, OnlySettledStatuses
<1>6. ReviewedWorkIsReady'
  BY <1>1, <1>3 DEF ReviewedWorkIsReady, Ready
<1>7. \A b \in Actors : pc[b] \notin InTransaction /\ pc'[b] \notin InTransaction
  BY <1>1, <1>2, NoneAssumption DEF LockHeld, TypeOK
<1>8. LockHeld' /\ DraftSound'
  BY <1>2, <1>7, NoneAssumption DEF LockHeld, DraftSound
<1>9. PlannedOnce'
  BY <1>1, <1>3, <1>7 DEF PlannedOnce, TypeOK
<1> QED
  BY <1>4, <1>5, <1>6, <1>8, <1>9 DEF TaskInvariant

(* A step inside or outside a transaction that commits nothing.            *)
LEMMA TaskInvariantStep == TaskInvariant /\ [Next]_vars => TaskInvariant'
<1> SUFFICES ASSUME TaskInvariant, [Next]_vars PROVE TaskInvariant'
  OBVIOUS
<1>0. /\ TypeOK /\ ControlMirrorsTask /\ OnlySettledStatuses
      /\ ReviewedWorkIsReady /\ LockHeld /\ DraftSound /\ PlannedOnce
  BY DEF TaskInvariant
<1> USE NoneAssumption, FaultAssumption
<1>1. ASSUME NEW a \in Actors, CreateControl(a) PROVE TaskInvariant'
  <2>1. /\ row' = row /\ ctl' = [status |-> "created", pr |-> FALSE]
        /\ writer = None /\ writer' = None /\ ctl.status = "absent"
        /\ draft' = [row |-> NoRow, ctl |-> NoControl] /\ apart' = FALSE
        /\ pc[a] = "idle" /\ pc' = [pc EXCEPT ![a] = "insert"]
        /\ UNCHANGED <<action, seen, prs, stale, faults>>
    BY <1>1 DEF CreateControl, Commit, GoTo
  <2>2. row.status = "absent" /\ ~row.pr
    BY <1>0, <2>1 DEF ControlMirrorsTask, OutsideStatuses, PlannedOnce
  <2>3. TypeOK'
    <3>1. ctl' \in Controls /\ draft' \in [row : Rows, ctl : Controls]
      BY <2>1 DEF Rows, Controls, NoRow, NoControl, Statuses
    <3>2. pc' \in [Actors -> InTransaction
                            \cup Recording
                            \cup {"idle", "insert", "resume", "decide", "failure"}]
      BY <1>0, <2>1 DEF TypeOK
    <3> QED
      BY <1>0, <2>1, <3>1, <3>2 DEF TypeOK
  <2>4. ControlMirrorsTask' /\ OnlySettledStatuses' /\ ReviewedWorkIsReady'
    <3>0. row.pr \in BOOLEAN
      BY <1>0 DEF TypeOK, Rows
    <3>1. ctl'.status = "created" /\ ctl'.pr = FALSE
      BY <2>1
    <3>2. row'.pr = FALSE
      BY <2>1, <2>2, <3>0
    <3>3. ControlMirrorsTask'
      BY <2>1, <2>2, <3>1, <3>2 DEF ControlMirrorsTask
    <3> QED
      BY <1>0, <2>1, <3>3 DEF OnlySettledStatuses, ReviewedWorkIsReady, Ready
  <2>5. \A b \in Actors : pc[b] \notin InTransaction /\ pc'[b] \notin InTransaction
    BY <1>0, <2>1 DEF LockHeld, TypeOK
  <2>6. LockHeld' /\ DraftSound'
    BY <2>1, <2>5 DEF LockHeld, DraftSound
  <2>7. \A b \in Actors : pc[b] = "idle"
    BY <1>0, <2>1, <2>2 DEF PlannedOnce
  <2>8. PlannedOnce'
    BY <1>0, <2>1, <2>2, <2>7 DEF PlannedOnce, TypeOK
  <2> QED
    BY <2>3, <2>4, <2>6, <2>8 DEF TaskInvariant
<1>2. ASSUME NEW a \in Actors, InsertTask(a) PROVE TaskInvariant'
  <2>1. /\ UNCHANGED <<row, ctl, action, seen, prs, stale, apart, faults>>
        /\ writer = None /\ writer' = a
        /\ draft' = [row |-> [NoRow EXCEPT !.status = "planning"],
                     ctl |-> [ctl EXCEPT !.status = "planning"]]
        /\ pc[a] = "insert" /\ pc' = [pc EXCEPT ![a] = "plan"]
    BY <1>2 DEF InsertTask, TakeLock, GoTo
  <2>2. row.status = "absent" /\ ~ctl.pr
    BY <1>0, <2>1 DEF ControlMirrorsTask, PlannedOnce
  <2>3. TypeOK'
    <3>1. draft' \in [row : Rows, ctl : Controls]
      BY <1>0, <2>1 DEF TypeOK, Rows, Controls, NoRow, Statuses
    <3>2. pc' \in [Actors -> InTransaction
                            \cup Recording
                            \cup {"idle", "insert", "resume", "decide", "failure"}]
      BY <1>0, <2>1 DEF TypeOK
    <3> QED
      BY <1>0, <2>1, <3>1, <3>2 DEF TypeOK
  <2>4. ControlMirrorsTask' /\ OnlySettledStatuses' /\ ReviewedWorkIsReady'
    BY <1>0, <2>1 DEF ControlMirrorsTask, OnlySettledStatuses, ReviewedWorkIsReady, Ready
  <2>5. LockHeld'
    BY <1>0, <2>1 DEF LockHeld, TypeOK
  <2>6. \A b \in Actors : pc[b] \notin InTransaction
    BY <1>0, <2>1 DEF LockHeld
  <2>7. ~draft'.row.pr /\ ~draft'.ctl.pr
    BY <1>0, <2>1, <2>2 DEF NoRow, TypeOK, Controls
  <2>8. DraftSound'
    BY <1>0, <2>1, <2>6, <2>7 DEF DraftSound, TypeOK
  <2>9. PlannedOnce'
    BY <1>0, <2>1 DEF PlannedOnce, TypeOK
  <2> QED
    BY <2>3, <2>4, <2>5, <2>8, <2>9 DEF TaskInvariant
<1>3. ASSUME NEW a \in Actors, PlanReady(a) PROVE TaskInvariant'
  <2>1. /\ row' = [draft.row EXCEPT !.status = "awaiting_confirmation"]
        /\ ctl' = [draft.ctl EXCEPT !.status = "awaiting_confirmation"]
        /\ writer' = None
        /\ draft' = [row |-> NoRow, ctl |-> NoControl] /\ apart' = FALSE
        /\ pc[a] = "plan" /\ pc' = [pc EXCEPT ![a] = "idle"]
        /\ UNCHANGED <<action, seen, prs, stale, faults>>
    BY <1>3 DEF PlanReady, Commit, GoTo
  <2>2. /\ row'.status = "awaiting_confirmation" /\ row'.pr = draft.row.pr
        /\ ctl'.status = "awaiting_confirmation" /\ ctl'.pr = draft.ctl.pr
    BY <1>0, <2>1 DEF TypeOK, Rows, Controls
  <2>3. draft.row.pr = draft.ctl.pr
    BY <1>0, <2>1 DEF DraftSound, TypeOK, Rows, Controls
  <2>4. TypeOK'
    BY <1>0, <2>1 DEF TypeOK, Rows, Controls, NoRow, NoControl, Statuses
  <2>5. ControlMirrorsTask' /\ OnlySettledStatuses' /\ ReviewedWorkIsReady'
    BY <2>1, <2>2, <2>3 DEF ControlMirrorsTask, OnlySettledStatuses, ReviewedWorkIsReady
  <2>6. \A b \in Actors : pc'[b] \notin InTransaction
    BY <1>0, <2>1 DEF LockHeld, TypeOK
  <2>7. LockHeld' /\ DraftSound'
    BY <2>1, <2>6 DEF LockHeld, DraftSound
  <2>8. PlannedOnce'
    BY <1>0, <2>1, <2>2 DEF PlannedOnce, TypeOK
  <2> QED
    BY <2>4, <2>5, <2>7, <2>8 DEF TaskInvariant
(* A rollback, from whatever phase.                                        *)
<1>4. ASSUME NEW a \in Actors, Rollback, writer = a,
             NEW where \in {"idle", "failure"}, pc' = [pc EXCEPT ![a] = where],
             where = "failure" => pc[a] \in CodingPhases,
             UNCHANGED <<action, seen, prs, stale>>, faults' \in 0..MaxFaults
      PROVE  TaskInvariant'
  <2>1. /\ writer' = None /\ draft' = [row |-> NoRow, ctl |-> NoControl]
        /\ UNCHANGED <<row, ctl, apart>>
    BY <1>4 DEF Rollback
  <2>2. TypeOK'
    BY <1>0, <1>4, <2>1 DEF TypeOK, Rows, Controls, NoRow, NoControl, Statuses
  <2>3. ControlMirrorsTask' /\ OnlySettledStatuses' /\ ReviewedWorkIsReady'
    BY <1>0, <1>4, <2>1
       DEF ControlMirrorsTask, OnlySettledStatuses, ReviewedWorkIsReady, Ready
  <2>4. \A b \in Actors : pc'[b] \notin InTransaction
    BY <1>0, <1>4 DEF LockHeld, TypeOK
  <2>5. LockHeld' /\ DraftSound'
    BY <2>1, <2>4 DEF LockHeld, DraftSound
  <2>6. PlannedOnce'
    BY <1>0, <1>4, <2>1 DEF PlannedOnce, TypeOK
  <2> QED
    BY <2>2, <2>3, <2>5, <2>6 DEF TaskInvariant
<1>5. ASSUME NEW a \in Actors, PlanFails(a) PROVE TaskInvariant'
  <2>1. /\ pc[a] = "plan" /\ Rollback /\ pc' = [pc EXCEPT ![a] = "idle"]
        /\ UNCHANGED <<action, seen, prs, stale, faults>>
    BY <1>5 DEF PlanFails, GoTo
  <2>2. writer = a /\ faults' \in 0..MaxFaults
    BY <1>0, <2>1 DEF LockHeld, TypeOK
  <2> QED
    BY <1>4, <2>1, <2>2
(* Steps that only move an actor outside any transaction.                  *)
<1>6. ASSUME NEW a \in Actors,
             NEW where \in {"idle", "resume", "decide", "failure"} \cup Recording,
             pc[a] \notin InTransaction, pc' = [pc EXCEPT ![a] = where],
             where # "idle" => row.status # "absent",
             UNCHANGED <<row, ctl, draft, writer, prs, stale, apart>>,
             action' \in [Actors -> TaskActions], seen' \in [Actors -> Reads],
             faults' \in 0..MaxFaults
      PROVE  TaskInvariant'
  <2>1. TypeOK'
    BY <1>0, <1>6 DEF TypeOK
  <2>2. ControlMirrorsTask' /\ OnlySettledStatuses' /\ ReviewedWorkIsReady'
    BY <1>0, <1>6
       DEF ControlMirrorsTask, OnlySettledStatuses, ReviewedWorkIsReady, Ready
  <2>3. LockHeld'
    BY <1>0, <1>6 DEF LockHeld, TypeOK
  <2>4. DraftSound'
    BY <1>0, <1>6 DEF DraftSound, TypeOK
  <2>5. PlannedOnce'
    BY <1>0, <1>6 DEF PlannedOnce, TypeOK
  <2> QED
    BY <2>1, <2>2, <2>3, <2>4, <2>5 DEF TaskInvariant
<1>7. ASSUME NEW a \in Actors, NEW act \in TaskActions, ReadRow(a, act),
             pc[a] \notin InTransaction
      PROVE  TaskInvariant'
  <2>1. /\ action' \in [Actors -> TaskActions] /\ seen' \in [Actors -> Reads]
        /\ faults' \in 0..MaxFaults
    BY <1>0, <1>7 DEF ReadRow, TypeOK, Rows, Reads
  <2>2. /\ pc' = [pc EXCEPT ![a] = "decide"] /\ row.status # "absent"
        /\ UNCHANGED <<row, ctl, draft, writer, prs, stale, apart>>
    BY <1>7 DEF ReadRow, GoTo
  <2> QED
    BY <1>6, <1>7, <2>1, <2>2
<1>8. ASSUME NEW a \in Actors, NEW act \in TaskActions, ApplyAction(a, act)
      PROVE  TaskInvariant'
  BY <1>7, <1>8 DEF ApplyAction
<1>9. ASSUME NEW a \in Actors, ResumeTask(a) PROVE TaskInvariant'
  <2>1. /\ pc[a] = "idle" /\ pc' = [pc EXCEPT ![a] = "resume"]
        /\ row.status # "absent"
        /\ UNCHANGED <<row, ctl, draft, writer, action, seen, prs, stale, apart, faults>>
    BY <1>9 DEF ResumeTask, GoTo
  <2>2. /\ action' \in [Actors -> TaskActions] /\ seen' \in [Actors -> Reads]
        /\ faults' \in 0..MaxFaults
    BY <1>0, <2>1 DEF TypeOK
  <2> QED
    BY <1>6, <2>1, <2>2
<1>10. ASSUME NEW a \in Actors, ResumeCoding(a) PROVE TaskInvariant'
  BY <1>7, <1>10 DEF ResumeCoding, TaskActions
<1>11. ASSUME NEW a \in Actors, Refuse(a) PROVE TaskInvariant'
  <2>1. /\ pc[a] = "decide" /\ pc' = [pc EXCEPT ![a] = AfterError(a)]
        /\ UNCHANGED <<row, ctl, draft, writer, action, seen, prs, stale, apart, faults>>
    BY <1>11 DEF Refuse, GoTo
  <2>2. /\ action' \in [Actors -> TaskActions] /\ seen' \in [Actors -> Reads]
        /\ faults' \in 0..MaxFaults /\ row.status # "absent"
    BY <1>0, <2>1 DEF TypeOK, PlannedOnce
  <2>3. AfterError(a) \in {"idle", "failure"}
    BY DEF AfterError
  <2> QED
    BY <1>6, <2>1, <2>2, <2>3
<1>12. ASSUME NEW a \in Actors, Decide(a) PROVE TaskInvariant'
  <2>1. /\ pc[a] = "decide" /\ action[a] \in Decisions
        /\ seen[a].status \in AllowedFrom(action[a])
        /\ SetStatus(TargetOf(action[a]))
        /\ stale' = (stale \/ seen[a].status # row.status)
        /\ pc' = [pc EXCEPT ![a] = "idle"]
        /\ UNCHANGED <<action, seen, prs, faults>>
    BY <1>12 DEF Decide, NoteStaleness, GoTo
  <2>2. row.status # "absent"
    BY <1>0, <2>1 DEF PlannedOnce
  <2>3. TargetOf(action[a]) \in {"changes_requested", "approved", "cancelled"}
    BY <2>1, DecisionLaw
  <2>4. ASSUME ~stale', TargetOf(action[a]) \in {"approved", "changes_requested"}
        PROVE  Ready(row)
    <3>1. row.status \in {"in_review", "approved", "changes_requested"} /\ ~stale
      BY <2>1, <2>4, DecisionLaw
    <3> QED
      BY <1>0, <3>1 DEF ReviewedWorkIsReady
  <2>5. stale' \in BOOLEAN /\ (stale => stale') /\ TargetOf(action[a]) \in Statuses
    BY <2>1, <2>3 DEF Statuses
  <2> QED
    BY <2>1, <2>2, <2>3, <2>4, <2>5, SetStatusLaw
<1>13. ASSUME NEW a \in Actors, StartCoding(a) PROVE TaskInvariant'
  <2>1. /\ pc[a] = "decide" /\ action[a] = "approve_plan"
        /\ seen[a].status \in AllowedFrom("approve_plan")
        /\ writer = None /\ writer' = a
        /\ draft' = [row |-> [row EXCEPT !.status = "coding"],
                     ctl |-> [ctl EXCEPT !.status = "coding"]]
        /\ stale' = (stale \/ seen[a].status # row.status)
        /\ pc' = [pc EXCEPT ![a] = "coding"]
        /\ UNCHANGED <<row, ctl, action, seen, prs, apart, faults>>
    BY <1>13 DEF StartCoding, TakeLock, NoteStaleness, GoTo
  <2>2. row.status # "absent"
    BY <1>0, <2>1 DEF PlannedOnce
  <2>3. draft'.row.pr = row.pr /\ draft'.ctl.pr = row.pr
    BY <1>0, <2>1, <2>2 DEF ControlMirrorsTask, TypeOK, Rows, Controls
  <2>4. ~stale' => ~stale /\ row.status \in AllowedFrom("approve_plan")
    BY <2>1
  <2>5. TypeOK'
    <3>1. /\ \A r \in Rows : [r EXCEPT !.status = "coding"] \in Rows
          /\ \A c \in Controls : [c EXCEPT !.status = "coding"] \in Controls
      BY DEF Rows, Controls, Statuses
    <3>2. draft'.row \in Rows /\ draft'.ctl \in Controls
      BY <1>0, <2>1, <3>1 DEF TypeOK
    <3> QED
      BY <1>0, <2>1, <3>2 DEF TypeOK
  <2>6. ControlMirrorsTask' /\ OnlySettledStatuses' /\ ReviewedWorkIsReady'
    BY <1>0, <2>1, <2>4
       DEF ControlMirrorsTask, OnlySettledStatuses, ReviewedWorkIsReady, Ready
  <2>7. \A b \in Actors : pc[b] \notin InTransaction
    BY <1>0, <2>1 DEF LockHeld
  <2>8. LockHeld'
    BY <1>0, <2>1, <2>7 DEF LockHeld, TypeOK
  <2>9. DraftSound'
    BY <1>0, <2>1, <2>3, <2>4, <2>7 DEF DraftSound, TypeOK
  <2>10. PlannedOnce'
    BY <1>0, <2>1, <2>2 DEF PlannedOnce, TypeOK
  <2> QED
    BY <2>5, <2>6, <2>8, <2>9, <2>10 DEF TaskInvariant
(* A phase of the transaction that ends in the next one.                   *)
<1>14. ASSUME NEW a \in Actors, pc[a] \in CodingPhases,
              NEW where \in CodingPhases, pc' = [pc EXCEPT ![a] = where],
              UNCHANGED <<row, ctl, writer, action, seen, stale, apart, faults>>,
              draft' \in [row : Rows, ctl : Controls], prs' \in Nat,
              draft'.row.pr = draft.row.pr, draft'.ctl.pr = draft.ctl.pr,
              where # "coding" => draft'.row.evidence,
              where \in {"publish", "publishing"} => draft'.row.validation = "passed"
       PROVE  TaskInvariant'
  <2>1. TypeOK'
    BY <1>0, <1>14 DEF TypeOK
  <2>2. ControlMirrorsTask' /\ OnlySettledStatuses' /\ ReviewedWorkIsReady'
    BY <1>0, <1>14
       DEF ControlMirrorsTask, OnlySettledStatuses, ReviewedWorkIsReady, Ready
  <2>3. LockHeld'
    BY <1>0, <1>14 DEF LockHeld, TypeOK
  <2>4. \A b \in Actors : b # a => pc[b] \notin InTransaction
    BY <1>0, <1>14 DEF LockHeld
  <2>5. DraftSound'
    BY <1>0, <1>14, <2>4 DEF DraftSound, TypeOK
  <2>6. PlannedOnce'
    BY <1>0, <1>14 DEF PlannedOnce, TypeOK
  <2> QED
    BY <2>1, <2>2, <2>3, <2>5, <2>6 DEF TaskInvariant
<1>15. ASSUME NEW a \in Actors, Coded(a) PROVE TaskInvariant'
  <2>1. /\ pc[a] = "coding" /\ pc' = [pc EXCEPT ![a] = "validating"]
        /\ draft' = [row |-> [draft.row EXCEPT !.evidence = TRUE, !.status = "validating"],
                     ctl |-> [draft.ctl EXCEPT !.status = "validating"]]
        /\ UNCHANGED <<row, ctl, writer, action, seen, prs, stale, apart, faults>>
    BY <1>15 DEF Coded, SetBoth, GoTo
  <2>2. /\ draft' \in [row : Rows, ctl : Controls] /\ prs' \in Nat
        /\ draft'.row.pr = draft.row.pr /\ draft'.ctl.pr = draft.ctl.pr
        /\ draft'.row.evidence
    BY <1>0, <2>1 DEF TypeOK, Rows, Controls, Statuses
  <2> QED
    BY <1>14, <2>1, <2>2
<1>16. ASSUME NEW a \in Actors, NEW result \in {"passed", "failed"}, Validate(a, result)
       PROVE  TaskInvariant'
  <2>1. /\ pc[a] = "validating"
        /\ pc' = [pc EXCEPT ![a] = IF result = "failed" THEN "failing" ELSE "publish"]
        /\ draft' = [draft EXCEPT !.row.validation = result]
        /\ UNCHANGED <<row, ctl, writer, action, seen, prs, stale, apart, faults>>
    BY <1>16 DEF Validate, GoTo
  <2>2. /\ draft' \in [row : Rows, ctl : Controls] /\ prs' \in Nat
        /\ draft'.row.pr = draft.row.pr /\ draft'.ctl.pr = draft.ctl.pr
        /\ draft'.row.evidence = draft.row.evidence /\ draft'.row.validation = result
    BY <1>0, <2>1 DEF TypeOK, Rows, Controls
  <2>3. draft.row.evidence
    BY <1>0, <2>1 DEF DraftSound
  <2> QED
    BY <1>14, <2>1, <2>2, <2>3
<1>17. ASSUME NEW a \in Actors, OpenPullRequest(a) PROVE TaskInvariant'
  <2>1. /\ pc[a] = "publish" /\ pc' = [pc EXCEPT ![a] = "publishing"]
        /\ UNCHANGED <<row, ctl, draft, writer, action, seen, stale, apart, faults>>
        /\ prs' = IF RecordedPR(a) THEN prs ELSE prs + 1
    BY <1>17 DEF OpenPullRequest, GoTo
  <2>2. /\ draft' \in [row : Rows, ctl : Controls] /\ prs' \in Nat
        /\ draft'.row.evidence /\ draft'.row.validation = "passed"
    BY <1>0, <2>1 DEF TypeOK, DraftSound
  <2> QED
    BY <1>14, <2>1, <2>2
(* A commit at the end of the transaction.                                 *)
<1>18. ASSUME NEW a \in Actors, NEW newRow \in Rows, NEW newCtl \in Controls,
              pc[a] \in CodingPhases, pc' = [pc EXCEPT ![a] = "idle"],
              Commit(newRow, newCtl), UNCHANGED <<action, seen, prs, stale, faults>>,
              newRow.status \in {"failed", "in_review"},
              newRow.status = newCtl.status, newRow.pr = newCtl.pr,
              newRow.status = "in_review" => Ready(newRow)
       PROVE  TaskInvariant'
  <2>1. /\ row' = newRow /\ ctl' = newCtl /\ apart' = FALSE
        /\ writer' = None /\ draft' = [row |-> NoRow, ctl |-> NoControl]
    BY <1>18 DEF Commit
  <2>2. draft' \in [row : Rows, ctl : Controls]
    BY <2>1 DEF Rows, Controls, NoRow, NoControl, Statuses
  <2>3. TypeOK'
    BY <1>0, <1>18, <2>1, <2>2 DEF TypeOK
  <2>4. ControlMirrorsTask' /\ OnlySettledStatuses' /\ ReviewedWorkIsReady'
    BY <1>18, <2>1 DEF ControlMirrorsTask, OnlySettledStatuses, ReviewedWorkIsReady, Ready
  <2>5. \A b \in Actors : pc'[b] \notin InTransaction
    BY <1>0, <1>18 DEF LockHeld, TypeOK
  <2>6. LockHeld' /\ DraftSound'
    BY <2>1, <2>5 DEF LockHeld, DraftSound
  <2>7. row.status # "absent"
    BY <1>0, <1>18 DEF PlannedOnce
  <2>8. PlannedOnce'
    BY <1>0, <1>18, <2>1, <2>7 DEF PlannedOnce, TypeOK
  <2> QED
    BY <2>3, <2>4, <2>6, <2>8 DEF TaskInvariant
<1>19. ASSUME NEW a \in Actors, CommitFailed(a) PROVE TaskInvariant'
  <2> DEFINE newRow == [draft.row EXCEPT !.status = "failed"]
             newCtl == [draft.ctl EXCEPT !.status = "failed"]
  <2>1. /\ pc[a] = "failing" /\ pc' = [pc EXCEPT ![a] = "idle"]
        /\ Commit(newRow, newCtl) /\ UNCHANGED <<action, seen, prs, stale, faults>>
    BY <1>19 DEF CommitFailed, GoTo
  <2>2. draft.row.pr = draft.ctl.pr
    BY <1>0, <2>1 DEF DraftSound
  <2>3. /\ newRow \in Rows /\ newCtl \in Controls
        /\ newRow.status = "failed" /\ newCtl.status = "failed" /\ newRow.pr = newCtl.pr
    BY <1>0, <2>2 DEF TypeOK, Rows, Controls, Statuses
  <2> HIDE DEF newRow, newCtl
  <2> QED
    BY <1>18, <2>1, <2>3
<1>20. ASSUME NEW a \in Actors, CommitReview(a) PROVE TaskInvariant'
  <2> DEFINE newRow == [draft.row EXCEPT !.status = "in_review", !.pr = TRUE]
             newCtl == [draft.ctl EXCEPT !.status = "in_review", !.pr = TRUE]
  <2>1. /\ pc[a] = "publishing" /\ pc' = [pc EXCEPT ![a] = "idle"]
        /\ Commit(newRow, newCtl) /\ UNCHANGED <<action, seen, prs, stale, faults>>
    BY <1>20 DEF CommitReview, GoTo
  <2>2. draft.row.evidence /\ draft.row.validation = "passed"
    BY <1>0, <2>1 DEF DraftSound
  <2>3. /\ newRow \in Rows /\ newCtl \in Controls
        /\ newRow.status = "in_review" /\ newCtl.status = "in_review"
        /\ newRow.pr = newCtl.pr /\ Ready(newRow)
    BY <1>0, <2>2 DEF TypeOK, Rows, Controls, Statuses, Ready
  <2> HIDE DEF newRow, newCtl
  <2> QED
    BY <1>18, <2>1, <2>3
<1>21. ASSUME NEW a \in Actors, ExecutionFails(a) PROVE TaskInvariant'
  <2>1. /\ pc[a] \in CodingPhases /\ writer = a
        /\ pc' = [pc EXCEPT ![a] = "failure"] /\ Rollback
        /\ UNCHANGED <<action, seen, prs, stale, faults>>
    BY <1>0, <1>21 DEF ExecutionFails, GoTo, LockHeld
  <2>2. faults' \in 0..MaxFaults
    BY <1>0, <2>1 DEF TypeOK
  <2> QED
    BY <1>4, <2>1, <2>2
<1>22. ASSUME NEW a \in Actors, RecordFailure(a) PROVE TaskInvariant'
  <2>1. /\ pc[a] = "failure" /\ pc' = [pc EXCEPT ![a] = "idle"]
        /\ SetStatus("needs_attention") /\ UNCHANGED <<action, seen, prs, stale, faults>>
    BY <1>22 DEF RecordFailure, GoTo
  <2>2. row.status # "absent" /\ stale' \in BOOLEAN /\ "needs_attention" \in Statuses
    BY <1>0, <2>1 DEF PlannedOnce, TypeOK, Statuses
  <2> QED
    BY <2>1, <2>2, SetStatusLaw
<1>23. ASSUME NEW a \in Actors, MarkNeedsAttention(a) PROVE TaskInvariant'
  <2>1. /\ pc[a] = "idle" /\ pc' = pc /\ row.status # "absent"
        /\ SetStatus("needs_attention") /\ UNCHANGED <<action, seen, prs, stale, faults>>
    BY <1>23 DEF MarkNeedsAttention
  <2>2. stale' \in BOOLEAN /\ "needs_attention" \in Statuses
    BY <1>0, <2>1 DEF TypeOK, Statuses
  <2> QED
    BY <2>1, <2>2, SetStatusLaw
<1>24. ASSUME NEW a \in Actors, LockTimeout(a) PROVE TaskInvariant'
  <2>1. /\ pc[a] \in {"decide", "insert", "failure"} \cup Recording /\ faults' = faults + 1
        /\ faults < MaxFaults
        /\ pc' = [pc EXCEPT ![a] = IF pc[a] = "decide" THEN AfterError(a) ELSE "idle"]
        /\ UNCHANGED <<row, ctl, draft, writer, action, seen, prs, stale, apart>>
    BY <1>24 DEF LockTimeout, GoTo
  <2>2. /\ action' \in [Actors -> TaskActions] /\ seen' \in [Actors -> Reads]
        /\ faults' \in 0..MaxFaults
    BY <1>0, <2>1 DEF TypeOK
  <2>3. pc[a] = "decide" => row.status # "absent"
    BY <1>0 DEF PlannedOnce
  <2>4. AfterError(a) \in {"idle", "failure"}
    BY DEF AfterError
  <2> QED
    BY <1>6, <2>1, <2>2, <2>3, <2>4
<1>25. ASSUME NEW a \in Actors, Crash(a) PROVE TaskInvariant'
  <2>1. /\ pc' = [pc EXCEPT ![a] = "idle"] /\ faults' \in 0..MaxFaults
        /\ UNCHANGED <<action, seen, prs, stale>>
    BY <1>0, <1>25 DEF Crash, GoTo, TypeOK
  <2>2. CASE writer = a
    <3>1. Rollback
      BY <1>25, <2>2 DEF Crash
    <3> QED
      BY <1>4, <2>1, <2>2, <3>1
  <2>3. CASE writer # a
    <3>1. pc[a] \notin InTransaction
      BY <1>0, <2>3 DEF LockHeld
    <3>2. action' \in [Actors -> TaskActions] /\ seen' \in [Actors -> Reads]
      BY <1>0, <2>1 DEF TypeOK
    <3>3. UNCHANGED <<row, ctl, draft, writer, prs, stale, apart>>
      BY <1>25, <2>3 DEF Crash
    <3> QED
      BY <1>6, <2>1, <3>1, <3>2, <3>3
  <2> QED
    BY <2>2, <2>3
(* A step that writes the control task alone.                              *)
<1>30. ASSUME NEW a \in Actors, NEW status \in OutsideStatuses, SetControl(status),
              row.status = "absent" => status = "needs_attention" /\ ctl.status # "absent",
              pc[a] \notin InTransaction \cup {"insert"},
              \/ pc' = pc
              \/ \E where \in {"idle"} \cup Recording :
                   pc' = [pc EXCEPT ![a] = where] /\ row.status # "absent",
              UNCHANGED <<action, seen, prs, stale, faults>>
       PROVE  TaskInvariant'
  <2>1. /\ writer = None /\ ctl' = [ctl EXCEPT !.status = status] /\ apart' = TRUE
        /\ UNCHANGED <<row, draft, writer>>
    BY <1>30 DEF SetControl
  <2>2. /\ ctl' \in Controls /\ ctl'.status = status /\ ctl'.pr = ctl.pr
    BY <1>0, <2>1 DEF TypeOK, Controls
  <2>3. TypeOK'
    <3>1. pc' \in [Actors -> InTransaction \cup Recording
                            \cup {"idle", "insert", "resume", "decide", "failure"}]
      BY <1>0, <1>30 DEF TypeOK
    <3> QED
      BY <1>0, <1>30, <2>1, <2>2, <3>1 DEF TypeOK
  <2>4. ControlMirrorsTask' /\ OnlySettledStatuses' /\ ReviewedWorkIsReady'
    BY <1>0, <1>30, <2>1, <2>2
       DEF ControlMirrorsTask, OnlySettledStatuses, ReviewedWorkIsReady, Ready
  <2>5. \A b \in Actors : pc[b] \notin InTransaction /\ pc'[b] \notin InTransaction
    BY <1>0, <1>30, <2>1 DEF LockHeld, TypeOK
  <2>6. LockHeld' /\ DraftSound'
    BY <2>1, <2>5 DEF LockHeld, DraftSound
  <2>7. status # "absent"
    BY <1>30 DEF OutsideStatuses
  <2>8. PlannedOnce'
    BY <1>0, <1>30, <2>1, <2>2, <2>7 DEF PlannedOnce, TypeOK
  <2> QED
    BY <2>3, <2>4, <2>6, <2>8 DEF TaskInvariant
<1>31. ASSUME NEW a \in Actors, MarkControl(a) PROVE TaskInvariant'
  <2>1. "needs_attention" \in OutsideStatuses
    BY DEF OutsideStatuses
  <2> QED
    BY <1>30, <1>31, <2>1 DEF MarkControl
<1>32. ASSUME NEW a \in Actors, MarkTimedOut(a) PROVE TaskInvariant'
  <2>1. "timed_out" \in OutsideStatuses
    BY DEF OutsideStatuses
  <2> QED
    BY <1>30, <1>32, <2>1 DEF MarkTimedOut
<1>33. ASSUME NEW a \in Actors, Deliver(a) PROVE TaskInvariant'
  <2>1. /\ pc[a] = "idle" /\ pc' = [pc EXCEPT ![a] = "complete"]
        /\ row.status # "absent"
        /\ UNCHANGED <<row, ctl, draft, writer, action, seen, prs, stale, apart, faults>>
    BY <1>33 DEF Deliver, GoTo
  <2>2. /\ action' \in [Actors -> TaskActions] /\ seen' \in [Actors -> Reads]
        /\ faults' \in 0..MaxFaults
    BY <1>0, <2>1 DEF TypeOK
  <2> QED
    BY <1>6, <2>1, <2>2
<1>34. ASSUME NEW a \in Actors, HandOver(a) PROVE TaskInvariant'
  <2>1. /\ pc[a] = "idle" /\ pc' = [pc EXCEPT ![a] = "handoff"]
        /\ row.status # "absent" /\ UNCHANGED <<action, seen, prs, stale, faults>>
    BY <1>34 DEF HandOver, GoTo
  <2>2. /\ action' \in [Actors -> TaskActions] /\ seen' \in [Actors -> Reads]
        /\ faults' \in 0..MaxFaults /\ stale' \in BOOLEAN /\ "needs_attention" \in Statuses
    BY <1>0, <2>1 DEF TypeOK, Statuses
  <2>3. CASE SetStatus("needs_attention")
    BY <2>1, <2>2, <2>3, SetStatusLaw
  <2>4. CASE UNCHANGED <<row, ctl, apart, draft, writer>>
    BY <1>6, <2>1, <2>2, <2>4
  <2> QED
    BY <1>34, <2>3, <2>4 DEF HandOver
<1>35. ASSUME NEW a \in Actors, RecordResult(a) PROVE TaskInvariant'
  <2>1. PICK where \in {"idle"} \cup Recording : pc' = [pc EXCEPT ![a] = where]
    BY <1>35 DEF RecordResult, GoTo
  <2>2. pc[a] \in Recording /\ row.status # "absent"
    BY <1>0, <1>35 DEF RecordResult, PlannedOnce
  <2>3. PICK status \in OutsideStatuses : SetControl(status)
    BY <1>35 DEF RecordResult, OutsideStatuses
  <2>4. UNCHANGED <<action, seen, prs, stale, faults>>
    BY <1>35 DEF RecordResult
  <2> QED
    BY <1>30, <2>1, <2>2, <2>3, <2>4
<1>26. CASE UNCHANGED vars
  BY <1>0, <1>26
     DEF vars, TaskInvariant, TypeOK, ControlMirrorsTask, OnlySettledStatuses,
         ReviewedWorkIsReady, Ready, LockHeld, DraftSound, PlannedOnce
<1> QED
  BY <1>1, <1>2, <1>3, <1>5, <1>8, <1>9, <1>10, <1>11, <1>12, <1>13, <1>15, <1>16,
     <1>17, <1>19, <1>20, <1>21, <1>22, <1>23, <1>24, <1>25, <1>26,
     <1>31, <1>32, <1>33, <1>34, <1>35 DEF Next

----------------------------------------------------------------------------
(* The invariant that the theorems below read off.                         *)
THEOREM TaskInvariantHolds == Spec => []TaskInvariant
BY TaskInvariantInit, TaskInvariantStep, PTL DEF Spec

(* Type correctness.                                                       *)
THEOREM RalphTypeOK == Spec => []TypeOK
<1>1. TaskInvariant => TypeOK
  BY DEF TaskInvariant
<1> QED
  BY <1>1, TaskInvariantHolds, PTL

(* Ralph commits every status and every pull request to the row and to the *)
(* control task together; they part only where the control task alone was  *)
(* marked or told how the task ended (application.py:356-377,              *)
(* automation.py:447 and 827, sleep_coding_worker.py:78).                  *)
THEOREM TaskAndControlAgree == Spec => []ControlMirrorsTask
<1>1. TaskInvariant => ControlMirrorsTask
  BY DEF TaskInvariant
<1> QED
  BY <1>1, TaskInvariantHolds, PTL

(* No committed status is a phase inside a transaction, so resume_task     *)
(* never finds a task in validating (application.py:175-180).              *)
THEOREM NothingStuckInside == Spec => []OnlySettledStatuses
<1>1. TaskInvariant => OnlySettledStatuses
  BY DEF TaskInvariant
<1> QED
  BY <1>1, TaskInvariantHolds, PTL

(* Nothing enters review without passed validation, evidence of a change   *)
(* and a recorded pull request (workflow.py:226-509).                      *)
THEOREM ReviewGate == Spec => []ReviewedWorkIsReady
<1>1. TaskInvariant => ReviewedWorkIsReady
  BY DEF TaskInvariant
<1> QED
  BY <1>1, TaskInvariantHolds, PTL

----------------------------------------------------------------------------
(* A decided change of a status that ended a task is stale.                *)
LEMMA EndsStep ==
  ASSUME TaskInvariant, [Next]_vars, ~stale',
         row.status \in {"failed", "cancelled", "needs_attention"}
  PROVE  row'.status \in {row.status, "needs_attention"}
<1>0. /\ TypeOK /\ DraftSound /\ PlannedOnce
  BY DEF TaskInvariant
<1>1. ASSUME NEW a \in Actors, PlanReady(a) PROVE FALSE
  BY <1>0, <1>1 DEF PlanReady, PlannedOnce
<1>2. ASSUME NEW a \in Actors, CommitFailed(a) \/ CommitReview(a) PROVE FALSE
  <2>1. pc[a] \in CodingPhases /\ ~stale
    BY <1>2 DEF CommitFailed, CommitReview
  <2> QED
    BY <1>0, <2>1, CodingLaw DEF DraftSound
<1>3. ASSUME NEW a \in Actors, Decide(a) PROVE FALSE
  <2>1. action[a] \in Decisions /\ row.status \in AllowedFrom(action[a])
    BY <1>3 DEF Decide, NoteStaleness
  <2> QED
    BY <2>1, DecisionLaw
<1>4. ASSUME NEW a \in Actors, RecordFailure(a) \/ MarkNeedsAttention(a) \/ HandOver(a)
      PROVE  row'.status \in {row.status, "needs_attention"}
  BY <1>0, <1>4 DEF RecordFailure, MarkNeedsAttention, HandOver, SetStatus, Commit, TypeOK, Rows
<1>5. ASSUME NEW a \in Actors,
             \/ CreateControl(a) \/ InsertTask(a) \/ PlanFails(a)
             \/ \E act \in TaskActions : ApplyAction(a, act)
             \/ ResumeTask(a) \/ ResumeCoding(a) \/ Refuse(a)
             \/ StartCoding(a) \/ Coded(a)
             \/ \E result \in {"passed", "failed"} : Validate(a, result)
             \/ OpenPullRequest(a) \/ ExecutionFails(a)
             \/ MarkControl(a) \/ MarkTimedOut(a) \/ Deliver(a) \/ RecordResult(a)
             \/ LockTimeout(a) \/ Crash(a)
      PROVE  row' = row
  BY <1>5 DEF MarkControl, MarkTimedOut, Deliver, RecordResult, SetControl, CreateControl, InsertTask, PlanFails, ApplyAction, ReadRow, ResumeTask,
     ResumeCoding, Refuse, StartCoding, Coded, Validate, OpenPullRequest, ExecutionFails,
     LockTimeout, Crash, Commit, Rollback
<1>6. CASE UNCHANGED vars
  BY <1>6 DEF vars
<1> QED
  BY <1>1, <1>2, <1>3, <1>4, <1>5, <1>6 DEF Next

(* Unless a decision was taken on a stale status, a failed, cancelled or   *)
(* suspended task is never worked on again, by any actor                   *)
(* (application.py:250-305, workflow.py:232).                              *)
THEOREM FinalEnds == Spec => EndsAreFinal
<1>1. TaskInvariant /\ [Next]_vars
        => [row.status \in {"failed", "cancelled", "needs_attention"} /\ ~stale'
              => row'.status \in {row.status, "needs_attention"}]_vars
  BY EndsStep
<1> QED
  BY <1>1, TaskInvariantHolds, PTL DEF Spec, EndsAreFinal

(* Only opening a pull request asks GitHub for one.                        *)
LEMMA PullRequestStep ==
  ASSUME TaskInvariant, [Next]_vars, prs' # prs
  PROVE  ~row.pr /\ ~ctl.pr
<1>0. /\ TypeOK /\ ControlMirrorsTask /\ DraftSound /\ PlannedOnce
  BY DEF TaskInvariant
<1>1. ASSUME NEW a \in Actors, OpenPullRequest(a) PROVE ~row.pr /\ ~ctl.pr
  <2>1. pc[a] = "publish" /\ ~draft.ctl.pr
    BY <1>1 DEF OpenPullRequest, RecordedPR
  <2>2. draft.ctl.pr = row.pr /\ row.status # "absent"
    BY <1>0, <2>1 DEF DraftSound, PlannedOnce
  <2> QED
    BY <1>0, <2>1, <2>2 DEF ControlMirrorsTask
<1>2. ASSUME NEW a \in Actors,
             \/ CreateControl(a) \/ InsertTask(a) \/ PlanReady(a) \/ PlanFails(a)
             \/ \E act \in TaskActions : ApplyAction(a, act)
             \/ ResumeTask(a) \/ ResumeCoding(a) \/ Refuse(a) \/ Decide(a)
             \/ StartCoding(a) \/ Coded(a)
             \/ \E result \in {"passed", "failed"} : Validate(a, result)
             \/ CommitFailed(a) \/ CommitReview(a) \/ ExecutionFails(a)
             \/ RecordFailure(a) \/ MarkNeedsAttention(a)
             \/ MarkControl(a) \/ MarkTimedOut(a) \/ Deliver(a) \/ HandOver(a)
             \/ RecordResult(a) \/ LockTimeout(a) \/ Crash(a)
      PROVE  FALSE
  BY <1>2 DEF MarkControl, MarkTimedOut, Deliver, HandOver, RecordResult, CreateControl, InsertTask, PlanReady, PlanFails, ApplyAction, ReadRow,
     ResumeTask, ResumeCoding, Refuse, Decide, StartCoding, Coded, Validate,
     CommitFailed, CommitReview, ExecutionFails, RecordFailure, MarkNeedsAttention,
     LockTimeout, Crash
<1>3. CASE UNCHANGED vars
  BY <1>3 DEF vars
<1> QED
  BY <1>1, <1>2, <1>3 DEF Next

(* A recorded pull request is recovered, never asked for again, whatever   *)
(* the actor had read before it took the lock (application.py:379-412).    *)
THEOREM NoSecondPullRequest == Spec => RecordedPRIsReused
<1>1. TaskInvariant /\ [Next]_vars => [prs' # prs => ~row.pr /\ ~ctl.pr]_vars
  BY PullRequestStep
<1> QED
  BY <1>1, TaskInvariantHolds, PTL DEF Spec, RecordedPRIsReused
=============================================================================
