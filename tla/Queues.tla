------------------------------- MODULE Queues -------------------------------
(***************************************************************************)
(* The queue of the execution lane: queued_task_ids, a list that holds no  *)
(* id twice (app/control/session_registry.py).                             *)
(***************************************************************************)
EXTENDS Naturals, Sequences

Elements(q) == {q[i] : i \in 1..Len(q)}

NoRepeats(q) == \A i, j \in 1..Len(q) : q[i] = q[j] => i = j

Position(q, t) == CHOOSE i \in 1..Len(q) : q[i] = t

(* [queued for queued in queue if queued != task_id], for a queue that     *)
(* holds no id twice: QueueWellFormed of ExecutionLane says that it does   *)
(* not.                                                                    *)
Without(q, t) ==
  IF t \in Elements(q)
  THEN [i \in 1..Len(q) - 1 |-> IF i < Position(q, t) THEN q[i] ELSE q[i + 1]]
  ELSE q
=============================================================================
