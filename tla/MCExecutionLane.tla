-------------------------- MODULE MCExecutionLane --------------------------
(* Instances of ExecutionLane for TLC: p is the parent of control task c,  *)
(* the other tasks have no parent.                                         *)
EXTENDS ExecutionLane

CONSTANTS c, p, t, u

MCParentOf == [x \in Tasks |-> IF x = c THEN p ELSE None]
============================================================================
