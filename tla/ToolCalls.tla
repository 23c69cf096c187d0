----------------------------- MODULE ToolCalls -----------------------------
(***************************************************************************)
(* What the callers of StdioMCPServerAdapter.call_tool are promised, with  *)
(* no session in sight: a call ends with the tool's result or with an      *)
(* error; a result means that the tool ran; and the tool runs at most      *)
(* twice for one call, because a broken session is replaced once and the   *)
(* call sent again.  An error says nothing: the tool may have run.         *)
(***************************************************************************)
EXTENDS Naturals

CONSTANTS Callers

VARIABLES
  open,     \* calls that have not ended
  runs,     \* runs[c]: how often the tool ran for c's latest call
  result    \* result[c]: how c's latest call ended, "none" while it is open

vars == <<open, runs, result>>

ToolResults == {"ok", "refused"}

Errors == {"broken", "fatal"}

Init ==
  /\ open = {}
  /\ runs = [c \in Callers |-> 0]
  /\ result = [c \in Callers |-> "none"]

Ask(c) ==
  /\ c \notin open
  /\ open' = open \cup {c}
  /\ runs' = [runs EXCEPT ![c] = 0]
  /\ result' = [result EXCEPT ![c] = "none"]

Run(c) ==
  /\ c \in open
  /\ runs[c] < 2
  /\ runs' = [runs EXCEPT ![c] = @ + 1]
  /\ UNCHANGED <<open, result>>

End(c, how) ==
  /\ c \in open
  /\ how \in ToolResults => runs[c] > 0
  /\ open' = open \ {c}
  /\ result' = [result EXCEPT ![c] = how]
  /\ UNCHANGED runs

(* The process of the callers ends, and every call with it.                *)
Restart ==
  /\ open' = {}
  /\ runs' = [c \in Callers |-> 0]
  /\ result' = [c \in Callers |-> "none"]

Next ==
  \/ \E c \in Callers : Ask(c) \/ Run(c) \/ \E how \in ToolResults \cup Errors : End(c, how)
  \/ Restart

Spec == Init /\ [][Next]_vars
=============================================================================
