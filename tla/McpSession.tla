----------------------------- MODULE McpSession -----------------------------
(***************************************************************************)
(* StdioMCPServerAdapter and its session thread, app/runtime/mcp.py.       *)
(*                                                                         *)
(* An adapter owns one server process.  Its lock is held for a whole call: *)
(* the caller makes sure that there is a runtime, puts a request into the  *)
(* runtime's queue and waits, without a timeout, for the answer of the     *)
(* runtime's thread.  The thread opens the session, takes requests, and    *)
(* ends with the first error, which it first hands to the caller.  Only a  *)
(* broken stream makes the caller replace the runtime and ask once more;   *)
(* after any other error, a read timeout for one, the dead runtime stays.  *)
(*                                                                         *)
(* A session that breaks does so before or after the server ran the tool.  *)
(* A tool that runs later still, when the caller has gone on, cannot be    *)
(* told from one that ran just before the break.                           *)
(***************************************************************************)
EXTENDS Naturals

CONSTANTS
  Callers,   \* threads that call tools of the server
  Nobody,    \* nobody holds the adapter's lock
  MaxFaults  \* bound: failures of any kind

ASSUME NobodyAssumption == Nobody \notin Callers
ASSUME FaultAssumption == MaxFaults \in Nat

VARIABLES
  holder,   \* who holds the adapter's lock
  session,  \* the runtime: "none", or what its thread is doing
  cause,    \* the error that ended the thread
  call,     \* call[c]: the call of thread c
  faults

sessionVars == <<holder, session, cause, call, faults>>

Sessions == {"none", "starting", "up", "ending", "dead"}

Breaks == {"broken", "fatal"}

Phases == {"idle", "wants", "submit", "queued", "sent", "served", "answered", "raised"}

Calls == [phase : Phases, tries : 1..2, runs : 0..2,
          reply : {"none", "ok", "refused"} \cup Breaks]

NoCall == [phase |-> "idle", tries |-> 1, runs |-> 0, reply |-> "none"]

SessionInit ==
  /\ holder = Nobody
  /\ session = "none"
  /\ cause = "none"
  /\ call = [c \in Callers |-> NoCall]
  /\ faults = 0

(* _is_recoverable_session_error.                                          *)
Recoverable(error) == error = "broken"

(* _ensure_runtime_locked.                                                 *)
Ensured(s) == IF s = "none" THEN "starting" ELSE s

Alive == session \in {"starting", "up", "ending"}

Fault == faults < MaxFaults /\ faults' = faults + 1

To(c, phase) == call' = [call EXCEPT ![c].phase = phase]

----------------------------------------------------------------------------
(* The caller.                                                             *)
Ask(c) ==
  /\ call[c].phase = "idle"
  /\ call' = [call EXCEPT ![c] = [NoCall EXCEPT !.phase = "wants"]]
  /\ UNCHANGED <<holder, session, cause, faults>>

Acquire(c) ==
  /\ call[c].phase = "wants"
  /\ holder = Nobody
  /\ holder' = c
  /\ session' = Ensured(session)
  /\ To(c, "submit")
  /\ UNCHANGED <<cause, faults>>

(* _submit: a thread that is alive may still be about to end.              *)
Submit(c) ==
  /\ call[c].phase = "submit"
  /\ call' = [call EXCEPT ![c] = IF Alive THEN [@ EXCEPT !.phase = "queued"]
                                 ELSE [@ EXCEPT !.phase = "raised", !.reply = cause]]
  /\ UNCHANGED <<holder, session, cause, faults>>

(* Mutant: a call is sent again as long as the stream breaks.              *)
ReconnectAlways(c) ==
  /\ call[c].phase = "raised"
  /\ Recoverable(call[c].reply)
  /\ session' = Ensured("none")
  /\ cause' = "none"
  /\ call' = [call EXCEPT ![c].phase = "submit", ![c].tries = 2, ![c].reply = "none"]
  /\ UNCHANGED <<holder, faults>>

(* _close_runtime_locked, a new runtime, and the same call again.          *)
Reconnect(c) ==
  /\ call[c].phase = "raised"
  /\ Recoverable(call[c].reply)
  /\ call[c].tries = 1
  /\ session' = Ensured("none")
  /\ cause' = "none"
  /\ call' = [call EXCEPT ![c].phase = "submit", ![c].tries = 2, ![c].reply = "none"]
  /\ UNCHANGED <<holder, faults>>

(* Mutant: an error leaves the adapter locked.                             *)
ReturnKeepsLock(c) ==
  /\ \/ call[c].phase = "answered"
     \/ call[c].phase = "raised" /\ ~(Recoverable(call[c].reply) /\ call[c].tries = 1)
  /\ holder' = IF call[c].phase = "answered" THEN Nobody ELSE holder
  /\ To(c, "idle")
  /\ UNCHANGED <<session, cause, faults>>

(* The answer, or the error, leaves call_tool.                             *)
Return(c) ==
  /\ \/ call[c].phase = "answered"
     \/ call[c].phase = "raised" /\ ~(Recoverable(call[c].reply) /\ call[c].tries = 1)
  /\ holder' = Nobody
  /\ To(c, "idle")
  /\ UNCHANGED <<session, cause, faults>>

----------------------------------------------------------------------------
(* The thread of the runtime.                                              *)
Started ==
  /\ session = "starting"
  /\ session' = "up"
  /\ UNCHANGED <<holder, cause, call, faults>>

(* The process cannot be started, or initialize() fails: a request that is *)
(* already in the queue is not answered.                                   *)
StartFails(error) ==
  /\ session = "starting"
  /\ session' = "dead"
  /\ cause' = error
  /\ Fault
  /\ UNCHANGED <<holder, call>>

Take(c) ==
  /\ session = "up"
  /\ call[c].phase = "queued"
  /\ To(c, "sent")
  /\ UNCHANGED <<holder, session, cause, faults>>

(* The server runs the tool, which may refuse: CallToolResult.isError.     *)
Serve(c, reply) ==
  /\ call[c].phase = "sent"
  /\ call' = [call EXCEPT ![c].phase = "served", ![c].runs = @ + 1, ![c].reply = reply]
  /\ UNCHANGED <<holder, session, cause, faults>>

Answer(c) ==
  /\ call[c].phase = "served"
  /\ To(c, "answered")
  /\ UNCHANGED <<holder, session, cause, faults>>

(* request.fail, and the error ends the thread.                            *)
SessionBreaks(c, error) ==
  /\ call[c].phase \in {"sent", "served"}
  /\ call' = [call EXCEPT ![c].phase = "raised", ![c].reply = error]
  /\ session' = "ending"
  /\ cause' = error
  /\ Fault
  /\ UNCHANGED holder

(* The context managers have shut the server down.                         *)
ThreadEnds ==
  /\ session = "ending"
  /\ session' = "dead"
  /\ UNCHANGED <<holder, cause, call, faults>>

----------------------------------------------------------------------------
CallerStep(c) == Submit(c) \/ Reconnect(c) \/ Return(c)

ThreadStep ==
  \/ Started \/ ThreadEnds
  \/ \E error \in Breaks : StartFails(error)
  \/ \E c \in Callers : Take(c) \/ Answer(c) \/ \E error \in Breaks : SessionBreaks(c, error)

(* The process of the callers dies, and the server with it.                *)
SessionsLost ==
  /\ holder' = Nobody
  /\ session' = "none"
  /\ cause' = "none"
  /\ call' = [c \in Callers |-> NoCall]

----------------------------------------------------------------------------
SessionTypeOK ==
  /\ holder \in Callers \cup {Nobody}
  /\ session \in Sessions
  /\ cause \in Breaks \cup {"none"}
  /\ call \in [Callers -> Calls]
  /\ faults \in 0..MaxFaults

(* A call runs once per try, a result means that it ran, and a runtime     *)
(* that is ending or dead has an error to tell.                            *)
CallSound(k) ==
  /\ k.runs <= k.tries
  /\ k.phase \in {"wants", "submit", "queued", "sent"} => k.runs < k.tries
  /\ k.phase \notin {"idle", "wants"} => session # "none"
  /\ k.phase \in {"served", "answered"} => k.reply \in {"ok", "refused"}
  /\ k.phase = "raised" => k.reply \in Breaks
  /\ k.reply \in {"ok", "refused"} => k.runs > 0

SessionInvariant ==
  /\ SessionTypeOK
  /\ session \in {"ending", "dead"} => cause \in Breaks
  /\ \A c \in Callers : CallSound(call[c])

(* A request in the queue of a thread that has left its loop: nobody will  *)
(* ever take it, and the caller holds the adapter's lock.                  *)
Unanswerable ==
  \E c \in Callers : call[c].phase = "queued" /\ session \in {"ending", "dead"}

Promise == INSTANCE ToolCalls WITH
  open <- {c \in Callers : call[c].phase # "idle"},
  runs <- [c \in Callers |-> call[c].runs],
  result <- [c \in Callers |-> IF call[c].phase = "idle" THEN call[c].reply ELSE "none"]

(* Whatever happens to the session, a call_tool that returns a result has  *)
(* run the tool, and no call runs it more than twice                       *)
(* (app/runtime/mcp.py:132-141).                                           *)
ImplementsToolCalls == Promise!Spec
=============================================================================
