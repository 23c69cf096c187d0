---------------------------- MODULE SingleFlight ----------------------------
(***************************************************************************)
(* What the execution lane promises its users, with no row, no snapshot    *)
(* and no actor: one owner at a time, the others wait in the order they    *)
(* asked, and whoever leaves hands over to the first in line.              *)
(***************************************************************************)
EXTENDS Queues

CONSTANTS Tasks, None

VARIABLES owner, waiting, running

vars == <<owner, waiting, running>>

Waits(t) == t \in Elements(waiting)

Init == owner = None /\ waiting = <<>> /\ running = {}

(* The lane is free or already belongs to t: t runs.                       *)
Accept(t) ==
  /\ owner \in {None, t}
  /\ owner' = t
  /\ waiting' = Without(waiting, t)
  /\ running' = {t}

(* Somebody else owns the lane: t waits behind the others, once.           *)
Enqueue(t) ==
  /\ owner \notin {None, t}
  /\ ~Waits(t)
  /\ waiting' = Append(waiting, t)
  /\ UNCHANGED <<owner, running>>

(* The work of t is over; the lane is handed over later.                   *)
Stop(t) ==
  /\ running' = running \ {t}
  /\ UNCHANGED <<owner, waiting>>

HandOver(t) ==
  /\ owner = t
  /\ t \notin running
  /\ IF waiting = <<>>
     THEN owner' = None /\ waiting' = <<>>
     ELSE owner' = Head(waiting) /\ waiting' = Tail(waiting)
  /\ UNCHANGED running

(* A waiter gives up.                                                      *)
Withdraw(t) ==
  /\ Waits(t)
  /\ waiting' = Without(waiting, t)
  /\ UNCHANGED <<owner, running>>

Next == \E t \in Tasks : Accept(t) \/ Enqueue(t) \/ Stop(t) \/ HandOver(t) \/ Withdraw(t)

Spec == Init /\ [][Next]_vars
=============================================================================
