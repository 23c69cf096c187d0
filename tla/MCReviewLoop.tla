---------------------------- MODULE MCReviewLoop ----------------------------
(* The instances of ReviewLoop that TLC checks.                            *)
EXTENDS ReviewLoop

(* Bound: a behaviour is followed until two threads are at work at once.   *)
OneAtATime == ~overlapped
=============================================================================
