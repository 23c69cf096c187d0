---------------------------- MODULE MCRalphTask ----------------------------
(* The instance of RalphTask that TLC checks.                              *)
EXTENDS RalphTask, TLC

(* Actors are interchangeable.                                             *)
ActorSymmetry == Permutations(Actors)
============================================================================
