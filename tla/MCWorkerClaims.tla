--------------------------- MODULE MCWorkerClaims ---------------------------
(* The instances of WorkerClaims that TLC checks.                          *)
EXTENDS WorkerClaims
=============================================================================
