--------------------------- MODULE MCPublication ---------------------------
(* The instance of Publication that TLC checks: its constants are model    *)
(* values of Publication.cfg.                                              *)
EXTENDS Publication
=============================================================================
