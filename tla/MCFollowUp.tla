----------------------------- MODULE MCFollowUp -----------------------------
(* The instance of FollowUp that TLC checks.                               *)
EXTENDS FollowUp

(* The API process: a request can make it poll, too.                       *)
MCHandlers == Processes \X {"poll", "operator"}
=============================================================================
