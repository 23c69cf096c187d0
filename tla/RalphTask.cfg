\* Two actors on one task, with crashes and lock timeouts.
SPECIFICATION Spec
CONSTANTS
  Actors = {poll, request}
  None = None
  MaxFaults = 1
SYMMETRY ActorSymmetry
INVARIANTS
  TypeOK
  
  OnlySettledStatuses
  ReviewedWorkIsReady
PROPERTIES
  EndsAreFinal
  RecordedPRIsReused
\* When the one task of this instance could not be planned nothing is left to do.
CHECK_DEADLOCK FALSE
