\* The API process, two repair rounds, one action of an operator, one fault.
SPECIFICATION FairSpec
CONSTANTS
  Processes = {api}
  Handlers <- MCHandlers
  Slots = {s1, s2}
  None = None
  MaxRounds = 2
  MaxActions = 1
  MaxFaults = 1
INVARIANTS
  TypeOK
  OneJobPerTask
  MarksAreTrue
  RecoveryReaches
PROPERTIES
  FailuresAreEscalated
\* A task that has ended is left alone.
CHECK_DEADLOCK FALSE
