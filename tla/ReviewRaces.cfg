\* One process whose poll resumes the task beside its job.
SPECIFICATION FairSpec
CONSTANTS
  Processes = {scheduler}
  Schedulers = {scheduler}
  None = None
  MaxRounds = 2
  MaxChanges = 4
  MaxFaults = 1
PROPERTIES
  LoopEnds
\* A settled task leaves nothing to do.
CHECK_DEADLOCK FALSE
