\* One process whose poll resumes the task while its job repairs it; no faults.
SPECIFICATION Spec
CONSTANTS
  Processes = {scheduler}
  Schedulers = {scheduler}
  None = None
  MaxRounds = 3
  MaxChanges = 3
  MaxFaults = 0
INVARIANTS
  DeliveriesWereReviewed
\* A settled task leaves nothing to do.
CHECK_DEADLOCK FALSE
