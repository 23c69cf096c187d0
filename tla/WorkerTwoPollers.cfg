\* Two pollers and one issue, no faults: the lease keeps nobody out.
SPECIFICATION Spec
CONSTANTS
  Pollers = {v, w}
  Issues = {i}
  Parented = {i}
  None = None
  MaxRetries = 1
  MaxTasks = 2
  MaxFaults = 0
INVARIANTS
  OneTaskPerIssue
