\* One poller and one issue; two tasks, started by the poller or the gateway;
\* one fault.
SPECIFICATION FairSpec
CONSTANTS
  Pollers = {w}
  Issues = {i}
  Parented = {i}
  None = None
  MaxRetries = 1
  MaxTasks = 2
  MaxFaults = 1
INVARIANTS
  TypeOK
  OneTaskPerIssue
PROPERTIES
  ClaimsDoNotHang
  TasksAreAttached
