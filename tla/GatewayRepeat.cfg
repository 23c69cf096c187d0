\* A direct task, delivered twice.
SPECIFICATION Spec
CONSTANTS
  Handlers = {h1, h2}
  M = M
  N = N
  Messages = {M, N}
  Conversations <- MCRepeat
  Endpoints <- MCEndpoints
  Default = "main"
  AutoApprove = TRUE
  None = None
  MaxDeliveries <- MCMaxDeliveries
  MaxTasks = 1
  MaxFaults = 1
PROPERTIES
  RepeatsAreHarmless
\* The channel stops when every message is answered or given up.
CHECK_DEADLOCK FALSE
