\* Two request threads, two messages, one crash or exception.
SPECIFICATION FairSpec
CONSTANTS
  Handlers = {h1, h2}
  M = M
  N = N
  Messages = {M, N}
  Conversations <- MCConversations
  Endpoints <- MCEndpoints
  Default = "main"
  AutoApprove = TRUE
  None = None
  MaxDeliveries <- MCMaxDeliveries
  MaxTasks = 1
  MaxFaults = 1
INVARIANTS
  TypeOK
  WorkIsDoneOnce
  
PROPERTIES
  AnswersAreStable
  MessagesAreAnswered
\* The channel stops when every message is answered or given up.
CHECK_DEADLOCK FALSE
