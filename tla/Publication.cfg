\* Two threads of a process use one GitHub client; two rounds of one issue,
\* two failures.
SPECIFICATION FairSpec
CONSTANTS
  Callers = {coder, poller}
  Coder = coder
  Nobody = nobody
  Paths = {src, doc}
  Ignored = {doc}
  Modes = {"dry", "local", "git", "mcp"}
  MaxRounds = 2
  MaxFaults = 2
INVARIANTS
  TypeOK
  ReviewedIsPublished
  UnvalidatedStaysLocal
  RecordedPRIsOpen
PROPERTIES
  ImplementsToolCalls
  RoundsEnd
\* A thread that waits for a session that has ended waits for ever, and
\* then all of them do.
CHECK_DEADLOCK FALSE
