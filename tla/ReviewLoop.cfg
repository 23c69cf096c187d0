\* A scheduler that polls and the API process that answers the operator, until
\* two threads are at work on the task at once.
SPECIFICATION FairSpec
CONSTANTS
  Processes = {scheduler, api}
  Schedulers = {scheduler}
  None = None
  MaxRounds = 3
  MaxChanges = 5
  MaxFaults = 1
CONSTRAINT
  OneAtATime
INVARIANTS
  TypeOK
  DeliveryWasReviewed
  CompletedIsTrue
  RepairsAreBounded
PROPERTIES
  LoopEnds
  ApprovedIsSettled
  EndIsFinal
\* A settled task leaves nothing to do.
CHECK_DEADLOCK FALSE
