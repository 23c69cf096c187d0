\* One actor, with crashes: the row implements the single-flight promise.
SPECIFICATION FairSpec
CONSTANTS
  c = c
  p = p
  t = t
  u = u
  None = None
  Tasks = {c, p, t, u}
  Actors = {poll}
  ParentOf <- MCParentOf
  MaxCrashes = 1
INVARIANTS
  TypeOK
  QueueWellFormed
  GrantedIsActive
PROPERTIES
  WaitersAreKept
  ImplementsSingleFlight
  RecordedLeaves
