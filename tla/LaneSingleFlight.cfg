\* Two actors and the README's "only one active main task at a time".
SPECIFICATION Spec
CONSTANTS
  c = c
  p = p
  t = t
  u = u
  None = None
  Tasks = {t, u}
  Actors = {poll, request}
  ParentOf <- MCParentOf
  MaxCrashes = 0
INVARIANTS
  OneActiveTask
