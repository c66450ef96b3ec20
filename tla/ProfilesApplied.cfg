SPECIFICATION Spec
CONSTANTS
  i1 = i1  i2 = i2  t1 = t1  t2 = t2
  Id = {i1}
  Task = {t1}
  MaxRev = 1
  Faults = {"daemon"}
  None = None
INVARIANT PersistedAreApplied
CHECK_DEADLOCK FALSE
