SPECIFICATION Spec
CONSTANTS
  i1 = i1  i2 = i2  t1 = t1  t2 = t2
  Id = {i1, i2}
  Task = {t1, t2}
  MaxRev = 2
  Faults = {}
  None = None
SYMMETRY MCSymmetry
INVARIANT KnownProfiles
CHECK_DEADLOCK FALSE
