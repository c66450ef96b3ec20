SPECIFICATION Spec
CONSTANTS
  i1 = i1  i2 = i2  t1 = t1  t2 = t2
  Id = {i1, i2}
  Task = {t1, t2}
  MaxRev = 2
  Faults = {"daemon", "keyring", "disk", "quit", "crash"}
  None = None
SYMMETRY MCSymmetry
INVARIANTS TypeOK Agreement NewestKept NoPanic ListedOnce
PROPERTY OwnEntryOnly
CHECK_DEADLOCK FALSE
