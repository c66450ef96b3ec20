SPECIFICATION FairSpec
CONSTANTS
  s1 = s1  s2 = s2  p1 = p1  p2 = p2
  Session = {s1, s2}
  Profile = {p1, p2}
  None = None
INVARIANTS TypeOK FreshToken
PROPERTIES PortFreed Ended DeskSpec
