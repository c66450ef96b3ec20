SPECIFICATION FairSpec
CONSTANTS
  p1 = p1  p2 = p2
  Profile = {p1, p2}
  SamlProfile = {p2}
  Outputs <- MCOutputs
  Down = Down
  Ticker = Ticker
  Clicker = {click}
  Every = 2
  None = None
INVARIANTS TypeOK OwnState
PROPERTIES Settles DotsSettle NoFlicker
