SPECIFICATION Spec
CONSTANTS
  c1 = c1  c2 = c2  c3 = c3  k1 = k1  k2 = k2  k3 = k3
  Absent = Absent  Blank = Blank  Garbled = Garbled
  MaxNets = 2
  MaxPrompts = 1
  Call = {k1}
  Conn = {c1}
  ValidConn = {c1}
  Payload <- TunnelPayload
  Requests <- TunnelRequests
  Faults = {"reject"}
SYMMETRY CallSymmetry
INVARIANT OneCredentialAttempt
CHECK_DEADLOCK FALSE
