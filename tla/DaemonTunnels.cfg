SPECIFICATION FairSpec
CONSTANTS
  c1 = c1  c2 = c2  c3 = c3  k1 = k1  k2 = k2  k3 = k3
  Absent = Absent  Blank = Blank  Garbled = Garbled
  MaxNets = 2
  MaxPrompts = 2
  Call = {k1, k2}
  Conn = {c1}
  ValidConn = {c1}
  Payload <- MixedPayload
  Requests <- MixedRequests
  Faults = {"reject", "narrow", "silent", "drop", "kill", "stop", "build"}
INVARIANTS ConnectBringsAll DisconnectClears AttemptPerChild
PROPERTIES Answered NearerReply GateSpec
CHECK_DEADLOCK FALSE
