SPECIFICATION Spec
CONSTANTS
  c1 = c1  c2 = c2  c3 = c3  k1 = k1  k2 = k2  k3 = k3
  Absent = Absent  Blank = Blank  Garbled = Garbled
  MaxNets = 2
  MaxPrompts = 1
  Call = {k1, k2}
  Conn = {c1, c2, c3}
  ValidConn = {c1, c2}
  Payload <- FaultPayload
  Requests <- FaultRequests
  Faults = {"io", "unlink", "kill", "stop", "start", "refuse",
            "mention"}
INVARIANTS TypeOK AppliedIsInstalled RemovedIsGone AdminTextKept
PROPERTY GateSpec
CHECK_DEADLOCK FALSE
