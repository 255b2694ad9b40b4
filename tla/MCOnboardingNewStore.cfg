SPECIFICATION Spec
CONSTANTS
  Request = {r1}
  NoRequest = NoRequest
  Job = {j1, j2}
  MaxRetries = 3
  InitialStatus = {"absent"}
  FaultKinds = {}
  MaxFaults = 0
  MaxOnboard = 1
CHECK_DEADLOCK FALSE
INVARIANTS Settled
