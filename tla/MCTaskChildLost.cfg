\* The constants of the code, in seconds.
SPECIFICATION Spec
CONSTANTS
  Key = {k1}
  Slot = {m1, m2}
  NoKey = NoKey
  Workers = 1
  MaxRetries = 5
  BaseDelay = 4
  MaxDelay = 600
  LeaseTTL = 600
  DoneTTL = 604800
  SoftLimit = 540
  HardLimit = 600
  VisibilityTimeout = 3600
  FaultKinds = {"child_lost"}
  MaxFaults = 1
  MaxPublish = 1
SYMMETRY Symmetry
CHECK_DEADLOCK FALSE
INVARIANTS AtLeastOnce
