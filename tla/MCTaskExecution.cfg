SPECIFICATION Spec
CONSTANTS
  Key = {k1}
  Slot = {m1, m2, m3, m4, m5}
  NoKey = NoKey
  Workers = 2
  MaxRetries = 1
  BaseDelay = 1
  MaxDelay = 2
  LeaseTTL = 3
  DoneTTL = 4
  SoftLimit = 2
  HardLimit = 3
  VisibilityTimeout = 6
  FaultKinds = {"child_lost", "node_lost", "work_error", "redis_error", "broker_error", "slow"}
  MaxFaults = 1
  MaxPublish = 2
CHECK_DEADLOCK FALSE
SYMMETRY Symmetry
INVARIANTS TypeOK NoConcurrentWork DuplicatesExplained
PROPERTIES ImplementsWindow
