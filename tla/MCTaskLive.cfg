SPECIFICATION FairSpec
CONSTANTS
  Key = {k1}
  Slot = {m1, m2, m3, m4}
  NoKey = NoKey
  Workers = 2
  MaxRetries = 1
  BaseDelay = 1
  MaxDelay = 2
  LeaseTTL = 3
  DoneTTL = 4
  SoftLimit = 2
  HardLimit = 3
  VisibilityTimeout = 6
  FaultKinds = {"node_lost", "work_error"}
  MaxFaults = 1
  MaxPublish = 2
CHECK_DEADLOCK FALSE
PROPERTIES DoneUnlessRaised EventuallyDrained
