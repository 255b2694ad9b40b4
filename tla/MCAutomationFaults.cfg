SPECIFICATION Spec
CONSTANTS
  Category = {c1, c2}
  Product = {p1}
  NoTrigger = NoTrigger
  Threshold = 1
  SlotTTL = 2
  DoneTTL = 3
  FaultKinds = {"chat_error", "enqueue_error", "late_error", "work_error", "commit_error", "redis_error", "child_lost"}
  MaxFaults = 4
  MaxEvents = 1
  MaxQueue = 2
CHECK_DEADLOCK FALSE
SYMMETRY Symmetry
INVARIANTS TypeOK RepeatsBounded OneAction SlotMeansActed
