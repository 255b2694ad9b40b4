SPECIFICATION Spec
CONSTANTS
  Category = {c1}
  Product = {}
  NoTrigger = NoTrigger
  Threshold = 3
  SlotTTL = 2
  DoneTTL = 7
  FaultKinds = {}
  MaxFaults = 0
  MaxEvents = 3
  MaxQueue = 1
CHECK_DEADLOCK FALSE
PROPERTIES OnlyDuplicatesSkipped
