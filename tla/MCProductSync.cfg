SPECIFICATION Spec
CONSTANTS
  a = a
  b = b
  c = c
  t1 = t1
  Product = {a, b, c}
  Writer = {t1, t2}
  None = None
  Listings <- MCListings
  Price <- MCPrice
  Categories <- MCCategories
  Amounts = {0, 1, 3}
  ContextLimit = 2
  PageSize = 2
  MaxPages = 2
  MaxRetries = 1
  MaxVersion = 3
CHECK_DEADLOCK FALSE
INVARIANTS TypeOK CalmSyncComplete ChangesArrive DeadlockNeedsReorder SearchAnswers
PROPERTIES SyncEnds
