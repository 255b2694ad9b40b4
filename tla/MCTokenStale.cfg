SPECIFICATION Spec
CONSTANTS
  Worker = {w1}
  Server = server
  Floor = 2
  DefaultTTL = 2
  Grants <- MCGrants
  LongestTTL = 3
  RunLimit = 3
  FetchLimit = 2
  MaxChanges = 3
INVARIANTS TypeOK DeadHitsAreShortLived StaleTokenGone
