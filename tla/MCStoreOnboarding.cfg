SPECIFICATION FairSpec
CONSTANTS
  Request = {r1, r2}
  NoRequest = NoRequest
  Job = {j1, j2, j3}
  MaxRetries = 1
  InitialStatus = {"absent", "created", "failed"}
  FaultKinds = {"enqueue_error", "commit_error", "work_error", "persist_error", "retry_error", "child_lost", "hard_kill"}
  MaxFaults = 3
  MaxOnboard = 2
CHECK_DEADLOCK FALSE
INVARIANTS TypeOK ReadyIsCurrent EndsCurrent NoneForgotten
PROPERTY PollingEnds
