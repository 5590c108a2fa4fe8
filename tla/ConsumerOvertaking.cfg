CONSTANTS
  Partition = {p1}
  LogLen = 3
  Poison = {}
  EventBytes = 9
  MaxBytes = 20
  MaxRecords = 3
  Permits = 2
  FlushOutcomes = {TRUE}
  CommitOutcomes = {TRUE}
  MayShutdown = FALSE
  MaxEpoch = 0
  MaxDeaths = 0
SPECIFICATION Spec
INVARIANTS
  AtLeastOnceCommit
CHECK_DEADLOCK FALSE
