CONSTANTS
  Partition = {p1}
  LogLen = 3
  Poison = {}
  EventBytes = 9
  MaxBytes = 20
  MaxRecords = 3
  Permits = 1
  FlushOutcomes = {TRUE}
  CommitOutcomes = {TRUE}
  MayShutdown = FALSE
  MaxEpoch = 1
  MaxDeaths = 0
SPECIFICATION Spec
PROPERTIES
  NoBackwardCommit
CHECK_DEADLOCK FALSE
