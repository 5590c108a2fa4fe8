CONSTANTS
  Partition = {p1}
  LogLen = 3
  Poison = {}
  EventBytes = 9
  MaxBytes = 10
  MaxRecords = 2
  Permits = 1
  FlushOutcomes = {TRUE, FALSE}
  CommitOutcomes = {TRUE}
  MayShutdown = FALSE
  MaxEpoch = 0
  MaxDeaths = 0
SPECIFICATION FairSpec
PROPERTIES
  PausedPartitionResumes
CHECK_DEADLOCK FALSE
