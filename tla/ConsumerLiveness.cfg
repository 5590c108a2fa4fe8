CONSTANTS
  Partition = {p1}
  LogLen = 4
  Poison = {1}
  EventBytes = 9
  MaxBytes = 20
  MaxRecords = 3
  Permits = 1
  FlushOutcomes = {TRUE}
  CommitOutcomes = {TRUE}
  MayShutdown = FALSE
  MaxEpoch = 0
  MaxDeaths = 0
SPECIFICATION FairSpec
PROPERTIES
  EventuallyStored
  EventuallyCommitted
  PausedPartitionResumes
