CONSTANTS
  Partition = {p1}
  LogLen = 3
  Poison = {1}
  EventBytes = 9
  MaxBytes = 20
  MaxRecords = 3
  Permits = 1
  FlushOutcomes = {TRUE, FALSE}
  CommitOutcomes = {TRUE, FALSE}
  MayShutdown = TRUE
  MaxEpoch = 1
  MaxDeaths = 1
SPECIFICATION Spec
INVARIANTS
  TypeOK
  CommitBacked
  NothingSkipped
  PausedHasWaker
PROPERTIES
  RegressOnlyByStaleResult
CHECK_DEADLOCK FALSE
