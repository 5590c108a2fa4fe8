SPECIFICATION FairSpec
CONSTANTS
    Event <- MCEvent
    Batches <- MCBatches
    HourLen = 2
    TargetBytes = 5
    BatchRows = 1
    Header = 1
    MinFiles = 2
    SmallFiles = 3
    MaxDuplicates = 50
    MaxFlushes = 8
INVARIANTS TypeOK AnswerComplete SplitSound SurplusAreDuplicates
PROPERTIES BucketsSettle
