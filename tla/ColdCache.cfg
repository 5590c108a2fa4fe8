SPECIFICATION FairSpec
CONSTANTS
    u1 = u1
    u2 = u2
    u3 = u3
    Query = {q1, q2}
    Uri = {u1, u2, u3}
    SizeOf <- MCSizeOf
    MaxBytes = 3
    CountCap = 2
    ColdPermits = 2
    Plans <- MCPlans
    MaxStray = 1
INVARIANTS TypeOK BytesAccounted SizeBound IndexedOnDisk LoneQueryKeepsFiles
PROPERTIES QueriesEnd
CHECK_DEADLOCK FALSE
