SPECIFICATION FairSpec
CONSTANTS
    e1 = e1
    e2 = e2
    Event = {e1}
    Batches <- MCSingles
    MaxFiles = 3
    MaxAge = 3
    MaxFaults = 1
PROPERTIES SupersededReclaimed RetentionEnforced
CHECK_DEADLOCK FALSE
