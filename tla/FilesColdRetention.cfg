SPECIFICATION Spec
CONSTANTS
    e1 = e1
    e2 = e2
    Event = {e1, e2}
    Batches <- MCSingles
    MaxFiles = 3
    MaxAge = 3
    MaxFaults = 0
PROPERTY ColdRetentionKept
CHECK_DEADLOCK FALSE
