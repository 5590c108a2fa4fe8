SPECIFICATION Spec
CONSTANTS
    Sizes = {0, 1, 3}
    MaxBytes = 4
    MaxRecords = 4
    MaxAge = 2
    MaxJumps = 2
    MaxNow = 5
INVARIANTS TypeOK Accounted CutForReason OldLeaves
