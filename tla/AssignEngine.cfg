SPECIFICATION FairSpec
CONSTANTS
    Issues = {i1, i2}
    None = none
    MaxAttempts = 3
    CallsMayFail = TRUE
    SaveMayFail = TRUE
    MaxCrashes = 2
CHECK_DEADLOCK FALSE
INVARIANTS RunsBounded DoneIsMerged
PROPERTIES FinishedStays Finishes
