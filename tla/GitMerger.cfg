SPECIFICATION FairSpec
CONSTANTS
    Issues = {i1, i2}
    External = ext
    MaxAttempts = 3
    Serialized = TRUE
    CallsMayFail = TRUE
    AckMayBeLost = TRUE
    MaxExternal = 2
    MaxCrashes = 1
CHECK_DEADLOCK FALSE
INVARIANTS MergedIsPushed ExternalKept
PROPERTY MergeAnswers
