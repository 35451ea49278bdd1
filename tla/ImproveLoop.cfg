SPECIFICATION FairSpec
CONSTANTS
    WebChecks = {"api"}
    Details = {d1}
    MaxIterations = 3
    StuckThreshold = 1
    RetryLimits = {2, 3, 5}
CHECK_DEADLOCK FALSE
INVARIANTS WorkerCallsBounded PolicyStops StuckStops MergedWasAccepted
PROPERTY Disposes
