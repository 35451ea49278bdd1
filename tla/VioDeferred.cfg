SPECIFICATION FairSpec
CONSTANTS
    None = None
    Loop = Loop
    Issues = {i1, i2}
    Accounts = {a1}
    Ops = {t1}
    Eligible = {i1, i2}
    Commands = {"run", "start"}
    Modes = {"now"}
    Picks = {None}
    StartActive = FALSE
    Unsteady = {}
    SaveMayFail = FALSE
    CallsMayFail = FALSE
    OnRequest = FALSE
    EarlyCommands = FALSE
    LeaseMayExpire = FALSE
    Janitor = FALSE
    MaxCrashes = 0
PROPERTIES
    DeferredRetried
CHECK_DEADLOCK FALSE
