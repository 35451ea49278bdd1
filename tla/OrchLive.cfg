SPECIFICATION FairSpec
CONSTANTS
    None = None
    Loop = Loop
    Issues = {i1, i2}
    Accounts = {a1}
    Ops = {t1}
    Eligible = {i1, i2}
    Commands = {"run", "start", "stop"}
    Modes = {"now", "queue"}
    Picks = {a1}
    StartActive = FALSE
    Unsteady = {}
    SaveMayFail = FALSE
    CallsMayFail = FALSE
    OnRequest = FALSE
    EarlyCommands = FALSE
    LeaseMayExpire = FALSE
    Janitor = FALSE
    MaxCrashes = 0
PROPERTIES
    RunsEnd
    
CHECK_DEADLOCK FALSE
