SPECIFICATION Spec
CONSTANTS
    None = None
    Loop = Loop
    Issues = {i1}
    Accounts = {a1}
    Ops = {t1}
    Eligible = {i1}
    Commands = {"run", "allow", "start", "tick", "cancel"}
    Modes = {"now"}
    Picks = {None}
    StartActive = FALSE
    Unsteady = {a1}
    SaveMayFail = TRUE
    CallsMayFail = TRUE
    OnRequest = TRUE
    EarlyCommands = TRUE
    LeaseMayExpire = TRUE
    Janitor = TRUE
    MaxCrashes = 1
SYMMETRY Symmetry
CHECK_DEADLOCK FALSE
INVARIANTS  DoneIsMerged
