SPECIFICATION Spec
CONSTANTS
    None = None
    Loop = Loop
    Issues = {i1, i2}
    Accounts = {a1}
    Ops = {t1, t2}
    Eligible = {i1, i2}
    Commands = {"run", "continue"}
    Modes = {"now", "parallel", "queue"}
    Picks = {a1}
    StartActive = FALSE
    Unsteady = {}
    SaveMayFail = FALSE
    CallsMayFail = FALSE
    OnRequest = FALSE
    EarlyCommands = FALSE
    LeaseMayExpire = FALSE
    Janitor = FALSE
    MaxCrashes = 0
SYMMETRY Symmetry
CHECK_DEADLOCK FALSE
INVARIANTS SingleExecution AccountExclusive NoOrphanReservation MergeExclusive 
