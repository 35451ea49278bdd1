SPECIFICATION Spec
CONSTANTS
    None = None
    Loop = Loop
    Issues = {i1, i2}
    Accounts = {a1}
    Ops = {t1}
    Eligible = {i1, i2}
    Commands = {"run"}
    Modes = {"parallel"}
    Picks = {None}
    StartActive = FALSE
    Unsteady = {}
    SaveMayFail = FALSE
    CallsMayFail = FALSE
    OnRequest = FALSE
    EarlyCommands = FALSE
    LeaseMayExpire = FALSE
    Janitor = FALSE
    MaxCrashes = 0
INVARIANTS
    NoOrphanReservation
SYMMETRY Symmetry
CHECK_DEADLOCK FALSE
