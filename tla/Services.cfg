SPECIFICATION Spec
CONSTANTS
    None = None
    CutShort = CutShort
    t1 = t1
    t2 = t2
    x1 = x1
    x2 = x2
    Clients = {t1, t2}
    MaxOps = 4
    MaxCalls = 3
    MaxFaults = 1
    Files = {x1, x2, x3}
    Unsupported = {x3}
    Ignored = {x3}
    MaxEdits = 1
    MaxPasses = 2
    ProviderIds = {x1, x2}
    AccountIds = {x3}
    Local = {x1}
    Optimizers = {x1, x2}
    Companions = {x2}
    Inputs = {x3}
    MaxConfig = 1
    Overrides = {0}
    Packs = {x1}
    Notes = {x2}
    Sources = {x1, x2}
    Size <- SizeTwo
    MaxTotal = 3
    Urls = {x1, x2}
    Numbers = {1, 2}
    Bodies = {"hit", "miss"}
    Inactive = {"draft"}
    EntrySize <- EntrySizeTwo
    Score <- HitScores
    MaxEntries = 2
    MaxBytes = 3
    PortNumbers = {1, 2}
    Operators = {t1, t2}
    Tickets = {x1}
    Paths = {x1, x2}
    Unusable = {x3}
    DefaultGrant = x1
    TTL = 1
    MaxRaised = 2
    Chats = {x1, x2}
    MaxSends = 3
    Devices <- OneDevice
    Sigs = {x1}
    Errors = {x2}
    Orgs = {x3}
    Checkers = {x1, x2}
    ScanLoop = x1
    Syncs = {t1, t2}
    Heaps = {0, 4}
    HistCap = 3
    LeakChecks = 3
    LeakDrop = 1
    MaxCreated = 1
    MaxRuns = 3
    Issues = {x1, x2}
    MaxBoxes = 1
    MaxStream = 2
    Tokens = {2}
    MaxLines = 3
    Accounts = {x1, x2}
    MaxLogins = 2
SYMMETRY RequestSymmetry
CHECK_DEADLOCK FALSE
INVARIANTS
    
    
    
    
    PresentIsConfigured
    KnowledgeSound
    RegistriesSound
    
    AnswersInPlace
    NeitherLostNorTwice
    
    
