SPECIFICATION LiveSpec
CONSTANTS
    Owners = {a, b, c}
    merge = merge
    resource = resource
    fm = fm
    fr = fr
    Ids <- MCIds
    Files <- MCFiles
    FileName <- MCFileName
    TTL <- MCTTL
    ReqTTL = {0, 1}
    NoLease = NoLease
INVARIANTS
    MutualExclusion
PROPERTIES
    ImplementsOwnership
    Reclaimed
