SPECIFICATION FairSpec
CONSTANTS
    Clients = {c1}
    RingCap = 3
    BufCap = 2
    MaxSeq = 5
    MaxDrops = 3
    MaxRestarts = 1
CHECK_DEADLOCK FALSE
INVARIANT StreamFaithful
PROPERTY Delivered
