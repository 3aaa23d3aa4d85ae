SPECIFICATION FairSpec
CONSTANTS
    b1 = b1
    b2 = b2
    r1 = r1
    r2 = r2
    None = None
    Backends <- TwoBackends
    Requests <- TwoRequests
    TTL = 2
    MaxFill = 2
    MaxEdits = 2
INVARIANT TypeOK
INVARIANT BoundedStaleness
PROPERTY CacheCatchesUp
