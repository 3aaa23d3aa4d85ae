SPECIFICATION FairSpec
CONSTANTS
    b1 = b1
    p1 = p1
    p2 = p2
    q1 = q1
    q2 = q2
    x1 = x1
    None = None
    Workers <- OneWorker
    Requests <- TwoRequests
    Ports <- TwoPorts
    Backends <- OneBackend
    Capacity = 1
    MaxEdits = 3
INVARIANT TypeOK
PROPERTY BackendsAreFound
