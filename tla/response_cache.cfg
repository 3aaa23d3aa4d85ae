SPECIFICATION Spec
CONSTANTS
    b1 = b1
    b2 = b2
    k1 = k1
    k2 = k2
    r1 = r1
    r2 = r2
    None = None
    Requests <- TwoRequests
    Kinds <- TwoKinds
    Hashes <- TwoKinds
    Hash <- OwnHash
    Backends <- TwoBackends
    MaxServers = 2
SYMMETRY Symmetry
INVARIANTS TypeOK OwnResponse HitsAreCurrent LiveServerAnswers
CHECK_DEADLOCK FALSE
