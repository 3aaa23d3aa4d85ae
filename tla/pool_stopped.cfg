SPECIFICATION Spec
CONSTANTS
    c1 = c1
    c2 = c2
    k1 = k1
    k2 = k2
    None = None
    Containers <- OneContainer
    Calls <- TwoCalls
    MaxChanges = 6
    MaxFaults = 0
SYMMETRY CallSymmetry
INVARIANT StoppedLeavePool
CHECK_DEADLOCK FALSE
