SPECIFICATION FairSpec
CONSTANTS
    c1 = c1
    c2 = c2
    k1 = k1
    k2 = k2
    None = None
    Containers <- TwoContainers
    Calls <- TwoCalls
    MaxChanges = 5
    MaxFaults = 1
INVARIANT TypeOK
PROPERTY LoneCallsAreExact
PROPERTY CallsEnd
CHECK_DEADLOCK FALSE
