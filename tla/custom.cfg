SPECIFICATION FairSpec
CONSTANTS
    b1 = b1
    b2 = b2
    p1 = p1
    q1 = q1
    q2 = q2
    w1 = w1
    None = None
    Error500 = Error500
    Workers <- OneWorker
    Requests <- TwoRequests
    Ports <- OnePort
    Backends <- TwoBackends
    Blocks <- NginxConf
    Root = "location /"
    CacheTTL = 60
    MaxEvents = 2
INVARIANTS TypeOK ConnectionsAreClosed
PROPERTIES IsLookup HeaderNamesBackend RequestsEnd
CHECK_DEADLOCK FALSE
