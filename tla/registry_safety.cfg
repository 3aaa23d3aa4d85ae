SPECIFICATION Spec
CONSTANTS
    p1 = p1
    p2 = p2
    b1 = b1
    b2 = b2
    w1 = w1
    w2 = w2
    main = main
    newl = newl
    downl = downl
    nil = nil
    Ports <- BothPorts
    RemovePorts <- OneOther
    Backends <- OneBackend
    Workers <- TwoWorkers
    HeapSize = 5
    MaxEnv = 4
    Main = main
    NewListener = newl
    DownListener = downl
    None = nil
SYMMETRY WorkerSymmetry
INVARIANT TypeOK
INVARIANT PortExclusion
INVARIANT NoOrphanServer
INVARIANT OneLiveServer
INVARIANT ServingHasBackends
INVARIANT ClusterExclusion
INVARIANT LocksAreOwned
PROPERTY MutexStable
CONSTRAINT OnePortAtLength
CHECK_DEADLOCK FALSE
