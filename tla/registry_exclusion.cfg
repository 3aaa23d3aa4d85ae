SPECIFICATION Spec
CONSTANTS
    p1 = p1
    p2 = p2
    b1 = b1
    b2 = b2
    w1 = w1
    w2 = w2
    main = main
    newl = newl
    downl = downl
    nil = nil
    Ports <- OnePort
    RemovePorts <- OnePort
    Backends <- OneBackend
    Workers <- TwoWorkers
    HeapSize = 4
    MaxEnv = 3
    Main = main
    NewListener = newl
    DownListener = downl
    None = nil
SYMMETRY WorkerSymmetry
INVARIANT EveryPortExclusion
CHECK_DEADLOCK FALSE
