SPECIFICATION Spec
CONSTANTS
    k1 = k1
    k2 = k2
    k3 = k3
    k4 = k4
    v1 = v1
    v2 = v2
    None = None
    Keys <- FourKeys
    Values <- TwoValues
    Hash <- Colliding
    InitialCapacity = 4
    MaxCapacity = 8
INVARIANT TypeOK
INVARIANT ProbesEnd
INVARIANT LengthIsCount
INVARIANT IterationIsComplete
PROPERTY IsMap
