SPECIFICATION FairSpec
CONSTANTS
    i1 = i1
    i2 = i2
    d1 = d1
    d2 = d2
    None = None
    Instances <- TwoInstances
    Pools <- CleanPools
    Deploys <- TwoRuns
    MaxRuns = 3
    MaxFaults = 1
INVARIANT TypeOK
INVARIANT ListedIsDeployed
INVARIANT PublishedIsComplete
PROPERTY RunsSettle
CHECK_DEADLOCK FALSE
