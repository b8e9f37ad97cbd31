SPECIFICATION FairSpec
CONSTANTS
    N = 2
    Workers = {w1, w2}
    Callers = {c1, c2}
    IdModulus = 3
    StartMayFail = FALSE
    AllocMayFail = FALSE
    LeakBound = 0
PROPERTIES
    RequestSettles
    AwaitReturns
    AbandonedFreed
    PoolDrains
