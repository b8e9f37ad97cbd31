SPECIFICATION Spec
CONSTANTS
    N = 2
    Workers = {w1, w2, w3}
    Callers = {c1, c2}
    IdModulus = 4
    StartMayFail = TRUE
    AllocMayFail = FALSE
    LeakBound = 0
SYMMETRY Symmetry
INVARIANTS
    TypeOK
    SlotOwnership
    PendingHasWorker
    PoolAccounting
    LiveIdsDistinct
    AnswerIsOwn
    AwaitNotLost
PROPERTY ImplementsContract
