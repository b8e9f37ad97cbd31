SPECIFICATION Spec
CONSTANTS
    N = 2
    Workers = {w1, w2}
    Callers = {c1}
    IdModulus = 4
    StartMayFail = FALSE
    AllocMayFail = TRUE
    LeakBound = 1
INVARIANT PendingHasWorker
