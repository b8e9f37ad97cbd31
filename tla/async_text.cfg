SPECIFICATION AsyncSpec
CONSTANTS
    N = 2
    Workers = {w1, w2}
    Callers = {c1}
    IdModulus = 3
    StartMayFail = TRUE
    AllocMayFail = TRUE
    LeakBound = 1
    MaxBytesOptions = {0, 2}
    DefaultCap = 1
    SizeModulus = 3
    MaxChunk = 1
    TimeoutOptions = {0}
    DefaultTimeout = 1
    LongMax = 1
    PageBound = 2
    OtherErrors = {}
    BufferSizes = {2, 3}
SYMMETRY Symmetry
INVARIANTS
    ReadReportsOwnTransfer
    ReadAgain
PROPERTIES
    UsesTransport
    ImplementsEngine
