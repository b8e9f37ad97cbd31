SPECIFICATION SyncFairSpec
CONSTANTS
  script = script
  Threads = {script}
  Cancellable = {}
  MaxBytesOptions = {0, 3}
  DefaultCap = 2
  SizeModulus = 4
  MaxChunk = 3
  TimeoutOptions = {0, 5}
  DefaultTimeout = 2
  LongMax = 3
  PageBound = 5
  OtherErrors = {"CURLE_RECV_ERROR", "CURLE_URL_MALFORMAT", "CURLE_SSL_CONNECT_ERROR"}
  BufferSizes = {0, 1, 2, 3, 4}
INVARIANTS
  WriteOrdering
  OkHoldsWholeResponse
  BufferIsWholeOrEmpty
PROPERTIES
  SyncCallReturns
