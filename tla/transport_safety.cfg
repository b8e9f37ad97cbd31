SPECIFICATION CancelFairSpec
CONSTANTS
  worker = worker
  caller = caller
  Threads = {worker, caller}
  Cancellable = {worker}
  MaxBytesOptions = {0, 3}
  DefaultCap = 2
  SizeModulus = 4
  MaxChunk = 2
  TimeoutOptions = {0, 5}
  DefaultTimeout = 2
  LongMax = 3
  PageBound = 5
  OtherErrors = {"CURLE_RECV_ERROR", "CURLE_URL_MALFORMAT", "CURLE_SSL_CONNECT_ERROR"}
INVARIANTS
  TypeOK
  BodyWithinCap
  TooLargeExactly
  OkIsWhole
  CancelledOnRequest
PROPERTIES
  CancelEnds
