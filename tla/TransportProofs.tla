--------------------------- MODULE TransportProofs ---------------------------
(* Proofs about CurlTransport for every cap, width of std::size_t, chunking    *)
(* and number of threads.                                                      *)
EXTENDS CurlTransport, TLAPS

(* What one transfer knows of itself while it runs and after it: until the     *)
(* callbacks stop it, the body is everything offered; afterwards the flag, the *)
(* code and the offered bytes say the same thing about why it stopped.         *)
TransferInv(t) ==
  /\ phase[t] = "transfer" => statusCode[t] = 0 /\ result[t] = "none"
  /\ phase[t] = "transfer" /\ code[t] = "running" => body[t] = offered[t]
  /\ code[t] = "CURLE_OK" => body[t] = offered[t]
  /\ code[t] = "CURLE_ABORTED_BY_CALLBACK" => t \in Cancellable /\ cancelFlag[t]
  /\ capExceeded[t] => code[t] = "CURLE_WRITE_ERROR"
  /\ code[t] # "running" => (capExceeded[t] <=> offered[t] > cap[t])
  /\ phase[t] = "idle" => result[t] = "none"
  /\ phase[t] = "returned" /\ code[t] # "running" =>
       result[t] = ResolveTransferResult(capExceeded[t], MapCurlCode(code[t]))
  /\ phase[t] = "returned" /\ code[t] = "running" =>
       result[t] \in {"TransportInitFailed", "NetworkError"}
  /\ phase[t] = "returned" => (result[t] = "Ok" <=> statusCode[t] = HttpCode)

IInv == TypeOK /\ BodyWithinCap /\ \A t \in Threads : TransferInv(t)

(* No wrap in the cap check: incoming is at most the cap when the difference   *)
(* is formed, and the difference is a std::size_t.                             *)
LEMMA CapCheck ==
  ASSUME NEW size \in Nat, NEW incoming \in Nat, NEW capBytes \in 0 .. SizeModulus - 1
  PROVE  WouldExceedResponseCap(size, incoming, capBytes)
           <=> size + incoming > capBytes
<1>1. CASE incoming > capBytes
  BY <1>1 DEF WouldExceedResponseCap
<1>2. CASE incoming =< capBytes
  <2>1. capBytes - incoming \in 0 .. SizeModulus - 1
    BY <1>2, SizeAssumption
  <2>2. (capBytes - incoming) % SizeModulus = capBytes - incoming
    BY <2>1, SizeAssumption
  <2> QED
    BY <1>2, <2>2 DEF WouldExceedResponseCap
<1> QED
  BY <1>1, <1>2, SizeAssumption

(* libcurl is always given a positive time limit its long can hold. *)
LEMMA TimerIsSet ==
  ASSUME NEW option \in TimeoutOptions
  PROVE  TimerFor(option) \in 1 .. LongMax
<1>1. option \in 0 .. 2 * LongMax + 1 /\ LongMax \in Nat \ {0}
        /\ DefaultTimeout \in 1 .. LongMax
  BY TimeoutAssumption
<1>2. ClampToLong(OrDefault(option, DefaultTimeout)) \in 1 .. LongMax
  BY <1>1 DEF ClampToLong, OrDefault
<1> QED
  BY <1>1, <1>2 DEF TimerFor, AsLong

LEMMA InitEstablishes == Init => IInv
  BY SizeAssumption, TimeoutAssumption
     DEF Init, IInv, TypeOK, BodyWithinCap, TransferInv, CurlCodes, Statuses, HttpCode

(* A step that changes only one thread's transfer leaves the others' alone. *)
Others(t) ==
  \A u \in Threads \ {t} :
    /\ phase'[u] = phase[u] /\ cap'[u] = cap[u] /\ body'[u] = body[u]
    /\ statusCode'[u] = statusCode[u] /\ capExceeded'[u] = capExceeded[u]
    /\ code'[u] = code[u] /\ result'[u] = result[u]
    /\ cancelFlag'[u] = cancelFlag[u] /\ offered'[u] = offered[u]

LEMMA OthersKeep ==
  ASSUME NEW t \in Threads, Others(t), \A u \in Threads : TransferInv(u),
         TransferInv(t)'
  PROVE  \A u \in Threads : TransferInv(u)'
<1> SUFFICES ASSUME NEW u \in Threads, u # t PROVE TransferInv(u)'
  OBVIOUS
<1> QED
  BY DEF Others, TransferInv

(* The flag a transfer starts with is one of the two, for its own thread. *)
LEMMA FreshFlag ==
  ASSUME NEW t \in Threads, Fresh(t)
  PROVE  \E flag \in BOOLEAN : cancelFlag' = [cancelFlag EXCEPT ![t] = flag]
  BY DEF Fresh

(* A thread begins: its transfer starts empty. *)
LEMMA BeginKeeps ==
  ASSUME IInv, NEW t \in Threads, NEW maxBytes \in MaxBytesOptions,
         NEW timeout \in TimeoutOptions, Begin(t, maxBytes, timeout)
  PROVE  IInv'
<1>1. OrDefault(maxBytes, DefaultCap) \in 1 .. SizeModulus - 1
  BY SizeAssumption DEF OrDefault
<1>2. TimerFor(timeout) \in 1 .. LongMax
  BY TimerIsSet
<1>6. PICK flag \in BOOLEAN : cancelFlag' = [cancelFlag EXCEPT ![t] = flag]
  BY FreshFlag DEF Begin
<1>3. TypeOK'
  BY <1>1, <1>2, <1>6, SizeAssumption
     DEF IInv, TypeOK, Begin, Fresh, Statuses, CurlCodes, HttpCode
<1>4. BodyWithinCap'
  BY <1>1, SizeAssumption DEF IInv, TypeOK, BodyWithinCap, Begin, Fresh
<1>5. TransferInv(t)' /\ Others(t)
  BY <1>1, <1>6 DEF IInv, TypeOK, TransferInv, Others, Begin, Fresh, HttpCode
<1> QED
  BY <1>3, <1>4, <1>5, OthersKeep DEF IInv

(* A thread fails to begin: an empty response and an answer of its own. *)
LEMMA BeginFailsKeeps ==
  ASSUME IInv, NEW t \in Threads, BeginFails(t)
  PROVE  IInv'
<1>1. PICK s \in {"TransportInitFailed", "NetworkError"} :
        result' = [result EXCEPT ![t] = s]
  BY DEF BeginFails
<1>5. PICK flag \in BOOLEAN : cancelFlag' = [cancelFlag EXCEPT ![t] = flag]
  BY FreshFlag DEF BeginFails
<1>2. TypeOK'
  BY <1>1, <1>5, SizeAssumption
     DEF IInv, TypeOK, BeginFails, Fresh, EnsureCurlInitialized, Statuses,
         CurlCodes, HttpCode
<1>3. BodyWithinCap'
  BY SizeAssumption DEF IInv, TypeOK, BodyWithinCap, BeginFails, Fresh
<1>4. TransferInv(t)' /\ Others(t)
  BY <1>1, <1>5 DEF IInv, TypeOK, TransferInv, Others, BeginFails, Fresh, HttpCode
<1> QED
  BY <1>2, <1>3, <1>4, OthersKeep DEF IInv

(* A chunk is delivered: appended, refused for the cap, or lost to bad_alloc. *)
LEMMA DeliverKeeps ==
  ASSUME IInv, NEW t \in Threads, Deliver(t)
  PROVE  IInv'
<1>1. PICK incoming \in 1 .. MaxChunk :
        \/ WriteCallback(t, incoming)
        \/ WriteRefused(t, incoming)
        \/ WriteThrows(t, incoming)
  BY DEF Deliver
<1> DEFINE size == body[t]
<1>2. /\ size \in Nat /\ incoming \in Nat /\ cap[t] \in 0 .. SizeModulus - 1
      /\ incoming > 0
  BY SizeAssumption DEF IInv, TypeOK
<1>3. WouldExceedResponseCap(size, incoming, cap[t]) <=> size + incoming > cap[t]
  BY <1>2, CapCheck
<1>4. CASE WriteCallback(t, incoming)
  <2>1. size + incoming =< cap[t]
    BY <1>2, <1>3, <1>4 DEF WriteCallback
  <2>2. TypeOK'
    BY <1>2, <1>4, <2>1, SizeAssumption
       DEF IInv, TypeOK, WriteCallback, UnchangedByServer
  <2>3. BodyWithinCap'
    BY <1>2, <1>4, <2>1
       DEF IInv, TypeOK, BodyWithinCap, WriteCallback, UnchangedByServer
  <2>4. TransferInv(t)' /\ Others(t)
    BY <1>2, <1>4
       DEF IInv, TypeOK, TransferInv, Others, WriteCallback, UnchangedByServer,
           Running
  <2> QED
    BY <2>2, <2>3, <2>4, OthersKeep DEF IInv
<1>5. CASE WriteRefused(t, incoming)
  <2>1. size + incoming > cap[t] /\ size = offered[t]
    BY <1>2, <1>3, <1>5
       DEF WriteRefused, Ends, Running, IInv, TransferInv
  <2>2. TypeOK'
    BY <1>2, <1>5, SizeAssumption
       DEF IInv, TypeOK, WriteRefused, Ends, UnchangedByServer, CurlCodes
  <2>3. BodyWithinCap'
    BY <1>5 DEF IInv, BodyWithinCap, WriteRefused, UnchangedByServer
  <2>4. TransferInv(t)' /\ Others(t)
    BY <1>2, <1>5, <2>1
       DEF IInv, TypeOK, TransferInv, Others, WriteRefused, Ends,
           UnchangedByServer, Running
  <2> QED
    BY <2>2, <2>3, <2>4, OthersKeep DEF IInv
<1>6. CASE WriteThrows(t, incoming)
  <2>1. size + incoming =< cap[t] /\ size = offered[t] /\ ~ capExceeded[t]
    BY <1>2, <1>3, <1>6
       DEF WriteThrows, Ends, Running, IInv, TransferInv
  <2>2. TypeOK'
    BY <1>2, <1>6, SizeAssumption
       DEF IInv, TypeOK, WriteThrows, Ends, UnchangedByServer, CurlCodes
  <2>3. BodyWithinCap'
    BY <1>6 DEF IInv, BodyWithinCap, WriteThrows, UnchangedByServer
  <2>4. TransferInv(t)' /\ Others(t)
    BY <1>2, <1>6, <2>1
       DEF IInv, TypeOK, TransferInv, Others, WriteThrows, Ends,
           UnchangedByServer, Running
  <2> QED
    BY <2>2, <2>3, <2>4, OthersKeep DEF IInv
<1> QED
  BY <1>1, <1>4, <1>5, <1>6

(* The transfer ends without a chunk: aborted, timed out, completed or broken. *)
LEMMA EndKeeps ==
  ASSUME IInv, NEW t \in Threads,
         \/ XferInfoCallback(t) \/ TransferTimesOut(t) \/ TransferEnds(t)
  PROVE  IInv'
<1>1. PICK c \in CurlCodes \ {"CURLE_WRITE_ERROR"} :
        /\ Ends(t, c)
        /\ c = "CURLE_ABORTED_BY_CALLBACK" => t \in Cancellable /\ cancelFlag[t]
  BY ErrorsAssumption
     DEF XferInfoCallback, TransferTimesOut, TransferEnds, ShouldCancelTransfer,
         CurlCodes
<1>2. UnchangedByServer /\ UNCHANGED <<body, capExceeded, offered>>
  BY DEF XferInfoCallback, TransferTimesOut, TransferEnds
<1>3. TypeOK'
  BY <1>1, <1>2 DEF IInv, TypeOK, Ends, UnchangedByServer
<1>4. BodyWithinCap'
  BY <1>2 DEF IInv, BodyWithinCap, UnchangedByServer
<1>5. /\ body[t] = offered[t] /\ body[t] =< cap[t] /\ ~ capExceeded[t]
      /\ body[t] \in Nat /\ cap[t] \in Nat /\ c # "running"
  BY <1>1, SizeAssumption
     DEF IInv, TypeOK, BodyWithinCap, TransferInv, Ends, Running, CurlCodes
<1>6. TransferInv(t)' /\ Others(t)
  BY <1>1, <1>2, <1>5
     DEF IInv, TypeOK, TransferInv, Others, Ends, UnchangedByServer, Running
<1> QED
  BY <1>3, <1>4, <1>6, OthersKeep DEF IInv

LEMMA ReturnKeeps ==
  ASSUME IInv, NEW t \in Threads, PerformReturns(t)
  PROVE  IInv'
<1> DEFINE status == ResolveTransferResult(capExceeded[t], MapCurlCode(code[t]))
<1>1. status \in Statuses /\ (status = "RequestCancelled" => code[t] = "CURLE_ABORTED_BY_CALLBACK")
  BY DEF ResolveTransferResult, MapCurlCode, Statuses
<1>2. TypeOK'
  BY <1>1 DEF IInv, TypeOK, PerformReturns
<1>3. BodyWithinCap'
  BY DEF IInv, BodyWithinCap, PerformReturns
<1>4. TransferInv(t)'
  <2> HIDE DEF status
  <2>1. result'[t] = status /\ statusCode'[t] = IF status = "Ok" THEN HttpCode ELSE 0
    BY DEF status, PerformReturns, IInv, TypeOK, TransferInv
  <2>2. status = ResolveTransferResult(capExceeded[t], MapCurlCode(code[t]))
    BY DEF status
  <2> QED
    BY <2>1, <2>2 DEF PerformReturns, IInv, TypeOK, TransferInv, HttpCode
<1>5. Others(t)
  BY DEF IInv, TypeOK, Others, PerformReturns
<1> QED
  BY <1>2, <1>3, <1>4, <1>5, OthersKeep DEF IInv

(* Flags are set, which is all that an answer RequestCancelled asks of them. *)
LEMMA CancelKeeps ==
  ASSUME IInv, NEW S \in SUBSET Cancellable, Cancel(S)
  PROVE  IInv'
<1>1. TypeOK'
  BY CancellableAssumption DEF IInv, TypeOK, Cancel, response
<1>2. BodyWithinCap'
  BY DEF IInv, BodyWithinCap, Cancel, response
<1>3. \A t \in Threads : TransferInv(t)'
  BY DEF IInv, TypeOK, TransferInv, Cancel, response
<1> QED
  BY <1>1, <1>2, <1>3 DEF IInv

(* A thread that has forgotten its transfer is as it was at first. *)
LEMMA ForgetKeeps ==
  ASSUME IInv, NEW t \in Threads, Forget(t)
  PROVE  IInv'
<1>1. TypeOK'
  BY SizeAssumption, TimeoutAssumption
     DEF IInv, TypeOK, Forget, Statuses, CurlCodes, HttpCode
<1>2. BodyWithinCap'
  BY SizeAssumption DEF IInv, TypeOK, BodyWithinCap, Forget
<1>3. TransferInv(t)' /\ Others(t)
  BY SizeAssumption DEF IInv, TypeOK, TransferInv, Others, Forget, HttpCode
<1> QED
  BY <1>1, <1>2, <1>3, OthersKeep DEF IInv

LEMMA StepKeeps == IInv /\ [Next]_vars => IInv'
<1> SUFFICES ASSUME IInv, [Next]_vars PROVE IInv'
  OBVIOUS
<1>1. CASE Next
  BY <1>1, BeginKeeps, BeginFailsKeeps, DeliverKeeps, EndKeeps, ReturnKeeps,
     CancelKeeps, ForgetKeeps
     DEF Next, Transfer
<1>2. CASE UNCHANGED vars
  BY <1>2 DEF vars, IInv, TypeOK, BodyWithinCap, TransferInv
<1> QED
  BY <1>1, <1>2

(* The inductive invariant holds in every reachable state. *)
THEOREM TransportInvariant == Spec => []IInv
  BY InitEstablishes, StepKeeps, PTL DEF Spec

(* However libcurl chunks a response, the body stays within the cap, for every *)
(* cap and width (WriteCallback).                                              *)
THEOREM BodyCapped == Spec => []BodyWithinCap
<1>1. IInv => BodyWithinCap
  BY DEF IInv
<1> QED
  BY <1>1, TransportInvariant, PTL

(* Sizes fit std::size_t and libcurl always holds a time limit (Perform). *)
THEOREM TransportTypes == Spec => []TypeOK
<1>1. IInv => TypeOK
  BY DEF IInv
<1> QED
  BY <1>1, TransportInvariant, PTL

(* ResponseTooLarge is answered exactly for responses larger than the cap     *)
(* (ResolveTransferResult).                                                    *)
THEOREM TooLargeIsExact == Spec => []TooLargeExactly
<1>1. IInv => TooLargeExactly
  BY DEF IInv, TransferInv, TooLargeExactly, Ended, ResolveTransferResult,
         MapCurlCode
<1> QED
  BY <1>1, TransportInvariant, PTL

(* A success comes with its status code and every byte the server sent        *)
(* (Perform).                                                                  *)
THEOREM SuccessIsWhole == Spec => []OkIsWhole
<1>1. IInv => OkIsWhole
  BY DEF IInv, TransferInv, OkIsWhole, ResolveTransferResult, MapCurlCode
<1> QED
  BY <1>1, TransportInvariant, PTL

(* RequestCancelled is only answered to a request someone discarded           *)
(* (ShouldCancelTransfer).                                                     *)
THEOREM CancelNeedsFlag == Spec => []CancelledOnRequest
<1>1. IInv => CancelledOnRequest
  BY DEF IInv, TypeOK, TransferInv, CancelledOnRequest, ResolveTransferResult,
         MapCurlCode
<1> QED
  BY <1>1, TransportInvariant, PTL
==============================================================================
