------------------------------ MODULE SyncProofs ------------------------------
(* Proofs about the synchronous exports: their calls use the transport as its  *)
(* specification allows, so what is proved of the transport holds inside every *)
(* call, and the out-parameters report it.                                     *)
EXTENDS SyncTextApi, TransportProofs

LEMMA SyncStepIsTransportStep == [SyncNext]_allVars => [Next]_vars
<1> SUFFICES ASSUME [SyncNext]_allVars PROVE [Next]_vars
  OBVIOUS
<1>1. CASE UNCHANGED allVars
  BY <1>1 DEF allVars, vars
<1>2. CASE SyncNext
  <2>1. PICK t \in Threads :
          \/ \E a \in Arguments : Reject(t, a) \/ Accept(t, a)
          \/ Transfer(t) /\ UNCHANGED syncVars
          \/ FinishResponse(t)
    BY <1>2 DEF SyncNext
  <2>2. CASE \E a \in Arguments : Reject(t, a)
    BY <2>2 DEF Reject
  <2>3. CASE \E a \in Arguments : Accept(t, a)
    BY <2>3, DefaultsAssumption DEF Accept, Next, OptionsOf
  <2>4. CASE Transfer(t)
    BY <2>4 DEF Next
  <2>5. CASE FinishResponse(t)
    BY <2>5 DEF FinishResponse
  <2> QED
    BY <2>1, <2>2, <2>3, <2>4, <2>5
<1> QED
  BY <1>1, <1>2

(* The synchronous exports drive the transport only as its callers may. *)
THEOREM SyncUsesTransport == SyncSpec => Spec
<1>1. SyncInit => Init
  BY DEF SyncInit
<1> QED
  BY <1>1, SyncStepIsTransportStep, PTL DEF SyncSpec, Spec

(* A call that passed its checks is either inside the transport with nothing  *)
(* reported, or has reported what the transport left; a thread outside a call  *)
(* has no transfer.                                                            *)
CallInv(t) ==
  /\ calling[t] => /\ reply[t] = "none" /\ ~ rejected[t] /\ phase[t] # "idle"
                   /\ responseBody[t] = Untouched
  /\ ~ calling[t] => phase[t] # "transfer"
  /\ Returned(t) /\ rejected[t] =>
       /\ httpStatusCode[t] = Untouched /\ responseBodyLength[t] = Untouched
       /\ responseBody[t] = Untouched
       /\ reply[t] \notin {"Ok", "BufferTooSmall"}
  /\ reply[t] = "none" => responseBody[t] = Untouched
  /\ Returned(t) /\ ~ rejected[t] =>
       /\ phase[t] = "returned"
       /\ httpStatusCode[t] = statusCode[t] /\ responseBodyLength[t] = body[t]
       /\ responseBody[t] = CopyText(body[t], room[t])
       /\ reply[t] = FinalStatus(result[t], CopyStatus(body[t], room[t]))

SyncIInv == IInv /\ SyncTypeOK /\ \A t \in Threads : CallInv(t)

LEMMA CopyOutcome ==
  ASSUME NEW size \in Nat, NEW bufferSize \in Nat
  PROVE  /\ CopyStatus(size, bufferSize) \in {"Ok", "BufferTooSmall", "InvalidArgument"}
         /\ CopyStatus(size, bufferSize) = "Ok" <=> size < bufferSize
         /\ CopyStatus(size, bufferSize) = "BufferTooSmall"
              => bufferSize > 0 /\ size >= bufferSize
         /\ CopyText(size, bufferSize) \in {Untouched, 0, size}
         /\ CopyText(size, bufferSize) # Untouched
              => CopyText(size, bufferSize) < bufferSize
         /\ CopyStatus(size, bufferSize) = "Ok" => CopyText(size, bufferSize) = size
  BY DEF CopyStatus, CopyText, Untouched

LEMMA CheckReplies ==
  ASSUME NEW a \in Arguments, NEW i \in DOMAIN Checks(a), Checks(a)[i] # "Ok"
  PROVE  Checks(a)[i] \in {"InvalidArgument", "UnterminatedInputText",
                           "UnknownHttpMethod", "MalformedHeaderBlock"}
<1> USE DEF BoundedText, ParseMethodText, ParseHeaderBlock, RequestCheck, UrlCheck
<1>1. CASE a.export = "request"
  BY <1>1 DEF Checks, RequestChecks
<1>2. CASE a.export = "body"
  BY <1>2 DEF Checks, BodyVerbChecks
<1>3. CASE a.export = "noBody"
  BY <1>3 DEF Checks, NoBodyVerbChecks
<1> QED
  BY <1>1, <1>2, <1>3 DEF Arguments, Exports

LEMMA SyncInitEstablishes == SyncInit => SyncIInv
<1> SUFFICES ASSUME SyncInit PROVE SyncIInv
  OBVIOUS
<1>1. IInv
  BY InitEstablishes DEF SyncInit
<1>2. SyncTypeOK
  BY <1>1 DEF IInv, SyncInit, SyncTypeOK, Replies, Untouched
<1>3. \A t \in Threads : CallInv(t)
  BY DEF SyncInit, Init, CallInv, Returned
<1> QED
  BY <1>1, <1>2, <1>3 DEF SyncIInv

(* The variables of the calls of the other threads. *)
OtherCalls(t) ==
  \A u \in Threads \ {t} :
    /\ calling'[u] = calling[u] /\ room'[u] = room[u] /\ reply'[u] = reply[u]
    /\ rejected'[u] = rejected[u] /\ httpStatusCode'[u] = httpStatusCode[u]
    /\ responseBodyLength'[u] = responseBodyLength[u]
    /\ responseBody'[u] = responseBody[u]

LEMMA OtherCallsKeep ==
  ASSUME NEW t \in Threads, Others(t), OtherCalls(t),
         \A u \in Threads : CallInv(u), CallInv(t)'
  PROVE  \A u \in Threads : CallInv(u)'
<1> SUFFICES ASSUME NEW u \in Threads, u # t PROVE CallInv(u)'
  OBVIOUS
<1> QED
  BY DEF Others, OtherCalls, CallInv, Returned

LEMMA UnchangedOthers ==
  ASSUME UNCHANGED vars, NEW t \in Threads PROVE Others(t)
  BY DEF vars, Others

(* Whatever a transfer does, it does to its own thread only. *)
LEMMA TransferOthers ==
  ASSUME IInv, NEW t \in Threads, Transfer(t)
  PROVE  /\ Others(t) /\ phase[t] = "transfer"
         /\ phase'[t] \in {"transfer", "returned"}
<1>1. CASE Deliver(t)
  BY <1>1 DEF Deliver, WriteCallback, WriteRefused, WriteThrows, Ends, Running,
              UnchangedByServer, Others, IInv, TypeOK
<1>2. CASE XferInfoCallback(t)
  BY <1>2 DEF XferInfoCallback, Ends, Running, UnchangedByServer, Others, IInv, TypeOK
<1>3. CASE TransferTimesOut(t)
  BY <1>3 DEF TransferTimesOut, Ends, Running, UnchangedByServer, Others, IInv, TypeOK
<1>4. CASE TransferEnds(t)
  BY <1>4 DEF TransferEnds, Ends, Running, UnchangedByServer, Others, IInv, TypeOK
<1>5. CASE PerformReturns(t)
  BY <1>5 DEF PerformReturns, Others, IInv, TypeOK
<1> QED
  BY <1>1, <1>2, <1>3, <1>4, <1>5 DEF Transfer

LEMMA BeginOthers ==
  ASSUME IInv, NEW t \in Threads,
         \/ \E maxBytes \in MaxBytesOptions, timeout \in TimeoutOptions :
              Begin(t, maxBytes, timeout)
         \/ BeginFails(t)
  PROVE  Others(t) /\ phase'[t] # "idle"
<1>1. Fresh(t)
  BY DEF Begin, BeginFails
<1>2. PICK flag \in BOOLEAN : cancelFlag' = [cancelFlag EXCEPT ![t] = flag]
  BY <1>1, FreshFlag
<1>3. CASE BeginFails(t)
  BY <1>2, <1>3 DEF BeginFails, Fresh, Others, IInv, TypeOK
<1>4. CASE \E maxBytes \in MaxBytesOptions, timeout \in TimeoutOptions :
             Begin(t, maxBytes, timeout)
  BY <1>2, <1>4 DEF Begin, Fresh, Others, IInv, TypeOK
<1> QED
  BY <1>3, <1>4

(* A failed check answers the call and touches nothing else. *)
LEMMA RejectKeeps ==
  ASSUME SyncIInv, IInv', NEW t \in Threads, NEW a \in Arguments, Reject(t, a)
  PROVE  SyncIInv'
<1>1. PICK i \in DOMAIN Checks(a) :
        Checks(a)[i] # "Ok" /\ reply' = [reply EXCEPT ![t] = Checks(a)[i]]
  BY DEF Reject, IsFirstFailure
<1> DEFINE answer == Checks(a)[i]
<1>2. answer \in {"InvalidArgument", "UnterminatedInputText",
                  "UnknownHttpMethod", "MalformedHeaderBlock"}
  BY <1>1, CheckReplies
<1>3. reply' = [reply EXCEPT ![t] = answer]
  BY <1>1
<1> HIDE DEF answer
<1>4. SyncTypeOK'
  BY <1>2, <1>3 DEF SyncIInv, SyncTypeOK, IInv, Reject, Enter, Replies, Untouched
<1>5. CallInv(t)' /\ OtherCalls(t)
  BY <1>2, <1>3 DEF SyncIInv, SyncTypeOK, CallInv, Returned, OtherCalls, Reject,
                    Enter, vars
<1>6. Others(t)
  BY UnchangedOthers DEF Reject
<1> QED
  BY <1>4, <1>5, <1>6, OtherCallsKeep DEF SyncIInv

LEMMA AcceptKeeps ==
  ASSUME SyncIInv, IInv', NEW t \in Threads, NEW a \in Arguments, Accept(t, a)
  PROVE  SyncIInv'
<1>1. PICK size \in BufferSizes : room' = [room EXCEPT ![t] = size]
  BY DEF Accept
<1>2. size \in Nat
  BY BufferSizesAssumption
<1>3. Others(t) /\ phase'[t] # "idle"
  BY BeginOthers, DefaultsAssumption DEF Accept, SyncIInv, OptionsOf
<1>4. SyncTypeOK'
  BY <1>1, <1>2 DEF SyncIInv, SyncTypeOK, IInv, Accept, Enter, Replies, Untouched
<1>5. CallInv(t)' /\ OtherCalls(t)
  BY <1>1, <1>2, <1>3 DEF SyncIInv, SyncTypeOK, CallInv, Returned, OtherCalls,
                          Accept, Enter
<1> QED
  BY <1>3, <1>4, <1>5, OtherCallsKeep DEF SyncIInv

LEMMA TransferKeeps ==
  ASSUME SyncIInv, IInv', NEW t \in Threads, Transfer(t), UNCHANGED syncVars
  PROVE  SyncIInv'
<1>1. Others(t) /\ phase[t] = "transfer" /\ phase'[t] \in {"transfer", "returned"}
  BY TransferOthers DEF SyncIInv
<1>2. SyncTypeOK'
  BY DEF SyncIInv, SyncTypeOK, IInv, syncVars, outs
<1>3. CallInv(t)' /\ OtherCalls(t)
  BY <1>1 DEF SyncIInv, CallInv, Returned, OtherCalls, syncVars, outs
<1> QED
  BY <1>1, <1>2, <1>3, OtherCallsKeep DEF SyncIInv

LEMMA FinishKeeps ==
  ASSUME SyncIInv, IInv', NEW t \in Threads, FinishResponse(t)
  PROVE  SyncIInv'
<1> DEFINE copied == CopyStatus(body[t], room[t])
           text == CopyText(body[t], room[t])
           answer == FinalStatus(result[t], copied)
<1>1. body[t] \in Nat /\ room[t] \in Nat /\ statusCode[t] \in {0, HttpCode}
  BY SizeAssumption DEF SyncIInv, SyncTypeOK, IInv, TypeOK
<1>2. /\ copied \in {"Ok", "BufferTooSmall", "InvalidArgument"}
      /\ text \in Nat \cup {Untouched}
  BY <1>1, CopyOutcome
<1>3. result[t] \in Statuses
  BY DEF FinishResponse, SyncIInv, IInv, TransferInv, ResolveTransferResult,
         MapCurlCode, Statuses
<1>4. answer \in Replies /\ answer # "none"
  BY <1>2, <1>3 DEF FinalStatus, Replies, Statuses
<1>5. /\ responseBody' = [responseBody EXCEPT ![t] = text]
      /\ reply' = [reply EXCEPT ![t] = answer]
  BY DEF FinishResponse
<1>6. UNCHANGED <<body, result, room, phase, statusCode>>
  BY DEF FinishResponse, vars
<1>7. text' = CopyText(body'[t], room'[t]) /\ text = CopyText(body[t], room[t])
      /\ answer = FinalStatus(result[t], CopyStatus(body[t], room[t]))
  OBVIOUS
<1> HIDE DEF answer, text, copied
<1>8. SyncTypeOK'
  BY <1>1, <1>2, <1>4, <1>5 DEF SyncIInv, SyncTypeOK, IInv, FinishResponse
<1>9. CallInv(t)' /\ OtherCalls(t)
  BY <1>4, <1>5, <1>6, <1>7
     DEF SyncIInv, SyncTypeOK, CallInv, Returned, OtherCalls, FinishResponse
<1>10. Others(t)
  BY UnchangedOthers DEF FinishResponse
<1> QED
  BY <1>8, <1>9, <1>10, OtherCallsKeep DEF SyncIInv

LEMMA SyncStepKeeps == SyncIInv /\ [SyncNext]_allVars => SyncIInv'
<1> SUFFICES ASSUME SyncIInv, [SyncNext]_allVars PROVE SyncIInv'
  OBVIOUS
<1>1. IInv'
  BY SyncStepIsTransportStep, StepKeeps DEF SyncIInv
<1>2. CASE SyncNext
  BY <1>1, <1>2, RejectKeeps, AcceptKeeps, TransferKeeps, FinishKeeps DEF SyncNext
<1>3. CASE UNCHANGED allVars
  BY <1>1, <1>3 DEF SyncIInv, SyncTypeOK, IInv, CallInv, Returned, allVars,
                    syncVars, outs, vars
<1> QED
  BY <1>2, <1>3

(* The inductive invariant of the calls holds in every reachable state. *)
THEOREM SyncInvariant == SyncSpec => []SyncIInv
  BY SyncInitEstablishes, SyncStepKeeps, PTL DEF SyncSpec

(* The write-ordering rule of the synchronous exports, for every buffer size   *)
(* and every behaviour of the server (FinishResponse).                         *)
THEOREM WritesAreOrdered == SyncSpec => []WriteOrdering
<1>1. SyncIInv => WriteOrdering
  BY DEF SyncIInv, CallInv, WriteOrdering, Returned
<1> QED
  BY <1>1, SyncInvariant, PTL

(* Ok means the whole response is in the buffer, and BufferTooSmall that its   *)
(* exact length was reported (FinishResponse, CopyToBuffer).                   *)
THEOREM OkIsWholeResponse == SyncSpec => []OkHoldsWholeResponse
<1>1. ASSUME SyncIInv, NEW t \in Threads, Returned(t),
             reply[t] \in {"Ok", "BufferTooSmall"}
      PROVE  /\ body[t] \in Nat /\ room[t] \in Nat /\ body[t] = offered[t]
             /\ httpStatusCode[t] = HttpCode /\ responseBodyLength[t] = offered[t]
             /\ responseBody[t] = CopyText(body[t], room[t])
             /\ reply[t] = CopyStatus(body[t], room[t])
  <2>1. ~ rejected[t] /\ phase[t] = "returned"
    BY <1>1 DEF SyncIInv, CallInv
  <2>2. body[t] \in Nat /\ room[t] \in Nat
    BY <1>1, SizeAssumption DEF SyncIInv, SyncTypeOK, TypeOK
  <2>3. result[t] \in Statuses
    BY <1>1, <2>1 DEF SyncIInv, IInv, TransferInv, ResolveTransferResult,
                      MapCurlCode, Statuses
  <2>4. result[t] = "Ok"
    BY <1>1, <2>1, <2>3 DEF SyncIInv, CallInv, FinalStatus, Statuses
  <2>5. body[t] = offered[t] /\ statusCode[t] = HttpCode
    BY <1>1, <2>1, <2>4 DEF SyncIInv, IInv, TransferInv, ResolveTransferResult,
                            MapCurlCode
  <2> QED
    BY <1>1, <2>1, <2>2, <2>4, <2>5 DEF SyncIInv, CallInv, FinalStatus
<1>2. ASSUME SyncIInv PROVE OkHoldsWholeResponse
  <2> SUFFICES ASSUME NEW t \in Threads, Returned(t),
                      reply[t] \in {"Ok", "BufferTooSmall"}
               PROVE  /\ httpStatusCode[t] = HttpCode
                      /\ reply[t] = "Ok" => responseBody[t] = offered[t]
                      /\ responseBodyLength[t] = offered[t]
                      /\ CopyStatus(offered[t], responseBodyLength[t] + 1) = "Ok"
    BY DEF OkHoldsWholeResponse
  <2>1. /\ offered[t] \in Nat /\ room[t] \in Nat /\ body[t] = offered[t]
        /\ httpStatusCode[t] = HttpCode /\ responseBodyLength[t] = offered[t]
        /\ responseBody[t] = CopyText(offered[t], room[t])
        /\ reply[t] = CopyStatus(offered[t], room[t])
    BY <1>1, <1>2
  <2>2. CopyStatus(offered[t], offered[t] + 1) = "Ok"
    BY <2>1, CopyOutcome
  <2>3. reply[t] = "Ok" => responseBody[t] = offered[t]
    BY <2>1, CopyOutcome
  <2> QED
    BY <2>1, <2>2, <2>3
<1> QED
  BY <1>2, SyncInvariant, PTL

(* The buffer holds the whole body or the empty text, within its size          *)
(* (CopyToBuffer).                                                             *)
THEOREM BufferIsNotTorn == SyncSpec => []BufferIsWholeOrEmpty
<1>1. ASSUME SyncIInv, NEW t \in Threads, responseBody[t] # Untouched
      PROVE  /\ responseBody[t] \in {0, responseBodyLength[t]}
             /\ responseBody[t] < room[t]
  <2>1. Returned(t) /\ ~ rejected[t]
    BY <1>1 DEF SyncIInv, CallInv, Returned
  <2>2. body[t] \in Nat /\ room[t] \in Nat
    BY <1>1, SizeAssumption DEF SyncIInv, SyncTypeOK, TypeOK
  <2>3. /\ responseBody[t] = CopyText(body[t], room[t])
        /\ responseBodyLength[t] = body[t]
    BY <1>1, <2>1 DEF SyncIInv, CallInv
  <2> QED
    BY <1>1, <2>2, <2>3, CopyOutcome
<1>2. SyncIInv => BufferIsWholeOrEmpty
  BY <1>1 DEF BufferIsWholeOrEmpty
<1> QED
  BY <1>2, SyncInvariant, PTL
==============================================================================
