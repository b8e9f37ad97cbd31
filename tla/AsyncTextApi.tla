----------------------------- MODULE AsyncTextApi -----------------------------
(***************************************************************************)
(* The asynchronous exports (src/src/http/async-text-api.cpp): the engine   *)
(* and the transport put together.  A worker's Perform is the transfer of   *)
(* CurlTransport, step by step, with the cancel flag of the worker's slot;  *)
(* a dispatched request carries its options, and a slot that is complete    *)
(* what Read hands out.                                                     *)
(*                                                                         *)
(* A dispatch that fails a check, a Read under an id without an answer and  *)
(* a Poll change nothing but the script's variables; what they answer is a  *)
(* state function (AsyncChecks, ReadReply, Poll).  What a Read of an answer *)
(* tells the script, whether or not the answer fits, is remembered in a     *)
(* history variable.                                                        *)
(***************************************************************************)
EXTENDS AsyncRefinement, RequestTexts

CONSTANTS
    \* of CurlTransport
    MaxBytesOptions, DefaultCap, SizeModulus, MaxChunk, TimeoutOptions,
    DefaultTimeout, LongMax, PageBound, OtherErrors,
    BufferSizes     \* values a script passes as responseBodySize

ASSUME OptionsAssumption == 0 \in MaxBytesOptions /\ 0 \in TimeoutOptions
ASSUME BufferSizesAssumption == BufferSizes \subseteq Nat

VARIABLES
    \* of CurlTransport, for the thread that performs
    curlInit, phase, cap, timer, body, statusCode, capExceeded, code, result,
    offered,
    \* of the slots; a Consumed slot keeps its contents until it is refilled, but
    \* nobody reads them any more, and here they are dropped with its id
    request,        \* Slot::request: its options
    stored,         \* Slot::response and Slot::transportStatus, as Read shows them
    \* of the scripts
    told            \* history: what they know of the answer under each id

transferVars == <<curlInit, phase, cap, timer, body, statusCode, capExceeded,
                  code, result, offered>>
contentVars == <<request, stored>>
asyncVars == <<vars, transferVars, contentVars, told>>

\* The flag a performing worker's request points to is its slot's.
PerformFlag == [w \in Workers |-> phase[w] # "idle" /\ cancelFlag[wslot[w]]]

Transport == INSTANCE CurlTransport
             WITH Threads <- Workers, Cancellable <- Workers, cancelFlag <- PerformFlag

\* Sizes and times have the widths that the transport assumes.
ASSUME TransportAssumption == /\ Transport!SizeAssumption
                              /\ Transport!ErrorsAssumption
                              /\ Transport!TimeoutAssumption

-----------------------------------------------------------------------------
\* What the engine needs to know of a status.
Outcome(status) == IF status = "RequestCancelled" THEN status ELSE "Done"

NoOptions == [maxBytes |-> 0, timeout |-> 0]
NoAnswer == [status |-> "Ok", httpCode |-> 0, size |-> 0, sent |-> 0]

\* What scripts know of the answer under an id: that there is none (any more); that one
\* will come; or its status, code and length, by a Read that had too little room.
Gone == [answer |-> "gone", requestStatus |-> "Ok", httpStatusCode |-> 0, responseBodyLength |-> 0]
Unread == [Gone EXCEPT !.answer = "unread"]
Short(a) == [answer |-> "short", requestStatus |-> a.status, httpStatusCode |-> a.httpCode,
             responseBodyLength |-> a.size]

\* The options that a call which passes its checks can ask for: those of the script
\* in restifyRequestAsync, the defaults in the verbs.
RequestOptions ==
    UNION {IF a.export = "request" THEN [maxBytes : MaxBytesOptions, timeout : TimeoutOptions]
                                   ELSE {NoOptions}
           : a \in {b \in Arguments : Passes(AsyncChecks(b))}}

\* FreeSlotContentsLocked, for what this module adds to a slot.
RequestsFreed(S) == [s \in Slots |-> IF s \in S THEN NoOptions ELSE request[s]]
AnswersFreed(S) == [s \in Slots |-> IF s \in S THEN NoAnswer ELSE stored[s]]

\* The slot s is refilled with a request for the options o.
Refilled(s, o) == /\ request' = [RequestsFreed({s}) EXCEPT ![s] = o]
                  /\ stored' = AnswersFreed({s})

\* The Dispatch...Async exports, after their checks.
DispatchAsync(s, id) ==
    /\ \/ /\ Dispatch(s, id) \/ DispatchContextThrows(s, id)
          /\ \E o \in RequestOptions : Refilled(s, o)
          /\ told' = [told EXCEPT ![id] = Unread]
       \/ /\ DispatchStartFails(s, id) \/ DispatchCopyThrows(s, id)
          /\ Refilled(s, NoOptions)
          /\ UNCHANGED told
    /\ UNCHANGED transferVars

\* AsyncEngine::Read into a buffer of `room` bytes: what it answers for a complete
\* slot, and for an id.
Reply(s, room) ==
    LET a == stored[s]
    IN  [status |-> CopyStatus(a.size, room), requestStatus |-> a.status,
         httpStatusCode |-> a.httpCode, responseBodyLength |-> a.size,
         text |-> CopyText(a.size, room)]
Refused(status) == [status |-> status, requestStatus |-> "Ok", httpStatusCode |-> 0,
                    responseBodyLength |-> 0, text |-> Untouched]
ReadReply(id, room) ==
    CASE Poll(id) = 0 -> Refused("UnknownRequestId")
      [] Poll(id) = 1 -> Refused("RequestNotComplete")
      [] Poll(id) = 2 -> Reply(CHOOSE s \in Slots : IsLiveSlot(s, id), room)

\* Fault: the slot is given up whatever CopyToBuffer answered.
BugReadAsync(s) ==
    /\ Read(s)
    /\ \E room \in BufferSizes :
          told' = [told EXCEPT ![slotId[s]] =
                      IF Reply(s, room).status = "Ok" THEN Gone ELSE Short(stored[s])]
    /\ Refilled(s, NoOptions)
    /\ UNCHANGED transferVars

\* A Read that has room for the body consumes the request; any other leaves it as it is,
\* and the script knows how much room it takes.
ReadAsync(s) ==
    /\ IsLiveSlot(s, slotId[s]) /\ slotState[s] = "Complete"
    /\ \E room \in BufferSizes :
          IF Reply(s, room).status = "Ok"
          THEN /\ Read(s) /\ Refilled(s, NoOptions)
               /\ told' = [told EXCEPT ![slotId[s]] = Gone]
          ELSE /\ UNCHANGED <<vars, contentVars>>
               /\ told' = [told EXCEPT ![slotId[s]] = Short(stored[s])]
    /\ UNCHANGED transferVars

DiscardAsync(s) ==
    /\ Discard(s)
    /\ IF slotState'[s] = "Consumed" THEN Refilled(s, NoOptions)
                                      ELSE UNCHANGED contentVars
    /\ told' = [told EXCEPT ![slotId[s]] = Gone]
    /\ UNCHANGED transferVars

DiscardAllAsync ==
    LET freed == {s \in Slots : slotState[s] \in {"Pending", "Complete", "Consumed"}}
    IN  /\ DiscardAll
        /\ request' = RequestsFreed(freed)
        /\ stored' = AnswersFreed(freed)
        /\ told' = [id \in Ids |-> Gone]
        /\ UNCHANGED transferVars

AwaitAsync(c) ==
    /\ \/ awaiting[c] = 0 /\ \E id \in Ids : AwaitBegin(c, id)
       \/ AwaitWake(c)
       \/ AwaitTimeout(c)
    /\ UNCHANGED <<transferVars, contentVars, told>>

Script(c) ==
    \/ /\ awaiting[c] = 0
       /\ \/ \E s \in Slots : ReadAsync(s) \/ DiscardAsync(s)
          \/ \E s \in Slots, id \in Ids : DispatchAsync(s, id)
          \/ DiscardAllAsync
    \/ AwaitAsync(c)

-----------------------------------------------------------------------------
(* A worker outside the lock: HttpClient::Perform on its slot's request. *)

\* Fault: Perform is given a default-constructed request.
BugPerformBegins(w) ==
    /\ wstate[w] = "performing" /\ phase[w] = "idle"
    /\ UNCHANGED <<vars, contentVars>>
    /\ Transport!Begin(w, 0, 0)

PerformBegins(w) ==
    /\ wstate[w] = "performing" /\ phase[w] = "idle"
    /\ UNCHANGED <<vars, contentVars>>
    /\ Transport!Begin(w, request[wslot[w]].maxBytes, request[wslot[w]].timeout)

Transfers(w) ==
    /\ UNCHANGED <<vars, contentVars>>
    /\ \/ Transport!Deliver(w)
       \/ Transport!XferInfoCallback(w)
       \/ Transport!TransferTimesOut(w)
       \/ Transport!TransferEnds(w)

\* Perform returns, at once or after its transfer.
PerformEnds(w) ==
    /\ wstate[w] = "performing"
    /\ UNCHANGED <<slotVars, nextId, poolVars, wslot, wid, woken, callerVars, contentVars>>
    /\ \/ phase[w] = "idle" /\ Transport!BeginFails(w)
       \/ Transport!PerformReturns(w)
    /\ wstate' = [wstate EXCEPT ![w] = "returned"]
    /\ wresult' = [wresult EXCEPT ![w] = Outcome(result'[w])]

\* The worker is back under the lock: the response moves into the slot, or is dropped.
FinishAsync(w) ==
    LET s == wslot[w]
        answer == [status |-> result[w], httpCode |-> statusCode[w],
                   size |-> body[w], sent |-> offered[w]]
    IN  /\ Finish(w)
        /\ Transport!Forget(w)
        /\ IF slotState[s] = "Abandoned"
           THEN request' = RequestsFreed({s}) /\ stored' = AnswersFreed({s})
           ELSE stored' = [stored EXCEPT ![s] = answer] /\ UNCHANGED request

PoolThread(w) ==
    /\ \/ WorkerBegin(w)
       \/ IdleClaim(w)
       \/ \E why \in WaitResults : IdleExit(w, why)
       \/ ExitThread(w)
    /\ UNCHANGED <<transferVars, contentVars>>

WorkerAsync(w) == /\ \/ PerformBegins(w) \/ Transfers(w) \/ PerformEnds(w)
                     \/ FinishAsync(w) \/ PoolThread(w)
                  /\ UNCHANGED told

-----------------------------------------------------------------------------
AsyncInit ==
    /\ Init
    /\ Transport!Init
    /\ request = [s \in Slots |-> NoOptions]
    /\ stored = [s \in Slots |-> NoAnswer]
    /\ told = [id \in Ids |-> Gone]

AsyncNext == \/ \E c \in Callers : Script(c)
             \/ \E w \in Workers : WorkerAsync(w)

AsyncSpec == AsyncInit /\ [][AsyncNext]_asyncVars

-----------------------------------------------------------------------------
(* Properties. *)

\* The workers drive the transport only as its callers may, with flags that other
\* threads raise at any moment: all that is proved of CurlTransport holds of every
\* transfer of the pool (WorkerLoop, Perform).
UsesTransport == Transport!Spec

\* Conversely the transport answers the worker as the engine expects: in particular
\* RequestCancelled comes back only for a request that has been discarded, so that
\* the engine's properties hold with real transfers (WorkerLoop, Perform).
ImplementsEngine == Spec

\* What a script reads under its id tells of that request's own transfer, from the
\* first chunk to the copy: a success has its status code and every byte the server
\* sent, a failure has no status code; the body stays within the cap that request
\* asked for, and ResponseTooLarge is the answer exactly when the server passed that
\* cap; and the status is one of those documented, never RequestCancelled
\* (Dispatch, WorkerLoop, Perform, Read).
RequestStatuses == {"Ok", "NetworkError", "Timeout", "TlsError", "TransportInitFailed",
                    "InvalidUrl", "ResponseTooLarge"}
ReadReportsOwnTransfer ==
    \A s \in Slots : slotState[s] = "Complete" =>
        LET r == Reply(s, SizeModulus)
            capBytes == Transport!OrDefault(request[s].maxBytes, DefaultCap)
        IN  /\ r.requestStatus \in RequestStatuses
            /\ r.requestStatus = "Ok" <=> r.httpStatusCode = Transport!HttpCode
            /\ r.requestStatus = "Ok" => r.text = stored[s].sent
            /\ r.responseBodyLength <= capBytes
            /\ r.requestStatus = "ResponseTooLarge" <=> stored[s].sent > capBytes

\* A script that was told BufferTooSmall, and the length, gets the answer it was told of
\* with a buffer one larger, and gets it once.  From its dispatch to its discard or to the
\* Read that succeeds a request is known under its id: neither a Read that failed, nor a
\* worker, nor a dispatch that looks for a slot or an id takes its answer away or puts
\* another in its place; and then nothing is known under the id until it is minted again
\* (Read, Dispatch, WorkerLoop).
ReadAgain ==
    \A id \in Ids :
       LET known == told[id]
           reply == ReadReply(id, known.responseBodyLength + 1)
       IN  /\ known.answer = "gone" <=> reply.status = "UnknownRequestId"
           /\ known.answer = "short" =>
                 /\ reply.status = "Ok" /\ reply.text = known.responseBodyLength
                 /\ reply.requestStatus = known.requestStatus
                 /\ reply.httpStatusCode = known.httpStatusCode
=============================================================================
