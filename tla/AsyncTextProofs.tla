---------------------------- MODULE AsyncTextProofs ----------------------------
(***************************************************************************)
(* Theorems about AsyncTextApi: the workers use the transport as it may be  *)
(* used, the engine with real transfers is the engine, and what a script    *)
(* reads under its id is true of that request's own transfer.               *)
(***************************************************************************)
EXTENDS AsyncTextApi, AsyncEngineProofs

\* The transport of the workers, with what is proved of it.
Proved == INSTANCE TransportProofs
          WITH Threads <- Workers, Cancellable <- Workers, cancelFlag <- PerformFlag

-----------------------------------------------------------------------------
(* The inductive invariant. *)

\* A worker's transfer runs while the worker is outside the lock, and its response
\* waits exactly as long as the worker has returned and not relocked.
PhasesAgree ==
    \A w \in Workers : /\ phase[w] = "transfer" => wstate[w] = "performing"
                       /\ phase[w] = "returned" <=> wstate[w] = "returned"

Requests == [maxBytes : MaxBytesOptions, timeout : TimeoutOptions]
Answers == [status : Proved!Statuses, httpCode : {0, Proved!HttpCode},
            size : 0..(SizeModulus - 1), sent : Nat]
ContentsTyped == request \in [Slots -> Requests] /\ stored \in [Slots -> Answers]

\* The cap of the request s.
CapOf(s) == Transport!OrDefault(request[s].maxBytes, DefaultCap)

\* A worker's transfer is that of its slot's request, capped as it asked; a Perform
\* that failed before its transfer has an empty response.
TransferIsRequested(w) ==
    /\ phase[w] = "transfer" => cap[w] = CapOf(wslot[w])
    /\ phase[w] = "returned" /\ code[w] # "running" => cap[w] = CapOf(wslot[w])
    /\ phase[w] = "returned" /\ code[w] = "running" => body[w] = 0 /\ offered[w] = 0

\* What is stored in a complete slot.
AnswerIsTrue(s) ==
    LET a == stored[s]
    IN  /\ a.status \in RequestStatuses
        /\ a.status = "Ok" <=> a.httpCode = Proved!HttpCode
        /\ a.status = "Ok" => a.size = a.sent
        /\ a.size <= CapOf(s)
        /\ a.status = "ResponseTooLarge" <=> a.sent > CapOf(s)
AnswersAreTrue == \A s \in Slots : slotState[s] = "Complete" => AnswerIsTrue(s)

\* What scripts know of the answer under id: an answer they were told of is in the slot
\* of that id, as they were told.
ToldOf(id) ==
    /\ told[id].answer = "gone" <=> ~Known(id)
    /\ told[id].answer = "short" =>
          \E s \in Slots : /\ IsLiveSlot(s, id) /\ slotState[s] = "Complete"
                          /\ told[id] = Short(stored[s])
ToldIsTrue == /\ told \in [Ids -> {Gone, Unread} \cup {Short(a) : a \in Answers}]
              /\ \A id \in Ids : ToldOf(id)

AsyncInv == /\ TableInv
            /\ Proved!IInv
            /\ PhasesAgree
            /\ ContentsTyped
            /\ \A w \in Workers : TransferIsRequested(w)
            /\ AnswersAreTrue
            /\ ToldIsTrue

-----------------------------------------------------------------------------
(* The transport under its two instances, and what is proved of it. *)

\* Transport and Proved are the same specification ...
LEMMA SameInit == Transport!Init => Proved!Init
BY DEF Transport!Init, Proved!Init

LEMMA SameStep == [Transport!Next]_(Transport!vars) => [Proved!Next]_(Proved!vars)
BY DEF Transport!Next, Transport!vars, Transport!Begin, Transport!Fresh,
       Transport!EnsureCurlInitialized, Transport!OrDefault, Transport!TimerFor,
       Transport!ClampToLong, Transport!AsLong, Transport!BeginFails, Transport!Running,
       Transport!Ends, Transport!UnchangedByServer, Transport!WriteCallback,
       Transport!WriteRefused, Transport!WriteThrows, Transport!WouldExceedResponseCap,
       Transport!Deliver, Transport!XferInfoCallback, Transport!ShouldCancelTransfer,
       Transport!TransferTimesOut, Transport!TransferEnds, Transport!PerformReturns,
       Transport!ResolveTransferResult, Transport!MapCurlCode, Transport!HttpCode,
       Transport!Cancel, Transport!response, Transport!Forget, Transport!Transfer,
       Proved!Next, Proved!vars, Proved!Begin, Proved!Fresh,
       Proved!EnsureCurlInitialized, Proved!OrDefault, Proved!TimerFor,
       Proved!ClampToLong, Proved!AsLong, Proved!BeginFails, Proved!Running,
       Proved!Ends, Proved!UnchangedByServer, Proved!WriteCallback,
       Proved!WriteRefused, Proved!WriteThrows, Proved!WouldExceedResponseCap,
       Proved!Deliver, Proved!XferInfoCallback, Proved!ShouldCancelTransfer,
       Proved!TransferTimesOut, Proved!TransferEnds, Proved!PerformReturns,
       Proved!ResolveTransferResult, Proved!MapCurlCode, Proved!HttpCode,
       Proved!Cancel, Proved!response, Proved!Forget, Proved!Transfer

\* ... whose invariant is proved in TransportProofs.
LEMMA TransportInit == Transport!Init => Proved!IInv
BY SameInit, Proved!InitEstablishes, TransportAssumption
   DEF Transport!SizeAssumption, Transport!ErrorsAssumption, Transport!TimeoutAssumption

LEMMA TransportStep == Proved!IInv /\ [Transport!Next]_(Transport!vars) => Proved!IInv'
BY SameStep, Proved!StepKeeps, TransportAssumption
   DEF Transport!SizeAssumption, Transport!ErrorsAssumption, Transport!TimeoutAssumption

-----------------------------------------------------------------------------
(* The workers use the transport. *)

\* A worker with a transfer, or the response of one, is the owner of its slot.
LEMMA TransferOwnsSlot ==
    ASSUME PhasesAgree, TableInv, Proved!IInv, NEW w \in Workers, phase[w] # "idle"
    PROVE  /\ Busy(w) /\ wslot[w] \in Slots /\ InUse(wslot[w])
           /\ PerformFlag[w] <=> slotState[wslot[w]] = "Abandoned"
<1>1. phase[w] \in {"transfer", "returned"}
  BY DEF Proved!IInv, Proved!TypeOK
<1>2. Busy(w) /\ wslot[w] \in Slots /\ InUse(wslot[w])
  BY <1>1 DEF PhasesAgree, Busy, TableInv, SlotOwnership
<1> QED BY <1>2 DEF PerformFlag, TableInv, CancelFlagIsAbandoned

\* What the callers do to the flags of the requests being performed is a Cancel of the
\* transport, or nothing.
LEMMA FlagsRaised ==
    ASSUME PhasesAgree, TableInv, Proved!IInv, UNCHANGED transferVars,
           \A w \in Workers : phase[w] # "idle" => wslot'[w] = wslot[w],
           NEW R \in SUBSET Slots, \A s \in R : slotState[s] = "Running",
           \A s \in Slots : InUse(s) => (cancelFlag'[s] <=> s \in R \/ cancelFlag[s])
    PROVE  [Transport!Next]_(Transport!vars)
<1> DEFINE S == {w \in Workers : phase[w] # "idle" /\ wslot[w] \in R}
<1>1. S \subseteq {w \in Workers : phase[w] # "idle" /\ ~ PerformFlag[w]}
  BY TransferOwnsSlot
<1>2. \A w \in Workers : PerformFlag'[w] <=> w \in S \/ PerformFlag[w]
  BY TransferOwnsSlot DEF PerformFlag, transferVars
<1>3. PerformFlag' = [w \in Workers |-> w \in S \/ PerformFlag[w]]
  BY <1>2, TransferOwnsSlot DEF PerformFlag, transferVars
<1>4. CASE S = {}
  <2>1. PerformFlag' = PerformFlag
    BY <1>2, <1>4 DEF PerformFlag
  <2> QED BY <2>1 DEF Transport!vars, transferVars
<1>5. CASE S # {}
  <2>1. Transport!Cancel(S)
    <3> HIDE DEF S
    <3> QED BY <1>1, <1>3, <1>5 DEF Transport!Cancel, Transport!response, transferVars
  <2>2. S \in SUBSET Workers
    OBVIOUS
  <2> QED BY <2>1, <2>2 DEF Transport!Next
<1> QED BY <1>4, <1>5

\* The flags of requests in use are all that the callers' other steps could touch.
LEMMA FlagsKept ==
    ASSUME PhasesAgree, TableInv, Proved!IInv, UNCHANGED transferVars,
           \A w \in Workers : phase[w] # "idle" => wslot'[w] = wslot[w],
           \A s \in Slots : InUse(s) => (cancelFlag'[s] <=> cancelFlag[s])
    PROVE  [Transport!Next]_(Transport!vars)
<1> DEFINE none == {s \in Slots : FALSE}
<1>1. none \in SUBSET Slots /\ \A s \in none : slotState[s] = "Running"
  OBVIOUS
<1>2. \A s \in Slots : InUse(s) => (cancelFlag'[s] <=> s \in none \/ cancelFlag[s])
  OBVIOUS
<1> HIDE DEF none
<1> QED BY <1>1, <1>2, FlagsRaised

\* A step of a CAPL thread, seen by the transport.
LEMMA ScriptUsesTransport ==
    ASSUME PhasesAgree, TableInv, Proved!IInv, NEW c \in Callers, Script(c)
    PROVE  [Transport!Next]_(Transport!vars)
<1>1. ASSUME NEW s \in Slots, NEW id \in Ids, DispatchAsync(s, id)
      PROVE  [Transport!Next]_(Transport!vars)
  <2>1. /\ UNCHANGED transferVars
        /\ \/ Dispatch(s, id) \/ DispatchContextThrows(s, id)
           \/ DispatchStartFails(s, id) \/ DispatchCopyThrows(s, id)
    BY <1>1 DEF DispatchAsync
  <2>2. /\ slotState[s] \in Reusable /\ UNCHANGED wslot
        /\ cancelFlag' = CancelFlagsFreed({s})
    BY <2>1 DEF Dispatch, DispatchContextThrows, DispatchStartFails, DispatchCopyThrows, Fill,
                FreeSlotContents, IsFirst, workerVars
  <2>3. \A r \in Slots : InUse(r) => (cancelFlag'[r] <=> cancelFlag[r])
    BY <2>2 DEF InUse, Reusable, CancelFlagsFreed
  <2> QED BY <2>1, <2>2, <2>3, FlagsKept
<1>2. ASSUME NEW s \in Slots, ReadAsync(s)
      PROVE  [Transport!Next]_(Transport!vars)
  BY <1>2, FlagsKept DEF ReadAsync, Read, vars, slotVars, workerVars
<1>3. ASSUME NEW s \in Slots, DiscardAsync(s)
      PROVE  [Transport!Next]_(Transport!vars)
  <2> DEFINE R == {r \in {s} : slotState[r] = "Running"}
  <2>1. UNCHANGED transferVars /\ Discard(s) /\ UNCHANGED wslot
    BY <1>3 DEF DiscardAsync, Discard, workerVars
  <2>2. \A r \in Slots : cancelFlag'[r] <=> r \in R \/ cancelFlag[r]
    BY <2>1 DEF Discard, TableInv, TypeOK
  <2>3. R \in SUBSET Slots /\ \A r \in R : slotState[r] = "Running"
    OBVIOUS
  <2> HIDE DEF R
  <2> QED BY <2>1, <2>2, <2>3, FlagsRaised
<1>4. CASE DiscardAllAsync
  <2> DEFINE R == {r \in Slots : slotState[r] = "Running"}
  <2>1. UNCHANGED transferVars /\ DiscardAll /\ UNCHANGED wslot
    BY <1>4 DEF DiscardAllAsync, DiscardAll
  <2>2. \A r \in Slots : InUse(r) => (cancelFlag'[r] <=> r \in R \/ cancelFlag[r])
    BY <2>1 DEF DiscardAll, CancelFlagsFreed, InUse
  <2>3. R \in SUBSET Slots /\ \A r \in R : slotState[r] = "Running"
    OBVIOUS
  <2> HIDE DEF R
  <2> QED BY <2>1, <2>2, <2>3, FlagsRaised
<1>5. CASE AwaitAsync(c)
  <2>1. UNCHANGED <<transferVars, wslot, cancelFlag>>
    BY <1>5 DEF AwaitAsync, AwaitBegin, AwaitWake, AwaitTimeout, slotVars, workerVars
  <2> QED BY <2>1, FlagsKept
<1> QED BY <1>1, <1>2, <1>3, <1>4, <1>5 DEF Script

\* A step of a worker, seen by the transport.
LEMMA WorkerUsesTransport ==
    ASSUME PhasesAgree, TableInv, Proved!IInv, ContentsTyped,
           NEW w \in Workers, WorkerAsync(w)
    PROVE  [Transport!Next]_(Transport!vars)
<1>1. CASE PerformBegins(w)
  <2>1. wslot[w] \in Slots
    BY <1>1 DEF PerformBegins, TableInv, SlotOwnership, Busy
  <2>2. request[wslot[w]].maxBytes \in MaxBytesOptions /\ request[wslot[w]].timeout \in TimeoutOptions
    BY <2>1 DEF ContentsTyped, Requests
  <2> QED BY <1>1, <2>2 DEF PerformBegins, Transport!Next
<1>2. CASE Transfers(w)
  BY <1>2 DEF Transfers, Transport!Next, Transport!Transfer
<1>3. CASE PerformEnds(w)
  BY <1>3 DEF PerformEnds, Transport!Next, Transport!Transfer
<1>4. CASE FinishAsync(w)
  BY <1>4 DEF FinishAsync, Transport!Next
<1>5. CASE PoolThread(w)
  <2>1. phase[w] = "idle"
    BY <1>5, TransferOwnsSlot
    DEF PoolThread, WorkerBegin, IdleClaim, IdleExit, ExitThread, Busy
  <2>2. \A v \in Workers \ {w} : wslot'[v] = wslot[v]
    BY <1>5 DEF PoolThread, WorkerBegin, LoopTop, Claim, GoIdle, IdleClaim, IdleExit, ExitThread,
           TableInv, TypeOK
  <2>3. UNCHANGED <<transferVars, cancelFlag>>
    BY <1>5 DEF PoolThread, WorkerBegin, IdleClaim, IdleExit, ExitThread, slotVars
  <2> QED BY <2>1, <2>2, <2>3, FlagsKept
<1> QED BY <1>1, <1>2, <1>3, <1>4, <1>5 DEF WorkerAsync

-----------------------------------------------------------------------------
(* The engine with real transfers is the engine. *)

\* Perform answers RequestCancelled only for a slot whose flag is set.
LEMMA CancelledHasFlag ==
    ASSUME PhasesAgree, TableInv, Proved!IInv, NEW w \in Workers, PerformEnds(w),
           result'[w] = "RequestCancelled"
    PROVE  cancelFlag[wslot[w]]
<1>1. CASE phase[w] = "idle" /\ Transport!BeginFails(w)
  <2>1. PICK s \in {"TransportInitFailed", "NetworkError"} : result' = [result EXCEPT ![w] = s]
    BY <1>1 DEF Transport!BeginFails
  <2>2. result'[w] = s
    BY <2>1 DEF Proved!IInv, Proved!TypeOK
  <2> QED BY <2>1, <2>2
<1>2. CASE Transport!PerformReturns(w)
  <2>1. result'[w] = Transport!ResolveTransferResult(capExceeded[w], Transport!MapCurlCode(code[w]))
    BY <1>2 DEF Transport!PerformReturns, Proved!IInv, Proved!TypeOK
  <2>2. code[w] = "CURLE_ABORTED_BY_CALLBACK"
    BY <2>1 DEF Transport!ResolveTransferResult, Transport!MapCurlCode
  <2>3. PerformFlag[w]
    BY <2>2 DEF Proved!IInv, Proved!TransferInv
  <2> QED BY <2>3 DEF PerformFlag
<1> QED BY <1>1, <1>2 DEF PerformEnds

LEMMA ScriptIsCall ==
    ASSUME NEW c \in Callers, Script(c)
    PROVE  [Next]_vars
<1>1. CASE awaiting[c] = 0 /\ \E s \in Slots : ReadAsync(s) \/ DiscardAsync(s)
  BY <1>1 DEF ReadAsync, DiscardAsync, Next, Call
<1>2. CASE awaiting[c] = 0 /\ \E s \in Slots, id \in Ids : DispatchAsync(s, id)
  BY <1>2 DEF DispatchAsync, Next, Call
<1>3. CASE awaiting[c] = 0 /\ DiscardAllAsync
  BY <1>3 DEF DiscardAllAsync, Next, Call
<1>4. CASE AwaitAsync(c)
  BY <1>4 DEF AwaitAsync, Next, Call
<1> QED BY <1>1, <1>2, <1>3, <1>4 DEF Script

LEMMA WorkerIsWorker ==
    ASSUME PhasesAgree, TableInv, Proved!IInv, NEW w \in Workers, WorkerAsync(w)
    PROVE  [Next]_vars
<1>1. CASE PerformBegins(w) \/ Transfers(w)
  BY <1>1 DEF PerformBegins, Transfers
<1>2. CASE PerformEnds(w)
  <2>1. Outcome(result'[w]) \in Outcomes
    BY DEF Outcome, Outcomes
  <2>2. Outcome(result'[w]) = "RequestCancelled" => cancelFlag[wslot[w]]
    BY <1>2, CancelledHasFlag DEF Outcome
  <2>3. PerformReturn(w)
    BY <1>2, <2>1, <2>2 DEF PerformEnds, PerformReturn
  <2> QED BY <2>3 DEF Next, Worker
<1>3. CASE FinishAsync(w)
  BY <1>3 DEF FinishAsync, Next, Worker
<1>4. CASE PoolThread(w)
  BY <1>4 DEF PoolThread, Next, Worker
<1> QED BY <1>1, <1>2, <1>3, <1>4 DEF WorkerAsync

\* So a step of the whole is one of each of its parts.
LEMMA StepOfParts ==
    ASSUME PhasesAgree, TableInv, Proved!IInv, ContentsTyped, [AsyncNext]_asyncVars
    PROVE  [Transport!Next]_(Transport!vars) /\ [Next]_vars
<1>1. ASSUME NEW c \in Callers, Script(c)
      PROVE  [Transport!Next]_(Transport!vars) /\ [Next]_vars
  BY <1>1, ScriptUsesTransport, ScriptIsCall
<1>2. ASSUME NEW w \in Workers, WorkerAsync(w)
      PROVE  [Transport!Next]_(Transport!vars) /\ [Next]_vars
  BY <1>2, WorkerUsesTransport, WorkerIsWorker
<1>3. CASE UNCHANGED asyncVars
  <2>1. UNCHANGED transferVars /\ UNCHANGED vars
    BY <1>3 DEF asyncVars
  <2>2. UNCHANGED <<wslot, cancelFlag>>
    BY <2>1 DEF vars, workerVars, slotVars
  <2> QED BY <2>1, <2>2, FlagsKept
<1> QED BY <1>1, <1>2, <1>3 DEF AsyncNext

-----------------------------------------------------------------------------
(* The contents of the slots. *)

\* What a step may do to the contents of a slot: a request stays while a worker holds
\* its slot and while its answer can be read, and an answer changes only where a worker
\* brings one to a slot that had none.
Brings(w, s) == FinishAsync(w) /\ s = wslot[w] /\ slotState[s] = "Running"
RequestKept(s) == InUse(s) /\ slotState'[s] \notin Reusable => request'[s] = request[s]
AnswerKept(s) ==
    slotState'[s] = "Complete" =>
       \/ /\ slotState[s] = "Complete" /\ slotId'[s] = slotId[s]
          /\ stored'[s] = stored[s] /\ request'[s] = request[s]
       \/ \E w \in Workers : Brings(w, s)
Contents == \A s \in Slots : RequestKept(s) /\ AnswerKept(s)

\* The slots a call of a script refills or frees.
LEMMA ScriptContents ==
    ASSUME TableInv, ContentsTyped, NEW c \in Callers, Script(c)
    PROVE  Contents /\ ContentsTyped'
<1> USE DEF Contents, RequestKept, AnswerKept, InUse, Reusable
<1>0. NoOptions \in Requests /\ NoAnswer \in Answers
  BY OptionsAssumption, TransportAssumption
     DEF NoOptions, Requests, NoAnswer, Answers, Proved!Statuses, Transport!SizeAssumption
<1>1. ASSUME NEW s \in Slots, NEW o \in Requests, Refilled(s, o)
      PROVE  /\ ContentsTyped'
             /\ \A r \in Slots \ {s} : stored'[r] = stored[r] /\ request'[r] = request[r]
  BY <1>0, <1>1 DEF Refilled, RequestsFreed, AnswersFreed, ContentsTyped
<1>2. ASSUME NEW s \in Slots, NEW id \in Ids, DispatchAsync(s, id)
      PROVE  Contents /\ ContentsTyped'
  <2>1. PICK o \in Requests : Refilled(s, o)
    BY <1>0, <1>2 DEF DispatchAsync, RequestOptions, Requests
  <2>2. /\ slotState[s] \in Reusable /\ slotState'[s] \in {"Free", "Consumed", "Pending"}
        /\ \A r \in Slots \ {s} : slotState'[r] = slotState[r] /\ slotId'[r] = slotId[r]
    BY <1>2 DEF DispatchAsync, Dispatch, DispatchContextThrows, DispatchStartFails,
                DispatchCopyThrows, Fill, FreeSlotContents, IdsFreed, IsFirst, TableInv, TypeOK
  <2> QED BY <1>1, <2>1, <2>2
<1>3. ASSUME NEW s \in Slots, ReadAsync(s)
      PROVE  Contents /\ ContentsTyped'
  <2>1. CASE UNCHANGED <<vars, contentVars>>
    BY <2>1 DEF vars, slotVars, contentVars, ContentsTyped
  <2>2. CASE Read(s) /\ Refilled(s, NoOptions)
    BY <1>0, <1>1, <2>2 DEF Read, TableInv, TypeOK
  <2> QED BY <1>3, <2>1, <2>2 DEF ReadAsync
<1>4. ASSUME NEW s \in Slots, DiscardAsync(s)
      PROVE  Contents /\ ContentsTyped'
  <2>1. /\ slotState'[s] \in {"Abandoned", "Consumed"} /\ slotId' = slotId
        /\ \A r \in Slots \ {s} : slotState'[r] = slotState[r]
    BY <1>4 DEF DiscardAsync, Discard, TableInv, TypeOK
  <2>2. CASE slotState'[s] = "Consumed"
    <3>1. Refilled(s, NoOptions)
      BY <1>4, <2>2 DEF DiscardAsync
    <3> QED BY <1>0, <1>1, <2>1, <2>2, <3>1
  <2>3. CASE slotState'[s] # "Consumed"
    <3>1. UNCHANGED contentVars
      BY <1>4, <2>3 DEF DiscardAsync
    <3> QED BY <2>1, <2>3, <3>1 DEF contentVars, ContentsTyped
  <2> QED BY <2>2, <2>3
<1>5. CASE DiscardAllAsync
  <2>1. ContentsTyped'
    BY <1>0, <1>5 DEF DiscardAllAsync, RequestsFreed, AnswersFreed, ContentsTyped
  <2>2. \A s \in Slots : slotState'[s] \notin {"Complete", "Pending"}
    BY <1>5 DEF DiscardAllAsync, DiscardAll
  <2>3. \A s \in Slots : InUse(s) => request'[s] = request[s]
    BY <1>5 DEF DiscardAllAsync, RequestsFreed
  <2> QED BY <2>1, <2>2, <2>3
<1>6. CASE AwaitAsync(c)
  <2>1. UNCHANGED <<slotState, slotId, request, stored>>
    BY <1>6 DEF AwaitAsync, AwaitBegin, AwaitWake, AwaitTimeout, slotVars, contentVars
  <2> QED BY <2>1 DEF ContentsTyped
<1> QED BY <1>2, <1>3, <1>4, <1>5, <1>6 DEF Script

\* The slot a worker brings an answer to, or frees.
LEMMA WorkerContents ==
    ASSUME PhasesAgree, TableInv, Proved!IInv, ContentsTyped,
           NEW w \in Workers, WorkerAsync(w)
    PROVE  Contents /\ ContentsTyped'
<1> USE DEF Contents, RequestKept, AnswerKept
<1>0. NoOptions \in Requests /\ NoAnswer \in Answers
  BY OptionsAssumption, TransportAssumption
     DEF NoOptions, Requests, NoAnswer, Answers, Proved!Statuses, Transport!SizeAssumption
<1>1. CASE PerformBegins(w) \/ Transfers(w) \/ PerformEnds(w)
  <2>1. UNCHANGED <<slotState, slotId, request, stored>>
    BY <1>1 DEF PerformBegins, Transfers, PerformEnds, vars, slotVars, contentVars
  <2> QED BY <2>1 DEF ContentsTyped
<1>2. CASE PoolThread(w)
  <2>1. UNCHANGED <<slotId, request, stored>>
    BY <1>2 DEF PoolThread, WorkerBegin, IdleClaim, IdleExit, ExitThread, slotVars, contentVars
  <2>2. \A s \in Slots : slotState'[s] = "Complete" => slotState[s] = "Complete"
    BY <1>2, LoopTopTable
    DEF PoolThread, WorkerBegin, IdleClaim, Claim, IsFirst, IdleExit, ExitThread, slotVars,
        TableInv, TypeOK
  <2> QED BY <2>1, <2>2 DEF ContentsTyped
<1>3. CASE FinishAsync(w)
  <2> PICK s \in Slots : s = wslot[w] /\ slotState[s] \in {"Running", "Abandoned"}
    BY <1>3 DEF FinishAsync, Finish, TableInv, SlotOwnership, Busy, InUse
  <2> DEFINE st == [slotState EXCEPT ![s] =
                       IF slotState[s] = "Abandoned" THEN "Free" ELSE "Complete"]
             answer == [status |-> result[w], httpCode |-> statusCode[w],
                        size |-> body[w], sent |-> offered[w]]
  <2>1. LoopTop(w, st) /\ st \in [Slots -> SlotStates]
    BY <1>3 DEF FinishAsync, Finish, TableInv, TypeOK, SlotStates
  <2>2. /\ \A r \in Slots \ {s} : st[r] = slotState[r] /\ slotId'[r] = slotId[r]
        /\ st[s] = IF slotState[s] = "Abandoned" THEN "Free" ELSE "Complete"
    BY <1>3 DEF FinishAsync, Finish, FreeSlotContents, IdsFreed, TableInv, TypeOK
  <2>3. answer \in Answers
    <3>1. result[w] \in Proved!Statuses
      BY <1>3 DEF FinishAsync, Transport!Forget, Proved!IInv, Proved!TypeOK, Proved!TransferInv,
                  Proved!ResolveTransferResult, Proved!MapCurlCode, Proved!Statuses
    <3> QED BY <3>1 DEF Answers, Proved!IInv, Proved!TypeOK
  <2> HIDE DEF st, answer
  <2>4. \A r \in Slots : slotState'[r] = "Complete" => st[r] = "Complete"
    BY <2>1, LoopTopTable
  <2>5. CASE slotState[s] = "Abandoned"
    <3>1. request' = RequestsFreed({s}) /\ stored' = AnswersFreed({s})
      BY <1>3, <2>5 DEF FinishAsync
    <3>2. slotState'[s] = "Free"
      BY <2>1, <2>2, <2>5, LoopTopTable
    <3> QED BY <1>0, <2>2, <2>4, <2>5, <3>1, <3>2
            DEF RequestsFreed, AnswersFreed, ContentsTyped, Reusable
  <2>6. CASE slotState[s] = "Running"
    <3>1. stored' = [stored EXCEPT ![s] = answer] /\ request' = request
      BY <1>3, <2>6 DEF FinishAsync, answer
    <3>2. Brings(w, s)
      BY <1>3, <2>6 DEF Brings
    <3> QED BY <2>2, <2>3, <2>4, <3>1, <3>2 DEF ContentsTyped
  <2> QED BY <2>5, <2>6
<1> QED BY <1>1, <1>2, <1>3 DEF WorkerAsync

LEMMA ContentsStep ==
    ASSUME PhasesAgree, TableInv, Proved!IInv, ContentsTyped, [AsyncNext]_asyncVars
    PROVE  Contents /\ ContentsTyped'
<1>1. CASE UNCHANGED asyncVars
  BY <1>1 DEF asyncVars, vars, slotVars, contentVars, Contents, RequestKept, AnswerKept,
              ContentsTyped
<1> QED BY <1>1, ScriptContents, WorkerContents DEF AsyncNext

-----------------------------------------------------------------------------
(* The transfers. *)

\* A step of a worker leaves the transfers, and the places, of the others alone.
TransferOfOthersKept(w) ==
    \A v \in Workers \ {w} :
       /\ phase'[v] = phase[v] /\ cap'[v] = cap[v] /\ code'[v] = code[v]
       /\ body'[v] = body[v] /\ offered'[v] = offered[v]
       /\ wstate'[v] = wstate[v] /\ wslot'[v] = wslot[v]

\* Each step of a worker, for its own transfer and those of the others.
LEMMA WorkerTransfer ==
    ASSUME PhasesAgree, TableInv, Proved!IInv, NEW w \in Workers, WorkerAsync(w)
    PROVE  /\ TransferOfOthersKept(w)
           /\ \/ /\ wstate[w] = "performing" /\ wstate'[w] = "performing" /\ wslot'[w] = wslot[w]
                 /\ phase'[w] = "transfer"
                 /\ \/ phase[w] = "idle" /\ cap'[w] = CapOf(wslot[w])
                    \/ phase[w] = "transfer" /\ cap'[w] = cap[w]
              \/ /\ wstate'[w] = "returned" /\ phase'[w] = "returned" /\ wslot'[w] = wslot[w]
                 /\ \/ code'[w] = "running" /\ body'[w] = 0 /\ offered'[w] = 0
                    \/ phase[w] = "transfer" /\ code'[w] # "running" /\ cap'[w] = cap[w]
              \/ phase'[w] = "idle" /\ wstate'[w] # "returned"
<1> USE DEF TransferOfOthersKept, Proved!IInv, Proved!TypeOK, TableInv, TypeOK
<1>1. CASE PerformBegins(w)
  BY <1>1 DEF PerformBegins, Transport!Begin, Transport!Fresh, CapOf, vars, workerVars
<1>2. CASE Transfers(w)
  <2>1. wstate[w] = "performing" /\ phase[w] = "transfer"
    BY <1>2 DEF Transfers, PhasesAgree, Transport!Deliver, Transport!WriteCallback,
                Transport!WriteRefused, Transport!WriteThrows, Transport!XferInfoCallback,
                Transport!TransferTimesOut, Transport!TransferEnds, Transport!Ends,
                Transport!Running
  <2>2. UNCHANGED <<phase, cap, wstate, wslot>>
    BY <1>2 DEF Transfers, vars, workerVars, Transport!Deliver, Transport!WriteCallback,
                Transport!WriteRefused, Transport!WriteThrows, Transport!XferInfoCallback,
                Transport!TransferTimesOut, Transport!TransferEnds, Transport!UnchangedByServer
  <2>3. \A v \in Workers \ {w} : code'[v] = code[v] /\ body'[v] = body[v]
                                                    /\ offered'[v] = offered[v]
    BY <1>2 DEF Transfers, Transport!Deliver, Transport!WriteCallback,
                Transport!WriteRefused, Transport!WriteThrows, Transport!XferInfoCallback,
                Transport!TransferTimesOut, Transport!TransferEnds, Transport!Ends
  <2> QED BY <2>1, <2>2, <2>3
<1>3. CASE PerformEnds(w)
  BY <1>3 DEF PerformEnds, Transport!BeginFails, Transport!Fresh, Transport!PerformReturns
<1>4. CASE FinishAsync(w)
  <2>1. /\ wstate'[w] \in {"performing", "idle"}
        /\ \A v \in Workers \ {w} : wstate'[v] = wstate[v] /\ wslot'[v] = wslot[v]
    BY <1>4 DEF FinishAsync, Finish, LoopTop, Claim, GoIdle
  <2> QED BY <1>4, <2>1 DEF FinishAsync, Transport!Forget
<1>5. CASE PoolThread(w)
  <2>1. phase[w] = "idle"
    BY <1>5, TransferOwnsSlot
    DEF PoolThread, WorkerBegin, IdleClaim, IdleExit, ExitThread, Busy
  <2>2. /\ wstate'[w] # "returned" /\ UNCHANGED transferVars
        /\ \A v \in Workers \ {w} : wstate'[v] = wstate[v] /\ wslot'[v] = wslot[v]
    BY <1>5 DEF PoolThread, WorkerBegin, LoopTop, Claim, GoIdle, IdleClaim, IdleExit, ExitThread
  <2> QED BY <2>1, <2>2 DEF transferVars
<1> QED BY <1>1, <1>2, <1>3, <1>4, <1>5 DEF WorkerAsync

\* A step of a script starts threads at most.
LEMMA ScriptTransfer ==
    ASSUME NEW c \in Callers, Script(c), TableInv
    PROVE  /\ UNCHANGED transferVars /\ UNCHANGED wslot
           /\ \A w \in Workers : \/ wstate'[w] = wstate[w]
                                 \/ wstate[w] = "none" /\ wstate'[w] = "starting"
<1>1. UNCHANGED transferVars
  BY DEF Script, DispatchAsync, ReadAsync, DiscardAsync, DiscardAllAsync, AwaitAsync
<1>2. ASSUME NEW s \in Slots, NEW id \in Ids,
             \/ Dispatch(s, id) \/ DispatchContextThrows(s, id)
             \/ DispatchStartFails(s, id) \/ DispatchCopyThrows(s, id)
      PROVE  /\ wslot' = wslot
             /\ \A w \in Workers : \/ wstate'[w] = wstate[w]
                                   \/ wstate[w] = "none" /\ wstate'[w] = "starting"
  BY <1>2 DEF Dispatch, StartWorker, DispatchContextThrows, DispatchStartFails,
              DispatchCopyThrows, workerVars, TableInv, TypeOK
<1>3. ASSUME NEW s \in Slots, Read(s) \/ Discard(s) \/ UNCHANGED vars
      PROVE  wslot' = wslot /\ wstate' = wstate
  BY <1>3 DEF Read, Discard, vars, workerVars
<1>4. ASSUME DiscardAll
      PROVE  wslot' = wslot /\ wstate' = wstate
  BY <1>4 DEF DiscardAll
<1>5. ASSUME AwaitAsync(c)
      PROVE  wslot' = wslot /\ wstate' = wstate
  BY <1>5 DEF AwaitAsync, AwaitBegin, AwaitWake, AwaitTimeout, workerVars
<1>6. \/ \E s \in Slots, id \in Ids : \/ Dispatch(s, id) \/ DispatchContextThrows(s, id)
                                      \/ DispatchStartFails(s, id) \/ DispatchCopyThrows(s, id)
      \/ \E s \in Slots : Read(s) \/ Discard(s) \/ UNCHANGED vars
      \/ DiscardAll
      \/ AwaitAsync(c)
  BY DEF Script, DispatchAsync, ReadAsync, DiscardAsync, DiscardAllAsync
<1> QED BY <1>1, <1>2, <1>3, <1>4, <1>5, <1>6

\* The phases stay in step with the workers.
LEMMA PhasesStep ==
    ASSUME PhasesAgree, TableInv, Proved!IInv, [AsyncNext]_asyncVars
    PROVE  PhasesAgree'
<1> USE DEF PhasesAgree
<1>1. ASSUME NEW c \in Callers, Script(c) PROVE PhasesAgree'
  BY <1>1, ScriptTransfer DEF transferVars
<1>2. ASSUME NEW w \in Workers, WorkerAsync(w) PROVE PhasesAgree'
  <2> HIDE DEF PhasesAgree
  <2>1. \A v \in Workers \ {w} : /\ phase'[v] = "transfer" => wstate'[v] = "performing"
                                 /\ phase'[v] = "returned" <=> wstate'[v] = "returned"
    BY <1>2, WorkerTransfer DEF TransferOfOthersKept, PhasesAgree
  <2>2. /\ phase'[w] = "transfer" => wstate'[w] = "performing"
        /\ phase'[w] = "returned" <=> wstate'[w] = "returned"
    BY <1>2, WorkerTransfer
  <2> QED BY <2>1, <2>2 DEF PhasesAgree
<1>3. CASE UNCHANGED asyncVars
  BY <1>3 DEF asyncVars, vars, workerVars, transferVars
<1> QED BY <1>1, <1>2, <1>3 DEF AsyncNext

\* A transfer stays that of its slot's request.
LEMMA RequestedStep ==
    ASSUME PhasesAgree, TableInv, Proved!IInv, ContentsTyped, [AsyncNext]_asyncVars,
           \A w \in Workers : TransferIsRequested(w)
    PROVE  \A w \in Workers : TransferIsRequested(w)'
<1>0. TableInv' /\ Contents /\ PhasesAgree' /\ Proved!IInv'
  BY StepOfParts, TableStep, TransportStep, ContentsStep, PhasesStep
<1>1. ASSUME NEW v \in Workers, phase[v] # "idle", wslot'[v] = wslot[v], phase'[v] # "idle"
      PROVE  CapOf(wslot[v])' = CapOf(wslot[v])
  <2> PICK s \in Slots : s = wslot[v] /\ InUse(s)
    BY <1>1, TransferOwnsSlot
  <2>1. phase'[v] \in {"transfer", "returned"}
    BY <1>0, <1>1 DEF Proved!IInv, Proved!TypeOK
  <2>2. InUse(wslot[v])'
    BY <1>0, <2>1 DEF PhasesAgree, TableInv, SlotOwnership, Busy
  <2>3. slotState'[s] \notin Reusable
    BY <1>1, <2>2 DEF InUse, Reusable
  <2>4. request'[s] = request[s]
    BY <1>0, <2>3 DEF Contents, RequestKept
  <2> QED BY <1>1, <2>4 DEF CapOf
<1>2. ASSUME NEW v \in Workers, phase'[v] = phase[v], cap'[v] = cap[v], code'[v] = code[v],
             body'[v] = body[v], offered'[v] = offered[v], wslot'[v] = wslot[v]
      PROVE  TransferIsRequested(v)'
  <2>1. CASE phase[v] = "idle"
    BY <1>2, <2>1 DEF TransferIsRequested
  <2>2. CASE phase[v] # "idle"
    BY <1>1, <1>2, <2>2 DEF TransferIsRequested
  <2> QED BY <2>1, <2>2
<1>3. ASSUME NEW c \in Callers, Script(c)
      PROVE  \A v \in Workers : TransferIsRequested(v)'
  BY <1>2, <1>3, ScriptTransfer DEF transferVars
<1>4. ASSUME NEW w \in Workers, WorkerAsync(w)
      PROVE  \A v \in Workers : TransferIsRequested(v)'
  <2>1. \A v \in Workers \ {w} : TransferIsRequested(v)'
    BY <1>2, <1>4, WorkerTransfer DEF TransferOfOthersKept
  <2>2. TransferIsRequested(w)'
    <3>1. CASE /\ phase'[w] = "transfer" /\ phase[w] = "idle" /\ cap'[w] = CapOf(wslot[w])
               /\ wslot'[w] = wslot[w] /\ wstate[w] = "performing" /\ wstate'[w] = "performing"
      <4> PICK s \in Slots : s = wslot[w] /\ InUse(s)
        BY <3>1 DEF TableInv, SlotOwnership, Busy
      <4>1. InUse(wslot[w])'
        BY <1>0, <3>1 DEF TableInv, SlotOwnership, Busy
      <4>2. slotState'[s] \notin Reusable
        BY <3>1, <4>1 DEF InUse, Reusable
      <4>3. request'[s] = request[s]
        BY <1>0, <4>2 DEF Contents, RequestKept
      <4> QED BY <3>1, <4>3 DEF TransferIsRequested, CapOf
    <3>2. CASE phase[w] = "transfer" /\ phase'[w] # "idle" /\ cap'[w] = cap[w]
               /\ wslot'[w] = wslot[w]
               /\ (phase'[w] = "returned" => code'[w] # "running")
      BY <1>1, <3>2 DEF TransferIsRequested
    <3>3. CASE phase'[w] = "returned" /\ code'[w] = "running" /\ body'[w] = 0 /\ offered'[w] = 0
      BY <3>3 DEF TransferIsRequested
    <3>4. CASE phase'[w] = "idle"
      BY <3>4 DEF TransferIsRequested
    <3> QED BY <1>4, <3>1, <3>2, <3>3, <3>4, WorkerTransfer
  <2> QED BY <2>1, <2>2
<1>5. CASE UNCHANGED asyncVars
  BY <1>2, <1>5 DEF asyncVars, vars, workerVars, transferVars
<1> QED BY <1>3, <1>4, <1>5 DEF AsyncNext

-----------------------------------------------------------------------------
(* The answers. *)

\* What a worker that has returned brings to a slot that nobody has discarded.
LEMMA AnswerOfTransfer ==
    ASSUME AsyncInv, NEW w \in Workers, NEW s \in Slots, s = wslot[w],
           phase[w] = "returned", slotState[s] = "Running"
    PROVE  /\ result[w] \in RequestStatuses
           /\ result[w] = "Ok" <=> statusCode[w] = Proved!HttpCode
           /\ result[w] = "Ok" => body[w] = offered[w]
           /\ body[w] <= CapOf(s)
           /\ result[w] = "ResponseTooLarge" <=> offered[w] > CapOf(s)
<1> USE DEF AsyncInv
<1>1. Proved!TransferInv(w)
  BY DEF Proved!IInv
<1>2. ~ PerformFlag[w]
  BY TransferOwnsSlot
<1>3. result[w] = "Ok" <=> statusCode[w] = Proved!HttpCode
  BY <1>1 DEF Proved!TransferInv
<1>4. CapOf(s) \in 1..(SizeModulus - 1) /\ SizeModulus \in Nat
  <2>1. request[s] \in Requests
    BY DEF ContentsTyped
  <2>2. request[s].maxBytes \in MaxBytesOptions
    BY <2>1 DEF Requests
  <2>3. /\ SizeModulus \in Nat /\ DefaultCap \in 1..(SizeModulus - 1)
        /\ MaxBytesOptions \subseteq 0..(SizeModulus - 1)
    BY TransportAssumption DEF Transport!SizeAssumption
  <2>4. request[s].maxBytes \in 0..(SizeModulus - 1)
    BY <2>2, <2>3
  <2> HIDE DEF AsyncInv
  <2> QED BY <2>3, <2>4 DEF CapOf, Transport!OrDefault
<1>5. CASE code[w] = "running"
  <2>1. result[w] \in {"TransportInitFailed", "NetworkError"} /\ body[w] = 0 /\ offered[w] = 0
    BY <1>1, <1>5 DEF Proved!TransferInv, TransferIsRequested
  <2> QED BY <1>3, <1>4, <2>1 DEF RequestStatuses
<1>6. CASE code[w] # "running"
  <2>1. /\ result[w] = Proved!ResolveTransferResult(capExceeded[w], Proved!MapCurlCode(code[w]))
        /\ capExceeded[w] <=> offered[w] > cap[w]
        /\ code[w] = "CURLE_OK" => body[w] = offered[w]
        /\ code[w] # "CURLE_ABORTED_BY_CALLBACK"
    BY <1>1, <1>2, <1>6 DEF Proved!TransferInv
  <2>2. cap[w] = CapOf(s) /\ body[w] <= cap[w] /\ capExceeded[w] \in BOOLEAN
    BY <1>6 DEF TransferIsRequested, Proved!IInv, Proved!BodyWithinCap, Proved!TypeOK
  <2>3. result[w] \in RequestStatuses /\ (result[w] = "ResponseTooLarge" <=> capExceeded[w])
    BY <2>1, <2>2 DEF Proved!ResolveTransferResult, Proved!MapCurlCode, RequestStatuses
  <2>4. result[w] = "Ok" => code[w] = "CURLE_OK"
    BY <2>1, <2>2 DEF Proved!ResolveTransferResult, Proved!MapCurlCode
  <2> QED BY <1>3, <2>1, <2>2, <2>3, <2>4
<1> QED BY <1>5, <1>6

\* Answers stay true.
LEMMA AnswersStep ==
    ASSUME AsyncInv, [AsyncNext]_asyncVars
    PROVE  AnswersAreTrue'
<1> SUFFICES ASSUME NEW s \in Slots, slotState'[s] = "Complete" PROVE AnswerIsTrue(s)'
  BY DEF AnswersAreTrue
<1>1. Contents
  BY ContentsStep DEF AsyncInv
<1>2. CASE slotState[s] = "Complete" /\ stored'[s] = stored[s] /\ request'[s] = request[s]
  BY <1>2 DEF AsyncInv, AnswersAreTrue, AnswerIsTrue, CapOf
<1>3. ASSUME NEW w \in Workers, Brings(w, s) PROVE AnswerIsTrue(s)'
  <2> DEFINE answer == [status |-> result[w], httpCode |-> statusCode[w],
                        size |-> body[w], sent |-> offered[w]]
  <2>1. FinishAsync(w) /\ s = wslot[w] /\ slotState[s] = "Running" /\ phase[w] = "returned"
    BY <1>3 DEF Brings, FinishAsync, Transport!Forget
  <2>2. request'[s] = request[s]
    BY <1>1, <2>1 DEF Contents, RequestKept, InUse, Reusable
  <2>3. stored'[s] = answer
    BY <2>1 DEF FinishAsync, AsyncInv, ContentsTyped
  <2> QED BY <2>1, <2>2, <2>3, AnswerOfTransfer DEF AnswerIsTrue, CapOf
<1> QED BY <1>1, <1>2, <1>3 DEF Contents, AnswerKept

-----------------------------------------------------------------------------
(* What scripts know of the answers. *)

\* An id names one slot.
LEMMA OneLiveSlot ==
    ASSUME AsyncInv, NEW id \in Ids, NEW s \in Slots, NEW r \in Slots,
           IsLiveSlot(s, id), IsLiveSlot(r, id)
    PROVE  s = r
BY DEF AsyncInv, TableInv, LiveIdsDistinct, IsLiveSlot, Live, Reusable

\* What scripts know of an id stays true if its slot stays, with its answer.
LEMMA ToldKept ==
    ASSUME ToldIsTrue, NEW id \in Ids, told'[id] = told[id],
           \A s \in Slots : IsLiveSlot(s, id)' <=> IsLiveSlot(s, id),
           \A s \in Slots : IsLiveSlot(s, id) /\ slotState[s] = "Complete" =>
                             slotState'[s] = "Complete" /\ stored'[s] = stored[s]
    PROVE  ToldOf(id)'
<1>1. Known(id)' <=> Known(id)
  BY DEF Known
<1>2. ToldOf(id)
  BY DEF ToldIsTrue
<1>3. ASSUME told'[id].answer = "short"
      PROVE  \E s \in Slots : /\ IsLiveSlot(s, id)' /\ slotState'[s] = "Complete"
                              /\ told'[id] = Short(stored'[s])
  BY <1>2, <1>3 DEF ToldOf
<1> QED BY <1>1, <1>2, <1>3 DEF ToldOf, Short

\* A step changes what is known of one id at most, and keeps the slots of the others.
LEMMA ToldExcept ==
    ASSUME ToldIsTrue, NEW id \in Ids,
           NEW k \in {Gone, Unread} \cup {Short(a) : a \in Answers},
           told' = [told EXCEPT ![id] = k], ToldOf(id)',
           \A s \in Slots, i \in Ids \ {id} : IsLiveSlot(s, i)' <=> IsLiveSlot(s, i),
           \A s \in Slots, i \in Ids \ {id} :
              IsLiveSlot(s, i) /\ slotState[s] = "Complete" =>
                 slotState'[s] = "Complete" /\ stored'[s] = stored[s]
    PROVE  ToldIsTrue'
<1>1. told' \in [Ids -> {Gone, Unread} \cup {Short(a) : a \in Answers}]
  BY DEF ToldIsTrue
<1>2. \A i \in Ids \ {id} : told'[i] = told[i]
  BY DEF ToldIsTrue
<1>3. \A i \in Ids \ {id} : ToldOf(i)'
  BY <1>2, ToldKept
<1> QED BY <1>1, <1>3 DEF ToldIsTrue

\* The worker brings answers to slots that had none, and takes none away.
LEMMA WorkerTold ==
    ASSUME AsyncInv, NEW w \in Workers, WorkerAsync(w)
    PROVE  ToldIsTrue'
<1> USE DEF AsyncInv
<1>1. told' = told
  BY DEF WorkerAsync
<1>2. \A s \in Slots : /\ slotState'[s] \in Live <=> slotState[s] \in Live
                       /\ slotState[s] \in Live => slotId'[s] = slotId[s]
                       /\ slotState[s] = "Complete" => slotState'[s] = "Complete"
  <2> USE DEF Live
  <2>1. CASE PerformBegins(w) \/ Transfers(w) \/ PerformEnds(w)
    BY <2>1 DEF PerformBegins, Transfers, PerformEnds, vars, slotVars
  <2>2. CASE PoolThread(w)
    BY <2>2, LoopTopTable
    DEF PoolThread, WorkerBegin, IdleClaim, Claim, IsFirst, IdleExit, ExitThread, slotVars,
        TableInv, TypeOK
  <2>3. CASE FinishAsync(w)
    <3> PICK s \in Slots : s = wslot[w] /\ slotState[s] \in {"Running", "Abandoned"}
      BY <2>3 DEF FinishAsync, Finish, TableInv, SlotOwnership, Busy, InUse
    <3> DEFINE st == [slotState EXCEPT ![s] =
                         IF slotState[s] = "Abandoned" THEN "Free" ELSE "Complete"]
    <3>1. LoopTop(w, st) /\ st \in [Slots -> SlotStates]
      BY <2>3 DEF FinishAsync, Finish, TableInv, TypeOK, SlotStates
    <3>2. /\ \A r \in Slots \ {s} : st[r] = slotState[r] /\ slotId'[r] = slotId[r]
          /\ st[s] = IF slotState[s] = "Abandoned" THEN "Free" ELSE "Complete"
          /\ slotState[s] = "Running" => slotId'[s] = slotId[s]
      BY <2>3 DEF FinishAsync, Finish, FreeSlotContents, IdsFreed, TableInv, TypeOK
    <3> HIDE DEF st
    <3>3. \A r \in Slots : /\ slotState'[r] \in Live <=> st[r] \in Live
                           /\ st[r] = "Complete" => slotState'[r] = "Complete"
      BY <3>1, LoopTopTable
    <3> QED BY <3>2, <3>3
  <2> QED BY <2>1, <2>2, <2>3 DEF WorkerAsync
<1>3. \A s \in Slots : slotState[s] = "Complete" => stored'[s] = stored[s]
  BY <1>2, WorkerContents DEF Contents, AnswerKept, Brings
<1>4. \A s \in Slots, id \in Ids : IsLiveSlot(s, id)' <=> IsLiveSlot(s, id)
  BY <1>2 DEF IsLiveSlot
<1>5. \A id \in Ids : ToldOf(id)'
  BY <1>1, <1>2, <1>3, <1>4, ToldKept
<1> QED BY <1>1, <1>5 DEF ToldIsTrue

\* A script knows of an answer what its last call told it.
LEMMA ScriptTold ==
    ASSUME AsyncInv, NEW c \in Callers, Script(c)
    PROVE  ToldIsTrue'
<1>0. ToldIsTrue /\ TableInv /\ ContentsTyped
  BY DEF AsyncInv
<1>1. ASSUME NEW s \in Slots, NEW id \in Ids, DispatchAsync(s, id)
      PROVE  ToldIsTrue'
  <2>1. PICK o : Refilled(s, o)
    BY <1>1 DEF DispatchAsync
  <2>2. \A r \in Slots \ {s} : stored'[r] = stored[r]
    BY <1>0, <2>1 DEF Refilled, AnswersFreed, ContentsTyped
  <2>3. /\ slotState[s] \in Reusable
        /\ \A r \in Slots \ {s} : slotState'[r] = slotState[r] /\ slotId'[r] = slotId[r]
    BY <1>0, <1>1 DEF DispatchAsync, Dispatch, DispatchContextThrows, DispatchStartFails,
                DispatchCopyThrows, Fill, FreeSlotContents, IdsFreed, IsFirst, TableInv, TypeOK
  <2>4. CASE /\ Dispatch(s, id) \/ DispatchContextThrows(s, id)
             /\ told' = [told EXCEPT ![id] = Unread]
    <3>1. slotState'[s] = "Pending" /\ slotId'[s] = id /\ id # 0
      <4>1. Fill(s, id) /\ slotState' = [slotState EXCEPT ![s] = "Pending"]
        BY <2>4 DEF Dispatch, DispatchContextThrows
      <4>2. id # 0
        BY <4>1, MintedInRange DEF Fill
      <4> QED BY <1>0, <4>1, <4>2 DEF Fill, IdsFreed, TableInv, TypeOK
    <3>2. \A i \in Ids \ {id}, r \in Slots : IsLiveSlot(r, i)' <=> IsLiveSlot(r, i)
      BY <2>3, <3>1 DEF IsLiveSlot, Live, Reusable
    <3>3. told'[id] = Unread
      BY <1>0, <2>4 DEF ToldIsTrue
    <3>4. Known(id)'
      BY <3>1 DEF Known, IsLiveSlot, Live
    <3>5. ToldOf(id)'
      BY <3>3, <3>4 DEF ToldOf, Unread, Gone
    <3>6. \A r \in Slots, i \in Ids \ {id} :
             IsLiveSlot(r, i) /\ slotState[r] = "Complete" =>
                slotState'[r] = "Complete" /\ stored'[r] = stored[r]
      BY <2>2, <2>3 DEF Reusable
    <3> QED BY <1>0, <2>4, <3>2, <3>5, <3>6, ToldExcept
  <2>5. CASE /\ DispatchStartFails(s, id) \/ DispatchCopyThrows(s, id)
             /\ UNCHANGED told
    <3>1. slotState'[s] \in Reusable
      BY <1>0, <2>3, <2>5 DEF DispatchStartFails, DispatchCopyThrows, Reusable, TableInv, TypeOK
    <3>2. \A i \in Ids, r \in Slots : IsLiveSlot(r, i)' <=> IsLiveSlot(r, i)
      BY <2>3, <3>1 DEF IsLiveSlot, Live, Reusable
    <3>3. \A r \in Slots : slotState[r] = "Complete" =>
                             slotState'[r] = "Complete" /\ stored'[r] = stored[r]
      BY <2>2, <2>3 DEF Reusable
    <3>4. \A i \in Ids : ToldOf(i)'
      BY <1>0, <2>5, <3>2, <3>3, ToldKept
    <3> QED BY <1>0, <2>5, <3>4 DEF ToldIsTrue
  <2> QED BY <1>1, <2>4, <2>5 DEF DispatchAsync
\* The slot s of an id is given up, and nothing is known of the id any more.
<1>2. ASSUME NEW s \in Slots, IsLiveSlot(s, slotId[s]), slotId' = slotId,
             slotState'[s] \in {"Consumed", "Abandoned"},
             told' = [told EXCEPT ![slotId[s]] = Gone],
             \A r \in Slots \ {s} : slotState'[r] = slotState[r] /\ stored'[r] = stored[r]
      PROVE  ToldIsTrue'
  <2> PICK id \in Ids : id = slotId[s]
    BY <1>0 DEF TableInv, TypeOK
  <2>1. \A r \in Slots : ~ IsLiveSlot(r, id)'
    BY <1>2, OneLiveSlot DEF IsLiveSlot, Live
  <2>2. told'[id] = Gone
    BY <1>0, <1>2 DEF ToldIsTrue
  <2>3. ToldOf(id)'
    BY <2>1, <2>2 DEF ToldOf, Known, Gone
  <2>4. \A r \in Slots, i \in Ids \ {id} : IsLiveSlot(r, i)' <=> IsLiveSlot(r, i)
    BY <1>2 DEF IsLiveSlot
  <2>5. \A r \in Slots, i \in Ids \ {id} :
           IsLiveSlot(r, i) /\ slotState[r] = "Complete" =>
              slotState'[r] = "Complete" /\ stored'[r] = stored[r]
    BY <1>2 DEF IsLiveSlot
  <2> QED BY <1>0, <1>2, <2>3, <2>4, <2>5, ToldExcept
<1>3. ASSUME NEW s \in Slots, ReadAsync(s)
      PROVE  ToldIsTrue'
  <2>1. CASE /\ Read(s) /\ Refilled(s, NoOptions)
             /\ told' = [told EXCEPT ![slotId[s]] = Gone]
    BY <1>0, <1>2, <2>1 DEF Read, Refilled, AnswersFreed, TableInv, TypeOK, ContentsTyped
  <2>2. CASE /\ UNCHANGED <<vars, contentVars>>
             /\ told' = [told EXCEPT ![slotId[s]] = Short(stored[s])]
    <3> PICK id \in Ids : id = slotId[s]
      BY <1>0 DEF TableInv, TypeOK
    <3>1. IsLiveSlot(s, id) /\ slotState[s] = "Complete"
      BY <1>3 DEF ReadAsync
    <3>2. UNCHANGED <<slotState, slotId, stored>>
      BY <2>2 DEF vars, slotVars, contentVars
    <3>3. \A r \in Slots, i \in Ids : IsLiveSlot(r, i)' <=> IsLiveSlot(r, i)
      BY <3>2 DEF IsLiveSlot
    <3>4. told'[id] = Short(stored'[s])
      BY <1>0, <2>2, <3>2 DEF ToldIsTrue
    <3>5. IsLiveSlot(s, id)' /\ slotState'[s] = "Complete" /\ Known(id)'
      BY <3>1, <3>2, <3>3 DEF Known
    <3>6. ToldOf(id)'
      BY <3>4, <3>5 DEF ToldOf, Short
    <3>7. Short(stored[s]) \in {Gone, Unread} \cup {Short(a) : a \in Answers}
      BY <1>0 DEF ContentsTyped
    <3> QED BY <1>0, <2>2, <3>2, <3>3, <3>6, <3>7, ToldExcept
  <2> QED BY <1>3, <2>1, <2>2 DEF ReadAsync
<1>4. ASSUME NEW s \in Slots, DiscardAsync(s)
      PROVE  ToldIsTrue'
  <2>1. /\ IsLiveSlot(s, slotId[s]) /\ slotState'[s] \in {"Abandoned", "Consumed"}
        /\ slotId' = slotId
        /\ told' = [told EXCEPT ![slotId[s]] = Gone]
        /\ \A r \in Slots \ {s} : slotState'[r] = slotState[r]
    BY <1>0, <1>4 DEF DiscardAsync, Discard, TableInv, TypeOK
  <2>2. \A r \in Slots \ {s} : stored'[r] = stored[r]
    BY <1>0, <1>4 DEF DiscardAsync, Refilled, AnswersFreed, ContentsTyped, contentVars
  <2> QED BY <1>2, <2>1, <2>2
<1>5. CASE DiscardAllAsync
  <2>1. told' = [id \in Ids |-> Gone]
    BY <1>5 DEF DiscardAllAsync
  <2>2. \A s \in Slots : slotState'[s] \notin Live
    BY <1>0, <1>5 DEF DiscardAllAsync, DiscardAll, Live, TableInv, TypeOK, SlotStates
  <2>3. \A id \in Ids : ~ Known(id)'
    BY <2>2 DEF Known, IsLiveSlot
  <2>4. \A id \in Ids : ToldOf(id)'
    BY <2>1, <2>3 DEF ToldOf, Gone
  <2> QED BY <2>1, <2>4 DEF ToldIsTrue
<1>6. CASE AwaitAsync(c)
  <2>1. UNCHANGED <<slotState, slotId, stored, told>>
    BY <1>6 DEF AwaitAsync, AwaitBegin, AwaitWake, AwaitTimeout, slotVars, contentVars
  <2>2. \A id \in Ids : ToldOf(id)'
    BY <1>0, <2>1, ToldKept DEF IsLiveSlot
  <2> QED BY <1>0, <2>1, <2>2 DEF ToldIsTrue
<1> QED BY <1>1, <1>3, <1>4, <1>5, <1>6 DEF Script

\* What scripts know stays true.
LEMMA ToldStep ==
    ASSUME AsyncInv, [AsyncNext]_asyncVars
    PROVE  ToldIsTrue'
<1>1. CASE UNCHANGED asyncVars
  BY <1>1, ToldKept
     DEF AsyncInv, ToldIsTrue, IsLiveSlot, asyncVars, vars, slotVars, contentVars
<1> QED BY <1>1, ScriptTold, WorkerTold DEF AsyncNext

-----------------------------------------------------------------------------
(* The invariant. *)

\* It holds at first ...
LEMMA AsyncInvInit == AsyncInit => AsyncInv
<1> SUFFICES ASSUME AsyncInit PROVE AsyncInv
  OBVIOUS
<1>1. TableInv /\ Proved!IInv
  BY TableInit, TransportInit DEF AsyncInit
<1>2. PhasesAgree /\ \A w \in Workers : TransferIsRequested(w)
  BY DEF AsyncInit, Transport!Init, Init, PhasesAgree, TransferIsRequested
<1>3. ContentsTyped
  BY OptionsAssumption, TransportAssumption
     DEF AsyncInit, ContentsTyped, NoOptions, Requests, NoAnswer, Answers, Proved!Statuses,
         Transport!SizeAssumption
<1>4. AnswersAreTrue
  BY DEF AsyncInit, Init, AnswersAreTrue
<1>5. ToldIsTrue
  BY DEF AsyncInit, Init, ToldIsTrue, ToldOf, Known, IsLiveSlot, Live, Gone
<1> QED BY <1>1, <1>2, <1>3, <1>4, <1>5 DEF AsyncInv

\* ... and is kept by every step.
LEMMA AsyncInvStep == AsyncInv /\ [AsyncNext]_asyncVars => AsyncInv'
<1> SUFFICES ASSUME AsyncInv, [AsyncNext]_asyncVars PROVE AsyncInv'
  OBVIOUS
<1>1. TableInv' /\ Proved!IInv'
  BY StepOfParts, TableStep, TransportStep DEF AsyncInv
<1>2. PhasesAgree' /\ ContentsTyped'
  BY PhasesStep, ContentsStep DEF AsyncInv
<1>3. \A w \in Workers : TransferIsRequested(w)'
  BY RequestedStep DEF AsyncInv
<1>4. AnswersAreTrue' /\ ToldIsTrue'
  BY AnswersStep, ToldStep
<1> QED BY <1>1, <1>2, <1>3, <1>4 DEF AsyncInv

-----------------------------------------------------------------------------
(* The theorems. *)

\* The inductive invariant of the engine and its transfers together.
THEOREM AsyncInvariant == AsyncSpec => []AsyncInv
BY AsyncInvInit, AsyncInvStep, PTL DEF AsyncSpec

\* The workers, for any number of them and however scripts discard requests meanwhile,
\* drive the transport only as its callers may (WorkerLoop, Perform).
THEOREM WorkersUseTransport == AsyncSpec => UsesTransport
<1>1. AsyncInit => Transport!Init
  BY DEF AsyncInit
<1>2. AsyncInv /\ [AsyncNext]_asyncVars => [Transport!Next]_(Transport!vars)
  BY StepOfParts DEF AsyncInv
<1> QED BY <1>1, <1>2, AsyncInvariant, PTL DEF AsyncSpec, UsesTransport, Transport!Spec

\* With real transfers in place of an arbitrary outcome the engine is the engine: a
\* worker is told RequestCancelled for a discarded request only (WorkerLoop, Perform).
THEOREM TextImplementsEngine == AsyncSpec => ImplementsEngine
<1>1. AsyncInit => Init
  BY DEF AsyncInit
<1>2. AsyncInv /\ [AsyncNext]_asyncVars => [Next]_vars
  BY StepOfParts DEF AsyncInv
<1> QED BY <1>1, <1>2, AsyncInvariant, PTL DEF AsyncSpec, ImplementsEngine, Spec

\* So the exports as a whole keep the promise of AsyncContract to a script.
THEOREM TextImplementsContract == AsyncSpec => ImplementsContract
BY TextImplementsEngine, EngineImplementsContract, PTL DEF ImplementsEngine

\* What is proved of one transfer holds of every transfer of the pool: the body within
\* its cap, no success without all its bytes, no cancellation without a flag.
THEOREM PoolTransfersSafe ==
    AsyncSpec => [](/\ Transport!BodyWithinCap /\ Transport!TooLargeExactly
                    /\ Transport!OkIsWhole /\ Transport!CancelledOnRequest)
<1>1. AsyncInv => /\ Transport!BodyWithinCap /\ Transport!TooLargeExactly
                  /\ Transport!OkIsWhole /\ Transport!CancelledOnRequest
  <2> SUFFICES ASSUME AsyncInv
               PROVE  /\ Transport!BodyWithinCap /\ Transport!TooLargeExactly
                      /\ Transport!OkIsWhole /\ Transport!CancelledOnRequest
    OBVIOUS
  <2>1. Proved!BodyWithinCap /\ Proved!TypeOK /\ \A w \in Workers : Proved!TransferInv(w)
    BY DEF AsyncInv, Proved!IInv
  <2>2. Transport!BodyWithinCap
    BY <2>1 DEF Proved!BodyWithinCap, Transport!BodyWithinCap
  <2>3. Transport!TooLargeExactly
    BY <2>1 DEF Proved!TransferInv, Proved!TypeOK, Transport!TooLargeExactly, Transport!Ended,
                Proved!ResolveTransferResult, Proved!MapCurlCode
  <2>4. Transport!OkIsWhole
    BY <2>1 DEF Proved!TransferInv, Proved!TypeOK, Transport!OkIsWhole, Transport!HttpCode,
                Proved!HttpCode, Proved!ResolveTransferResult, Proved!MapCurlCode
  <2>5. Transport!CancelledOnRequest
    BY <2>1 DEF Proved!TransferInv, Proved!TypeOK, Transport!CancelledOnRequest,
                Proved!ResolveTransferResult, Proved!MapCurlCode
  <2> QED BY <2>2, <2>3, <2>4, <2>5
<1> QED BY <1>1, AsyncInvariant, PTL

\* What a script reads under its id is true of that request's own transfer, for every
\* cap, chunking, pool and interleaving with the other scripts (Dispatch, WorkerLoop,
\* Perform, Read).
THEOREM OwnTransferIsRead == AsyncSpec => []ReadReportsOwnTransfer
<1>1. AsyncInv => ReadReportsOwnTransfer
  <2> SUFFICES ASSUME AsyncInv, NEW s \in Slots, slotState[s] = "Complete"
               PROVE  LET r == Reply(s, SizeModulus)
                          capBytes == Transport!OrDefault(request[s].maxBytes, DefaultCap)
                      IN  /\ r.requestStatus \in RequestStatuses
                          /\ r.requestStatus = "Ok" <=> r.httpStatusCode = Transport!HttpCode
                          /\ r.requestStatus = "Ok" => r.text = stored[s].sent
                          /\ r.responseBodyLength <= capBytes
                          /\ r.requestStatus = "ResponseTooLarge" <=> stored[s].sent > capBytes
    BY DEF ReadReportsOwnTransfer
  <2>1. AnswerIsTrue(s) /\ stored[s].size \in 0..(SizeModulus - 1) /\ SizeModulus \in Nat
    BY TransportAssumption DEF AsyncInv, AnswersAreTrue, ContentsTyped, Answers,
                               Transport!SizeAssumption
  <2>2. CopyText(stored[s].size, SizeModulus) = stored[s].size
    BY <2>1 DEF CopyText
  <2> QED BY <2>1, <2>2 DEF AnswerIsTrue, Reply, CapOf, Transport!HttpCode, Proved!HttpCode
<1> QED BY <1>1, AsyncInvariant, PTL

\* A script that was told the length of an answer that did not fit gets exactly that
\* answer with a buffer one larger, whatever happened in between, and nothing once it has
\* read or discarded it (Read, Dispatch, WorkerLoop).
THEOREM ReadAgainGetsIt == AsyncSpec => []ReadAgain
<1>1. AsyncInv => ReadAgain
  <2> SUFFICES ASSUME AsyncInv, NEW id \in Ids
               PROVE  LET reply == ReadReply(id, told[id].responseBodyLength + 1)
                      IN  /\ told[id].answer = "gone" <=> reply.status = "UnknownRequestId"
                          /\ told[id].answer = "short" =>
                                /\ reply.status = "Ok"
                                /\ reply.text = told[id].responseBodyLength
                                /\ reply.requestStatus = told[id].requestStatus
                                /\ reply.httpStatusCode = told[id].httpStatusCode
    BY DEF ReadAgain
  <2> DEFINE reply == ReadReply(id, told[id].responseBodyLength + 1)
  <2>1. ToldOf(id)
    BY DEF AsyncInv, ToldIsTrue
  <2>2. CASE ~Known(id)
    <3>1. reply.status = "UnknownRequestId"
      BY <2>2 DEF ReadReply, Poll, Refused
    <3> QED BY <2>1, <2>2, <3>1 DEF ToldOf
  <2>3. CASE Known(id) /\ Outstanding(id)
    <3>1. reply.status # "UnknownRequestId"
      BY <2>3 DEF ReadReply, Poll, Refused
    <3>2. told[id].answer # "short"
      BY <2>1, <2>3, OneLiveSlot DEF ToldOf, Outstanding
    <3> QED BY <2>1, <2>3, <3>1, <3>2 DEF ToldOf
  <2>4. CASE Known(id) /\ ~Outstanding(id)
    <3> PICK s \in Slots : IsLiveSlot(s, id)
      BY <2>4 DEF Known
    <3>1. s = CHOOSE r \in Slots : IsLiveSlot(r, id)
      BY OneLiveSlot
    <3>2. reply = Reply(s, told[id].responseBodyLength + 1)
      BY <2>4, <3>1 DEF ReadReply, Poll
    <3>3. reply.status # "UnknownRequestId"
      BY <3>2 DEF Reply, CopyStatus
    <3>4. ASSUME told[id].answer = "short"
          PROVE  /\ reply.status = "Ok" /\ reply.text = told[id].responseBodyLength
                 /\ reply.requestStatus = told[id].requestStatus
                 /\ reply.httpStatusCode = told[id].httpStatusCode
      <4>1. told[id] = Short(stored[s])
        BY <2>1, <3>4, OneLiveSlot DEF ToldOf
      <4>2. stored[s].size \in Nat
        BY TransportAssumption DEF AsyncInv, ContentsTyped, Answers, Transport!SizeAssumption
      <4>3. /\ CopyStatus(stored[s].size, stored[s].size + 1) = "Ok"
            /\ CopyText(stored[s].size, stored[s].size + 1) = stored[s].size
        BY <4>2 DEF CopyStatus, CopyText
      <4> QED BY <3>2, <4>1, <4>3 DEF Reply, Short
    <3> QED BY <2>1, <2>4, <3>3, <3>4 DEF ToldOf
  <2> QED BY <2>2, <2>3, <2>4
<1> QED BY <1>1, AsyncInvariant, PTL
=============================================================================
