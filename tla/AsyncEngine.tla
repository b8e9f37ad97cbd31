----------------------------- MODULE AsyncEngine -----------------------------
(***************************************************************************)
(* The asynchronous request engine (src/src/http/async-operations.cpp): a   *)
(* table of N slots under one mutex, a pool of at most N worker threads     *)
(* that the engine starts on demand and that exit when idle, and the CAPL   *)
(* threads that dispatch, await, read and discard requests.                 *)
(*                                                                         *)
(* One action is one critical section of mutex_.  A worker's section runs   *)
(* from the relock after HttpClient::Perform through the next turn of       *)
(* WorkerLoop's for(;;), up to the unlock or the wait that ends it.         *)
(* Poll, and every call that returns an error without touching the table,  *)
(* changes no state and is no action.                                      *)
(***************************************************************************)
EXTENDS Integers, FiniteSets

CONSTANTS
    N,              \* kAsyncRequestSlotCount: slots, and the cap on workers
    Workers,        \* identities of operating-system threads
    Callers,        \* CAPL threads that call into the DLL
    IdModulus,      \* 2^32: width of the id counter
    StartMayFail,   \* may GetModuleHandleExW or CreateThread fail?
    AllocMayFail,   \* may operator new throw std::bad_alloc?
    LeakBound       \* bound on the module references lost to bad_alloc

ASSUME SlotsAssumption == N \in Nat \ {0}
ASSUME IdAssumption == IdModulus \in Nat /\ IdModulus > N
ASSUME WorkersAssumption == IsFiniteSet(Workers)
ASSUME FailureAssumption == /\ StartMayFail \in BOOLEAN
                            /\ AllocMayFail \in BOOLEAN
                            /\ LeakBound \in Nat

Slots == 1..N
NoSlot == 0
Ids == 0..(IdModulus - 1)       \* std::uint32_t; 0 is "no id"
Unseeded == -1                  \* nextId before the first mint

SlotStates == {"Free", "Pending", "Running", "Complete", "Consumed", "Abandoned"}
WorkerStates == {"none", "starting", "idle", "performing", "returned", "exiting"}
Outcomes == {"Done", "RequestCancelled"}
WaitResults == {"timeout", "work", "shrink"}

\* A response remembers the id of the request whose transfer produced it.
NoResponse == [of |-> 0, status |-> "Done"]
Responses == [of : Ids, status : Outcomes]

VARIABLES
    slotState,      \* Slot::state
    slotId,         \* Slot::id
    cancelFlag,     \* Slot::cancelFlag
    response,       \* Slot::response and Slot::transportStatus
    nextId,         \* nextId_, Unseeded while idSeeded_ is false
    liveWorkers,    \* liveWorkers_
    idleWorkers,    \* idleWorkers_
    moduleRefs,     \* references on the DLL that the engine has acquired
    wstate,         \* where each thread is in WorkerLoop
    wslot,          \* the local variable `pending` of a worker outside the lock
    wid,            \* history: the id of that slot when the worker claimed it
    wresult,        \* what Perform, or the idle wait, returned
    woken,          \* what bumped wakeGeneration_ since the worker went idle
    awaiting,       \* the id a CAPL thread is blocked on in Await, or 0
    notified        \* has slotChanged_ been notified since it last waited?

slotVars == <<slotState, slotId, cancelFlag, response>>
poolVars == <<liveWorkers, idleWorkers, moduleRefs>>
workerVars == <<wstate, wslot, wid, wresult, woken>>
callerVars == <<awaiting, notified>>
vars == <<slotVars, nextId, poolVars, workerVars, callerVars>>

-----------------------------------------------------------------------------
(* The table. *)

\* Fault: dispatch takes the slot of a cancelled request that is still running.
BugReuseAbandoned == {"Free", "Consumed", "Abandoned"}

Reusable == {"Free", "Consumed"}
Live == {"Pending", "Running", "Complete"}

\* The first slot, in index order, whose state is in `states`.
IsFirst(st, s, states) ==
    /\ st[s] \in states
    /\ \A r \in Slots : st[r] \in states => s <= r

PendingSlots(st) == {s \in Slots : st[s] = "Pending"}

\* Fault: minting overlooks the ids of cancelled requests.
BugIdOfAbandonedFree(id) == \E s \in Slots : slotId[s] = id /\ slotState[s] \in Live

IsIdLive(id) == \E s \in Slots : slotId[s] = id /\ slotState[s] \notin Reusable

\* The slot FindLiveSlotLocked(id) returns.
IsLiveSlot(s, id) == id # 0 /\ slotId[s] = id /\ slotState[s] \in Live

Outstanding(id) == \E s \in Slots : IsLiveSlot(s, id) /\ slotState[s] # "Complete"
Known(id) == \E s \in Slots : IsLiveSlot(s, id)

\* id is what MintIdLocked returns when the counter stands at `from`: the first
\* value in counting order that is neither 0 nor the id of an occupied slot.
Mints(from, id) ==
    \E k \in Ids :
        /\ id = (from + k) % IdModulus
        /\ id # 0 /\ ~IsIdLive(id)
        /\ \A j \in 0..(k - 1) : LET v == (from + j) % IdModulus
                                 IN  v = 0 \/ IsIdLive(v)

\* Fault: the counter does not wrap.
BugMintUnwrapped(id) ==
    /\ \E from \in (IF nextId = Unseeded THEN Ids ELSE {nextId}) : Mints(from, id)
    /\ nextId' = id + 1

Mint(id) ==
    /\ \E from \in (IF nextId = Unseeded THEN Ids ELSE {nextId}) : Mints(from, id)
    /\ nextId' = (id + 1) % IdModulus

-----------------------------------------------------------------------------
(* The pool. *)

Threads == {w \in Workers : wstate[w] # "none"}
LivePool == {w \in Workers : wstate[w] \in {"starting", "idle", "performing", "returned"}}
IdlePool == {w \in Workers : wstate[w] = "idle"}

\* Faults: the test of the first design, and the test without the cap.
BugStartIfNoneIdle(st) == idleWorkers = 0 /\ liveWorkers < N
BugStartUncapped(st) == Cardinality(PendingSlots(st)) > idleWorkers

\* Dispatch's test, with its own slot already Pending in st.
StartNeeded(st) == Cardinality(PendingSlots(st)) > idleWorkers /\ liveWorkers < N

\* StartWorkerLocked succeeds: CreateThread returned thread w.  (A finite set
\* Workers bounds the threads that exist at once, those on their way out
\* included; the engine itself bounds only the others.)
StartWorker(w) ==
    /\ wstate[w] = "none"
    /\ wstate' = [wstate EXCEPT ![w] = "starting"]
    /\ liveWorkers' = liveWorkers + 1
    /\ moduleRefs' = moduleRefs + 1

\* ++wakeGeneration_; workAvailable_.notify_all().
WakeIdle(why) ==
    woken' = [w \in Workers |-> IF wstate[w] # "idle" THEN "no"
                                ELSE IF woken[w] = "shrink" THEN "shrink" ELSE why]

\* Fault: notify_one.
BugNotifyOne ==
    LET waiting == {c \in Callers : awaiting[c] # 0 /\ ~notified[c]}
    IN  IF waiting = {} THEN UNCHANGED notified
        ELSE \E c \in waiting : notified' = [notified EXCEPT ![c] = TRUE]

\* slotChanged_.notify_all().
NotifyAwaiters == notified' = [c \in Callers |-> awaiting[c] # 0]

-----------------------------------------------------------------------------
(* FreeSlotContentsLocked on the slots of S, one operator for each field. *)

IdsFreed(S) == [s \in Slots |-> IF s \in S THEN 0 ELSE slotId[s]]
\* Fault: the flag outlives the request it cancelled.
BugKeepCancelFlags(S) == cancelFlag

CancelFlagsFreed(S) == [s \in Slots |-> s \notin S /\ cancelFlag[s]]
ResponsesFreed(S) == [s \in Slots |-> IF s \in S THEN NoResponse ELSE response[s]]

FreeSlotContents(S) == /\ slotId' = IdsFreed(S)
                       /\ cancelFlag' = CancelFlagsFreed(S)
                       /\ response' = ResponsesFreed(S)

-----------------------------------------------------------------------------
(* Calls from CAPL. *)

\* The slot is cleared and filled for request id: Dispatch up to `state = Pending`.
Fill(s, id) ==
    /\ IsFirst(slotState, s, Reusable)
    /\ Mint(id)
    /\ slotId' = [IdsFreed({s}) EXCEPT ![s] = id]
    /\ cancelFlag' = CancelFlagsFreed({s})
    /\ response' = ResponsesFreed({s})

Dispatch(s, id) ==
    /\ Fill(s, id)
    /\ slotState' = [slotState EXCEPT ![s] = "Pending"]
    /\ IF StartNeeded(slotState')
       THEN \E w \in Workers : StartWorker(w)
       ELSE UNCHANGED <<wstate, liveWorkers, moduleRefs>>
    /\ WakeIdle("work")
    /\ UNCHANGED <<idleWorkers, wslot, wid, wresult, callerVars>>

\* AsyncStartFailed: no module reference, or no thread and the reference is
\* released.  The id stays minted.
DispatchStartFails(s, id) ==
    /\ StartMayFail
    /\ IsFirst(slotState, s, Reusable)
    /\ StartNeeded([slotState EXCEPT ![s] = "Pending"])
    /\ Mint(id)
    /\ FreeSlotContents({s})
    /\ slotState' = [slotState EXCEPT ![s] = "Free"]
    /\ UNCHANGED <<poolVars, workerVars, callerVars>>

\* std::bad_alloc while the request is copied into the slot: the slot keeps the
\* id it was given and the state it had.
DispatchCopyThrows(s, id) ==
    /\ AllocMayFail
    /\ Fill(s, id)
    /\ UNCHANGED <<slotState, poolVars, workerVars, callerVars>>

\* std::bad_alloc from StartWorkerLocked's make_unique: the slot is Pending and
\* the module reference acquired, and nobody is woken.
DispatchContextThrows(s, id) ==
    /\ AllocMayFail
    /\ moduleRefs < Cardinality(Threads) + LeakBound
    /\ Fill(s, id)
    /\ slotState' = [slotState EXCEPT ![s] = "Pending"]
    /\ StartNeeded(slotState')
    /\ moduleRefs' = moduleRefs + 1
    /\ UNCHANGED <<liveWorkers, idleWorkers, workerVars, callerVars>>

\* Read of a Complete slot into a buffer the body fits in.
Read(s) ==
    /\ IsLiveSlot(s, slotId[s]) /\ slotState[s] = "Complete"
    /\ slotState' = [slotState EXCEPT ![s] = "Consumed"]
    /\ UNCHANGED <<slotId, cancelFlag, response, nextId, poolVars, workerVars, callerVars>>

\* Faults: the slot of a running request is given up at once; waiters are not told.
BugDiscardRunning(s) ==
    /\ IsLiveSlot(s, slotId[s])
    /\ slotState' = [slotState EXCEPT ![s] = "Consumed"]
    /\ NotifyAwaiters
    /\ UNCHANGED <<slotId, cancelFlag, response, nextId, poolVars, workerVars, awaiting>>
BugDiscardSilent(s) ==
    /\ IsLiveSlot(s, slotId[s])
    /\ slotState' = [slotState EXCEPT
            ![s] = IF slotState[s] = "Running" THEN "Abandoned" ELSE "Consumed"]
    /\ cancelFlag' = [cancelFlag EXCEPT ![s] = @ \/ slotState[s] = "Running"]
    /\ UNCHANGED <<slotId, response, nextId, poolVars, workerVars, callerVars>>

Discard(s) ==
    /\ IsLiveSlot(s, slotId[s])
    /\ slotState' = [slotState EXCEPT
            ![s] = IF slotState[s] = "Running" THEN "Abandoned" ELSE "Consumed"]
    /\ cancelFlag' = [cancelFlag EXCEPT ![s] = @ \/ slotState[s] = "Running"]
    /\ NotifyAwaiters
    /\ UNCHANGED <<slotId, response, nextId, poolVars, workerVars, awaiting>>

DiscardAll ==
    LET freed == {s \in Slots : slotState[s] \in {"Pending", "Complete", "Consumed"}}
        running == {s \in Slots : slotState[s] = "Running"}
    IN  /\ slotState' = [s \in Slots |-> IF s \in freed THEN "Free"
                                         ELSE IF s \in running THEN "Abandoned"
                                         ELSE slotState[s]]
        /\ slotId' = IdsFreed(freed)
        /\ cancelFlag' = [s \in Slots |-> s \in running \/ CancelFlagsFreed(freed)[s]]
        /\ response' = ResponsesFreed(freed)
        /\ NotifyAwaiters
        /\ WakeIdle("shrink")
        /\ UNCHANGED <<nextId, poolVars, wstate, wslot, wid, wresult, awaiting>>

\* Await finds the request outstanding and blocks in slotChanged_.wait_until.
AwaitBegin(c, id) ==
    /\ Outstanding(id)
    /\ awaiting' = [awaiting EXCEPT ![c] = id]
    /\ notified' = [notified EXCEPT ![c] = FALSE]
    /\ UNCHANGED <<slotVars, nextId, poolVars, workerVars>>

\* The waiter reacquires the lock after a notify: it returns if the request is
\* complete (Ok) or gone (UnknownRequestId), and waits again otherwise.
AwaitWake(c) ==
    /\ awaiting[c] # 0 /\ notified[c]
    /\ notified' = [notified EXCEPT ![c] = FALSE]
    /\ awaiting' = [awaiting EXCEPT ![c] = IF Outstanding(@) THEN @ ELSE 0]
    /\ UNCHANGED <<slotVars, nextId, poolVars, workerVars>>

\* The deadline passes: whatever the request's state, the call returns.
AwaitTimeout(c) ==
    /\ awaiting[c] # 0
    /\ awaiting' = [awaiting EXCEPT ![c] = 0]
    /\ notified' = [notified EXCEPT ![c] = FALSE]
    /\ UNCHANGED <<slotVars, nextId, poolVars, workerVars>>

\* What a CAPL thread that is not blocked in Await may call.
Call(c) ==
    /\ awaiting[c] = 0
    /\ \/ \E s \in Slots : Read(s) \/ Discard(s)
       \/ \E s \in Slots, id \in Ids : \/ Dispatch(s, id)
                                       \/ DispatchStartFails(s, id)
                                       \/ DispatchCopyThrows(s, id)
                                       \/ DispatchContextThrows(s, id)
       \/ DiscardAll
       \/ \E id \in Ids : AwaitBegin(c, id)

-----------------------------------------------------------------------------
(* Worker threads. *)

\* A turn of the loop that finds the table st with a slot to claim ...
Claim(w, st) ==
    \E s \in Slots :
        /\ IsFirst(st, s, {"Pending"})
        /\ slotState' = [st EXCEPT ![s] = "Running"]
        /\ wstate' = [wstate EXCEPT ![w] = "performing"]
        /\ wslot' = [wslot EXCEPT ![w] = s]
        /\ wid' = [wid EXCEPT ![w] = slotId[s]]
        /\ wresult' = [wresult EXCEPT ![w] = "none"]
        /\ woken' = [woken EXCEPT ![w] = "no"]

\* ... and one that finds none, and waits.
GoIdle(w, st) ==
    /\ PendingSlots(st) = {}
    /\ slotState' = st
    /\ idleWorkers' = idleWorkers + 1
    /\ wstate' = [wstate EXCEPT ![w] = "idle"]
    /\ wslot' = [wslot EXCEPT ![w] = NoSlot]
    /\ wid' = [wid EXCEPT ![w] = 0]
    /\ wresult' = [wresult EXCEPT ![w] = "none"]
    /\ woken' = [woken EXCEPT ![w] = "no"]

LoopTop(w, st) ==
    /\ \/ Claim(w, st) /\ UNCHANGED idleWorkers
       \/ GoIdle(w, st)
    /\ UNCHANGED <<nextId, liveWorkers, moduleRefs, awaiting>>

\* The new thread takes the lock for the first time.
WorkerBegin(w) ==
    /\ wstate[w] = "starting"
    /\ LoopTop(w, slotState)
    /\ UNCHANGED <<slotId, cancelFlag, response, notified>>

\* HttpClient::Perform returns, outside the lock.  It reports RequestCancelled
\* only if it has seen the slot's cancel flag set.
PerformReturn(w) ==
    /\ wstate[w] = "performing"
    /\ \E out \in Outcomes :
          /\ out = "RequestCancelled" => cancelFlag[wslot[w]]
          /\ wresult' = [wresult EXCEPT ![w] = out]
    /\ wstate' = [wstate EXCEPT ![w] = "returned"]
    /\ UNCHANGED <<slotVars, nextId, poolVars, wslot, wid, woken, callerVars>>

\* Fault: the contents of a cancelled request are freed, its slot is not.
BugFinishKeepsSlot(w) ==
    LET s == wslot[w]
        abandoned == slotState[s] = "Abandoned"
    IN  /\ wstate[w] = "returned"
        /\ IF abandoned
           THEN FreeSlotContents({s})
           ELSE /\ response' = [response EXCEPT ![s] = [of |-> wid[w], status |-> wresult[w]]]
                /\ UNCHANGED <<slotId, cancelFlag>>
        /\ NotifyAwaiters
        /\ LoopTop(w, IF abandoned THEN slotState ELSE [slotState EXCEPT ![s] = "Complete"])

\* The relock after Perform, the outcome stored or dropped, the notify, and the
\* next turn of the loop.
Finish(w) ==
    LET s == wslot[w]
        abandoned == slotState[s] = "Abandoned"
    IN  /\ wstate[w] = "returned"
        /\ IF abandoned
           THEN FreeSlotContents({s})
           ELSE /\ response' = [response EXCEPT ![s] = [of |-> wid[w], status |-> wresult[w]]]
                /\ UNCHANGED <<slotId, cancelFlag>>
        /\ NotifyAwaiters
        /\ LoopTop(w, [slotState EXCEPT ![s] = IF abandoned THEN "Free" ELSE "Complete"])

\* An idle worker wakes, on a notify, a timeout or for no reason, and finds work.
IdleClaim(w) ==
    /\ wstate[w] = "idle"
    /\ Claim(w, slotState)
    /\ idleWorkers' = idleWorkers - 1
    /\ UNCHANGED <<slotId, cancelFlag, response, nextId, liveWorkers, moduleRefs, callerVars>>

\* Fault: the worker leaves on a timeout without a last look at the table.
BugIdleExitUnchecked(w, why) ==
    /\ wstate[w] = "idle"
    /\ why \in {"timeout", woken[w]} \ {"no"}
    /\ wstate' = [wstate EXCEPT ![w] = "exiting"]
    /\ wresult' = [wresult EXCEPT ![w] = why]
    /\ woken' = [woken EXCEPT ![w] = "no"]
    /\ idleWorkers' = idleWorkers - 1
    /\ liveWorkers' = liveWorkers - 1
    /\ UNCHANGED <<slotVars, nextId, moduleRefs, wslot, wid, callerVars>>

\* It finds none, and its deadline has passed or wakeGeneration_ has moved.
IdleExit(w, why) ==
    /\ wstate[w] = "idle"
    /\ PendingSlots(slotState) = {}
    /\ why \in {"timeout", woken[w]} \ {"no"}
    /\ wstate' = [wstate EXCEPT ![w] = "exiting"]
    /\ wresult' = [wresult EXCEPT ![w] = why]
    /\ woken' = [woken EXCEPT ![w] = "no"]
    /\ idleWorkers' = idleWorkers - 1
    /\ liveWorkers' = liveWorkers - 1
    /\ UNCHANGED <<slotVars, nextId, moduleRefs, wslot, wid, callerVars>>

\* Fault: ExitThread in place of FreeLibraryAndExitThread.
BugExitKeepsReference(w) ==
    /\ wstate[w] = "exiting"
    /\ wstate' = [wstate EXCEPT ![w] = "none"]
    /\ wresult' = [wresult EXCEPT ![w] = "none"]
    /\ UNCHANGED <<slotVars, nextId, poolVars, wslot, wid, woken, callerVars>>

\* ExitCurrentThread, outside the lock, gives the module reference back.
ExitThread(w) ==
    /\ wstate[w] = "exiting"
    /\ wstate' = [wstate EXCEPT ![w] = "none"]
    /\ wresult' = [wresult EXCEPT ![w] = "none"]
    /\ moduleRefs' = moduleRefs - 1
    /\ UNCHANGED <<slotVars, nextId, liveWorkers, idleWorkers, wslot, wid, woken, callerVars>>

Worker(w) == \/ WorkerBegin(w)
             \/ PerformReturn(w)
             \/ Finish(w)
             \/ IdleClaim(w)
             \/ \E why \in WaitResults : IdleExit(w, why)
             \/ ExitThread(w)

-----------------------------------------------------------------------------
Init ==
    /\ slotState = [s \in Slots |-> "Free"]
    /\ slotId = [s \in Slots |-> 0]
    /\ cancelFlag = [s \in Slots |-> FALSE]
    /\ response = [s \in Slots |-> NoResponse]
    /\ nextId = Unseeded
    /\ liveWorkers = 0 /\ idleWorkers = 0 /\ moduleRefs = 0
    /\ wstate = [w \in Workers |-> "none"]
    /\ wslot = [w \in Workers |-> NoSlot]
    /\ wid = [w \in Workers |-> 0]
    /\ wresult = [w \in Workers |-> "none"]
    /\ woken = [w \in Workers |-> "no"]
    /\ awaiting = [c \in Callers |-> 0]
    /\ notified = [c \in Callers |-> FALSE]

Next == \/ \E c \in Callers : Call(c) \/ AwaitWake(c) \/ AwaitTimeout(c)
        \/ \E w \in Workers : Worker(w)

Spec == Init /\ [][Next]_vars

\* Threads get the processor and the mutex; a transfer ends (Perform carries a
\* total timeout); an idle worker's deadline passes.  Nothing is assumed of the
\* callers, except that a notified waiter runs.
Fairness == /\ \A w \in Workers : WF_vars(Worker(w))
            /\ \A c \in Callers : WF_vars(AwaitWake(c))

FairSpec == Spec /\ Fairness

-----------------------------------------------------------------------------
(* Properties. *)

TypeOK ==
    /\ slotState \in [Slots -> SlotStates]
    /\ slotId \in [Slots -> Ids]
    /\ cancelFlag \in [Slots -> BOOLEAN]
    /\ response \in [Slots -> Responses]
    /\ nextId \in Ids \cup {Unseeded}
    /\ liveWorkers \in Int /\ idleWorkers \in Int /\ moduleRefs \in Int
    /\ wstate \in [Workers -> WorkerStates]
    /\ wslot \in [Workers -> Slots \cup {NoSlot}]
    /\ wid \in [Workers -> Ids]
    /\ wresult \in [Workers -> Outcomes \cup WaitResults \cup {"none"}]
    /\ \A w \in Workers : wstate[w] = "returned" => wresult[w] \in Outcomes
    /\ woken \in [Workers -> {"no", "work", "shrink"}]
    /\ awaiting \in [Callers -> Ids]
    /\ notified \in [Callers -> BOOLEAN]

Busy(w) == wstate[w] \in {"performing", "returned"}
InUse(s) == slotState[s] \in {"Running", "Abandoned"}

\* A worker outside the lock is the only one on its slot, and the slot is still
\* the one it claimed: nobody frees, refills or reuses a slot whose request a
\* transfer is reading, discarded or not.  Conversely no slot is left Running
\* or Abandoned without a worker that will come back to it.
SlotOwnership ==
    /\ \A w \in Workers : Busy(w) =>
          /\ wslot[w] \in Slots
          /\ InUse(wslot[w])
          /\ slotId[wslot[w]] = wid[w]
          /\ \A v \in Workers \ {w} : Busy(v) => wslot[v] # wslot[w]
    /\ \A s \in Slots : InUse(s) => \E w \in Workers : Busy(w) /\ wslot[w] = s

\* Workers on their way to a first look at the table, and idle ones whose wake-up is
\* under way.
Told == {w \in Workers : wstate[w] = "starting" \/ (wstate[w] = "idle" /\ woken[w] # "no")}

\* Every Pending slot has a worker of its own that has been told.  This is what the
\* comparison in Dispatch is for.
PendingHasWorker == Cardinality(PendingSlots(slotState)) <= Cardinality(Told)

\* The counters agree with the threads, the pool never exceeds its cap, and every
\* thread that may still execute code of the DLL holds a reference on it.
PoolAccounting ==
    /\ idleWorkers = Cardinality(IdlePool)
    /\ liveWorkers = Cardinality(LivePool)
    /\ liveWorkers <= N
    /\ moduleRefs = Cardinality(Threads)

\* An id names one slot at most, however often the 32-bit counter wraps: slots
\* that hold a request, cancelled ones included, have distinct nonzero ids.
LiveIdsDistinct ==
    \A s \in Slots : slotState[s] \notin Reusable =>
        /\ slotId[s] # 0
        /\ \A r \in Slots \ {s} : slotState[r] \notin Reusable => slotId[r] # slotId[s]

\* What a script can read under an id is the outcome of that id's own transfer,
\* and is never RequestCancelled: only Discard and DiscardAll cancel, and the id
\* is unknown from that moment.
AnswerIsOwn ==
    \A s \in Slots : slotState[s] = "Complete" =>
        /\ response[s].of = slotId[s]
        /\ response[s].status # "RequestCancelled"

\* No wake-up is lost: a CAPL thread that is blocked in Await and has not been
\* notified waits for a request that is still on its way.
AwaitNotLost ==
    \A c \in Callers : awaiting[c] # 0 /\ ~notified[c] => Outstanding(awaiting[c])

\* A slot's cancel flag is set exactly while its request is cancelled and still
\* running, and a transfer that reports RequestCancelled has such a slot.
CancelFlagIsAbandoned ==
    /\ \A s \in Slots : cancelFlag[s] <=> slotState[s] = "Abandoned"
    /\ \A w \in Workers : wstate[w] = "returned" /\ wresult[w] = "RequestCancelled"
                           => slotState[wslot[w]] = "Abandoned"

\* The inductive invariant behind the properties of the slot table.
TableInv == /\ TypeOK
            /\ SlotOwnership
            /\ LiveIdsDistinct
            /\ CancelFlagIsAbandoned
            /\ AnswerIsOwn
            /\ AwaitNotLost

\* What Poll answers: 1 while the request is outstanding, 2 when it is complete,
\* 0 standing for UnknownRequestId.
Poll(id) == IF ~Known(id) THEN 0 ELSE IF Outstanding(id) THEN 1 ELSE 2

\* A worker leaves the pool only after its idle timeout or on DiscardAll: so
\* workers that a burst of requests has left idle stay for the next ones.
ExitIsTimeoutOrDiscardAll ==
    \A w \in Workers : wstate[w] = "exiting" => wresult[w] \in {"timeout", "shrink"}

\* A dispatched request is completed or discarded, whatever the others do: the
\* search from slot 1 starves no slot.
RequestSettles == \A id \in Ids : Outstanding(id) ~> ~Outstanding(id)

\* Once its request has ended, by whatever path, a blocked Await returns without
\* the help of its own timeout (unless 2^32 dispatches hand its id out again first).
AwaitReturns ==
    \A c \in Callers : \A id \in Ids \ {0} :
        awaiting[c] = id /\ ~Outstanding(id) ~> awaiting[c] # id \/ Outstanding(id)

\* Capacity taken by a request that was discarded while it ran comes back.
AbandonedFreed ==
    \A s \in Slots : slotState[s] = "Abandoned" ~> slotState[s] # "Abandoned"

\* Once no request is waiting or running, every worker goes and the DLL has all
\* its references back: it can be unloaded.
PoolDrains ==
    <>[](\A s \in Slots : slotState[s] \in {"Free", "Complete", "Consumed"})
        => <>[](moduleRefs = 0)

=============================================================================
