-------------------------- MODULE AsyncEngineProofs --------------------------
(***************************************************************************)
(* Theorems about AsyncEngine, for every number of slots, threads, callers  *)
(* and ids, and whether or not threads fail to start or memory runs out.   *)
(***************************************************************************)
EXTENDS AsyncRefinement, FiniteSetTheorems, WellFoundedInduction, TLAPS

-----------------------------------------------------------------------------
(* Facts about the id counter. *)

\* The id counter stays within its width.
LEMMA MintedInRange ==
    ASSUME NEW id \in Ids, Mint(id)
    PROVE  /\ id # 0 /\ ~IsIdLive(id)
           /\ nextId' \in Ids
<1>1. id # 0 /\ ~IsIdLive(id)
  BY DEF Mint, Mints
<1>2. nextId' \in Ids
  <2>1. (id + 1) \in Int /\ IdModulus \in Nat \ {0}
    BY IdAssumption, SlotsAssumption DEF Ids
  <2>2. (id + 1) % IdModulus \in 0..(IdModulus - 1)
    BY <2>1
  <2> QED BY <2>2 DEF Mint, Ids
<1> QED BY <1>1, <1>2

\* 0 is an id, and slots exist.
LEMMA ZeroInRange == 0 \in Ids /\ NoSlot \notin Slots
BY IdAssumption, SlotsAssumption DEF Ids, Slots, NoSlot

-----------------------------------------------------------------------------
(* Type correctness. *)

\* The two ways in which a turn of the loop ends keep the types of what it writes.
LEMMA LoopTopType ==
    ASSUME TypeOK, NEW w \in Workers, NEW st \in [Slots -> SlotStates], LoopTop(w, st)
    PROVE  /\ slotState' \in [Slots -> SlotStates]
           /\ nextId' \in Ids \cup {Unseeded}
           /\ liveWorkers' \in Int /\ idleWorkers' \in Int /\ moduleRefs' \in Int
           /\ wstate' \in [Workers -> WorkerStates]
           /\ wslot' \in [Workers -> Slots \cup {NoSlot}]
           /\ wid' \in [Workers -> Ids]
           /\ wresult' \in [Workers -> Outcomes \cup WaitResults \cup {"none"}]
           /\ \A v \in Workers : wstate'[v] = "returned" => wresult'[v] \in Outcomes
           /\ woken' \in [Workers -> {"no", "work", "shrink"}]
           /\ awaiting' \in [Callers -> Ids]
<1>1. CASE Claim(w, st) /\ UNCHANGED idleWorkers
  BY <1>1 DEF LoopTop, Claim, TypeOK, SlotStates, WorkerStates
<1>2. CASE GoIdle(w, st)
  BY <1>2, ZeroInRange DEF LoopTop, GoIdle, TypeOK, WorkerStates
<1> QED BY <1>1, <1>2 DEF LoopTop

\* Each field of the state stays in its type through every step.
LEMMA TypeStep == TypeOK /\ [Next]_vars => TypeOK'
<1> SUFFICES ASSUME TypeOK, [Next]_vars PROVE TypeOK'
  OBVIOUS
<1>1. ASSUME NEW s \in Slots, NEW id \in Ids, Fill(s, id)
      PROVE  /\ slotId' \in [Slots -> Ids]
             /\ cancelFlag' \in [Slots -> BOOLEAN]
             /\ response' \in [Slots -> Responses]
             /\ nextId' \in Ids
  BY <1>1, MintedInRange, ZeroInRange
  DEF Fill, IdsFreed, CancelFlagsFreed, ResponsesFreed, NoResponse, Responses, Outcomes, TypeOK
<1>2. ASSUME NEW S, FreeSlotContents(S)
      PROVE  /\ slotId' \in [Slots -> Ids]
             /\ cancelFlag' \in [Slots -> BOOLEAN]
             /\ response' \in [Slots -> Responses]
  BY <1>2, ZeroInRange
  DEF FreeSlotContents, IdsFreed, CancelFlagsFreed, ResponsesFreed, NoResponse, Responses,
      Outcomes, TypeOK
<1>3. ASSUME NEW c \in Callers, Call(c) PROVE TypeOK'
  <2>1. ASSUME NEW s \in Slots, Read(s) PROVE TypeOK'
    BY <2>1 DEF Read, TypeOK, SlotStates, poolVars, workerVars, callerVars
  <2>2. ASSUME NEW s \in Slots, Discard(s) PROVE TypeOK'
    BY <2>2 DEF Discard, NotifyAwaiters, TypeOK, SlotStates, poolVars, workerVars
  <2>3. ASSUME NEW s \in Slots, NEW id \in Ids, Dispatch(s, id) PROVE TypeOK'
    <3>1. woken' \in [Workers -> {"no", "work", "shrink"}]
      BY <2>3 DEF Dispatch, WakeIdle, TypeOK
    <3>2. /\ wstate' \in [Workers -> WorkerStates]
          /\ liveWorkers' \in Int /\ moduleRefs' \in Int
          /\ \A w \in Workers : wstate'[w] = "returned" => wresult'[w] \in Outcomes
      BY <2>3 DEF Dispatch, StartWorker, TypeOK, WorkerStates
    <3>3. slotState' \in [Slots -> SlotStates]
      BY <2>3 DEF Dispatch, TypeOK, SlotStates
    <3> QED BY <2>3, <1>1, <3>1, <3>2, <3>3 DEF Dispatch, TypeOK, callerVars
  <2>4. ASSUME NEW s \in Slots, NEW id \in Ids, DispatchStartFails(s, id) PROVE TypeOK'
    BY <2>4, <1>2, MintedInRange
    DEF DispatchStartFails, TypeOK, SlotStates, poolVars, workerVars, callerVars
  <2>5. ASSUME NEW s \in Slots, NEW id \in Ids, DispatchCopyThrows(s, id) PROVE TypeOK'
    BY <2>5, <1>1 DEF DispatchCopyThrows, TypeOK, poolVars, workerVars, callerVars
  <2>6. ASSUME NEW s \in Slots, NEW id \in Ids, DispatchContextThrows(s, id) PROVE TypeOK'
    BY <2>6, <1>1 DEF DispatchContextThrows, TypeOK, SlotStates, workerVars, callerVars
  <2>7. CASE DiscardAll
    <3> DEFINE freed == {s \in Slots : slotState[s] \in {"Pending", "Complete", "Consumed"}}
               running == {s \in Slots : slotState[s] = "Running"}
    <3>1. slotState' \in [Slots -> SlotStates]
      BY <2>7 DEF DiscardAll, TypeOK, SlotStates
    <3>2. /\ slotId' \in [Slots -> Ids] /\ response' \in [Slots -> Responses]
          /\ cancelFlag' \in [Slots -> BOOLEAN]
      BY <2>7, ZeroInRange
      DEF DiscardAll, IdsFreed, CancelFlagsFreed, ResponsesFreed, NoResponse, Responses,
          Outcomes, TypeOK
    <3>3. woken' \in [Workers -> {"no", "work", "shrink"}]
      BY <2>7 DEF DiscardAll, WakeIdle, TypeOK
    <3> QED BY <2>7, <3>1, <3>2, <3>3 DEF DiscardAll, NotifyAwaiters, TypeOK, poolVars
  <2>8. ASSUME NEW id \in Ids, AwaitBegin(c, id) PROVE TypeOK'
    BY <2>8 DEF AwaitBegin, TypeOK, slotVars, poolVars, workerVars
  <2> QED BY <1>3, <2>1, <2>2, <2>3, <2>4, <2>5, <2>6, <2>7, <2>8 DEF Call
<1>4. ASSUME NEW c \in Callers, AwaitWake(c) PROVE TypeOK'
  BY <1>4, ZeroInRange DEF AwaitWake, TypeOK, slotVars, poolVars, workerVars
<1>5. ASSUME NEW c \in Callers, AwaitTimeout(c) PROVE TypeOK'
  BY <1>5, ZeroInRange DEF AwaitTimeout, TypeOK, slotVars, poolVars, workerVars
<1>6. ASSUME NEW w \in Workers, Worker(w) PROVE TypeOK'
  <2>1. CASE WorkerBegin(w)
    <3>1. slotState \in [Slots -> SlotStates]
      BY DEF TypeOK
    <3> QED BY <2>1, <3>1, LoopTopType DEF WorkerBegin, TypeOK
  <2>2. CASE PerformReturn(w)
    BY <2>2 DEF PerformReturn, TypeOK, WorkerStates, slotVars, poolVars, callerVars
  <2>3. CASE Finish(w)
    <3> DEFINE s == wslot[w]
               abandoned == slotState[s] = "Abandoned"
               st == [slotState EXCEPT ![s] = IF abandoned THEN "Free" ELSE "Complete"]
    <3>1. st \in [Slots -> SlotStates]
      BY DEF TypeOK, SlotStates
    <3>2. LoopTop(w, st) /\ NotifyAwaiters
      BY <2>3 DEF Finish
    <3>3. /\ slotId' \in [Slots -> Ids] /\ cancelFlag' \in [Slots -> BOOLEAN]
          /\ response' \in [Slots -> Responses]
      <4>1. CASE abandoned
        BY <4>1, <2>3, <1>2 DEF Finish
      <4>2. CASE ~abandoned
        <5>1. [of |-> wid[w], status |-> wresult[w]] \in Responses
          BY <2>3 DEF Finish, Responses, TypeOK
        <5> QED BY <4>2, <5>1, <2>3 DEF Finish, TypeOK
      <4> QED BY <4>1, <4>2
    <3> QED BY <3>1, <3>2, <3>3, LoopTopType DEF NotifyAwaiters, TypeOK
  <2>4. CASE IdleClaim(w)
    BY <2>4 DEF IdleClaim, Claim, TypeOK, SlotStates, WorkerStates, callerVars
  <2>5. ASSUME NEW why \in WaitResults, IdleExit(w, why) PROVE TypeOK'
    BY <2>5 DEF IdleExit, TypeOK, WorkerStates, slotVars, callerVars
  <2>6. CASE ExitThread(w)
    BY <2>6 DEF ExitThread, TypeOK, WorkerStates, slotVars, callerVars
  <2> QED BY <1>6, <2>1, <2>2, <2>3, <2>4, <2>5, <2>6 DEF Worker
<1>7. CASE UNCHANGED vars
  BY <1>7 DEF vars, slotVars, poolVars, workerVars, callerVars, TypeOK
<1> QED BY <1>3, <1>4, <1>5, <1>6, <1>7 DEF Next

\* The engine keeps its variables in their types.
THEOREM TypeCorrect == Spec => []TypeOK
<1>1. Init => TypeOK
  BY ZeroInRange
  DEF Init, TypeOK, SlotStates, WorkerStates, Responses, Outcomes, NoResponse
<1> QED BY <1>1, TypeStep, PTL DEF Spec

-----------------------------------------------------------------------------
(* The slot table. *)

\* A step is a step of one of the actions, or changes nothing.
LEMMA StepCases ==
    ASSUME [Next]_vars
    PROVE  \/ \E s \in Slots : Read(s) \/ Discard(s)
           \/ \E s \in Slots, id \in Ids : \/ Dispatch(s, id)
                                           \/ DispatchStartFails(s, id)
                                           \/ DispatchCopyThrows(s, id)
                                           \/ DispatchContextThrows(s, id)
           \/ DiscardAll
           \/ \E c \in Callers : \/ awaiting[c] = 0 /\ \E id \in Ids : AwaitBegin(c, id)
                                 \/ AwaitWake(c)
                                 \/ AwaitTimeout(c)
           \/ \E w \in Workers : \/ WorkerBegin(w) \/ PerformReturn(w) \/ Finish(w)
                                 \/ IdleClaim(w) \/ ExitThread(w)
                                 \/ \E why \in WaitResults : IdleExit(w, why)
           \/ UNCHANGED vars
BY DEF Next, Call, Worker

\* A worker that claims a slot of the table st becomes its only owner.
LEMMA ClaimOwnership ==
    ASSUME TypeOK, TypeOK', NEW w \in Workers, NEW st \in [Slots -> SlotStates],
           Claim(w, st),
           \A v \in Workers \ {w} : Busy(v) =>
              /\ wslot[v] \in Slots
              /\ st[wslot[v]] \in {"Running", "Abandoned"}
              /\ slotId[wslot[v]] = wid[v] /\ slotId'[wslot[v]] = slotId[wslot[v]]
              /\ \A u \in Workers \ {v, w} : Busy(u) => wslot[u] # wslot[v],
           \A s \in Slots : st[s] \in {"Running", "Abandoned"} =>
              \E v \in Workers \ {w} : Busy(v) /\ wslot[v] = s,
           \A s \in Slots : st[s] = "Pending" => slotId'[s] = slotId[s]
    PROVE  SlotOwnership'
<1> PICK s \in Slots : /\ st[s] = "Pending"
                       /\ slotState' = [st EXCEPT ![s] = "Running"]
                       /\ wstate' = [wstate EXCEPT ![w] = "performing"]
                       /\ wslot' = [wslot EXCEPT ![w] = s]
                       /\ wid' = [wid EXCEPT ![w] = slotId[s]]
  BY DEF Claim, IsFirst
<1>1. ASSUME NEW v \in Workers, Busy(v)'
      PROVE  /\ wslot'[v] \in Slots
             /\ InUse(wslot[v])'
             /\ slotId'[wslot'[v]] = wid'[v]
             /\ \A u \in Workers \ {v} : Busy(u)' => wslot'[u] # wslot'[v]
  BY <1>1 DEF Busy, InUse, TypeOK
<1>2. ASSUME NEW r \in Slots, InUse(r)'
      PROVE  \E v \in Workers : Busy(v)' /\ wslot'[v] = r
  BY <1>2 DEF Busy, InUse, TypeOK
<1> QED BY <1>1, <1>2 DEF SlotOwnership

\* A worker that goes idle leaves the others what they own.
LEMMA IdleOwnership ==
    ASSUME TypeOK, TypeOK', NEW w \in Workers, NEW st \in [Slots -> SlotStates],
           GoIdle(w, st),
           \A v \in Workers \ {w} : Busy(v) =>
              /\ wslot[v] \in Slots
              /\ st[wslot[v]] \in {"Running", "Abandoned"}
              /\ slotId[wslot[v]] = wid[v] /\ slotId'[wslot[v]] = slotId[wslot[v]]
              /\ \A u \in Workers \ {v, w} : Busy(u) => wslot[u] # wslot[v],
           \A s \in Slots : st[s] \in {"Running", "Abandoned"} =>
              \E v \in Workers \ {w} : Busy(v) /\ wslot[v] = s
    PROVE  SlotOwnership'
BY DEF GoIdle, SlotOwnership, Busy, InUse, TypeOK

\* Ownership of slots survives every step.
LEMMA OwnershipStep == TypeOK /\ SlotOwnership /\ [Next]_vars => SlotOwnership'
<1> SUFFICES ASSUME TypeOK, SlotOwnership, [Next]_vars, TypeOK' PROVE SlotOwnership'
  BY TypeStep
<1> USE DEF SlotOwnership, Busy, InUse
<1>1. ASSUME NEW s \in Slots, Read(s) \/ Discard(s) PROVE SlotOwnership'
  BY <1>1 DEF Read, Discard, IsLiveSlot, Live, TypeOK, workerVars
<1>2. ASSUME NEW s \in Slots, NEW id \in Ids, Dispatch(s, id) PROVE SlotOwnership'
  BY <1>2 DEF Dispatch, StartWorker, Fill, IsFirst, Reusable, IdsFreed, TypeOK
<1>3. ASSUME NEW s \in Slots, NEW id \in Ids,
             \/ DispatchStartFails(s, id) \/ DispatchCopyThrows(s, id)
             \/ DispatchContextThrows(s, id)
      PROVE SlotOwnership'
  <2>1. CASE DispatchStartFails(s, id)
    BY <2>1 DEF DispatchStartFails, FreeSlotContents, IsFirst, Reusable, IdsFreed, TypeOK,
                workerVars
  <2>2. CASE DispatchCopyThrows(s, id)
    BY <2>2 DEF DispatchCopyThrows, Fill, IsFirst, Reusable, IdsFreed, TypeOK, workerVars
  <2>3. CASE DispatchContextThrows(s, id)
    BY <2>3 DEF DispatchContextThrows, Fill, IsFirst, Reusable, IdsFreed, TypeOK, workerVars
  <2> QED BY <1>3, <2>1, <2>2, <2>3
<1>4. CASE DiscardAll
  BY <1>4 DEF DiscardAll, IdsFreed, TypeOK
<1>5. ASSUME NEW c \in Callers,
             (\E id \in Ids : AwaitBegin(c, id)) \/ AwaitWake(c) \/ AwaitTimeout(c)
      PROVE SlotOwnership'
  BY <1>5 DEF AwaitBegin, AwaitWake, AwaitTimeout, slotVars, workerVars
<1>6. ASSUME NEW w \in Workers, WorkerBegin(w) PROVE SlotOwnership'
  <2>1. /\ slotState \in [Slots -> SlotStates] /\ slotId' = slotId
        /\ Claim(w, slotState) \/ GoIdle(w, slotState)
    BY <1>6 DEF WorkerBegin, LoopTop, TypeOK
  <2>2. \A v \in Workers \ {w} : Busy(v) =>
              /\ wslot[v] \in Slots
              /\ slotState[wslot[v]] \in {"Running", "Abandoned"}
              /\ slotId[wslot[v]] = wid[v] /\ slotId'[wslot[v]] = slotId[wslot[v]]
              /\ \A u \in Workers \ {v, w} : Busy(u) => wslot[u] # wslot[v]
    BY <2>1
  <2>3. \A r \in Slots : slotState[r] \in {"Running", "Abandoned"} =>
              \E v \in Workers \ {w} : Busy(v) /\ wslot[v] = r
    BY <1>6 DEF WorkerBegin
  <2> HIDE DEF SlotOwnership
  <2> QED BY <2>1, <2>2, <2>3, ClaimOwnership, IdleOwnership
<1>7. ASSUME NEW w \in Workers, Finish(w) PROVE SlotOwnership'
  <2> DEFINE s == wslot[w]
             st == [slotState EXCEPT ![s] =
                       IF slotState[s] = "Abandoned" THEN "Free" ELSE "Complete"]
  <2>1. s \in Slots /\ st \in [Slots -> SlotStates]
    BY <1>7 DEF Finish, TypeOK, SlotStates
  <2>2. \A r \in Slots \ {s} : slotId'[r] = slotId[r]
    BY <1>7, <2>1 DEF Finish, FreeSlotContents, IdsFreed, TypeOK
  <2>3. \A v \in Workers \ {w} : Busy(v) =>
              /\ wslot[v] \in Slots
              /\ st[wslot[v]] \in {"Running", "Abandoned"}
              /\ slotId[wslot[v]] = wid[v] /\ slotId'[wslot[v]] = slotId[wslot[v]]
              /\ \A u \in Workers \ {v, w} : Busy(u) => wslot[u] # wslot[v]
    BY <1>7, <2>1, <2>2 DEF Finish, TypeOK
  <2>4. \A r \in Slots : st[r] \in {"Running", "Abandoned"} =>
              \E v \in Workers \ {w} : Busy(v) /\ wslot[v] = r
    BY <1>7, <2>1 DEF Finish, TypeOK
  <2>5. \A r \in Slots : st[r] = "Pending" => slotId'[r] = slotId[r]
    BY <2>1, <2>2 DEF TypeOK
  <2>6. Claim(w, st) \/ GoIdle(w, st)
    BY <1>7 DEF Finish, LoopTop
  <2> HIDE DEF st, SlotOwnership
  <2> QED BY <2>1, <2>3, <2>4, <2>5, <2>6, ClaimOwnership, IdleOwnership
<1>8. ASSUME NEW w \in Workers, IdleClaim(w) PROVE SlotOwnership'
  BY <1>8, ClaimOwnership DEF IdleClaim, TypeOK
<1>9. ASSUME NEW w \in Workers,
             \/ PerformReturn(w) \/ ExitThread(w)
             \/ \E why \in WaitResults : IdleExit(w, why)
      PROVE SlotOwnership'
  BY <1>9 DEF PerformReturn, ExitThread, IdleExit, TypeOK, slotVars
<1>10. CASE UNCHANGED vars
  BY <1>10 DEF vars, slotVars, workerVars
<1> QED BY <1>1, <1>2, <1>3, <1>4, <1>5, <1>6, <1>7, <1>8, <1>9, <1>10, StepCases

\* The turn of the loop that ends a worker's step changes the table st in one way only.
LEMMA LoopTopTable ==
    ASSUME NEW w \in Workers, NEW st, LoopTop(w, st)
    PROVE  \/ slotState' = st
           \/ \E s \in Slots : st[s] = "Pending" /\ slotState' = [st EXCEPT ![s] = "Running"]
BY DEF LoopTop, Claim, GoIdle, IsFirst

\* The ids of occupied slots stay distinct through every step.
LEMMA DistinctStep ==
    TypeOK /\ SlotOwnership /\ LiveIdsDistinct /\ [Next]_vars => LiveIdsDistinct'
<1> SUFFICES ASSUME TypeOK, SlotOwnership, LiveIdsDistinct, [Next]_vars PROVE LiveIdsDistinct'
  OBVIOUS
<1> USE DEF LiveIdsDistinct, Reusable
<1>1. ASSUME NEW s \in Slots, Read(s) \/ Discard(s) PROVE LiveIdsDistinct'
  BY <1>1 DEF Read, Discard, IsLiveSlot, Live, TypeOK
<1>2. ASSUME NEW s \in Slots, NEW id \in Ids, Fill(s, id),
             \/ slotState' = [slotState EXCEPT ![s] = "Pending"]
             \/ slotState' = slotState
      PROVE LiveIdsDistinct'
  <2>1. id # 0 /\ \A r \in Slots : slotState[r] \notin Reusable => slotId[r] # id
    BY <1>2, MintedInRange DEF Fill, IsIdLive
  <2> QED BY <1>2, <2>1 DEF Fill, IsFirst, IdsFreed, TypeOK
<1>3. ASSUME NEW s \in Slots, NEW id \in Ids,
             \/ Dispatch(s, id) \/ DispatchCopyThrows(s, id) \/ DispatchContextThrows(s, id)
      PROVE LiveIdsDistinct'
  BY <1>2, <1>3 DEF Dispatch, DispatchCopyThrows, DispatchContextThrows
<1>4. ASSUME NEW s \in Slots, NEW id \in Ids, DispatchStartFails(s, id)
      PROVE LiveIdsDistinct'
  BY <1>4 DEF DispatchStartFails, FreeSlotContents, IdsFreed, TypeOK
<1>5. CASE DiscardAll
  BY <1>5 DEF DiscardAll, IdsFreed, TypeOK
<1>6. ASSUME NEW c \in Callers,
             (\E id \in Ids : AwaitBegin(c, id)) \/ AwaitWake(c) \/ AwaitTimeout(c)
      PROVE LiveIdsDistinct'
  BY <1>6 DEF AwaitBegin, AwaitWake, AwaitTimeout, slotVars
<1>7. ASSUME NEW w \in Workers, WorkerBegin(w) \/ IdleClaim(w) PROVE LiveIdsDistinct'
  BY <1>7, LoopTopTable DEF WorkerBegin, IdleClaim, Claim, IsFirst, TypeOK
<1>8. ASSUME NEW w \in Workers, Finish(w) PROVE LiveIdsDistinct'
  <2> DEFINE s == wslot[w]
             st == [slotState EXCEPT ![s] =
                       IF slotState[s] = "Abandoned" THEN "Free" ELSE "Complete"]
  <2>1. s \in Slots /\ slotState[s] \in {"Running", "Abandoned"}
    BY <1>8 DEF Finish, SlotOwnership, Busy, InUse
  <2>2. \A r \in Slots : slotState'[r] \notin {"Free", "Consumed"}
                          => slotState[r] \notin {"Free", "Consumed"} /\ slotId'[r] = slotId[r]
    <3>1. LoopTop(w, st)
      BY <1>8 DEF Finish
    <3>2. \A r \in Slots : st[r] \notin {"Free", "Consumed"}
                          => slotState[r] \notin {"Free", "Consumed"} /\ slotId'[r] = slotId[r]
      BY <1>8, <2>1 DEF Finish, FreeSlotContents, IdsFreed, TypeOK
    <3>3. st \in [Slots -> SlotStates]
      BY <2>1 DEF TypeOK, SlotStates
    <3> HIDE DEF st
    <3> QED BY <3>1, <3>2, <3>3, LoopTopTable
  <2> QED BY <2>2
<1>9. ASSUME NEW w \in Workers,
             \/ PerformReturn(w) \/ ExitThread(w)
             \/ \E why \in WaitResults : IdleExit(w, why)
      PROVE LiveIdsDistinct'
  BY <1>9 DEF PerformReturn, ExitThread, IdleExit, slotVars
<1>10. CASE UNCHANGED vars
  BY <1>10 DEF vars, slotVars
<1> QED BY <1>1, <1>3, <1>4, <1>5, <1>6, <1>7, <1>8, <1>9, <1>10, StepCases

\* Cancel flags go with Abandoned slots through every step.
LEMMA CancelStep ==
    TypeOK /\ SlotOwnership /\ CancelFlagIsAbandoned /\ [Next]_vars => CancelFlagIsAbandoned'
<1> SUFFICES ASSUME TypeOK, SlotOwnership, CancelFlagIsAbandoned, [Next]_vars
             PROVE CancelFlagIsAbandoned'
  OBVIOUS
<1> USE DEF CancelFlagIsAbandoned
<1>0. \A w \in Workers : wstate[w] = "returned"
         => wslot[w] \in Slots /\ slotState[wslot[w]] \in {"Running", "Abandoned"}
  BY DEF SlotOwnership, Busy, InUse
<1>1. ASSUME NEW s \in Slots, Read(s) \/ Discard(s) PROVE CancelFlagIsAbandoned'
  <2>1. CASE Read(s)
    BY <1>0, <2>1 DEF Read, TypeOK, workerVars
  <2>2. CASE Discard(s)
    <3>1. slotState[s] \in Live /\ slotState[s] # "Abandoned"
      BY <2>2 DEF Discard, IsLiveSlot, Live
    <3>2. \A r \in Slots \ {s} : cancelFlag'[r] = cancelFlag[r] /\ slotState'[r] = slotState[r]
      BY <2>2 DEF Discard, TypeOK
    <3>3. CASE slotState[s] = "Running"
      <4>1. cancelFlag'[s] = TRUE /\ slotState'[s] = "Abandoned"
        BY <2>2, <3>3 DEF Discard, TypeOK
      <4> QED BY <1>0, <2>2, <3>2, <4>1 DEF Discard, workerVars
    <3>4. CASE slotState[s] # "Running"
      <4>1. cancelFlag'[s] = cancelFlag[s] /\ slotState'[s] = "Consumed"
        BY <2>2, <3>4 DEF Discard, TypeOK
      <4> QED BY <1>0, <2>2, <3>1, <3>2, <3>4, <4>1 DEF Discard, workerVars
    <3> QED BY <3>3, <3>4
  <2> QED BY <1>1, <2>1, <2>2
<1>2. ASSUME NEW s \in Slots, NEW id \in Ids, Fill(s, id),
             \/ slotState' = [slotState EXCEPT ![s] = "Pending"]
             \/ slotState' = slotState,
             UNCHANGED wslot, UNCHANGED wresult,
             \A w \in Workers : wstate'[w] = "returned" => wstate[w] = "returned"
      PROVE CancelFlagIsAbandoned'
  BY <1>0, <1>2 DEF Fill, IsFirst, Reusable, CancelFlagsFreed, TypeOK
<1>3. ASSUME NEW s \in Slots, NEW id \in Ids,
             \/ Dispatch(s, id) \/ DispatchCopyThrows(s, id) \/ DispatchContextThrows(s, id)
      PROVE CancelFlagIsAbandoned'
  <2>1. CASE Dispatch(s, id)
    <3>1. \A w \in Workers : wstate'[w] = "returned" => wstate[w] = "returned"
      BY <2>1 DEF Dispatch, StartWorker, TypeOK
    <3> QED BY <1>2, <2>1, <3>1 DEF Dispatch
  <2>2. CASE DispatchCopyThrows(s, id) \/ DispatchContextThrows(s, id)
    BY <1>2, <2>2 DEF DispatchCopyThrows, DispatchContextThrows, workerVars
  <2> QED BY <1>3, <2>1, <2>2
<1>4. ASSUME NEW s \in Slots, NEW id \in Ids, DispatchStartFails(s, id)
      PROVE CancelFlagIsAbandoned'
  BY <1>0, <1>4 DEF DispatchStartFails, FreeSlotContents, CancelFlagsFreed, IsFirst, Reusable,
                    TypeOK, workerVars
<1>5. CASE DiscardAll
  BY <1>0, <1>5 DEF DiscardAll, CancelFlagsFreed, TypeOK
<1>6. ASSUME NEW c \in Callers,
             (\E id \in Ids : AwaitBegin(c, id)) \/ AwaitWake(c) \/ AwaitTimeout(c)
      PROVE CancelFlagIsAbandoned'
  BY <1>6 DEF AwaitBegin, AwaitWake, AwaitTimeout, slotVars, workerVars
<1>7. ASSUME NEW w \in Workers, NEW st \in [Slots -> SlotStates], LoopTop(w, st),
             \A s \in Slots : cancelFlag'[s] <=> st[s] = "Abandoned",
             \A v \in Workers \ {w} : wstate[v] = "returned"
                                      => st[wslot[v]] = slotState[wslot[v]]
      PROVE CancelFlagIsAbandoned'
  BY <1>0, <1>7 DEF LoopTop, Claim, GoIdle, IsFirst, TypeOK
<1>8. ASSUME NEW w \in Workers, WorkerBegin(w) PROVE CancelFlagIsAbandoned'
  BY <1>7, <1>8 DEF WorkerBegin, TypeOK
<1>9. ASSUME NEW w \in Workers, Finish(w) PROVE CancelFlagIsAbandoned'
  <2> DEFINE s == wslot[w]
             st == [slotState EXCEPT ![s] =
                       IF slotState[s] = "Abandoned" THEN "Free" ELSE "Complete"]
  <2>1. s \in Slots
    BY <1>0, <1>9 DEF Finish
  <2>2. st \in [Slots -> SlotStates] /\ LoopTop(w, st)
    BY <1>9, <2>1 DEF Finish, TypeOK, SlotStates
  <2>3. \A r \in Slots : cancelFlag'[r] <=> st[r] = "Abandoned"
    BY <1>9, <2>1 DEF Finish, FreeSlotContents, CancelFlagsFreed, TypeOK
  <2>4. \A v \in Workers \ {w} : wstate[v] = "returned" => wslot[v] # s
    BY <1>9 DEF Finish, SlotOwnership, Busy
  <2>5. \A v \in Workers \ {w} : wstate[v] = "returned" => st[wslot[v]] = slotState[wslot[v]]
    BY <1>0, <2>1, <2>4 DEF TypeOK
  <2> QED BY <1>7, <2>2, <2>3, <2>5
<1>10. ASSUME NEW w \in Workers, IdleClaim(w) PROVE CancelFlagIsAbandoned'
  BY <1>0, <1>10 DEF IdleClaim, Claim, IsFirst, TypeOK
<1>11. ASSUME NEW w \in Workers, PerformReturn(w) PROVE CancelFlagIsAbandoned'
  <2>1. wslot[w] \in Slots
    BY <1>11 DEF PerformReturn, SlotOwnership, Busy
  <2> QED BY <1>11, <2>1 DEF PerformReturn, TypeOK, slotVars
<1>12. ASSUME NEW w \in Workers, ExitThread(w) \/ \E why \in WaitResults : IdleExit(w, why)
      PROVE CancelFlagIsAbandoned'
  BY <1>12 DEF ExitThread, IdleExit, TypeOK, slotVars
<1>13. CASE UNCHANGED vars
  BY <1>13 DEF vars, slotVars, workerVars
<1> QED BY <1>1, <1>3, <1>4, <1>5, <1>6, <1>8, <1>9, <1>10, <1>11, <1>12, <1>13, StepCases

\* Complete slots keep the outcome of their own request through every step.
LEMMA AnswerStep ==
    TypeOK /\ SlotOwnership /\ CancelFlagIsAbandoned /\ AnswerIsOwn /\ [Next]_vars
        => AnswerIsOwn'
<1> SUFFICES ASSUME TypeOK, SlotOwnership, CancelFlagIsAbandoned, AnswerIsOwn, [Next]_vars
             PROVE AnswerIsOwn'
  OBVIOUS
<1> USE DEF AnswerIsOwn
<1>1. ASSUME NEW s \in Slots, Read(s) \/ Discard(s) PROVE AnswerIsOwn'
  BY <1>1 DEF Read, Discard, TypeOK
<1>2. ASSUME NEW s \in Slots, NEW id \in Ids, Fill(s, id),
             \/ slotState' = [slotState EXCEPT ![s] = "Pending"]
             \/ slotState' = slotState
      PROVE AnswerIsOwn'
  BY <1>2 DEF Fill, IsFirst, Reusable, IdsFreed, ResponsesFreed, TypeOK
<1>3. ASSUME NEW s \in Slots, NEW id \in Ids,
             \/ Dispatch(s, id) \/ DispatchCopyThrows(s, id) \/ DispatchContextThrows(s, id)
      PROVE AnswerIsOwn'
  BY <1>2, <1>3 DEF Dispatch, DispatchCopyThrows, DispatchContextThrows
<1>4. ASSUME NEW s \in Slots, NEW id \in Ids, DispatchStartFails(s, id)
      PROVE AnswerIsOwn'
  BY <1>4 DEF DispatchStartFails, FreeSlotContents, IdsFreed, ResponsesFreed, TypeOK
<1>5. CASE DiscardAll
  BY <1>5 DEF DiscardAll, IdsFreed, ResponsesFreed, TypeOK
<1>6. ASSUME NEW c \in Callers,
             (\E id \in Ids : AwaitBegin(c, id)) \/ AwaitWake(c) \/ AwaitTimeout(c)
      PROVE AnswerIsOwn'
  BY <1>6 DEF AwaitBegin, AwaitWake, AwaitTimeout, slotVars
<1>7. ASSUME NEW w \in Workers, NEW st \in [Slots -> SlotStates], LoopTop(w, st)
      PROVE  \A r \in Slots : slotState'[r] = "Complete" => st[r] = "Complete"
  BY <1>7, LoopTopTable
<1>8. ASSUME NEW w \in Workers, WorkerBegin(w) PROVE AnswerIsOwn'
  BY <1>7, <1>8 DEF WorkerBegin, TypeOK
<1>9. ASSUME NEW w \in Workers, Finish(w) PROVE AnswerIsOwn'
  <2> DEFINE s == wslot[w]
             st == [slotState EXCEPT ![s] =
                       IF slotState[s] = "Abandoned" THEN "Free" ELSE "Complete"]
  <2>1. s \in Slots /\ slotId[s] = wid[w] /\ wresult[w] \in Outcomes
    BY <1>9 DEF Finish, SlotOwnership, Busy, TypeOK
  <2>2. st \in [Slots -> SlotStates] /\ LoopTop(w, st)
    BY <1>9, <2>1 DEF Finish, TypeOK, SlotStates
  <2>3. CASE slotState[s] = "Abandoned"
    <3>1. \A r \in Slots \ {s} : slotId'[r] = slotId[r] /\ response'[r] = response[r]
      BY <1>9, <2>3 DEF Finish, FreeSlotContents, IdsFreed, ResponsesFreed, TypeOK
    <3>2. \A r \in Slots : st[r] = "Complete" => r # s /\ slotState[r] = "Complete"
      BY <2>1, <2>3 DEF TypeOK
    <3> QED BY <1>7, <2>2, <3>1, <3>2
  <2>4. CASE slotState[s] # "Abandoned"
    <3>1. wresult[w] # "RequestCancelled"
      BY <1>9, <2>4 DEF Finish, CancelFlagIsAbandoned
    <3>2. /\ response' = [response EXCEPT ![s] = [of |-> wid[w], status |-> wresult[w]]]
          /\ slotId' = slotId
      BY <1>9, <2>4 DEF Finish
    <3>3. response'[s].of = slotId'[s] /\ response'[s].status # "RequestCancelled"
      BY <2>1, <3>1, <3>2 DEF TypeOK
    <3>4. \A r \in Slots \ {s} : /\ slotId'[r] = slotId[r] /\ response'[r] = response[r]
                                 /\ st[r] = "Complete" => slotState[r] = "Complete"
      BY <2>1, <3>2 DEF TypeOK
    <3> QED BY <1>7, <2>2, <3>3, <3>4
  <2> QED BY <2>3, <2>4
<1>10. ASSUME NEW w \in Workers, IdleClaim(w) PROVE AnswerIsOwn'
  BY <1>10 DEF IdleClaim, Claim, IsFirst, TypeOK
<1>11. ASSUME NEW w \in Workers,
              \/ PerformReturn(w) \/ ExitThread(w)
              \/ \E why \in WaitResults : IdleExit(w, why)
       PROVE AnswerIsOwn'
  BY <1>11 DEF PerformReturn, ExitThread, IdleExit, slotVars
<1>12. CASE UNCHANGED vars
  BY <1>12 DEF vars, slotVars
<1> QED BY <1>1, <1>3, <1>4, <1>5, <1>6, <1>8, <1>9, <1>10, <1>11, <1>12, StepCases

\* No wake-up is lost in any step.
LEMMA AwaitStep == TypeOK /\ SlotOwnership /\ AwaitNotLost /\ [Next]_vars => AwaitNotLost'
<1> SUFFICES ASSUME TypeOK, SlotOwnership, AwaitNotLost, [Next]_vars PROVE AwaitNotLost'
  OBVIOUS
<1> USE DEF AwaitNotLost
<1>1. ASSUME NotifyAwaiters, UNCHANGED awaiting PROVE AwaitNotLost'
  BY <1>1 DEF NotifyAwaiters, TypeOK
<1>2. ASSUME UNCHANGED callerVars,
             \A s \in Slots : slotState[s] \in {"Pending", "Running"} =>
                slotId'[s] = slotId[s] /\ slotState'[s] \in {"Pending", "Running"}
      PROVE AwaitNotLost'
  <2>1. \A id : Outstanding(id) => Outstanding(id)'
    BY <1>2 DEF Outstanding, IsLiveSlot, Live
  <2> QED BY <1>2, <2>1 DEF callerVars
<1>3. ASSUME NEW s \in Slots, Read(s) PROVE AwaitNotLost'
  BY <1>2, <1>3 DEF Read, TypeOK
<1>4. ASSUME NEW s \in Slots, Discard(s) PROVE AwaitNotLost'
  BY <1>1, <1>4 DEF Discard
<1>5. ASSUME NEW s \in Slots, NEW id \in Ids,
             \/ Dispatch(s, id) \/ DispatchCopyThrows(s, id) \/ DispatchContextThrows(s, id)
      PROVE AwaitNotLost'
  <2>1. Fill(s, id) /\ UNCHANGED callerVars
    BY <1>5 DEF Dispatch, DispatchCopyThrows, DispatchContextThrows
  <2>2. slotState' = [slotState EXCEPT ![s] = "Pending"] \/ slotState' = slotState
    BY <1>5 DEF Dispatch, DispatchCopyThrows, DispatchContextThrows
  <2>3. \A r \in Slots : slotState[r] \in {"Pending", "Running"} =>
                slotId'[r] = slotId[r] /\ slotState'[r] \in {"Pending", "Running"}
    BY <2>1, <2>2 DEF Fill, IsFirst, Reusable, IdsFreed, TypeOK
  <2> QED BY <1>2, <2>1, <2>3
<1>6. ASSUME NEW s \in Slots, NEW id \in Ids, DispatchStartFails(s, id) PROVE AwaitNotLost'
  BY <1>2, <1>6 DEF DispatchStartFails, FreeSlotContents, IsFirst, Reusable, IdsFreed, TypeOK
<1>7. CASE DiscardAll
  BY <1>1, <1>7 DEF DiscardAll
<1>8. ASSUME NEW c \in Callers,
             (\E id \in Ids : AwaitBegin(c, id)) \/ AwaitWake(c) \/ AwaitTimeout(c)
      PROVE AwaitNotLost'
  <2>1. \A id : Outstanding(id)' = Outstanding(id)
    BY <1>8 DEF AwaitBegin, AwaitWake, AwaitTimeout, slotVars, Outstanding, IsLiveSlot
  <2> QED BY <1>8, <2>1 DEF AwaitBegin, AwaitWake, AwaitTimeout, TypeOK
<1>9. ASSUME NEW w \in Workers, WorkerBegin(w) PROVE AwaitNotLost'
  <2>1. UNCHANGED callerVars /\ slotId' = slotId
    BY <1>9 DEF WorkerBegin, LoopTop, callerVars
  <2>2. \A r \in Slots : slotState[r] \in {"Pending", "Running"} =>
                         slotState'[r] \in {"Pending", "Running"}
    BY <1>9, LoopTopTable DEF WorkerBegin, TypeOK
  <2> QED BY <1>2, <2>1, <2>2
<1>10. ASSUME NEW w \in Workers, Finish(w) PROVE AwaitNotLost'
  BY <1>1, <1>10 DEF Finish, LoopTop
<1>11. ASSUME NEW w \in Workers, IdleClaim(w) PROVE AwaitNotLost'
  BY <1>2, <1>11 DEF IdleClaim, Claim, TypeOK
<1>12. ASSUME NEW w \in Workers,
              \/ PerformReturn(w) \/ ExitThread(w)
              \/ \E why \in WaitResults : IdleExit(w, why)
       PROVE AwaitNotLost'
  BY <1>2, <1>12 DEF PerformReturn, ExitThread, IdleExit, slotVars
<1>13. CASE UNCHANGED vars
  BY <1>2, <1>13 DEF vars, slotVars
<1> QED BY <1>3, <1>4, <1>5, <1>6, <1>7, <1>8, <1>9, <1>10, <1>11, <1>12, <1>13, StepCases

-----------------------------------------------------------------------------
(* The theorems. *)

\* The invariant is kept by every step.
LEMMA TableStep == TableInv /\ [Next]_vars => TableInv'
BY TypeStep, OwnershipStep, DistinctStep, CancelStep, AnswerStep, AwaitStep DEF TableInv

\* An empty table has it.
LEMMA TableInit == Init => TableInv
<1> SUFFICES ASSUME Init PROVE TableInv
  OBVIOUS
<1>1. TypeOK
  BY ZeroInRange DEF Init, TypeOK, SlotStates, WorkerStates, Responses, Outcomes, NoResponse
<1>2. SlotOwnership /\ LiveIdsDistinct /\ AnswerIsOwn /\ AwaitNotLost
  BY DEF Init, SlotOwnership, LiveIdsDistinct, AnswerIsOwn, AwaitNotLost, Busy, InUse, Reusable
<1>3. CancelFlagIsAbandoned
  BY DEF Init, CancelFlagIsAbandoned
<1> QED BY <1>1, <1>2, <1>3 DEF TableInv

\* The invariant of the slot table holds in every reachable state.
THEOREM TableInvariant == Spec => []TableInv
BY TableInit, TableStep, PTL DEF Spec

\* Exactly one worker for each slot that is Running or Abandoned, and no other worker
\* outside the lock.
THEOREM Ownership == Spec => []SlotOwnership
BY TableInvariant, PTL DEF TableInv

\* Ids of occupied slots are distinct and nonzero, across any number of wraps.
THEOREM DistinctIds == Spec => []LiveIdsDistinct
BY TableInvariant, PTL DEF TableInv

\* A script reads under an id the outcome of that id's transfer, never a cancellation.
THEOREM OwnAnswer == Spec => []AnswerIsOwn
BY TableInvariant, PTL DEF TableInv

\* A blocked Await that has not been notified waits for an outstanding request.
THEOREM NoLostWakeup == Spec => []AwaitNotLost
BY TableInvariant, PTL DEF TableInv


-----------------------------------------------------------------------------
(* Minting an id. *)

\* A set of natural numbers that is not empty has a least element.
LEMMA Least ==
    ASSUME NEW K \in SUBSET Nat, K # {}
    PROVE  \E k \in K : \A j \in K : k <= j
<1>1. IsWellFoundedOn(OpToRel(<, Nat), Nat)
  BY NatLessThanWellFounded
<1>2. PICK k \in K : \A j \in K : ~ (<<j, k>> \in OpToRel(<, Nat))
  BY <1>1, WFMin
<1>3. \A j \in K : <<j, k>> \in Nat \X Nat
  OBVIOUS
<1>4. \A j \in K : ~ (j < k)
  BY <1>2, <1>3 DEF OpToRel
<1> QED BY <1>4

\* While a slot is reusable, an id other than 0 is free.
LEMMA FreeId ==
    ASSUME TypeOK, NEW s \in Slots, slotState[s] \in Reusable
    PROVE  \E id \in Ids : id # 0 /\ ~IsIdLive(id)
<1> SUFFICES ASSUME \A id \in Ids : id # 0 => IsIdLive(id) PROVE FALSE
  OBVIOUS
<1> DEFINE some == 1..(IdModulus - 1)
           rest == Slots \ {s}
           slotOf == [id \in some |-> CHOOSE r \in Slots : slotId[r] = id /\ slotState[r] \notin Reusable]
<1>1. \A id \in some : \E r \in Slots : slotId[r] = id /\ slotState[r] \notin Reusable
  BY IdAssumption DEF Ids, IsIdLive
<1>2. \A id \in some : /\ slotOf[id] \in Slots /\ slotId[slotOf[id]] = id
                       /\ slotState[slotOf[id]] \notin Reusable
  BY <1>1
<1>3. slotOf \in Injection(some, rest)
  <2>1. slotOf \in [some -> rest]
    BY <1>2
  <2>2. \A i, j \in some : slotOf[i] = slotOf[j] => i = j
    BY <1>2
  <2> HIDE DEF slotOf, some, rest
  <2> QED BY <2>1, <2>2 DEF Injection, IsInjective
<1>4. IsFiniteSet(rest) /\ Cardinality(rest) = N - 1
  <2>1. IsFiniteSet(Slots) /\ Cardinality(Slots) = N
    BY SlotsAssumption, FS_Interval DEF Slots
  <2> QED BY <2>1, FS_RemoveElement
<1>5. IsFiniteSet(some) /\ Cardinality(some) = IdModulus - 1
  BY FS_Interval, IdAssumption, SlotsAssumption
<1>6. Cardinality(some) <= Cardinality(rest)
  <2> HIDE DEF slotOf, some, rest
  <2> QED BY <1>3, <1>4, FS_Injection
<1> HIDE DEF some, rest
<1> QED BY <1>4, <1>5, <1>6, IdAssumption, SlotsAssumption

\* Counting from any value reaches any other.
LEMMA CountingReaches ==
    ASSUME NEW from \in Ids, NEW id \in Ids
    PROVE  \E k \in Ids : (from + k) % IdModulus = id
<1>1. IdModulus \in Nat \ {0} /\ from \in 0..(IdModulus - 1) /\ id \in 0..(IdModulus - 1)
  BY IdAssumption, SlotsAssumption DEF Ids
<1>2. CASE from <= id
  <2>1. id - from \in Ids /\ from + (id - from) = id
    BY <1>1, <1>2 DEF Ids
  <2>2. id % IdModulus = id
    BY <1>1
  <2> QED BY <2>1, <2>2
<1>3. CASE id < from
  <2>1. id - from + IdModulus \in Ids /\ from + (id - from + IdModulus) = id + IdModulus
    BY <1>1, <1>3 DEF Ids
  <2>2. (id + IdModulus) % IdModulus = id
    BY <1>1
  <2> QED BY <2>1, <2>2
<1> QED BY <1>1, <1>2, <1>3

\* The search for an id ends wherever the counter stands.
LEMMA MintFinds ==
    ASSUME TypeOK, NEW s \in Slots, slotState[s] \in Reusable, NEW from \in Ids
    PROVE  \E id \in Ids : Mints(from, id)
<1> DEFINE at == [k \in Ids |-> (from + k) % IdModulus]
           K == {k \in Ids : at[k] # 0 /\ ~IsIdLive(at[k])}
<1>1. K # {} /\ K \in SUBSET Nat
  <2>1. PICK id \in Ids : id # 0 /\ ~IsIdLive(id)
    BY FreeId
  <2>2. PICK k \in Ids : (from + k) % IdModulus = id
    BY CountingReaches
  <2>3. k \in K
    BY <2>1, <2>2
  <2>4. Ids \in SUBSET Nat
    BY IdAssumption DEF Ids
  <2> QED BY <2>3, <2>4
<1>2. PICK k \in K : \A j \in K : k <= j
  <2> HIDE DEF K
  <2> QED BY <1>1, Least
<1>3. \A j \in 0..(k - 1) : LET v == (from + j) % IdModulus IN v = 0 \/ IsIdLive(v)
  <2> SUFFICES ASSUME NEW j \in 0..(k - 1) PROVE j \notin K /\ j \in Ids
    OBVIOUS
  <2>1. k \in Ids
    OBVIOUS
  <2>2. j \in Ids /\ j < k /\ k \in Nat /\ j \in Nat
    BY <2>1, IdAssumption DEF Ids
  <2> HIDE DEF K
  <2> QED BY <1>2, <2>2
<1>4. at[k] \in Ids /\ at[k] = (from + k) % IdModulus
  BY IdAssumption, SlotsAssumption DEF Ids
<1>5. k \in Ids /\ at[k] # 0 /\ ~IsIdLive(at[k])
  OBVIOUS
<1> HIDE DEF K, at
<1>6. Mints(from, at[k])
  BY <1>3, <1>4, <1>5 DEF Mints
<1> QED BY <1>4, <1>6

\* MintIdLocked never loops for ever under the lock: Dispatch calls it with a slot to
\* fill, and then, wherever the counter stands, an id is found within one turn of it.
MintingEnds == \A s \in Slots : slotState[s] \in Reusable =>
                   \A from \in Ids : \E id \in Ids : Mints(from, id)

\* The loop of MintIdLocked always ends.
THEOREM MintTerminates == Spec => []MintingEnds
<1>1. TypeOK => MintingEnds
  BY MintFinds DEF MintingEnds
<1> QED BY <1>1, TypeCorrect, PTL

-----------------------------------------------------------------------------
(* The pool. *)

InStates(P) == {w \in Workers : wstate[w] \in P}
OneIf(b) == IF b THEN 1 ELSE 0

-----------------------------------------------------------------------------
(* Counting threads. *)

\* Moving one thread to another state changes a head count by what it leaves and enters.
LEMMA MoveCount ==
    ASSUME wstate \in [Workers -> WorkerStates], NEW w \in Workers, NEW new,
           wstate' = [wstate EXCEPT ![w] = new], NEW CONSTANT P
    PROVE  /\ Cardinality(InStates(P)) \in Nat
           /\ Cardinality(InStates(P)') =
                 Cardinality(InStates(P)) + OneIf(new \in P) - OneIf(wstate[w] \in P)
<1>1. IsFiniteSet(InStates(P))
  <2>1. InStates(P) \in SUBSET Workers
    BY DEF InStates
  <2> QED BY <2>1, FS_Subset, WorkersAssumption
<1>2. Cardinality(InStates(P)) \in Nat
  BY <1>1, FS_CardinalityType
<1>3. CASE new \in P
  <2>1. InStates(P)' = InStates(P) \cup {w}
    BY <1>3 DEF InStates
  <2>2. Cardinality(InStates(P) \cup {w}) =
          IF w \in InStates(P) THEN Cardinality(InStates(P)) ELSE Cardinality(InStates(P)) + 1
    BY <1>1, FS_AddElement
  <2>3. w \in InStates(P) <=> wstate[w] \in P
    BY DEF InStates
  <2> QED BY <1>2, <1>3, <2>1, <2>2, <2>3 DEF OneIf
<1>4. CASE new \notin P
  <2>1. InStates(P)' = InStates(P) \ {w}
    BY <1>4 DEF InStates
  <2>2. Cardinality(InStates(P) \ {w}) =
          IF w \in InStates(P) THEN Cardinality(InStates(P)) - 1 ELSE Cardinality(InStates(P))
    BY <1>1, FS_RemoveElement
  <2>3. w \in InStates(P) <=> wstate[w] \in P
    BY DEF InStates
  <2> QED BY <1>2, <1>4, <2>1, <2>2, <2>3 DEF OneIf
<1> QED BY <1>2, <1>3, <1>4

InPool == {"starting", "idle", "performing", "returned"}
Existing == {"starting", "idle", "performing", "returned", "exiting"}

\* The three head counts of the pool in terms of InStates.
LEMMA PoolCounts ==
    ASSUME wstate \in [Workers -> WorkerStates]
    PROVE  /\ IdlePool = InStates({"idle"})
           /\ LivePool = InStates(InPool)
           /\ Threads = InStates(Existing)
BY DEF IdlePool, LivePool, Threads, InStates, InPool, Existing, WorkerStates

\* The counters and the threads, whether or not memory runs out: a bad_alloc can lose
\* a module reference, but never take one from a thread that exists.
Counted ==
    /\ idleWorkers = Cardinality(IdlePool)
    /\ liveWorkers = Cardinality(LivePool)
    /\ liveWorkers <= N
    /\ moduleRefs >= Cardinality(Threads)
    /\ AllocMayFail = FALSE => moduleRefs = Cardinality(Threads)

\* The counters follow the threads through every step.
LEMMA AccountingStep ==
    ASSUME TypeOK, TypeOK', Counted, [Next]_vars
    PROVE  Counted'
<1>1. Counted <=> /\ idleWorkers = Cardinality(InStates({"idle"}))
                  /\ liveWorkers = Cardinality(InStates(InPool))
                  /\ liveWorkers <= N
                  /\ moduleRefs >= Cardinality(InStates(Existing))
                  /\ AllocMayFail = FALSE => moduleRefs = Cardinality(InStates(Existing))
  BY PoolCounts DEF Counted, TypeOK
<1>2. Counted' <=> /\ idleWorkers' = Cardinality(InStates({"idle"})')
                   /\ liveWorkers' = Cardinality(InStates(InPool)')
                   /\ liveWorkers' <= N
                   /\ moduleRefs' >= Cardinality(InStates(Existing)')
                   /\ AllocMayFail = FALSE => moduleRefs' = Cardinality(InStates(Existing)')
  <2>1. IdlePool' = InStates({"idle"})' /\ LivePool' = InStates(InPool)'
                                        /\ Threads' = InStates(Existing)'
    BY DEF IdlePool, LivePool, Threads, InStates, InPool, Existing, WorkerStates, TypeOK
  <2> QED BY <2>1 DEF Counted
<1>3. ASSUME UNCHANGED <<wstate, liveWorkers, idleWorkers, moduleRefs>> PROVE Counted'
  BY <1>1, <1>2, <1>3 DEF InStates
<1>4. ASSUME NEW w \in Workers, NEW new, wstate' = [wstate EXCEPT ![w] = new],
             idleWorkers' = idleWorkers + OneIf(new \in {"idle"})
                                        - OneIf(wstate[w] \in {"idle"}),
             liveWorkers' = liveWorkers + OneIf(new \in InPool) - OneIf(wstate[w] \in InPool),
             moduleRefs' = moduleRefs + OneIf(new \in Existing)
                                      - OneIf(wstate[w] \in Existing),
             liveWorkers' <= N
      PROVE Counted'
  <2>1. wstate \in [Workers -> WorkerStates]
    BY DEF TypeOK
  <2>2. Cardinality(InStates({"idle"})') =
          Cardinality(InStates({"idle"})) + OneIf(new \in {"idle"}) - OneIf(wstate[w] \in {"idle"})
    BY <1>4, <2>1, MoveCount
  <2>3. Cardinality(InStates(InPool)') =
          Cardinality(InStates(InPool)) + OneIf(new \in InPool) - OneIf(wstate[w] \in InPool)
    BY <1>4, <2>1, MoveCount
  <2>4. Cardinality(InStates(Existing)') =
          Cardinality(InStates(Existing)) + OneIf(new \in Existing) - OneIf(wstate[w] \in Existing)
    BY <1>4, <2>1, MoveCount
  <2>5. Cardinality(InStates(Existing)) \in Nat /\ moduleRefs \in Int
    BY <1>4, <2>1, MoveCount DEF TypeOK
  <2>6. OneIf(new \in Existing) \in Int /\ OneIf(wstate[w] \in Existing) \in Int
    BY DEF OneIf
  <2> QED BY <1>1, <1>2, <1>4, <2>2, <2>3, <2>4, <2>5, <2>6
<1>5. ASSUME NEW s \in Slots, Read(s) \/ Discard(s) PROVE Counted'
  BY <1>3, <1>5 DEF Read, Discard, poolVars, workerVars
<1>6. ASSUME NEW s \in Slots, NEW id \in Ids, Dispatch(s, id) PROVE Counted'
  <2>1. CASE StartNeeded(slotState')
    <3>1. PICK w \in Workers : StartWorker(w)
      BY <1>6, <2>1 DEF Dispatch
    <3>2. liveWorkers < N /\ liveWorkers \in Int /\ N \in Nat
      BY <2>1, SlotsAssumption DEF StartNeeded, TypeOK
    <3>3. /\ wstate' = [wstate EXCEPT ![w] = "starting"]
          /\ idleWorkers' = idleWorkers + OneIf("starting" \in {"idle"}) - OneIf(wstate[w] \in {"idle"})
          /\ liveWorkers' = liveWorkers + OneIf("starting" \in InPool) - OneIf(wstate[w] \in InPool)
          /\ moduleRefs' = moduleRefs + OneIf("starting" \in Existing) - OneIf(wstate[w] \in Existing)
          /\ liveWorkers' <= N
      BY <1>6, <3>1, <3>2 DEF Dispatch, StartWorker, OneIf, InPool, Existing, TypeOK
    <3> QED BY <1>4, <3>3
  <2>2. CASE ~StartNeeded(slotState')
    BY <1>3, <1>6, <2>2 DEF Dispatch
  <2> QED BY <2>1, <2>2
<1>7. ASSUME NEW s \in Slots, NEW id \in Ids,
             DispatchStartFails(s, id) \/ DispatchCopyThrows(s, id) \/ DispatchContextThrows(s, id)
      PROVE Counted'
  <2>1. CASE DispatchStartFails(s, id) \/ DispatchCopyThrows(s, id)
    BY <1>3, <2>1 DEF DispatchStartFails, DispatchCopyThrows, poolVars, workerVars
  <2>2. CASE DispatchContextThrows(s, id)
    <3>1. /\ AllocMayFail /\ moduleRefs' = moduleRefs + 1
          /\ UNCHANGED <<wstate, liveWorkers, idleWorkers>>
      BY <2>2 DEF DispatchContextThrows, workerVars
    <3>2. Cardinality(InStates(Existing)) \in Nat /\ moduleRefs \in Int
      <4>1. InStates(Existing) \in SUBSET Workers
        BY DEF InStates
      <4> QED BY <4>1, WorkersAssumption, FS_Subset, FS_CardinalityType DEF TypeOK
    <3>3. \A P : InStates(P)' = InStates(P)
      BY <3>1 DEF InStates
    <3> QED BY <1>1, <1>2, <3>1, <3>2, <3>3
  <2> QED BY <1>7, <2>1, <2>2
<1>8. CASE DiscardAll
  BY <1>3, <1>8 DEF DiscardAll, poolVars
<1>9. ASSUME NEW c \in Callers,
             (\E id \in Ids : AwaitBegin(c, id)) \/ AwaitWake(c) \/ AwaitTimeout(c)
      PROVE Counted'
  BY <1>3, <1>9 DEF AwaitBegin, AwaitWake, AwaitTimeout, poolVars, workerVars
<1>10. ASSUME NEW w \in Workers, NEW st, LoopTop(w, st), wstate[w] \in {"starting", "returned"}
       PROVE Counted'
  <2>1. CASE Claim(w, st) /\ UNCHANGED idleWorkers
    <3>1. /\ wstate' = [wstate EXCEPT ![w] = "performing"]
          /\ idleWorkers' = idleWorkers + OneIf("performing" \in {"idle"}) - OneIf(wstate[w] \in {"idle"})
          /\ liveWorkers' = liveWorkers + OneIf("performing" \in InPool) - OneIf(wstate[w] \in InPool)
          /\ moduleRefs' = moduleRefs + OneIf("performing" \in Existing) - OneIf(wstate[w] \in Existing)
          /\ liveWorkers' <= N
      BY <1>1, <1>10, <2>1 DEF LoopTop, Claim, OneIf, InPool, Existing, TypeOK
    <3> QED BY <1>4, <3>1
  <2>2. CASE GoIdle(w, st)
    <3>1. /\ wstate' = [wstate EXCEPT ![w] = "idle"]
          /\ idleWorkers' = idleWorkers + OneIf("idle" \in {"idle"}) - OneIf(wstate[w] \in {"idle"})
          /\ liveWorkers' = liveWorkers + OneIf("idle" \in InPool) - OneIf(wstate[w] \in InPool)
          /\ moduleRefs' = moduleRefs + OneIf("idle" \in Existing) - OneIf(wstate[w] \in Existing)
          /\ liveWorkers' <= N
      BY <1>1, <1>10, <2>2 DEF LoopTop, GoIdle, OneIf, InPool, Existing, TypeOK
    <3> QED BY <1>4, <3>1
  <2> QED BY <1>10, <2>1, <2>2 DEF LoopTop
<1>11. ASSUME NEW w \in Workers, WorkerBegin(w) \/ Finish(w) PROVE Counted'
  BY <1>10, <1>11 DEF WorkerBegin, Finish
<1>12. ASSUME NEW w \in Workers, PerformReturn(w) PROVE Counted'
  <2>1. /\ wstate' = [wstate EXCEPT ![w] = "returned"]
        /\ idleWorkers' = idleWorkers + OneIf("returned" \in {"idle"}) - OneIf(wstate[w] \in {"idle"})
        /\ liveWorkers' = liveWorkers + OneIf("returned" \in InPool) - OneIf(wstate[w] \in InPool)
        /\ moduleRefs' = moduleRefs + OneIf("returned" \in Existing) - OneIf(wstate[w] \in Existing)
        /\ liveWorkers' <= N
    BY <1>1, <1>12 DEF PerformReturn, OneIf, InPool, Existing, TypeOK, poolVars
  <2> QED BY <1>4, <2>1
<1>13. ASSUME NEW w \in Workers, IdleClaim(w) PROVE Counted'
  <2>1. /\ wstate' = [wstate EXCEPT ![w] = "performing"]
        /\ idleWorkers' = idleWorkers + OneIf("performing" \in {"idle"}) - OneIf(wstate[w] \in {"idle"})
        /\ liveWorkers' = liveWorkers + OneIf("performing" \in InPool) - OneIf(wstate[w] \in InPool)
        /\ moduleRefs' = moduleRefs + OneIf("performing" \in Existing) - OneIf(wstate[w] \in Existing)
        /\ liveWorkers' <= N
    BY <1>1, <1>13 DEF IdleClaim, Claim, OneIf, InPool, Existing, TypeOK
  <2> QED BY <1>4, <2>1
<1>14. ASSUME NEW w \in Workers, NEW why \in WaitResults, IdleExit(w, why) PROVE Counted'
  <2>0. N \in Nat
    BY SlotsAssumption
  <2>1. /\ wstate' = [wstate EXCEPT ![w] = "exiting"]
        /\ idleWorkers' = idleWorkers + OneIf("exiting" \in {"idle"}) - OneIf(wstate[w] \in {"idle"})
        /\ liveWorkers' = liveWorkers + OneIf("exiting" \in InPool) - OneIf(wstate[w] \in InPool)
        /\ moduleRefs' = moduleRefs + OneIf("exiting" \in Existing) - OneIf(wstate[w] \in Existing)
        /\ liveWorkers' <= N
    BY <1>1, <1>14, <2>0 DEF IdleExit, OneIf, InPool, Existing, TypeOK
  <2> QED BY <1>4, <2>1
<1>15. ASSUME NEW w \in Workers, ExitThread(w) PROVE Counted'
  <2>1. /\ wstate' = [wstate EXCEPT ![w] = "none"]
        /\ idleWorkers' = idleWorkers + OneIf("none" \in {"idle"}) - OneIf(wstate[w] \in {"idle"})
        /\ liveWorkers' = liveWorkers + OneIf("none" \in InPool) - OneIf(wstate[w] \in InPool)
        /\ moduleRefs' = moduleRefs + OneIf("none" \in Existing) - OneIf(wstate[w] \in Existing)
        /\ liveWorkers' <= N
    BY <1>1, <1>15 DEF ExitThread, OneIf, InPool, Existing, TypeOK
  <2> QED BY <1>4, <2>1
<1>16. CASE UNCHANGED vars
  BY <1>3, <1>16 DEF vars, poolVars, workerVars
<1> QED BY <1>5, <1>6, <1>7, <1>8, <1>9, <1>11, <1>12, <1>13, <1>14, <1>15, <1>16, StepCases

-----------------------------------------------------------------------------
(* Pending slots and the workers they can count on. *)

BusySet == InStates({"performing", "returned"})
InUseSlots == {s \in Slots : InUse(s)}

\* The sets that are counted are finite.
LEMMA Finiteness ==
    /\ IsFiniteSet(Slots) /\ Cardinality(Slots) = N
    /\ \A st : IsFiniteSet(PendingSlots(st)) /\ Cardinality(PendingSlots(st)) \in Nat
    /\ IsFiniteSet(Told) /\ Cardinality(Told) \in Nat
    /\ \A P : IsFiniteSet(InStates(P)) /\ Cardinality(InStates(P)) \in Nat
    /\ IsFiniteSet(InUseSlots) /\ Cardinality(InUseSlots) \in Nat
<1>1. IsFiniteSet(Slots) /\ Cardinality(Slots) = N
  BY SlotsAssumption, FS_Interval DEF Slots
<1>2. ASSUME NEW T \in SUBSET Slots PROVE IsFiniteSet(T) /\ Cardinality(T) \in Nat
  BY <1>1, FS_Subset, FS_CardinalityType
<1>3. ASSUME NEW T \in SUBSET Workers PROVE IsFiniteSet(T) /\ Cardinality(T) \in Nat
  BY WorkersAssumption, FS_Subset, FS_CardinalityType
<1> QED BY <1>1, <1>2, <1>3 DEF PendingSlots, Told, InStates, InUseSlots

\* Each busy worker has a slot in use to itself, so there are no more of them.
LEMMA BusyBound ==
    ASSUME TypeOK, SlotOwnership
    PROVE  Cardinality(BusySet) <= Cardinality(InUseSlots)
<1> DEFINE f == [w \in BusySet |-> wslot[w]]
<1>1. f \in [BusySet -> InUseSlots]
  BY DEF BusySet, InStates, InUseSlots, SlotOwnership, Busy
<1>2. \A v, w \in BusySet : f[v] = f[w] => v = w
  BY DEF BusySet, InStates, SlotOwnership, Busy
<1>3. f \in Injection(BusySet, InUseSlots)
  BY <1>1, <1>2 DEF Injection, IsInjective
<1> QED BY <1>3, Finiteness, FS_Injection

\* When the pool is at its cap, the workers that are not busy suffice for every slot
\* that is not in use.
LEMMA CapSuffices ==
    ASSUME TypeOK, SlotOwnership, PoolAccounting, liveWorkers = N,
           NEW T \in SUBSET Slots, \A s \in T : ~InUse(s)
    PROVE  Cardinality(T) <= Cardinality(InStates({"starting", "idle"}))
<1>1. Cardinality(InStates(InPool)) = N
  BY PoolCounts DEF PoolAccounting, TypeOK
<1>2. Cardinality(InStates(InPool)) = Cardinality(InStates({"starting", "idle"})) + Cardinality(BusySet)
  <2>1. InStates(InPool) = InStates({"starting", "idle"}) \cup BusySet
    BY DEF InStates, InPool, BusySet
  <2>2. InStates({"starting", "idle"}) \cap BusySet = {}
    BY DEF InStates, BusySet
  <2>3. IsFiniteSet(BusySet) /\ IsFiniteSet(InStates({"starting", "idle"}))
    BY Finiteness DEF BusySet
  <2>4. Cardinality({}) = 0
    BY FS_EmptySet
  <2>5. Cardinality(InStates({"starting", "idle"})) \in Nat /\ Cardinality(BusySet) \in Nat
    BY Finiteness DEF BusySet
  <2>6. Cardinality(InStates({"starting", "idle"}) \cup BusySet) =
          Cardinality(InStates({"starting", "idle"})) + Cardinality(BusySet)
             - Cardinality(InStates({"starting", "idle"}) \cap BusySet)
    BY <2>3, FS_Union
  <2>7. Cardinality(InStates({"starting", "idle"}) \cap BusySet) = 0
    BY <2>2, <2>4
  <2>8. Cardinality(InStates(InPool)) = Cardinality(InStates({"starting", "idle"}) \cup BusySet)
    BY <2>1
  <2> QED BY <2>5, <2>6, <2>7, <2>8
<1>3. Cardinality(T) + Cardinality(InUseSlots) <= N
  <2>1. T \cap InUseSlots = {} /\ T \cup InUseSlots \in SUBSET Slots
    BY DEF InUseSlots
  <2>2. IsFiniteSet(T)
    BY Finiteness, FS_Subset
  <2>3. Cardinality(T) \in Nat
    BY <2>2, FS_CardinalityType
  <2>4. Cardinality(T \cup InUseSlots) = Cardinality(T) + Cardinality(InUseSlots)
    BY <2>1, <2>2, <2>3, Finiteness, FS_Union, FS_EmptySet
  <2>5. Cardinality(T \cup InUseSlots) <= N
    BY <2>1, Finiteness, FS_Subset
  <2> QED BY <2>4, <2>5
<1>4. /\ Cardinality(T) \in Nat /\ Cardinality(InUseSlots) \in Nat
      /\ Cardinality(BusySet) \in Nat /\ N \in Nat
      /\ Cardinality(InStates({"starting", "idle"})) \in Nat
  BY Finiteness, FS_Subset, FS_CardinalityType, SlotsAssumption DEF BusySet
<1> QED BY <1>1, <1>2, <1>3, <1>4, BusyBound

\* Dispatch leaves every pending slot with a worker: it starts one when the idle ones
\* are too few, and at the cap the pool is large enough.
LEMMA DispatchPending ==
    ASSUME TypeOK, SlotOwnership, PoolAccounting, PendingHasWorker,
           NEW s \in Slots, NEW id \in Ids, Dispatch(s, id)
    PROVE  PendingHasWorker'
<1>1. /\ slotState[s] \in Reusable
      /\ slotState' = [slotState EXCEPT ![s] = "Pending"]
      /\ \A w \in Workers : wstate[w] = "idle" => woken'[w] # "no"
  <2>1. slotState[s] \in Reusable /\ slotState' = [slotState EXCEPT ![s] = "Pending"]
    BY DEF Dispatch, Fill, IsFirst
  <2>2. \A w \in Workers : wstate[w] = "idle" => woken'[w] # "no"
    BY DEF Dispatch, WakeIdle
  <2> QED BY <2>1, <2>2
<1>2. PendingSlots(slotState') = PendingSlots(slotState) \cup {s} /\ s \notin PendingSlots(slotState)
  BY <1>1 DEF PendingSlots, Reusable, TypeOK
<1>3. Cardinality(PendingSlots(slotState')) = Cardinality(PendingSlots(slotState)) + 1
  BY <1>2, Finiteness, FS_AddElement
<1>4. PendingHasWorker' <=> Cardinality(PendingSlots(slotState')) <= Cardinality(Told')
  BY DEF PendingHasWorker
<1>5. PendingHasWorker <=> Cardinality(PendingSlots(slotState)) <= Cardinality(Told)
  BY DEF PendingHasWorker
<1>6. /\ IsFiniteSet(Told') /\ Cardinality(Told') \in Nat
      /\ Cardinality(Told) \in Nat /\ Cardinality(PendingSlots(slotState)) \in Nat
      /\ Cardinality(InStates({"starting", "idle"})) \in Nat
      /\ IsFiniteSet(InStates({"starting", "idle"}))
      /\ N \in Nat /\ liveWorkers \in Int /\ idleWorkers \in Int
  <2>1. Told' \in SUBSET Workers
    BY DEF Told
  <2> QED BY <2>1, Finiteness, FS_Subset, FS_CardinalityType, WorkersAssumption, SlotsAssumption
          DEF TypeOK
<1>7. CASE StartNeeded(slotState')
  <2>1. PICK w \in Workers : StartWorker(w)
    BY <1>7 DEF Dispatch
  <2>2. Told' = InStates({"starting", "idle"}) \cup {w} /\ w \notin InStates({"starting", "idle"})
    BY <1>1, <2>1 DEF StartWorker, Told, InStates, TypeOK
  <2>3. Cardinality(Told') = Cardinality(InStates({"starting", "idle"})) + 1
    BY <1>6, <2>2, FS_AddElement
  <2>4. Told \in SUBSET InStates({"starting", "idle"})
    BY DEF Told, InStates
  <2>5. Cardinality(Told) <= Cardinality(InStates({"starting", "idle"}))
    BY <1>6, <2>4, FS_Subset
  <2> QED BY <1>3, <1>4, <1>5, <1>6, <2>3, <2>5
<1>8. CASE ~StartNeeded(slotState')
  <2>1. wstate' = wstate
    BY <1>8 DEF Dispatch
  <2>2. Told' = InStates({"starting", "idle"})
    BY <1>1, <2>1 DEF Told, InStates
  <2>3. CASE Cardinality(PendingSlots(slotState')) <= idleWorkers
    <3>1. IdlePool \in SUBSET Told' /\ idleWorkers = Cardinality(IdlePool)
      BY <2>2 DEF IdlePool, InStates, PoolAccounting
    <3>2. Cardinality(IdlePool) <= Cardinality(Told')
      BY <1>6, <3>1, FS_Subset
    <3>3. Cardinality(IdlePool) \in Nat
      BY <1>6, <3>1, FS_Subset, FS_CardinalityType
    <3> QED BY <1>3, <1>4, <1>6, <2>3, <3>1, <3>2, <3>3
  <2>4. CASE Cardinality(PendingSlots(slotState')) > idleWorkers
    <3>1. liveWorkers = N
      BY <1>6, <1>8, <2>4 DEF StartNeeded, PoolAccounting
    <3>2. PendingSlots(slotState') \in SUBSET Slots
      BY DEF PendingSlots
    <3>3. \A r \in PendingSlots(slotState') : ~InUse(r)
      BY <1>1, <1>2 DEF PendingSlots, InUse, Reusable
    <3>4. Cardinality(PendingSlots(slotState')) <= Cardinality(InStates({"starting", "idle"}))
      BY <3>1, <3>2, <3>3, CapSuffices
    <3> QED BY <1>4, <2>2, <3>4
  <2> QED BY <1>3, <1>6, <2>3, <2>4
<1> QED BY <1>7, <1>8

\* A worker that claims a pending slot takes one from each side of the comparison.
LEMMA ClaimPending ==
    ASSUME TypeOK, NEW w \in Workers, NEW st \in [Slots -> SlotStates], Claim(w, st),
           Cardinality(PendingSlots(st)) <= Cardinality(Told)
    PROVE  PendingHasWorker'
<1> PICK s \in Slots : /\ st[s] = "Pending"
                       /\ slotState' = [st EXCEPT ![s] = "Running"]
                       /\ wstate' = [wstate EXCEPT ![w] = "performing"]
                       /\ woken' = [woken EXCEPT ![w] = "no"]
  BY DEF Claim, IsFirst
<1>1. PendingSlots(slotState') = PendingSlots(st) \ {s} /\ s \in PendingSlots(st)
  BY DEF PendingSlots
<1>2. Cardinality(PendingSlots(slotState')) = Cardinality(PendingSlots(st)) - 1
  BY <1>1, Finiteness, FS_RemoveElement
<1>3. Told' = Told \ {w}
  BY DEF Told, TypeOK
<1>4. Cardinality(Told') >= Cardinality(Told) - 1 /\ Cardinality(Told') \in Int
  <2>1. IsFiniteSet(Told) /\ Cardinality(Told) \in Nat
    BY Finiteness
  <2>2. Cardinality(Told \ {w}) = IF w \in Told THEN Cardinality(Told) - 1 ELSE Cardinality(Told)
    BY <2>1, FS_RemoveElement
  <2>3. Cardinality(Told') = Cardinality(Told \ {w})
    BY <1>3
  <2> QED BY <2>1, <2>2, <2>3
<1>5. Cardinality(Told) \in Nat /\ Cardinality(PendingSlots(st)) \in Nat
  BY Finiteness
<1>6. PendingHasWorker' <=> Cardinality(PendingSlots(slotState')) <= Cardinality(Told')
  BY DEF PendingHasWorker
<1> QED BY <1>2, <1>4, <1>5, <1>6

\* Every pending slot has a worker after every step.
LEMMA PendingStep ==
    ASSUME AllocMayFail = FALSE, TypeOK, TypeOK', SlotOwnership, PoolAccounting,
           PendingHasWorker, [Next]_vars
    PROVE  PendingHasWorker'
<1>1. PendingHasWorker <=> Cardinality(PendingSlots(slotState)) <= Cardinality(Told)
  BY DEF PendingHasWorker
<1>2. PendingHasWorker' <=> Cardinality(PendingSlots(slotState')) <= Cardinality(Told')
  BY DEF PendingHasWorker
<1>3. ASSUME PendingSlots(slotState') \in SUBSET PendingSlots(slotState), Told' = Told
      PROVE PendingHasWorker'
  <2>1. Cardinality(PendingSlots(slotState')) <= Cardinality(PendingSlots(slotState))
    BY <1>3, Finiteness, FS_Subset
  <2>2. /\ Cardinality(PendingSlots(slotState')) \in Nat /\ Cardinality(Told) \in Nat
        /\ Cardinality(PendingSlots(slotState)) \in Nat
    BY Finiteness
  <2> QED BY <1>1, <1>2, <1>3, <2>1, <2>2
<1>4. ASSUME PendingSlots(slotState') = {} PROVE PendingHasWorker'
  <2>1. Told' \in SUBSET Workers
    BY DEF Told
  <2>2. Cardinality(Told') \in Nat
    BY <2>1, WorkersAssumption, FS_Subset, FS_CardinalityType
  <2> QED BY <1>2, <1>4, <2>2, FS_EmptySet
<1>5. ASSUME NEW s \in Slots, Read(s) \/ Discard(s) PROVE PendingHasWorker'
  <2>1. Told' = Told
    BY <1>5 DEF Read, Discard, workerVars, Told
  <2>2. PendingSlots(slotState') \in SUBSET PendingSlots(slotState)
    BY <1>5 DEF Read, Discard, PendingSlots, TypeOK
  <2> QED BY <1>3, <2>1, <2>2
<1>6. ASSUME NEW s \in Slots, NEW id \in Ids, Dispatch(s, id) PROVE PendingHasWorker'
  BY <1>6, DispatchPending
<1>7. ASSUME NEW s \in Slots, NEW id \in Ids,
             DispatchStartFails(s, id) \/ DispatchCopyThrows(s, id) \/ DispatchContextThrows(s, id)
      PROVE PendingHasWorker'
  <2>1. Told' = Told
    BY <1>7 DEF DispatchStartFails, DispatchCopyThrows, DispatchContextThrows, workerVars, Told
  <2>2. PendingSlots(slotState') \in SUBSET PendingSlots(slotState)
    BY <1>7 DEF DispatchStartFails, DispatchCopyThrows, DispatchContextThrows, PendingSlots, TypeOK
  <2> QED BY <1>3, <2>1, <2>2
<1>8. CASE DiscardAll
  <2>1. PendingSlots(slotState') = {}
    BY <1>8 DEF DiscardAll, PendingSlots, TypeOK
  <2> QED BY <1>4, <2>1
<1>9. ASSUME NEW c \in Callers,
             (\E id \in Ids : AwaitBegin(c, id)) \/ AwaitWake(c) \/ AwaitTimeout(c)
      PROVE PendingHasWorker'
  BY <1>3, <1>9 DEF AwaitBegin, AwaitWake, AwaitTimeout, slotVars, workerVars, Told
<1>10. ASSUME NEW w \in Workers, NEW st \in [Slots -> SlotStates], LoopTop(w, st),
              PendingSlots(st) = PendingSlots(slotState)
       PROVE PendingHasWorker'
  <2>1. CASE Claim(w, st)
    BY <1>1, <1>10, <2>1, ClaimPending
  <2>2. CASE GoIdle(w, st)
    BY <1>4, <2>2 DEF GoIdle
  <2> QED BY <1>10, <2>1, <2>2 DEF LoopTop
<1>11. ASSUME NEW w \in Workers, WorkerBegin(w) PROVE PendingHasWorker'
  BY <1>10, <1>11 DEF WorkerBegin, TypeOK
<1>12. ASSUME NEW w \in Workers, Finish(w) PROVE PendingHasWorker'
  <2> DEFINE s == wslot[w]
             st == [slotState EXCEPT ![s] =
                       IF slotState[s] = "Abandoned" THEN "Free" ELSE "Complete"]
  <2>1. s \in Slots /\ slotState[s] # "Pending"
    BY <1>12 DEF Finish, SlotOwnership, Busy, InUse
  <2>2. st \in [Slots -> SlotStates] /\ LoopTop(w, st)
    BY <1>12, <2>1 DEF Finish, TypeOK, SlotStates
  <2>3. PendingSlots(st) = PendingSlots(slotState)
    BY <2>1 DEF PendingSlots, TypeOK
  <2> QED BY <1>10, <2>2, <2>3
<1>13. ASSUME NEW w \in Workers, IdleClaim(w) PROVE PendingHasWorker'
  BY <1>1, <1>13, ClaimPending DEF IdleClaim, TypeOK
<1>14. ASSUME NEW w \in Workers, PerformReturn(w) \/ ExitThread(w) PROVE PendingHasWorker'
  <2>1. Told' = Told
    BY <1>14 DEF PerformReturn, ExitThread, Told, TypeOK
  <2>2. PendingSlots(slotState') \in SUBSET PendingSlots(slotState)
    BY <1>14 DEF PerformReturn, ExitThread, slotVars
  <2> QED BY <1>3, <2>1, <2>2
<1>15. ASSUME NEW w \in Workers, NEW why \in WaitResults, IdleExit(w, why)
       PROVE PendingHasWorker'
  BY <1>4, <1>15 DEF IdleExit, slotVars
<1>16. CASE UNCHANGED vars
  BY <1>3, <1>16 DEF vars, slotVars, workerVars, Told
<1> QED BY <1>5, <1>6, <1>7, <1>8, <1>9, <1>11, <1>12, <1>13, <1>14, <1>15, <1>16, StepCases

-----------------------------------------------------------------------------
(* The theorems. *)

\* The counters agree with the threads after every step, also when memory runs out.
THEOREM PoolCounted == Spec => []Counted
<1>1. Init => Counted
  <2> SUFFICES ASSUME Init PROVE Counted
    OBVIOUS
  <2>1. IdlePool = {} /\ LivePool = {} /\ Threads = {}
    BY DEF Init, IdlePool, LivePool, Threads
  <2>2. Cardinality({}) = 0 /\ N \in Nat
    BY FS_EmptySet, SlotsAssumption
  <2> QED BY <2>1, <2>2 DEF Init, Counted
<1>2. TypeOK /\ TypeOK' /\ Counted /\ [Next]_vars => Counted'
  BY AccountingStep
<1> QED BY <1>1, <1>2, TypeCorrect, PTL DEF Spec

\* However often memory runs out, idleWorkers_ and liveWorkers_ are the head counts
\* that Dispatch compares the pending slots with, the pool keeps to its cap, and a
\* thread that may still execute code of the DLL keeps the DLL loaded (Dispatch,
\* WorkerLoop, StartWorkerLocked).
ThreadsKeepTheModule ==
    /\ idleWorkers = Cardinality(IdlePool)
    /\ liveWorkers = Cardinality(LivePool) /\ liveWorkers <= N
    /\ Threads # {} => moduleRefs > 0

\* The DLL is not unloaded under a worker, and the pool is not overrun, even in a
\* process that has run out of memory.
THEOREM ModuleStaysLoaded == Spec => []ThreadsKeepTheModule
<1>1. TypeOK /\ Counted => ThreadsKeepTheModule
  <2> SUFFICES ASSUME TypeOK, Counted PROVE ThreadsKeepTheModule
    OBVIOUS
  <2>1. IsFiniteSet(Threads)
    <3>1. Threads \in SUBSET Workers
      BY DEF Threads
    <3> QED BY <3>1, WorkersAssumption, FS_Subset
  <2>2. Threads # {} => Cardinality(Threads) # 0
    BY <2>1, FS_EmptySet
  <2>3. Cardinality(Threads) \in Nat /\ moduleRefs \in Int
    BY <2>1, FS_CardinalityType DEF TypeOK
  <2> QED BY <2>2, <2>3 DEF Counted, ThreadsKeepTheModule
<1> QED BY <1>1, TypeCorrect, PoolCounted, PTL

\* As long as allocations succeed every reference on the DLL is a thread's, so that
\* none is lost.
THEOREM PoolAccounted == AllocMayFail = FALSE => (Spec => []PoolAccounting)
<1> SUFFICES ASSUME AllocMayFail = FALSE PROVE Spec => []PoolAccounting
  OBVIOUS
<1>1. Counted => PoolAccounting
  BY DEF Counted, PoolAccounting
<1> QED BY <1>1, PoolCounted, PTL

\* As long as allocations succeed every pending slot has a worker of its own that has
\* been told of it.
THEOREM PendingServed == AllocMayFail = FALSE => (Spec => []PendingHasWorker)
<1> SUFFICES ASSUME AllocMayFail = FALSE PROVE Spec => []PendingHasWorker
  OBVIOUS
<1>1. Init => PendingHasWorker
  <2> SUFFICES ASSUME Init PROVE PendingHasWorker
    OBVIOUS
  <2>1. PendingSlots(slotState) = {} /\ Told = {}
    BY DEF Init, PendingSlots, Told
  <2>2. Cardinality({}) = 0
    BY FS_EmptySet
  <2> QED BY <2>1, <2>2 DEF PendingHasWorker
<1>2. TypeOK /\ TypeOK' /\ SlotOwnership /\ PoolAccounting /\ PendingHasWorker /\ [Next]_vars
         => PendingHasWorker'
  BY PendingStep
<1>3. Spec => []PoolAccounting
  BY PoolAccounted
<1> QED BY <1>1, <1>2, <1>3, TypeCorrect, Ownership, PTL DEF Spec

-----------------------------------------------------------------------------
(* The table implements AsyncContract. *)

\* What the holder of a slot's id, if it has one, can still expect of it.
Status(s) == IF slotState[s] \in Reusable THEN "unknown" ELSE Meaning[slotState[s]]

\* The same for a table given by its columns.
StandingIn(st, ids) ==
    [id \in Ids |-> IF \E s \in Slots : ids[s] = id /\ st[s] \notin Reusable
                    THEN Meaning[st[CHOOSE s \in Slots : ids[s] = id /\ st[s] \notin Reusable]]
                    ELSE "unknown"]

\* An id stands as its slot does, since no other slot has it.
LEMMA StandingInValues ==
    ASSUME NEW st, NEW ids \in [Slots -> Ids],
           \A r, s \in Slots : st[r] \notin Reusable /\ st[s] \notin Reusable /\ ids[r] = ids[s]
                               => r = s
    PROVE  /\ \A s \in Slots : st[s] \notin Reusable => StandingIn(st, ids)[ids[s]] = Meaning[st[s]]
           /\ \A id \in Ids : (\A s \in Slots : st[s] \notin Reusable => ids[s] # id)
                                => StandingIn(st, ids)[id] = "unknown"
           /\ StandingIn(st, ids) = [id \in Ids |-> StandingIn(st, ids)[id]]
<1>1. ASSUME NEW s \in Slots, st[s] \notin Reusable
      PROVE  StandingIn(st, ids)[ids[s]] = Meaning[st[s]]
  <2>1. ids[s] \in Ids
    OBVIOUS
  <2>2. (CHOOSE r \in Slots : ids[r] = ids[s] /\ st[r] \notin Reusable) = s
    BY <1>1
  <2> QED BY <1>1, <2>1, <2>2 DEF StandingIn
<1>2. ASSUME NEW id \in Ids, \A s \in Slots : st[s] \notin Reusable => ids[s] # id
      PROVE  StandingIn(st, ids)[id] = "unknown"
  BY <1>2 DEF StandingIn
<1>3. StandingIn(st, ids) = [id \in Ids |-> StandingIn(st, ids)[id]]
  BY DEF StandingIn
<1> QED BY <1>1, <1>2, <1>3

\* The standing of the ids, now ...
LEMMA StandingValues ==
    ASSUME TypeOK, LiveIdsDistinct
    PROVE  /\ \A s \in Slots : Status(s) # "unknown" => Standing[slotId[s]] = Status(s)
           /\ \A id \in Ids : (\A s \in Slots : Status(s) # "unknown" => slotId[s] # id)
                                => Standing[id] = "unknown"
           /\ Standing = [id \in Ids |-> Standing[id]]
<1>1. /\ slotId \in [Slots -> Ids]
      /\ \A r, s \in Slots : slotState[r] \notin Reusable /\ slotState[s] \notin Reusable
                              /\ slotId[r] = slotId[s] => r = s
  BY DEF TypeOK, LiveIdsDistinct
<1>2. Standing = StandingIn(slotState, slotId)
  BY DEF Standing, StandingIn
<1>3. \A s \in Slots : Status(s) # "unknown" <=> slotState[s] \notin Reusable
  BY DEF Status, Meaning, TypeOK, SlotStates, Reusable
<1> QED BY <1>1, <1>2, <1>3, StandingInValues DEF Status

\* ... and after a step.
LEMMA StandingValuesNext ==
    ASSUME TypeOK', LiveIdsDistinct'
    PROVE  /\ \A s \in Slots : Status(s)' # "unknown" => Standing'[slotId'[s]] = Status(s)'
           /\ \A id \in Ids : (\A s \in Slots : Status(s)' # "unknown" => slotId'[s] # id)
                                => Standing'[id] = "unknown"
           /\ Standing' = [id \in Ids |-> Standing'[id]]
<1>1. /\ slotId' \in [Slots -> Ids]
      /\ \A r, s \in Slots : slotState'[r] \notin Reusable /\ slotState'[s] \notin Reusable
                              /\ slotId'[r] = slotId'[s] => r = s
  BY DEF TypeOK, LiveIdsDistinct
<1>2. Standing' = StandingIn(slotState', slotId')
  BY DEF Standing, StandingIn
<1>3. \A s \in Slots : Status(s)' # "unknown" <=> slotState'[s] \notin Reusable
  BY DEF Status, Meaning, TypeOK, SlotStates, Reusable
<1> QED BY <1>1, <1>2, <1>3, StandingInValues DEF Status

\* The slot s means the same to its holder after the step.
Kept(s) == Status(s)' = Status(s) /\ (Status(s) # "unknown" => slotId'[s] = slotId[s])

Tables == TypeOK /\ TypeOK' /\ LiveIdsDistinct /\ LiveIdsDistinct'

\* A step that changes the meaning of one slot changes the standing of its id only.
LEMMA OneSlotChanges ==
    ASSUME Tables, NEW s \in Slots, \A r \in Slots \ {s} : Kept(r),
           NEW id \in Ids,
           Status(s) # "unknown" => slotId[s] = id,
           Status(s)' # "unknown" => slotId'[s] = id,
           Status(s) # "unknown" \/ Status(s)' # "unknown",
           NEW CONSTANT new, Status(s)' = new
    PROVE  /\ Standing[id] = Status(s)
           /\ Contract!Becomes(id, new)
<1> USE DEF Tables
<1>1. \A r \in Slots \ {s} : Status(r) # "unknown" => slotId[r] # id
  BY DEF Kept, LiveIdsDistinct, Status, Reusable
<1>2. Standing[id] = Status(s)
  BY <1>1, StandingValues
<1>3. Standing'[id] = Status(s)'
  BY <1>1, StandingValuesNext DEF Kept
<1>4. ASSUME NEW i \in Ids \ {id} PROVE Standing'[i] = Standing[i]
  <2>1. CASE \E r \in Slots : Status(r) # "unknown" /\ slotId[r] = i
    BY <2>1, StandingValues, StandingValuesNext DEF Kept
  <2>2. CASE \A r \in Slots : Status(r) # "unknown" => slotId[r] # i
    BY <2>2, StandingValues, StandingValuesNext DEF Kept
  <2> QED BY <2>1, <2>2
<1>5. Standing' = [Standing EXCEPT ![id] = new]
  BY <1>3, <1>4, StandingValues, StandingValuesNext
<1> QED BY <1>2, <1>5 DEF Contract!Becomes

\* A step that changes the meaning of no slot changes the standing of no id.
LEMMA NoSlotChanges ==
    ASSUME Tables, \A r \in Slots : Kept(r)
    PROVE  Standing' = Standing
<1> USE DEF Tables
<1>1. ASSUME NEW i \in Ids PROVE Standing'[i] = Standing[i]
  <2>1. CASE \E r \in Slots : Status(r) # "unknown" /\ slotId[r] = i
    BY <2>1, StandingValues, StandingValuesNext DEF Kept
  <2>2. CASE \A r \in Slots : Status(r) # "unknown" => slotId[r] # i
    BY <2>2, StandingValues, StandingValuesNext DEF Kept
  <2> QED BY <2>1, <2>2
<1> QED BY <1>1, StandingValues, StandingValuesNext

\* The instance brings its own copy of FiniteSets.
LEMMA SameCardinality == \A S : Contract!Cardinality(S) = Cardinality(S)
  BY DEF Contract!Cardinality, Cardinality

\* As long as a slot is reusable the capacity is not used up.
LEMMA ReusableIsRoom ==
    ASSUME TypeOK, LiveIdsDistinct, NEW s \in Slots, slotState[s] \in Reusable
    PROVE  Contract!Occupied < N
<1> DEFINE taken == {id \in Ids : Standing[id] # "unknown"}
           rest == Slots \ {s}
           slotOf == [id \in taken |-> CHOOSE r \in Slots : slotId[r] = id /\ Status(r) # "unknown"]
<1>1. \A id \in taken : \E r \in Slots : slotId[r] = id /\ Status(r) # "unknown"
  BY StandingValues
<1>2. \A id \in taken : slotOf[id] \in Slots /\ slotId[slotOf[id]] = id /\ Status(slotOf[id]) # "unknown"
  BY <1>1
<1>3. slotOf \in [taken -> rest]
  BY <1>2 DEF Status
<1>4. slotOf \in Injection(taken, rest)
  <2>1. \A i, j \in taken : slotOf[i] = slotOf[j] => i = j
    BY <1>2
  <2> HIDE DEF slotOf, taken, rest
  <2> QED BY <1>3, <2>1 DEF Injection, IsInjective
<1>5. IsFiniteSet(rest) /\ Cardinality(rest) = N - 1
  <2>1. IsFiniteSet(Slots) /\ Cardinality(Slots) = N
    BY SlotsAssumption, FS_Interval DEF Slots
  <2> QED BY <2>1, FS_RemoveElement
<1>6. IsFiniteSet(rest) /\ Cardinality(taken) <= N - 1 /\ Cardinality(taken) \in Nat
  <2> HIDE DEF slotOf, taken, rest
  <2> QED BY <1>4, <1>5, FS_Injection, FS_CardinalityType
<1>7. Contract!Occupied = Cardinality(taken)
  BY SameCardinality DEF Contract!Occupied
<1> HIDE DEF taken
<1> QED BY <1>6, <1>7, SlotsAssumption

\* An empty table is an empty contract.
LEMMA InitContract == Init => Contract!Init
<1> SUFFICES ASSUME Init PROVE Contract!Init
  OBVIOUS
<1>1. \A s \in Slots : slotState[s] \in Reusable
  BY DEF Init, Reusable
<1>2. Standing = [id \in Ids |-> "unknown"]
  BY <1>1 DEF Standing
<1> QED BY <1>2 DEF Contract!Init, Init

\* A slot filled for a new id.
LEMMA FillAccepts ==
    ASSUME Tables, NEW s \in Slots, NEW id \in Ids, Fill(s, id),
           slotState' = [slotState EXCEPT ![s] = "Pending"], awaiting' = awaiting
    PROVE  Contract!Accept(id)
<1>1. slotState[s] \in Reusable /\ id # 0
  BY MintedInRange DEF Fill, IsFirst
<1>2. \A r \in Slots \ {s} : Kept(r)
  BY DEF Fill, IdsFreed, Kept, Status, Tables, TypeOK
<1>3. Status(s) = "unknown" /\ Status(s)' = "outstanding" /\ slotId'[s] = id
  BY <1>1 DEF Fill, IdsFreed, Status, Meaning, Reusable, Tables, TypeOK
<1>4. Standing[id] = "unknown" /\ Contract!Becomes(id, "outstanding")
  BY <1>2, <1>3, OneSlotChanges
<1> QED BY <1>1, <1>4, ReusableIsRoom DEF Contract!Accept, Tables

\* A table that changed in reusable slots only.
LEMMA FailedDispatchSilent ==
    ASSUME Tables, NEW s \in Slots, NEW id \in Ids,
           DispatchStartFails(s, id) \/ DispatchCopyThrows(s, id)
    PROVE  UNCHANGED <<Standing, awaiting>>
<1>1. slotState[s] \in Reusable /\ slotState'[s] \in Reusable /\ awaiting' = awaiting
  BY DEF DispatchStartFails, DispatchCopyThrows, Fill, IsFirst, Reusable, callerVars, Tables, TypeOK
<1>2. \A r \in Slots \ {s} : slotState'[r] = slotState[r] /\ slotId'[r] = slotId[r]
  <2>1. /\ slotState \in [Slots -> SlotStates] /\ IdsFreed({s}) \in [Slots -> Ids]
        /\ \A r \in Slots \ {s} : IdsFreed({s})[r] = slotId[r]
    <3>1. slotState \in [Slots -> SlotStates] /\ slotId \in [Slots -> Ids]
      BY DEF Tables, TypeOK
    <3>2. 0 \in Ids  BY ZeroInRange
    <3>3. \A r \in Slots : IF r \in {s} THEN 0 \in Ids ELSE slotId[r] \in Ids  BY <3>1, <3>2
    <3>4. IdsFreed({s}) \in [Slots -> Ids]  BY <3>3 DEF IdsFreed
    <3>5. \A r \in Slots \ {s} : IdsFreed({s})[r] = slotId[r]  BY DEF IdsFreed
    <3> QED BY <3>1, <3>4, <3>5
  <2>2. CASE DispatchStartFails(s, id)
    <3>1. slotState' = [slotState EXCEPT ![s] = "Free"] /\ slotId' = IdsFreed({s})
      BY <2>2 DEF DispatchStartFails, FreeSlotContents
    <3> QED BY <2>1, <3>1
  <2>3. CASE DispatchCopyThrows(s, id)
    <3>1. slotState' = slotState /\ slotId' = [IdsFreed({s}) EXCEPT ![s] = id]
      BY <2>3 DEF DispatchCopyThrows, Fill
    <3> QED BY <2>1, <3>1
  <2> QED BY <2>2, <2>3
<1>3. \A r \in Slots : Kept(r)
  BY <1>1, <1>2 DEF Kept, Status
<1> QED BY <1>1, <1>3, NoSlotChanges

\* Read hands an answer over once.
LEMMA ReadConsumes ==
    ASSUME Tables, NEW s \in Slots, Read(s)
    PROVE  Contract!Consume(slotId[s])
<1>1. \A r \in Slots \ {s} : Kept(r)
  BY DEF Read, Kept, Status, Tables, TypeOK
<1>2. Status(s) = "complete" /\ Status(s)' = "unknown" /\ slotId[s] \in Ids
  BY DEF Read, Status, Meaning, Reusable, Tables, TypeOK
<1>3. Standing[slotId[s]] = "complete" /\ Contract!Becomes(slotId[s], "unknown")
  BY <1>1, <1>2, OneSlotChanges
<1> QED BY <1>3 DEF Contract!Consume, Read, callerVars

\* Discard forgets a request, and cancels it if it has started.
LEMMA DiscardDrops ==
    ASSUME Tables, NEW s \in Slots, Discard(s)
    PROVE  Contract!Drop(slotId[s])
<1>1. \A r \in Slots \ {s} : Kept(r)
  BY DEF Discard, Kept, Status, Tables, TypeOK
<1>2. /\ slotId[s] \in Ids /\ slotId'[s] = slotId[s]
      /\ Status(s) \in {"outstanding", "complete"}
      /\ \/ Status(s)' = "unknown"
         \/ Status(s)' = "cancelled" /\ Status(s) = "outstanding"
  BY DEF Discard, IsLiveSlot, Live, Status, Meaning, Reusable, Tables, TypeOK
<1>3. CASE Status(s)' = "unknown"
  <2>1. Standing[slotId[s]] = Status(s) /\ Contract!Becomes(slotId[s], "unknown")
    BY <1>1, <1>2, <1>3, OneSlotChanges
  <2> QED BY <1>2, <2>1 DEF Contract!Drop, Discard
<1>4. CASE Status(s)' = "cancelled" /\ Status(s) = "outstanding"
  <2>1. Standing[slotId[s]] = Status(s) /\ Contract!Becomes(slotId[s], "cancelled")
    BY <1>1, <1>2, <1>4, OneSlotChanges
  <2> QED BY <1>2, <1>4, <2>1 DEF Contract!Drop, Discard
<1> QED BY <1>2, <1>3, <1>4

\* DiscardAll forgets them all, and cancels those that have started.
LEMMA DiscardAllDrops ==
    ASSUME Tables, DiscardAll
    PROVE  Contract!DropAll
<1> DEFINE running == {s \in Slots : slotState[s] = "Running"}
           started == {slotId[s] : s \in running}
<1>1. \A s \in Slots :
        /\ s \in running => Status(s) = "outstanding" /\ Status(s)' = "cancelled"
        /\ Status(s) = "cancelled" => Status(s)' = "cancelled"
        /\ Status(s)' # "unknown" => (s \in running \/ Status(s) = "cancelled")
                                       /\ Status(s)' = "cancelled"
        /\ Status(s)' # "unknown" => slotId'[s] = slotId[s]
  BY DEF DiscardAll, IdsFreed, Status, Meaning, Reusable, SlotStates, Tables, TypeOK
<1>2. started \in SUBSET {id \in Ids : Standing[id] = "outstanding"}
  BY <1>1, StandingValues DEF Tables, TypeOK
<1>3. ASSUME NEW id \in Ids
      PROVE  Standing'[id] = IF id \in started \/ Standing[id] = "cancelled"
                             THEN "cancelled" ELSE "unknown"
  <2>1. ASSUME NEW s \in Slots, Status(s)' # "unknown", slotId'[s] = id
        PROVE  Standing'[id] = "cancelled" /\ (id \in started \/ Standing[id] = "cancelled")
    BY <1>1, <2>1, StandingValues, StandingValuesNext DEF Tables
  <2>2. ASSUME \A s \in Slots : Status(s)' # "unknown" => slotId'[s] # id
        PROVE  Standing'[id] = "unknown" /\ ~(id \in started \/ Standing[id] = "cancelled")
    <3>1. Standing'[id] = "unknown"
      BY <2>2, StandingValuesNext DEF Tables
    <3>2. id \notin started
      BY <1>1, <2>2
    <3>3. Standing[id] # "cancelled"
      BY <1>1, <2>2, StandingValues DEF Tables
    <3> QED BY <3>1, <3>2, <3>3
  <2> QED BY <2>1, <2>2
<1>4. Standing' = [id \in Ids |-> IF id \in started \/ Standing[id] = "cancelled"
                                  THEN "cancelled" ELSE "unknown"]
  BY <1>3, StandingValuesNext DEF Tables
<1>5. awaiting' = awaiting
  BY DEF DiscardAll
<1> HIDE DEF started
<1> QED BY <1>2, <1>4, <1>5 DEF Contract!DropAll

\* What Outstanding says of the table is what its standing says of an id.
LEMMA OutstandingStands ==
    ASSUME TypeOK, LiveIdsDistinct, NEW id \in Ids, Outstanding(id)
    PROVE  Standing[id] = "outstanding"
<1>1. PICK s \in Slots : IsLiveSlot(s, id) /\ slotState[s] # "Complete"
  BY DEF Outstanding
<1>2. Status(s) = "outstanding" /\ slotId[s] = id
  BY <1>1 DEF IsLiveSlot, Live, Status, Meaning, Reusable
<1> QED BY <1>2, StandingValues

\* Await blocks on an outstanding id only, and leaves the table alone.
LEMMA AwaitWaits ==
    ASSUME TypeOK, LiveIdsDistinct, NEW c \in Callers,
           \/ awaiting[c] = 0 /\ \E id \in Ids : AwaitBegin(c, id)
           \/ AwaitWake(c)
           \/ AwaitTimeout(c)
    PROVE  \/ \E id \in Ids : Contract!Block(c, id)
           \/ Contract!Return(c)
           \/ UNCHANGED <<Standing, awaiting>>
<1>1. Standing' = Standing
  BY DEF AwaitBegin, AwaitWake, AwaitTimeout, slotVars, Standing
<1>2. ASSUME awaiting[c] = 0, NEW id \in Ids, AwaitBegin(c, id)
      PROVE  Contract!Block(c, id)
  BY <1>1, <1>2, OutstandingStands DEF AwaitBegin, Contract!Block
<1>3. ASSUME AwaitWake(c)
      PROVE  Contract!Return(c) \/ UNCHANGED <<Standing, awaiting>>
  BY <1>1, <1>3 DEF AwaitWake, Contract!Return, TypeOK
<1>4. ASSUME AwaitTimeout(c)
      PROVE  Contract!Return(c)
  BY <1>1, <1>4 DEF AwaitTimeout, Contract!Return
<1> QED BY <1>2, <1>3, <1>4

\* Claiming a slot changes nothing for the holder of its id.
LEMMA ClaimSilent ==
    ASSUME Tables, NEW w \in Workers, WorkerBegin(w) \/ IdleClaim(w)
    PROVE  UNCHANGED <<Standing, awaiting>>
<1>1. /\ slotId' = slotId /\ awaiting' = awaiting
      /\ \/ slotState' = slotState
         \/ \E s \in Slots : slotState[s] = "Pending"
                              /\ slotState' = [slotState EXCEPT ![s] = "Running"]
  BY LoopTopTable DEF WorkerBegin, IdleClaim, LoopTop, Claim, IsFirst, callerVars
<1>2. \A r \in Slots : Kept(r)
  BY <1>1 DEF Kept, Status, Meaning, Reusable, Tables, TypeOK
<1> QED BY <1>1, <1>2, NoSlotChanges

\* A worker's return answers its request or gives back the capacity of a cancelled one,
\* whatever it claims next.
LEMMA FinishAnswers ==
    ASSUME Tables, SlotOwnership, NEW w \in Workers, Finish(w)
    PROVE  \E id \in Ids : Contract!Answer(id) \/ Contract!Drain(id)
<1> PICK s \in Slots : s = wslot[w] /\ slotState[s] \in {"Running", "Abandoned"}
  BY DEF Finish, SlotOwnership, Busy, InUse
<1> DEFINE st == [slotState EXCEPT ![s] =
                     IF slotState[s] = "Abandoned" THEN "Free" ELSE "Complete"]
<1>1. slotId[s] \in Ids
  BY DEF Tables, TypeOK
<1>2. LoopTop(w, st) /\ awaiting' = awaiting
  BY DEF Finish, LoopTop
<1>3. st \in [Slots -> SlotStates]
  BY <1>1 DEF Tables, TypeOK, SlotStates
<1>4. /\ \A r \in Slots \ {s} : st[r] = slotState[r]
      /\ st[s] = IF slotState[s] = "Abandoned" THEN "Free" ELSE "Complete"
  BY <1>1 DEF Tables, TypeOK
<1>5. /\ \A r \in Slots \ {s} : slotId'[r] = slotId[r]
      /\ slotState[s] # "Abandoned" => slotId'[s] = slotId[s]
  BY <1>1 DEF Finish, FreeSlotContents, IdsFreed, Tables, TypeOK
<1> HIDE DEF st
<1>6. /\ slotState'[s] = st[s]
      /\ \A r \in Slots \ {s} : \/ slotState'[r] = slotState[r]
                                \/ slotState[r] = "Pending" /\ slotState'[r] = "Running"
  BY <1>1, <1>2, <1>3, <1>4, LoopTopTable
<1>7. \A r \in Slots \ {s} : Kept(r)
  BY <1>5, <1>6 DEF Kept, Status, Meaning, Reusable
<1>8. CASE slotState[s] = "Abandoned"
  <2>1. Status(s) = "cancelled" /\ Status(s)' = "unknown"
    BY <1>4, <1>6, <1>8 DEF Status, Meaning, Reusable
  <2>2. Standing[slotId[s]] = "cancelled" /\ Contract!Becomes(slotId[s], "unknown")
    BY <1>1, <1>7, <2>1, OneSlotChanges
  <2> QED BY <1>1, <1>2, <2>2 DEF Contract!Drain
<1>9. CASE slotState[s] = "Running"
  <2>1. Status(s) = "outstanding" /\ Status(s)' = "complete" /\ slotId'[s] = slotId[s]
    BY <1>4, <1>5, <1>6, <1>9 DEF Status, Meaning, Reusable
  <2>2. Standing[slotId[s]] = "outstanding" /\ Contract!Becomes(slotId[s], "complete")
    BY <1>1, <1>7, <2>1, OneSlotChanges
  <2> QED BY <1>1, <1>2, <2>2 DEF Contract!Answer
<1> QED BY <1>1, <1>8, <1>9

\* Every step of the engine is a step of the contract or none.
LEMMA StepContract ==
    ASSUME TypeOK, TypeOK', LiveIdsDistinct, LiveIdsDistinct', SlotOwnership, [Next]_vars
    PROVE  [Contract!Next]_(Contract!vars)
<1> SUFFICES Contract!Next \/ UNCHANGED <<Standing, awaiting>>
  BY DEF Contract!vars
<1>1. Tables
  BY DEF Tables
<1>2. \A s \in Slots : slotId[s] \in Ids
  BY DEF TypeOK
<1>3. ASSUME NEW s \in Slots, Read(s) \/ Discard(s)
      PROVE  Contract!Next
  BY <1>1, <1>2, <1>3, ReadConsumes, DiscardDrops DEF Contract!Next
<1>4. ASSUME NEW s \in Slots, NEW id \in Ids, Dispatch(s, id) \/ DispatchContextThrows(s, id)
      PROVE  Contract!Next
  <2>1. /\ Fill(s, id) /\ awaiting' = awaiting
        /\ slotState' = [slotState EXCEPT ![s] = "Pending"]
    BY <1>4 DEF Dispatch, DispatchContextThrows, callerVars
  <2> QED BY <1>1, <2>1, FillAccepts DEF Contract!Next
<1>5. ASSUME NEW s \in Slots, NEW id \in Ids,
             DispatchStartFails(s, id) \/ DispatchCopyThrows(s, id)
      PROVE  UNCHANGED <<Standing, awaiting>>
  BY <1>1, <1>5, FailedDispatchSilent
<1>6. CASE DiscardAll
  BY <1>1, <1>6, DiscardAllDrops DEF Contract!Next
<1>7. ASSUME NEW c \in Callers,
             \/ awaiting[c] = 0 /\ \E id \in Ids : AwaitBegin(c, id)
             \/ AwaitWake(c) \/ AwaitTimeout(c)
      PROVE  Contract!Next \/ UNCHANGED <<Standing, awaiting>>
  BY <1>7, AwaitWaits DEF Contract!Next
<1>8. ASSUME NEW w \in Workers, WorkerBegin(w) \/ IdleClaim(w)
      PROVE  UNCHANGED <<Standing, awaiting>>
  BY <1>1, <1>8, ClaimSilent
<1>9. ASSUME NEW w \in Workers, Finish(w)
      PROVE  Contract!Next
  BY <1>1, <1>9, FinishAnswers DEF Contract!Next
<1>10. ASSUME NEW w \in Workers,
              \/ PerformReturn(w) \/ ExitThread(w)
              \/ \E why \in WaitResults : IdleExit(w, why)
       PROVE  UNCHANGED <<Standing, awaiting>>
  <2>1. UNCHANGED <<slotState, slotId, awaiting>>
    BY <1>10 DEF PerformReturn, ExitThread, IdleExit, slotVars, callerVars
  <2> QED BY <2>1 DEF Standing
<1>11. CASE UNCHANGED vars
  BY <1>11 DEF vars, slotVars, callerVars, Standing
<1> QED BY <1>3, <1>4, <1>5, <1>6, <1>7, <1>8, <1>9, <1>10, <1>11, StepCases

\* The table, its workers and its waiters implement the contract, whether or not
\* threads fail to start or memory runs out.
THEOREM EngineImplementsContract == Spec => ImplementsContract
<1>1. TableInv /\ TableInv' /\ [Next]_vars => [Contract!Next]_(Contract!vars)
  BY StepContract DEF TableInv
<1> QED BY <1>1, InitContract, TableInvariant, PTL
        DEF Spec, ImplementsContract, Contract!Spec
=============================================================================
