---------------------------- MODULE AsyncContract ----------------------------
(***************************************************************************)
(* What the asynchronous exports promise a CAPL script, without slots,      *)
(* threads or locks (the interface of src/src/http/async-operations.h).  An *)
(* id that was handed out is outstanding, then complete until it is read or *)
(* discarded; a request cancelled while it runs is unknown to the script    *)
(* but keeps its share of the capacity, and its id, until it has stopped.   *)
(***************************************************************************)
EXTENDS Integers, FiniteSets

CONSTANTS N,        \* capacity: kAsyncRequestSlotCount
          Ids,      \* the ids, 0 among them
          Callers   \* CAPL threads

VARIABLES standing, \* of each id: unknown, outstanding, complete or cancelled
          waiting   \* the id a CAPL thread is blocked on in Await, or 0

vars == <<standing, waiting>>

Becomes(id, state) == standing' = [standing EXCEPT ![id] = state]
Occupied == Cardinality({id \in Ids : standing[id] # "unknown"})

Init == /\ standing = [id \in Ids |-> "unknown"]
        /\ waiting = [c \in Callers |-> 0]

\* Dispatch accepts a request under an id nobody holds, within the capacity.
Accept(id) == /\ id # 0 /\ standing[id] = "unknown" /\ Occupied < N
              /\ Becomes(id, "outstanding")
              /\ UNCHANGED waiting

\* The request ends, well or badly.
Answer(id) == /\ standing[id] = "outstanding"
              /\ Becomes(id, "complete")
              /\ UNCHANGED waiting

\* Read hands the outcome over, once.
Consume(id) == /\ standing[id] = "complete"
               /\ Becomes(id, "unknown")
               /\ UNCHANGED waiting

\* Discard: the request is forgotten, and cancelled if it had started.
Drop(id) == /\ standing[id] \in {"outstanding", "complete"}
            /\ \/ Becomes(id, "unknown")
               \/ standing[id] = "outstanding" /\ Becomes(id, "cancelled")
            /\ UNCHANGED waiting

\* DiscardAll: every request is forgotten; those that had started are cancelled.
DropAll ==
    /\ \E started \in SUBSET {id \in Ids : standing[id] = "outstanding"} :
          standing' = [id \in Ids |-> IF id \in started \/ standing[id] = "cancelled"
                                      THEN "cancelled" ELSE "unknown"]
    /\ UNCHANGED waiting

\* A cancelled request stops, and its capacity comes back.
Drain(id) == /\ standing[id] = "cancelled"
             /\ Becomes(id, "unknown")
             /\ UNCHANGED waiting

\* Await blocks on an outstanding request only; it returns when the request is no
\* longer outstanding, or on its timeout.
Block(c, id) == /\ waiting[c] = 0 /\ standing[id] = "outstanding"
                /\ waiting' = [waiting EXCEPT ![c] = id]
                /\ UNCHANGED standing
Return(c) == /\ waiting[c] # 0
             /\ waiting' = [waiting EXCEPT ![c] = 0]
             /\ UNCHANGED standing

Next == \/ \E id \in Ids : \/ Accept(id) \/ Answer(id) \/ Consume(id)
                           \/ Drop(id) \/ Drain(id)
                           \/ \E c \in Callers : Block(c, id)
        \/ DropAll
        \/ \E c \in Callers : Return(c)

Spec == Init /\ [][Next]_vars
=============================================================================
