--------------------------- MODULE AsyncRefinement ---------------------------
(* The slot table, its workers and its waiters implement AsyncContract. *)
EXTENDS AsyncEngine

\* What a slot's state means to the holder of its id.
Meaning == [Pending |-> "outstanding", Running |-> "outstanding",
            Complete |-> "complete", Abandoned |-> "cancelled"]

Standing ==
    [id \in Ids |-> IF \E s \in Slots : slotId[s] = id /\ slotState[s] \notin Reusable
                    THEN Meaning[slotState[CHOOSE s \in Slots :
                                     slotId[s] = id /\ slotState[s] \notin Reusable]]
                    ELSE "unknown"]

Contract == INSTANCE AsyncContract WITH standing <- Standing, waiting <- awaiting

\* Every behaviour of the engine, seen through the ids alone, is one the contract
\* allows: no id answers twice, is taken over while in use, or comes back after a
\* discard, and the capacity is never exceeded.
ImplementsContract == Contract!Spec
=============================================================================
