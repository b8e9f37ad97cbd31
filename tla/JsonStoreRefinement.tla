------------------------- MODULE JsonStoreRefinement -------------------------
(* The table of documents implements JsonStoreContract. *)
EXTENDS JsonDocumentStore

\* The documents by id, in a table of flags, ids and documents.
ByIdIn(flags, ids, docs) ==
    [id \in {ids[s] : s \in {r \in Slots : flags[r]}} |->
        docs[CHOOSE s \in Slots : flags[s] /\ ids[s] = id]]

Held == ByIdIn(occupied, slotId, stored)
Answer == [status |-> reply.status, of |-> reply.of, number |-> reply.number]

Contract == INSTANCE JsonStoreContract
                WITH Capacity <- SlotCount, held <- Held, answer <- Answer

\* Every behaviour of the store, seen through ids and answers alone, is one the
\* contract allows: an id is never taken over while it is in use, an answer comes
\* from the document of the id that was asked for, a slot is refused only when all
\* are taken, and DiscardAll reports the documents it frees.
ImplementsContract == Contract!Spec
=============================================================================
