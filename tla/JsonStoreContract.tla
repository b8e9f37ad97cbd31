-------------------------- MODULE JsonStoreContract --------------------------
(***************************************************************************)
(* What the document calls promise a CAPL script, without slots or a        *)
(* counter (the interface of src/src/mapping/json-document-store.h): at     *)
(* most Capacity documents, each under an id of its own until it is         *)
(* discarded, and an answer to every call that agrees with them.            *)
(***************************************************************************)
EXTENDS Integers, FiniteSets

CONSTANTS Capacity,     \* kJsonDocumentSlotCount
          Ids,          \* the ids, 0 among them
          Documents,
          NoDocument,
          Statuses

VARIABLES held,         \* the documents, by id: a function on the ids in use
          answer        \* the last call's status, document and number

vars == <<held, answer>>

Taken == DOMAIN held
Answers(status, doc, number) == answer' = [status |-> status, of |-> doc, number |-> number]

Init == /\ held = [id \in {} |-> NoDocument]
        /\ answer = [status |-> "Ok", of |-> NoDocument, number |-> 0]

\* Parse stores a document under an id nobody holds ...
Store(id, doc) ==
    /\ id # 0 /\ id \notin Taken
    /\ Cardinality(Taken) < Capacity
    /\ held' = [i \in Taken \cup {id} |-> IF i = id THEN doc ELSE held[i]]
    /\ Answers("Ok", doc, 0)

\* ... or refuses, for want of a slot only when Capacity documents are held.
Refuse(status) ==
    /\ status = "NoFreeDocumentSlot" => Cardinality(Taken) = Capacity
    /\ status \notin {"Ok", "UnknownDocumentId"}
    /\ Answers(status, NoDocument, 0)
    /\ UNCHANGED held

\* A call under an id that is held answers from that document, which may be its
\* number of entries, or says what else is wrong; any other id is unknown.
Look(id, status) ==
    /\ IF id \in Taken
       THEN /\ status # "UnknownDocumentId"
            /\ \/ \E number \in {0, held[id].entries} : Answers(status, held[id], number)
               \/ status # "Ok" /\ Answers(status, NoDocument, 0)
       ELSE status # "Ok" /\ Answers(status, NoDocument, 0)
    /\ UNCHANGED held

Forget(id) ==
    /\ id \in Taken
    /\ held' = [i \in Taken \ {id} |-> held[i]]
    /\ Answers("Ok", held[id], 0)

ForgetAll ==
    /\ held' = [i \in {} |-> NoDocument]
    /\ Answers("Ok", NoDocument, Cardinality(Taken))

Next == \/ \E id \in Ids : \/ \E doc \in Documents : Store(id, doc)
                           \/ \E status \in Statuses : Look(id, status)
                           \/ Forget(id)
        \/ \E status \in Statuses : Refuse(status)
        \/ ForgetAll

Spec == Init /\ [][Next]_vars
=============================================================================
