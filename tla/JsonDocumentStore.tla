-------------------------- MODULE JsonDocumentStore --------------------------
(***************************************************************************)
(* The store of parsed JSON documents (src/src/mapping/json-document-store   *)
(* .cpp) behind the calls of src/src/mapping/json-text-api.cpp: a table of  *)
(* SlotCount slots under one mutex, shared by every CAPL script that uses   *)
(* the DLL.                                                                *)
(*                                                                         *)
(* One action is one call.  Each takes the mutex once; what it does before  *)
(* (checking and flattening text, parsing a path) and after (freeing a      *)
(* document) touches nothing shared.  A document is its number of entries   *)
(* and the position of the id counter when it was stored, which tells it    *)
(* from every other document; the calls' texts are classes of inputs.       *)
(***************************************************************************)
EXTENDS Integers, FiniteSets

CONSTANTS
    SlotCount,      \* kJsonDocumentSlotCount
    Scripts,        \* CAPL scripts, each with a documentId and an entryCount variable
    EntryCounts,    \* how many entries a parsed document may have
    IdModulus,      \* 2^32: width of the id counter
    StepBound       \* bound on the steps of the id counter

ASSUME SlotCountAssumption == SlotCount \in Nat \ {0}
ASSUME EntryCountsAssumption == EntryCounts \subseteq Nat \ {0}
ASSUME ModulusAssumption == IdModulus \in Nat /\ IdModulus > SlotCount
ASSUME StepBoundAssumption == StepBound \in Nat

Slots == 1..SlotCount
Ids == 0..(IdModulus - 1)
Unseeded == -1                      \* nextId before the first mint

Documents == [serial : 1..StepBound, entries : EntryCounts]
NoDocument == [serial |-> 0, entries |-> 0]

BufferSizes == {"null", "small", "enough"}
BufferTexts == {"untouched", "empty", "text"}
Paths == {"malformed", "missing", "leaf", "container"}
Operations == {"Parse", "CountEntries", "ReadEntry", "ReadValue", "ReadTyped",
               "Discard", "DiscardAll"}
Statuses == {"Ok", "InvalidArgument", "BufferTooSmall", "ParseError", "PathSyntaxError",
             "PathNotFound", "IndexOutOfRange", "TypeMismatch", "NoFreeDocumentSlot",
             "UnknownDocumentId", "InternalError"}

\* Indices up to one past the end of the longest document.
Indices == {0} \cup EntryCounts

Replies == [by : Scripts, op : Operations, status : Statuses,
            of : Documents \cup {NoDocument}, index : Indices, number : Nat,
            out : {0, 1}, key : BufferTexts, value : BufferTexts]

VARIABLES
    occupied,   \* Slot::occupied
    slotId,     \* Slot::id
    stored,     \* Slot::result
    nextId,     \* nextId_, Unseeded while idSeeded_ is false
    steps,      \* history: how often nextId_ has been incremented
    handle,     \* a script's documentId: the out-parameter of its last Parse
    opened,     \* history: the document that Parse stored
    counted,    \* a script's entryCount: what it was told since that Parse, or 0
    reply       \* the last call: who made it, and what it returned and wrote

storeVars == <<occupied, slotId, stored, nextId, steps>>
scriptVars == <<handle, opened, counted>>
vars == <<storeVars, scriptVars, reply>>

-----------------------------------------------------------------------------
(* The table. *)

\* Fault: a document may be stored over another.
BugAnySlot(s) == s \in Slots

FirstFree(s) == ~occupied[s] /\ \A r \in Slots : ~occupied[r] => s <= r

IsLiveSlot(s, id) == id # 0 /\ occupied[s] /\ slotId[s] = id
IsLive(id) == \E s \in Slots : IsLiveSlot(s, id)

\* Fault: minting does not look for the id among the stored documents.
BugNoScan(id) == FALSE

IsIdLive(id) == \E s \in Slots : occupied[s] /\ slotId[s] = id

\* MintIdLocked returns id after k increments of nextId_ that came to nothing.
\* A counter that is not seeded starts anywhere.
Passes(from, k, id) ==
    /\ id = (from + k) % IdModulus
    /\ id # 0 /\ ~IsIdLive(id)
    /\ \A j \in 0..(k - 1) : LET v == (from + j) % IdModulus
                             IN  v = 0 \/ IsIdLive(v)

\* Faults: the lowest id that is not live; a counter without a width.
BugMintLowest(k, id) ==
    /\ k = 0
    /\ id # 0 /\ ~IsIdLive(id) /\ \A i \in 1..(id - 1) : IsIdLive(i)
    /\ nextId' = 0
    /\ steps < StepBound /\ steps' = steps + 1
BugMintUnwrapped(k, id) ==
    /\ \E from \in (IF nextId = Unseeded THEN Ids ELSE {nextId}) : Passes(from, k, id)
    /\ nextId' = id + 1
    /\ steps + k < StepBound /\ steps' = steps + k + 1

Mint(k, id) ==
    /\ \E from \in (IF nextId = Unseeded THEN Ids ELSE {nextId}) : Passes(from, k, id)
    /\ nextId' = (id + 1) % IdModulus
    /\ steps + k < StepBound /\ steps' = steps + k + 1

-----------------------------------------------------------------------------
(* Replies.  In a Silent one every number is 0 and no buffer is written; out   *)
(* is the out-parameter of a read, 1 standing for whatever is written there.  *)

Silent(c, op, status) ==
    [by |-> c, op |-> op, status |-> status, of |-> NoDocument, index |-> 0,
     number |-> 0, out |-> 0, key |-> "untouched", value |-> "untouched"]

Written(status) == IF status = "Ok" THEN 1 ELSE 0

CopyStatus(size) == IF size = "null" THEN "InvalidArgument"
                    ELSE IF size = "small" THEN "BufferTooSmall" ELSE "Ok"
CopyText(size) == IF size = "null" THEN "untouched"
                  ELSE IF size = "small" THEN "empty" ELSE "text"

\* Fault: the buffer that would have fitted keeps its text.
BugCopyEntryTexts(ks, vs) ==
    IF "null" \in {ks, vs}
    THEN [status |-> "InvalidArgument", key |-> "untouched", value |-> "untouched"]
    ELSE IF ks = "enough" /\ vs = "enough"
    THEN [status |-> "Ok", key |-> "text", value |-> "text"]
    ELSE [status |-> "BufferTooSmall", key |-> CopyText(ks), value |-> CopyText(vs)]

CopyEntryTexts(ks, vs) ==
    IF "null" \in {ks, vs}
    THEN [status |-> "InvalidArgument", key |-> "untouched", value |-> "untouched"]
    ELSE IF ks = "enough" /\ vs = "enough"
    THEN [status |-> "Ok", key |-> "text", value |-> "text"]
    ELSE [status |-> "BufferTooSmall", key |-> "empty", value |-> "empty"]

-----------------------------------------------------------------------------
(* Calls. *)

\* The text is flattened to n entries and a slot is free.
Parse(c, s, n, k, id) ==
    /\ FirstFree(s)
    /\ Mint(k, id)
    /\ LET doc == [serial |-> steps', entries |-> n]
       IN  /\ stored' = [stored EXCEPT ![s] = doc]
           /\ opened' = [opened EXCEPT ![c] = doc]
           /\ reply' = [Silent(c, "Parse", "Ok") EXCEPT !.of = doc]
    /\ slotId' = [slotId EXCEPT ![s] = id]
    /\ occupied' = [occupied EXCEPT ![s] = TRUE]
    /\ handle' = [handle EXCEPT ![c] = id]
    /\ counted' = [counted EXCEPT ![c] = 0]

\* No slot is free, or the text is rejected: documentId, set to 0 on entry, stays
\* 0, whatever the script kept in that variable.
ParseFails(c, status) ==
    /\ \/ status = "NoFreeDocumentSlot" /\ \A s \in Slots : occupied[s]
       \/ status \in {"InvalidArgument", "ParseError", "InternalError"}
    /\ handle' = [handle EXCEPT ![c] = 0]
    /\ opened' = [opened EXCEPT ![c] = NoDocument]
    /\ counted' = [counted EXCEPT ![c] = 0]
    /\ reply' = Silent(c, "Parse", status)
    /\ UNCHANGED storeVars

CountEntries(c) ==
    /\ \/ \E s \in Slots :
             /\ IsLiveSlot(s, handle[c])
             /\ counted' = [counted EXCEPT ![c] = stored[s].entries]
             /\ reply' = [Silent(c, "CountEntries", "Ok") EXCEPT
                             !.of = stored[s], !.number = stored[s].entries]
       \/ /\ ~IsLive(handle[c])
          /\ counted' = [counted EXCEPT ![c] = 0]
          /\ reply' = Silent(c, "CountEntries", "UnknownDocumentId")
    /\ UNCHANGED <<storeVars, handle, opened>>

ReadEntry(c, i, ks, vs) ==
    /\ LET unread(status) == [Silent(c, "ReadEntry", status) EXCEPT !.index = i]
           copied == CopyEntryTexts(ks, vs)
       IN  \/ \E s \in Slots :
                 /\ IsLiveSlot(s, handle[c])
                 /\ reply' = IF i >= stored[s].entries THEN unread("IndexOutOfRange")
                             ELSE [unread(copied.status) EXCEPT
                                     !.of = stored[s], !.out = Written(copied.status),
                                     !.key = copied.key, !.value = copied.value]
           \/ ~IsLive(handle[c]) /\ reply' = unread("UnknownDocumentId")
    /\ UNCHANGED <<storeVars, scriptVars>>

\* What ResolvePath and DescribeLeaf, or the conversion to a number, make of a path.
\* PathNotFound stands for IndexOutOfRange too, TypeMismatch for every reason a
\* conversion refuses a value; InvalidArgument, in all calls, for a text without NUL.
PathStatus(path) == IF path = "malformed" THEN "PathSyntaxError"
                    ELSE IF path = "missing" THEN "PathNotFound"
                    ELSE IF path = "container" THEN "TypeMismatch" ELSE "Ok"

\* The path is no text, or std::bad_alloc is thrown, under the lock or before it: the
\* out-parameter is reset and no buffer is touched.
ReadFails(c, op) ==
    \E status \in {"InvalidArgument", "InternalError"} : reply' = Silent(c, op, status)

\* The id is looked up before the path is parsed.
ReadValue(c, path, vs) ==
    /\ \/ ReadFails(c, "ReadValue")
       \/ \E s \in Slots :
             /\ IsLiveSlot(s, handle[c])
             /\ reply' = IF PathStatus(path) # "Ok"
                         THEN Silent(c, "ReadValue", PathStatus(path))
                         ELSE [Silent(c, "ReadValue", CopyStatus(vs)) EXCEPT
                                 !.of = stored[s], !.out = Written(CopyStatus(vs)),
                                 !.value = CopyText(vs)]
       \/ /\ ~IsLive(handle[c])
          /\ reply' = Silent(c, "ReadValue", "UnknownDocumentId")
    /\ UNCHANGED <<storeVars, scriptVars>>

\* restifyJsonReadLong, Double, Bool and CountElements: the path is parsed before
\* the lock is taken and the id looked up.
ReadTyped(c, path) ==
    /\ \/ ReadFails(c, "ReadTyped")
       \/ path = "malformed" /\ reply' = Silent(c, "ReadTyped", "PathSyntaxError")
       \/ /\ path # "malformed"
          /\ \/ \E s \in Slots :
                   /\ IsLiveSlot(s, handle[c])
                   /\ reply' = IF PathStatus(path) # "Ok"
                               THEN Silent(c, "ReadTyped", PathStatus(path))
                               ELSE [Silent(c, "ReadTyped", "Ok") EXCEPT
                                       !.of = stored[s], !.out = 1]
             \/ /\ ~IsLive(handle[c])
                /\ reply' = Silent(c, "ReadTyped", "UnknownDocumentId")
    /\ UNCHANGED <<storeVars, scriptVars>>

Emptied(S) ==
    /\ occupied' = [s \in Slots |-> occupied[s] /\ s \notin S]
    /\ slotId' = [s \in Slots |-> IF s \in S THEN 0 ELSE slotId[s]]
    /\ stored' = [s \in Slots |-> IF s \in S THEN NoDocument ELSE stored[s]]

\* The script's variable still holds the id of the document it has discarded.
Discard(c) ==
    /\ \/ \E s \in Slots :
             /\ IsLiveSlot(s, handle[c])
             /\ Emptied({s})
             /\ reply' = [Silent(c, "Discard", "Ok") EXCEPT !.of = stored[s]]
       \/ /\ ~IsLive(handle[c])
          /\ reply' = Silent(c, "Discard", "UnknownDocumentId")
          /\ UNCHANGED <<occupied, slotId, stored>>
    /\ UNCHANGED <<nextId, steps, scriptVars>>

DiscardAll(c) ==
    LET held == {s \in Slots : occupied[s]}
    IN  /\ Emptied(held)
        /\ reply' = [Silent(c, "DiscardAll", "Ok") EXCEPT !.number = Cardinality(held)]
        /\ UNCHANGED <<nextId, steps, scriptVars>>

-----------------------------------------------------------------------------
Init ==
    /\ occupied = [s \in Slots |-> FALSE]
    /\ slotId = [s \in Slots |-> 0]
    /\ stored = [s \in Slots |-> NoDocument]
    /\ nextId = Unseeded /\ steps = 0
    /\ handle = [c \in Scripts |-> 0]
    /\ opened = [c \in Scripts |-> NoDocument]
    /\ counted = [c \in Scripts |-> 0]
    /\ \E c \in Scripts : reply = Silent(c, "DiscardAll", "Ok")

Call(c) ==
    \/ \E s \in Slots, n \in EntryCounts, k, id \in Ids : Parse(c, s, n, k, id)
    \/ \E status \in Statuses : ParseFails(c, status)
    \/ CountEntries(c)
    \/ \E i \in Indices, ks, vs \in BufferSizes : ReadEntry(c, i, ks, vs)
    \/ \E path \in Paths, vs \in BufferSizes : ReadValue(c, path, vs)
    \/ \E path \in Paths : ReadTyped(c, path)
    \/ Discard(c)
    \/ DiscardAll(c)

Next == \E c \in Scripts : Call(c)

Spec == Init /\ [][Next]_vars

-----------------------------------------------------------------------------
(* Properties. *)

TypeOK ==
    /\ occupied \in [Slots -> BOOLEAN]
    /\ slotId \in [Slots -> Ids]
    /\ stored \in [Slots -> Documents \cup {NoDocument}]
    /\ nextId \in Ids \cup {Unseeded}
    /\ steps \in 0..StepBound
    /\ handle \in [Scripts -> Ids]
    /\ opened \in [Scripts -> Documents \cup {NoDocument}]
    /\ counted \in [Scripts -> EntryCounts \cup {0}]
    /\ reply \in Replies

\* A documentId is nonzero and names one document, however often the 32-bit
\* counter wraps.
DocumentIdsDistinct ==
    \A s \in Slots : occupied[s] =>
        /\ slotId[s] # 0
        /\ \A r \in Slots \ {s} : occupied[r] => slotId[r] # slotId[s]

\* The id of a stored document, and the one a script was given, is where the counter
\* stood when the document was stored.
CounterPosition ==
    /\ nextId = Unseeded => steps = 0
    /\ \A s \in Slots : occupied[s] =>
          /\ stored[s] # NoDocument /\ stored[s].serial <= steps
          /\ (slotId[s] + 1 + (steps - stored[s].serial)) % IdModulus = nextId
    /\ \A c \in Scripts : handle[c] # 0 =>
          /\ opened[c] # NoDocument /\ opened[c].serial <= steps
          /\ (handle[c] + 1 + (steps - opened[c].serial)) % IdModulus = nextId
    /\ \A c \in Scripts, s \in Slots :
          handle[c] # 0 /\ occupied[s] /\ stored[s].serial = opened[c].serial
              => stored[s] = opened[c]

\* A handle a script has kept names the document that script parsed, or nothing:
\* after its own Discard or another script's DiscardAll, and whatever is parsed
\* since, it never comes to name somebody else's document.  The code promises it
\* until the id counter has been all the way round.
HandleNamesOwnDocument ==
    steps <= IdModulus =>
        \A c \in Scripts, s \in Slots :
            IsLiveSlot(s, handle[c]) => stored[s] = opened[c]

\* An entry count a script holds is that of its own document.
CountsAreOwn ==
    steps <= IdModulus => \A c \in Scripts : counted[c] \in {0, opened[c].entries}

\* A script that has counted its entries never runs past the end of the document:
\* below the count, an entry is there or the id is unknown.
CountedEntriesReadable ==
    steps <= IdModulus /\ reply.op = "ReadEntry" /\ reply.index < counted[reply.by]
        => reply.status # "IndexOutOfRange"

\* The inductive invariant behind these properties.
StoreInv == TypeOK /\ DocumentIdsDistinct /\ CounterPosition /\ CountsAreOwn

\* A call that does not return Ok reports no type and leaves no text in a buffer:
\* of two buffers, both hold their text or neither does.
RepliesAreWhole ==
    /\ reply.out # 0 => reply.status = "Ok"
    /\ reply.status # "Ok" => "text" \notin {reply.key, reply.value}
    /\ reply.op = "ReadEntry" => (reply.key = "text") = (reply.value = "text")

\* A stored document neither changes nor disappears, except by DiscardAll or by a
\* Discard of its own id.
DocumentsAreKept ==
    [][\A s \in Slots :
          occupied[s] => \/ occupied'[s] /\ slotId'[s] = slotId[s] /\ stored'[s] = stored[s]
                         \/ ~occupied'[s] /\ reply'.op = "DiscardAll"
                         \/ ~occupied'[s] /\ reply'.op = "Discard"
                                          /\ handle[reply'.by] = slotId[s]]_vars

=============================================================================
