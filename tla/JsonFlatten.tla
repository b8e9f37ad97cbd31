----------------------------- MODULE JsonFlatten -----------------------------
(* FlattenJson (src/src/mapping/json-flatten.cpp): one pass over the text that *)
(* only counts (LimitCheckingSax), then the document, then its leaves as a flat *)
(* list.  A text is the sequence of events the JSON parser reports for it; the  *)
(* scan takes them one at a time.                                              *)
EXTENDS Integers, Sequences, SequencesExt, FiniteSets

CONSTANTS
  Names,         \* object keys: [key, bytes, escaped, nul], see Token
  Scalars,       \* what a leaf may be, as far as entries tell it apart
  MaxDepth,      \* kMaxJsonDepth, 64 in the code
  MaxEntries,    \* kMaxFlatEntries, 10000
  MaxKeyBytes,   \* kMaxFlatKeyBytes, 4194304
  Radix          \* of an array index as text, 10

(* A token of a JSON Pointer: its spelling, its bytes before escaping, how     *)
(* many of them are ~ or /, and whether one is NUL.                            *)
Token == [key : Nat, bytes : Nat, escaped : Nat, nul : BOOLEAN]

ASSUME FlattenAssumption ==
  /\ Names \subseteq Token
  /\ MaxDepth \in Nat \ {0} /\ MaxEntries \in Nat /\ MaxKeyBytes \in Nat
  /\ Radix \in Nat \ {0, 1}
  /\ Scalars \cap {"object", "array"} = {}

VARIABLES
  phase,         \* "call", "scan", "flatten", "done"
  status,        \* Status returned, "none" before
  depth, frames, entryCount, keyTotal,         \* LimitCheckingSax
  pendingTokenBytes, previousEventOpenedContainer,
  open,          \* the parser: paths of the open containers,
  pending,       \*   and the key whose value is next, if any
  document,      \* DOM: path -> [kind, members]
  leaves,        \* history: the path of every leaf the text holds, in order
  repeated,      \* history: some object repeats a key
  stack, path, entries,                        \* FlattenDocument
  out            \* the caller's FlattenResult, "before" until replaced

sax == <<depth, frames, entryCount, keyTotal, pendingTokenBytes,
         previousEventOpenedContainer>>
text == <<open, pending, document, leaves, repeated>>
walk == <<stack, path, entries>>
vars == <<phase, status, sax, text, walk, out>>

KeyFrame(isArray, prefixBytes) ==
  [isArray |-> isArray, nextIndex |-> 0, prefixBytes |-> prefixBytes]

DecimalDigits(n) == 1 + Cardinality({d \in 1 .. n : Radix ^ d <= n})

------------------------------------------------------------------------------
(* The parser and the document it builds (nlohmann::ordered_json).            *)

IndexToken(i) ==
  [key |-> i, bytes |-> DecimalDigits(i), escaped |-> 0, nul |-> FALSE]

InArray == open # <<>> /\ document[Last(open)].kind = "array"
InObject == open # <<>> /\ document[Last(open)].kind = "object"
AtKey == InObject /\ pending = <<>>
AtValue == IF open = <<>> THEN DOMAIN document = {} ELSE InArray \/ pending # <<>>
AtEnd == open = <<>> /\ DOMAIN document # {}

(* Where the next value goes. *)
ChildPath ==
  IF open = <<>> THEN <<>>
  ELSE Append(Last(open), IF InArray THEN IndexToken(Len(document[Last(open)].members))
                          ELSE Last(pending))

(* A repeated key keeps its place among the members; its new value replaces    *)
(* the old one with everything below it.                                       *)
Put(p, kind) ==
  LET kept == {q \in DOMAIN document : ~ IsPrefix(p, q)}
      joins(q) == q = Front(p) /\ ~ Contains(document[q].members, Last(p))
  IN [q \in kept \cup {p} |->
        CASE q = p -> [kind |-> kind, members |-> <<>>]
          [] q # p /\ p # <<>> /\ joins(q) ->
               [document[q] EXCEPT !.members = Append(@, Last(p))]
          [] OTHER -> document[q]]

------------------------------------------------------------------------------
(* LimitCheckingSax *)

Top == frames[depth]
NextKeyBytes ==
  IF depth = 0 THEN 0
  ELSE Top.prefixBytes + 1
         + (IF Top.isArray THEN DecimalDigits(Top.nextIndex) ELSE pendingTokenBytes)

(* top.nextIndex++, which NextKeyBytes does for an array and nothing else. *)
\* mutant: the index of an array is not advanced
BugAdvanced == frames
Advanced ==
  IF depth = 0 \/ ~ Top.isArray THEN frames
  ELSE [frames EXCEPT ![depth].nextIndex = @ + 1]

(* CountEntry() && AddKeyBytes(keyBytes) *)
\* mutant: the key text is looked at first
BugCountVerdict(keyBytes) ==
  CASE keyBytes > MaxKeyBytes - keyTotal -> "KeyTextTooLarge"
    [] keyBytes <= MaxKeyBytes - keyTotal /\ entryCount >= MaxEntries -> "TooManyEntries"
    [] OTHER -> "Ok"
\* mutant: the entry limit is one too high
BugCountOneMore(keyBytes) ==
  CASE entryCount > MaxEntries -> "TooManyEntries"
    [] entryCount <= MaxEntries /\ keyBytes > MaxKeyBytes - keyTotal -> "KeyTextTooLarge"
    [] OTHER -> "Ok"
CountVerdict(keyBytes) ==
  CASE entryCount >= MaxEntries -> "TooManyEntries"
    [] entryCount < MaxEntries /\ keyBytes > MaxKeyBytes - keyTotal -> "KeyTextTooLarge"
    [] OTHER -> "Ok"

Return(s) == phase' = "done" /\ status' = s /\ UNCHANGED out

CountLeaf(p, keyBytes) ==
  /\ leaves' = Append(leaves, p)
  /\ \/ /\ CountVerdict(keyBytes) = "Ok"
        /\ entryCount' = entryCount + 1
        /\ keyTotal' = keyTotal + keyBytes
        /\ UNCHANGED <<phase, status, out>>
     \/ /\ CountVerdict(keyBytes) # "Ok"
        /\ Return(CountVerdict(keyBytes))
        /\ UNCHANGED <<entryCount, keyTotal>>

Key(n) ==
  /\ phase = "scan" /\ AtKey
  /\ previousEventOpenedContainer' = FALSE
  /\ pending' = <<n>>
  /\ repeated' = (repeated \/ Contains(document[Last(open)].members, n))
  /\ \/ n.nul /\ Return("ParseError") /\ UNCHANGED pendingTokenBytes
     \/ /\ ~ n.nul
        /\ pendingTokenBytes' = n.bytes + n.escaped
        /\ UNCHANGED <<phase, status, out>>
  /\ UNCHANGED <<depth, frames, entryCount, keyTotal, open, document, leaves, walk>>

Leaf(kind) ==
  /\ phase = "scan" /\ AtValue
  /\ previousEventOpenedContainer' = FALSE
  /\ frames' = Advanced
  /\ CountLeaf(ChildPath, NextKeyBytes)
  /\ document' = Put(ChildPath, kind)
  /\ pending' = <<>>
  /\ UNCHANGED <<depth, pendingTokenBytes, open, repeated, walk>>

Open(kind) ==
  /\ phase = "scan" /\ AtValue
  /\ depth < MaxDepth
  /\ frames' = [Advanced EXCEPT ![depth + 1] = KeyFrame(kind = "array", NextKeyBytes)]
  /\ depth' = depth + 1
  /\ previousEventOpenedContainer' = TRUE
  /\ document' = Put(ChildPath, kind)
  /\ open' = Append(open, ChildPath)
  /\ pending' = <<>>
  /\ UNCHANGED <<phase, status, entryCount, keyTotal, pendingTokenBytes, leaves,
                 repeated, walk, out>>

OpenTooDeep ==
  /\ phase = "scan" /\ AtValue
  /\ depth >= MaxDepth
  /\ Return("NestingTooDeep")
  /\ UNCHANGED <<sax, text, walk>>

\* mutant: the flag is not reset, so a container around an empty one counts too
BugClose ==
  /\ phase = "scan" /\ (InArray \/ AtKey)
  /\ depth' = depth - 1
  /\ open' = Front(open)
  /\ IF previousEventOpenedContainer
       THEN CountLeaf(Last(open), Top.prefixBytes)
       ELSE UNCHANGED <<entryCount, keyTotal, leaves, phase, status, out>>
  /\ UNCHANGED <<frames, pendingTokenBytes, pending, document, repeated, walk,
                 previousEventOpenedContainer>>
(* An empty container is an entry of its own. *)
Close ==
  /\ phase = "scan" /\ (InArray \/ AtKey)
  /\ previousEventOpenedContainer' = FALSE
  /\ depth' = depth - 1
  /\ open' = Front(open)
  /\ IF previousEventOpenedContainer
       THEN CountLeaf(Last(open), Top.prefixBytes)
       ELSE UNCHANGED <<entryCount, keyTotal, leaves, phase, status, out>>
  /\ UNCHANGED <<frames, pendingTokenBytes, pending, document, repeated, walk>>

(* parse_error(): the text is not JSON from here on. *)
Malformed ==
  /\ phase = "scan"
  /\ Return("ParseError")
  /\ UNCHANGED <<sax, text, walk>>

------------------------------------------------------------------------------
(* FlattenJson *)

Texts == [tooLong : BOOLEAN, empty : BOOLEAN, nul : BOOLEAN]
TextCheck(t) ==
  CASE t.tooLong -> "DocumentTooLarge"
    [] ~ t.tooLong /\ (t.empty \/ t.nul) -> "ParseError"
    [] OTHER -> "Ok"

Init ==
  /\ phase = "call" /\ status = "none" /\ out = "before"
  /\ depth = 0 /\ entryCount = 0 /\ keyTotal = 0 /\ pendingTokenBytes = 0
  /\ frames = [i \in 1 .. MaxDepth |-> KeyFrame(FALSE, 0)]
  /\ previousEventOpenedContainer = FALSE
  /\ open = <<>> /\ pending = <<>> /\ document = <<>> /\ leaves = <<>>
  /\ repeated = FALSE
  /\ stack = <<>> /\ path = <<>> /\ entries = <<>>

FlattenJson(t) ==
  /\ phase = "call"
  /\ \/ TextCheck(t) # "Ok" /\ Return(TextCheck(t))
     \/ TextCheck(t) = "Ok" /\ phase' = "scan" /\ UNCHANGED <<status, out>>
  /\ UNCHANGED <<sax, text, walk>>

IsNonEmptyContainer(p) == document[p].members # <<>>
Frame(p, prefixSize) == [at |-> p, index |-> 0, prefixSize |-> prefixSize]
Entry(key, p) == [key |-> key, value |-> document[p].kind]

(* The scan ends; the second parse builds the document of the same events. *)
FlattenDocument ==
  /\ phase = "scan" /\ AtEnd
  /\ phase' = "flatten"
  /\ \/ /\ IsNonEmptyContainer(<<>>)
        /\ stack' = <<Frame(<<>>, 0)>> /\ UNCHANGED entries
     \/ /\ ~ IsNonEmptyContainer(<<>>)
        /\ entries' = <<Entry(<<>>, <<>>)>> /\ UNCHANGED stack
  /\ UNCHANGED <<status, sax, text, path, out>>

Pop ==
  /\ phase = "flatten" /\ stack # <<>>
  /\ Last(stack).index = Len(document[Last(stack).at].members)
  /\ stack' = Front(stack)
  /\ UNCHANGED <<phase, status, sax, text, path, entries, out>>

\* mutant: the path keeps what the subtree before left in it
BugResized(prefixSize) == path
Resized(prefixSize) == SubSeq(path, 1, prefixSize)

Step ==
  LET frame == Last(stack)
      token == document[frame.at].members[frame.index + 1]
      child == Append(frame.at, token)
      advanced == [stack EXCEPT ![Len(stack)].index = @ + 1]
  IN /\ phase = "flatten" /\ stack # <<>>
     /\ frame.index < Len(document[frame.at].members)
     /\ path' = Append(Resized(frame.prefixSize), token)
     /\ \/ /\ IsNonEmptyContainer(child)
           /\ stack' = Append(advanced, Frame(child, Len(path')))
           /\ UNCHANGED entries
        \/ /\ ~ IsNonEmptyContainer(child)
           /\ stack' = advanced
           /\ entries' = Append(entries, Entry(path', child))
     /\ UNCHANGED <<phase, status, sax, text, out>>

FlattenReturns ==
  /\ phase = "flatten" /\ stack = <<>>
  /\ phase' = "done" /\ status' = "Ok" /\ out' = "entries"
  /\ UNCHANGED <<sax, text, walk>>

Scan ==
  \/ \E n \in Names : Key(n)
  \/ \E kind \in Scalars : Leaf(kind)
  \/ \E kind \in {"object", "array"} : Open(kind)
  \/ OpenTooDeep \/ Close \/ Malformed

Next ==
  \/ \E t \in Texts : FlattenJson(t)
  \/ Scan
  \/ FlattenDocument \/ Pop \/ Step \/ FlattenReturns

Spec == Init /\ [][Next]_vars

------------------------------------------------------------------------------
(* Properties *)

(* The sum of a sequence of numbers. *)
Total(numbers) ==
  LET upTo[n \in 0 .. Len(numbers)] == IF n = 0 THEN 0 ELSE upTo[n - 1] + numbers[n]
  IN upTo[Len(numbers)]
KeyBytes(p) == Total([i \in DOMAIN p |-> 1 + p[i].bytes + p[i].escaped])
KeyText(keys) == Total([i \in DOMAIN keys |-> KeyBytes(keys[i])])
Keys(list) == [i \in DOMAIN list |-> list[i].key]

(* The values each variable takes; the fixed frame array is never indexed past *)
(* kMaxJsonDepth.                                                              *)
TypeOK ==
  /\ phase \in {"call", "scan", "flatten", "done"}
  /\ status \in {"none", "Ok", "ParseError", "DocumentTooLarge", "NestingTooDeep",
                 "TooManyEntries", "KeyTextTooLarge"}
  /\ depth \in 0 .. MaxDepth
  /\ frames \in [1 .. MaxDepth ->
                   [isArray : BOOLEAN, nextIndex : Nat, prefixBytes : Nat]]
  /\ entryCount \in 0 .. MaxEntries /\ keyTotal \in 0 .. MaxKeyBytes
  /\ pendingTokenBytes \in Nat
  /\ previousEventOpenedContainer \in BOOLEAN /\ repeated \in BOOLEAN
  /\ out \in {"before", "entries"}

(* The counting pass keeps, without building a path, the byte length of the    *)
(* path of every open container, whether it is an array, and whether the       *)
(* innermost one is still empty.                                               *)
FramesDescribeOpenContainers ==
  phase = "scan" =>
    /\ depth = Len(open)
    /\ \A i \in 1 .. depth :
         /\ frames[i].prefixBytes = KeyBytes(open[i])
         /\ frames[i].isArray = (document[open[i]].kind = "array")
    /\ previousEventOpenedContainer =
         (open # <<>> /\ document[Last(open)].members = <<>> /\ pending = <<>>)

(* A text is refused for its entries or its key text exactly when the leaf just *)
(* read goes past that limit and none before it went past either; a leaf past   *)
(* both is refused for the entries (docs/json-flatten.md, "Limits").            *)
LimitsAreExact ==
  LET before == Front(leaves)
      within(list) == Len(list) <= MaxEntries /\ KeyText(list) <= MaxKeyBytes
  IN /\ phase = "scan" \/ status = "Ok" => within(leaves)
     /\ status = "TooManyEntries" => within(before) /\ Len(leaves) = MaxEntries + 1
     /\ status = "KeyTextTooLarge" =>
          /\ within(before) /\ Len(leaves) <= MaxEntries
          /\ KeyText(leaves) > MaxKeyBytes

(* The list the caller gets fits what was counted before the document was      *)
(* built, and is all of it unless some object repeats a key.                   *)
CountsCoverEntries ==
  status = "Ok" =>
    /\ Len(entries) <= entryCount /\ KeyText(Keys(entries)) <= keyTotal
    /\ ~ repeated => Keys(entries) = leaves /\ Len(entries) = entryCount
                     /\ KeyText(leaves) = keyTotal

(* The list holds every leaf of the document once, with its value, in document  *)
(* order: members in the order their keys first appeared, arrays by index.     *)
Precedes(p, q) ==
  \E d \in 1 .. Len(p) :
    /\ d <= Len(q) /\ SubSeq(p, 1, d - 1) = SubSeq(q, 1, d - 1)
    /\ \E i, j \in DOMAIN document[SubSeq(p, 1, d - 1)].members :
         /\ i < j
         /\ document[SubSeq(p, 1, d - 1)].members[i] = p[d]
         /\ document[SubSeq(p, 1, d - 1)].members[j] = q[d]
EntriesAreTheLeavesInOrder ==
  status = "Ok" =>
    /\ {entries[i].key : i \in DOMAIN entries}
         = {p \in DOMAIN document : document[p].members = <<>>}
    /\ \A i \in DOMAIN entries : entries[i].value = document[entries[i].key].kind
    /\ \A i, j \in DOMAIN entries : i < j => Precedes(entries[i].key, entries[j].key)
==============================================================================
