------------------------------- MODULE JsonPath -------------------------------
(***************************************************************************)
(* Reading a stored document at a path: ParsePath and ResolvePath           *)
(* (src/src/core/json-path.cpp), the conversions of what they find           *)
(* (type-conversion.cpp, json-accessors.cpp, DescribeLeaf) and the exports   *)
(* restifyJsonReadLong, ReadDouble, ReadBool, ReadValue and CountElements    *)
(* around them (json-text-api.cpp).  The script's path is typed, or the key  *)
(* of an entry as FlattenDocument wrote it.                                 *)
(*                                                                         *)
(* Texts are sequences of characters, because the escapes are about them.   *)
(* Numbers lie on a grid finer than the doubles, of which there are finitely *)
(* many, and the widths of the code are scaled down.  The document is live   *)
(* all along, and a text value's copy into the script's buffer is that of    *)
(* JsonDocumentStore.                                                       *)
(***************************************************************************)
EXTENDS Integers, Sequences, SequencesExt

CONSTANTS
    Alphabet,           \* the characters of keys and paths
    Characters,         \* those that a script types into a path
    Values,             \* JSON values, see Object and Array
    Documents,          \* those that are the documents it reads
    MaxPath,            \* bound of the model: characters of a typed path
    MaxDepth,           \* bound of the model: containers within containers
    IndexModulus,       \* 2^32 of an array index
    LongMax,            \* 2^31 - 1 of a CAPL long
    Int64Max,           \* of the parser's signed integers
    UInt64Max,          \* of its unsigned ones
    Scale,              \* points of the grid to 1
    Doubles             \* the points that are doubles

ASSUME WidthsAssumption ==
    /\ LongMax \in Nat /\ Int64Max \in Nat /\ UInt64Max \in Nat
    /\ UInt64Max = 2 * Int64Max + 1 /\ LongMax < Int64Max

\* Where the whole number n lies.
Whole(n) == Scale * n

\* Every long, and the next number on either side, is a double; next to a fraction that
\* is one the whole numbers are; and of two neighbours one is an even multiple of their
\* gap, which decides a tie.
ASSUME DoublesAssumption ==
    /\ Scale \in Nat \ {0} /\ Doubles \subseteq Int
    /\ \A n \in (-LongMax - 2)..(LongMax + 1) : Whole(n) \in Doubles
    /\ \A d \in Doubles : d % Scale # 0 =>
          Whole(d \div Scale) \in Doubles /\ Whole(d \div Scale + 1) \in Doubles
    /\ \A a, b \in Doubles : a < b /\ (\A d \in Doubles : d <= a \/ b <= d) =>
          a % (2 * (b - a)) = 0 \/ b % (2 * (b - a)) = 0

ASSUME BoundsAssumption ==
    MaxPath \in Nat /\ MaxDepth \in Nat /\ IndexModulus \in Nat

VARIABLES
    document,
    path,       \* the script's path argument
    export,     \* the call it makes
    phase,      \* "writing", "walking" or "returned"
    tokens,     \* the tokens ResolvePath has yet to follow
    current,    \* the node it is at
    status,     \* what the call returned, "none" before
    out         \* the script's out-parameter

vars == <<document, path, export, phase, tokens, current, status, out>>

-----------------------------------------------------------------------------
(* Documents. *)

Object(members) == [kind |-> "object", members |-> members]
Array(elements) == [kind |-> "array", elements |-> elements]
Integer(n) == [kind |-> "number", form |-> "integer", scaled |-> Whole(n)]
Decimal(x) == [kind |-> "number", form |-> "decimal", scaled |-> x]
Bool(b) == [kind |-> "bool", flag |-> b]
Text(t) == [kind |-> "text", characters |-> t]
Null == [kind |-> "null"]
Nowhere == [kind |-> "nowhere"]

IsNonEmptyContainer(node) ==
    \/ node.kind = "object" /\ DOMAIN node.members # {}
    \/ node.kind = "array" /\ node.elements # <<>>

\* The children of a node and where they are.
Children(n) ==
    IF n.node.kind = "object"
    THEN {[place |-> Append(n.place, [key |-> k]), node |-> n.node.members[k]] :
             k \in DOMAIN n.node.members}
    ELSE IF n.node.kind = "array"
    THEN {[place |-> Append(n.place, [index |-> k - 1]), node |-> n.node.elements[k]] :
             k \in DOMAIN n.node.elements}
    ELSE {}

Nodes(root) ==
    LET at[depth \in 0..MaxDepth] ==
            IF depth = 0 THEN {[place |-> <<>>, node |-> root]}
                         ELSE UNION {Children(n) : n \in at[depth - 1]}
    IN  UNION {at[depth] : depth \in 0..MaxDepth}

\* An array is no longer than its indexes can tell (each element is one entry or more,
\* and FlattenJson refuses more than kMaxFlatEntries of them).
ASSUME ValuesAssumption ==
    /\ Documents \subseteq Values
    /\ \A v \in Values :
        /\ v # Nowhere
        /\ v.kind = "object" => /\ DOMAIN v.members \subseteq Seq(Alphabet)
                                /\ \A k \in DOMAIN v.members : v.members[k] \in Values
        /\ v.kind = "array" => v.elements \in Seq(Values) /\ Len(v.elements) <= IndexModulus
        /\ v.kind = "number" => /\ v.scaled \in Int
                                /\ v.form = "integer" => v.scaled % Scale = 0

\* No document is deeper than the bound (FlattenJson has one, kMaxJsonDepth).
ASSUME DepthAssumption ==
    \A d \in Documents : \A n \in Nodes(d) :
        Len(n.place) = MaxDepth => ~IsNonEmptyContainer(n.node)

-----------------------------------------------------------------------------
(* The key of a node, as FlattenDocument writes it. *)

Digits == <<"0", "1", "2", "3", "4", "5", "6", "7", "8", "9">>
ASSUME AlphabetAssumption ==
    Characters \subseteq Alphabet /\ ToSet(Digits) \cup {"/", "~"} \subseteq Alphabet

IsDigit(c) == c \in ToSet(Digits)
DigitOf(c) == (CHOOSE d \in 1..10 : Digits[d] = c) - 1

\* std::to_string.
DecimalText[n \in Nat] ==
    IF n < 10 THEN <<Digits[n + 1]>> ELSE Append(DecimalText[n \div 10], Digits[(n % 10) + 1])

Escaped(token) ==
    FlattenSeq([k \in DOMAIN token |->
        IF token[k] = "~" THEN <<"~", "0">>
        ELSE IF token[k] = "/" THEN <<"~", "1">> ELSE <<token[k]>>])

PathOf(place) ==
    FlattenSeq([k \in DOMAIN place |->
        <<"/">> \o IF "key" \in DOMAIN place[k] THEN Escaped(place[k].key)
                                              ELSE DecimalText[place[k].index]])

-----------------------------------------------------------------------------
(* ParsePath. *)

\* Every ~ starts an escape, or is followed by what makes none.
WellEscaped(raw) == \A k \in DOMAIN raw : raw[k] = "~" =>
                        k < Len(raw) /\ raw[k + 1] \in {"0", "1"}

\* Fault: ~0 is decoded everywhere before ~1 is, so that ~01 becomes a slash.
Replaced(raw, digit, by) ==
    FlattenSeq([k \in DOMAIN raw |->
        IF k > 1 /\ raw[k] = digit /\ raw[k - 1] = "~" THEN <<>>
        ELSE IF raw[k] = "~" /\ k < Len(raw) /\ raw[k + 1] = digit THEN <<by>> ELSE <<raw[k]>>])
BugDecoded(raw) == Replaced(Replaced(raw, "0", "~"), "1", "/")

\* What DecodeToken makes of a well-escaped token: each escape once, left to right.
Decoded(raw) ==
    FlattenSeq([k \in DOMAIN raw |->
        IF k > 1 /\ raw[k - 1] = "~" THEN IF raw[k] = "1" THEN <<"/">> ELSE <<"~">>
        ELSE IF raw[k] = "~" THEN <<>> ELSE <<raw[k]>>])

\* The pieces of a path between its slashes, the first of which begins it.
Pieces(p) ==
    LET upTo[k \in 1..Len(p)] ==
            IF k = 1 THEN << <<>> >>
            ELSE IF p[k] = "/" THEN Append(upTo[k - 1], <<>>)
            ELSE Append(Front(upTo[k - 1]), Append(Last(upTo[k - 1]), p[k]))
    IN  IF p = <<>> THEN <<>> ELSE upTo[Len(p)]

WellFormed(p) ==
    p # <<>> => p[1] = "/" /\ \A n \in DOMAIN Pieces(p) : WellEscaped(Pieces(p)[n])

ParsePath(p) == [n \in DOMAIN Pieces(p) |-> Decoded(Pieces(p)[n])]

-----------------------------------------------------------------------------
(* ResolvePath: where one token leads from a node, or why nowhere. *)

Found(node) == [status |-> "Ok", node |-> node]
Lost(reason) == [status |-> reason, node |-> Nowhere]

IndexOf(token) ==
    LET value[k \in 0..Len(token)] ==
            IF k = 0 THEN 0 ELSE 10 * value[k - 1] + DigitOf(token[k])
    IN  value[Len(token)]

\* ParseIndex: "-" is the element after the last; an index has no leading zeros.
IndexStatus(token) ==
    IF token = <<"-">> THEN "IndexOutOfRange"
    ELSE IF \/ token = <<>>
            \/ Len(token) > 1 /\ token[1] = "0"
            \/ \E k \in DOMAIN token : ~IsDigit(token[k]) THEN "TypeMismatch"
    ELSE IF IndexOf(token) >= IndexModulus THEN "IndexOutOfRange" ELSE "Ok"

Follow(node, token) ==
    CASE node.kind = "object" -> IF token \in DOMAIN node.members
                                 THEN Found(node.members[token]) ELSE Lost("PathNotFound")
      [] node.kind = "array" -> IF IndexStatus(token) # "Ok" THEN Lost(IndexStatus(token))
                                ELSE IF IndexOf(token) + 1 \notin DOMAIN node.elements
                                THEN Lost("IndexOutOfRange")
                                ELSE Found(node.elements[IndexOf(token) + 1])
      [] OTHER -> Lost("TypeMismatch")

-----------------------------------------------------------------------------
(* Conversions. *)

Answer(value) == [status |-> "Ok", value |-> value]
Refusal(reason) == [status |-> reason, value |-> 0]

\* strtod, and a whole number converted to a double: the nearest one, and of two as
\* near the even one.  (The parser refuses a number beyond the largest double.)
Distance(x, y) == IF x < y THEN y - x ELSE x - y
Nearest(x) == {d \in Doubles : \A e \in Doubles : Distance(x, d) <= Distance(x, e)}
Rounded(x) == CHOOSE d \in Nearest(x) :
                  \A e \in Nearest(x) \ {d} : d % (2 * Distance(d, e)) = 0

\* How the parser stores a number: a whole one that fits as an integer, any other as
\* a double.
Stored(number) ==
    IF number.form = "integer" /\ number.scaled \in 0..Whole(UInt64Max)
    THEN [storage |-> "unsigned", scaled |-> number.scaled]
    ELSE IF number.form = "integer" /\ number.scaled \in Whole(-Int64Max - 1)..0
    THEN [storage |-> "signed", scaled |-> number.scaled]
    ELSE [storage |-> "float", scaled |-> Rounded(number.scaled)]

Narrowed(n) ==
    IF n \in (-LongMax - 1)..LongMax THEN Answer(n) ELSE Refusal("NumericOverflow")

\* Fault: every whole number is fetched as a signed 64-bit one, and wraps.
BugToLong(node) ==
    LET number == Stored(node)
        n == number.scaled \div Scale
    IN  CASE number.storage = "unsigned" -> Narrowed(IF n > Int64Max THEN n - (UInt64Max + 1) ELSE n)
          [] number.storage = "signed" -> Narrowed(n)
          [] number.storage = "float" ->
                IF number.scaled % Scale # 0 THEN Refusal("NotIntegral") ELSE Narrowed(n)

\* ToLong of a number, by how it is stored: of a double it is the double that is asked
\* whether it is whole.
ToLong(node) ==
    LET number == Stored(node)
        n == number.scaled \div Scale
    IN  CASE number.storage = "unsigned" ->
                IF n > LongMax THEN Refusal("NumericOverflow") ELSE Answer(n)
          [] number.storage = "signed" -> Narrowed(n)
          [] number.storage = "float" ->
                IF number.scaled % Scale # 0 THEN Refusal("NotIntegral") ELSE Narrowed(n)

\* The type ReadValue reports.
EntryType(node) ==
    CASE node.kind = "text" -> "String" [] node.kind = "number" -> "Number"
      [] node.kind = "bool" -> "Bool" [] node.kind = "null" -> "Null"
      [] node.kind = "object" -> "EmptyObject" [] node.kind = "array" -> "EmptyArray"

Exports == {"long", "double", "bool", "elements", "value"}
Wanted(e) == CASE e \in {"long", "double"} -> "number" [] e = "bool" -> "bool"
               [] e = "elements" -> "array"

Converted(e, node) ==
    IF e = "value"
    THEN IF IsNonEmptyContainer(node) THEN Refusal("TypeMismatch") ELSE Answer(EntryType(node))
    ELSE IF node.kind = "null" THEN Refusal("NullValue")
    ELSE IF node.kind # Wanted(e) THEN Refusal("TypeMismatch")
    ELSE CASE e = "long" -> ToLong(node)
           [] e = "double" -> Answer(Rounded(Stored(node).scaled))
           [] e = "bool" -> Answer(IF node.flag THEN 1 ELSE 0)
           [] e = "elements" -> Answer(Len(node.elements))

-----------------------------------------------------------------------------
(* The script and its call. *)

Stale == <<>>
Zero == <<"zero">>

\* The script types a path, character by character ...
Type(c) ==
    /\ phase = "writing" /\ Len(path) < MaxPath
    /\ path' = Append(path, c)
    /\ UNCHANGED <<document, export, phase, tokens, current, status, out>>

\* ... or takes the key of an entry it has read.
TakeKey ==
    /\ phase = "writing" /\ path = <<>>
    /\ \E n \in Nodes(document) : ~IsNonEmptyContainer(n.node) /\ path' = PathOf(n.place)
    /\ UNCHANGED <<document, export, phase, tokens, current, status, out>>

Returns(answer, result) ==
    /\ phase' = "returned"
    /\ status' = answer
    /\ out' = result
    /\ tokens' = <<>>
    /\ UNCHANGED <<document, path>>

\* No path, or one without its NUL.
Refuse(e) ==
    /\ phase = "writing" /\ path = <<>>
    /\ export' = e /\ current' = Nowhere
    /\ \E reason \in {"InvalidArgument", "UnterminatedInputText"} : Returns(reason, Zero)

Call(e) ==
    /\ phase = "writing"
    /\ export' = e
    /\ IF WellFormed(path)
       THEN /\ phase' = "walking" /\ tokens' = ParsePath(path)
            /\ current' = document /\ out' = Zero
            /\ UNCHANGED <<document, path, status>>
       ELSE Returns("PathSyntaxError", Zero) /\ current' = Nowhere

\* One turn of ResolvePath's loop.
Walk ==
    /\ phase = "walking" /\ tokens # <<>>
    /\ LET next == Follow(current, Head(tokens))
       IN  /\ current' = next.node
           /\ IF next.status = "Ok"
              THEN tokens' = Tail(tokens) /\ UNCHANGED <<document, path, phase, status, out>>
              ELSE Returns(next.status, Zero)
    /\ UNCHANGED export

Convert ==
    /\ phase = "walking" /\ tokens = <<>>
    /\ LET answer == Converted(export, current)
       IN  Returns(answer.status, IF answer.status = "Ok" THEN <<"set", answer.value>> ELSE Zero)
    /\ UNCHANGED <<export, current>>

\* std::bad_alloc, wherever it strikes: the out-parameter is zero again.
Throws ==
    /\ phase = "walking"
    /\ Returns("InternalError", Zero)
    /\ current' = Nowhere
    /\ UNCHANGED export

Init ==
    /\ document \in Documents
    /\ path = <<>> /\ export = "none" /\ phase = "writing"
    /\ tokens = <<>> /\ current = Nowhere /\ status = "none" /\ out = Stale

Next == \/ \E c \in Characters : Type(c)
        \/ TakeKey
        \/ \E e \in Exports : Refuse(e) \/ Call(e)
        \/ Walk
        \/ Convert
        \/ Throws

Spec == Init /\ [][Next]_vars

-----------------------------------------------------------------------------
(* Properties. *)

Resolved == phase = "returned" /\ current # Nowhere
Searched == phase = "returned" /\ status \notin
                {"InternalError", "InvalidArgument", "UnterminatedInputText"}

\* A key leads back to its own entry and to no other, and no other spelling of a path
\* leads anywhere: what AppendEscapedToken and to_string write is what DecodeToken and
\* ParseIndex read, escapes one inside the other, empty keys, keys that look like
\* indexes, leading zeros and indexes beyond 32 bits included.
ResolvesExactly ==
    Searched =>
        /\ Resolved <=> \E n \in Nodes(document) : PathOf(n.place) = path
        /\ \A n \in Nodes(document) : PathOf(n.place) = path => current = n.node

\* A script that reads a number as a double gets a double than which none is nearer to
\* what the document says.  As a long it gets the number an integer literal is, and of any
\* other literal the whole number that the parser's double is, again none being nearer:
\* never one of the 64-bit values modulo 2^32, however the parser stored it.  It is refused
\* as fractional only if it is, and as too large only if it is: so a whole number that is
\* a long is always delivered.  (A fraction that no double near it has is gone before
\* ToLong looks for one.)  (ToLong, ToDouble.)
NumbersAreNearest ==
    Resolved /\ current.kind = "number" =>
        LET x == current.scaled
        IN  /\ export = "double" => status = "Ok" /\ \E d \in Nearest(x) : out = <<"set", d>>
            /\ export = "long" =>
                 \/ /\ status = "Ok"
                    /\ \E n \in (-LongMax - 1)..LongMax :
                          /\ out = <<"set", n>> /\ Whole(n) \in Nearest(x)
                          /\ current.form = "integer" => Whole(n) = x
                 \/ status = "NotIntegral" /\ out = Zero /\ x % Scale # 0
                 \/ /\ status = "NumericOverflow" /\ out = Zero
                    /\ x \notin Whole(-LongMax - 1)..Whole(LongMax)
=============================================================================
