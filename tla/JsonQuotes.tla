------------------------------ MODULE JsonQuotes ------------------------------
(***************************************************************************)
(* JSON written with apostrophes: ConvertApostropheStrings, the scanner of  *)
(* src/src/mapping/json-quotes.cpp, and the call restifyJsonNormalize that   *)
(* puts its output into a script's buffer (NormalizeJsonText in              *)
(* json-text-api.cpp).  One action is one turn of the scanner's loop.        *)
(*                                                                         *)
(* Two readers look on: one reads what the scanner has consumed, as JSON in  *)
(* which a string may stand between apostrophes; the other reads what it has *)
(* put out, as JSON.                                                        *)
(***************************************************************************)
EXTENDS Integers, Sequences

CONSTANTS
    Apostrophe, Quote, Backslash,
    Others,             \* characters the scanner does not tell apart
    MaxLength,          \* bound of the model: length of a script's text
    MaxInputBytes,      \* kMaxJsonInputBytes
    BufferSizes         \* values of normalizedSize; 0 is a null buffer too

ASSUME CharactersAssumption ==
    /\ Apostrophe # Quote /\ Apostrophe # Backslash /\ Quote # Backslash
    /\ Others \cap {Apostrophe, Quote, Backslash} = {}
    /\ "none" \notin Others \cup {Apostrophe, Quote, Backslash}
ASSUME LengthsAssumption ==
    MaxLength \in Nat /\ MaxInputBytes \in Nat /\ BufferSizes \subseteq Nat

Characters == {Apostrophe, Quote, Backslash} \cup Others
Texts == UNION {[1..n -> Characters] : n \in 0..MaxLength}

VARIABLES
    given,      \* what jsonText is: a null pointer, without a NUL, or a text
    text,       \* that text: the scanner's `in`
    size,       \* normalizedSize
    phase,      \* "called", "scanning" or "returned"
    i,          \* the loop's index into `in`, from 1
    state,      \* the scanner's state
    out,        \* its output so far
    normalized, \* the script's buffer
    status,     \* what the call returned, "none" before
    written,    \* history: the reading of in[1 .. i - 1]
    json        \* history: the reading of out

callVars == <<given, text, size>>
scanVars == <<i, state, out, written, json>>
vars == <<callVars, scanVars, phase, normalized, status>>

-----------------------------------------------------------------------------
(* A reader of JSON, one character at a time, for which a string stands between   *)
(* two of one of `delimiters`.  It lists what it has read: the structure outside  *)
(* strings, where strings open and close, and their characters; an escape other   *)
(* than that of a delimiter or a backslash is listed as one.                      *)

None == "none"
Meaning(c, within) == IF c \in {within, Quote, Backslash} THEN <<"character", c>>
                                                          ELSE <<"escape", c>>

Reader(within, paired, opened, items) ==
    [within |-> within, paired |-> paired, opened |-> opened, items |-> items]
ReaderStart == Reader(None, FALSE, {}, <<>>)

ReadOutside(r, c, delimiters) ==
    IF c \in delimiters
    THEN Reader(c, FALSE, r.opened \cup {c}, Append(r.items, <<"open", Quote>>))
    ELSE Reader(None, FALSE, r.opened, Append(r.items, <<"structure", c>>))

ReadInString(r, c) ==
    IF r.paired
    THEN Reader(r.within, FALSE, r.opened, Append(r.items, Meaning(c, r.within)))
    ELSE IF c = Backslash
    THEN Reader(r.within, TRUE, r.opened, r.items)
    ELSE IF c = r.within
    THEN Reader(None, FALSE, r.opened, Append(r.items, <<"close", Quote>>))
    ELSE Reader(r.within, FALSE, r.opened, Append(r.items, <<"character", c>>))

Read(r, c, delimiters) ==
    IF r.within = None THEN ReadOutside(r, c, delimiters) ELSE ReadInString(r, c)

\* One or two characters.
ReadPiece(r, piece, delimiters) ==
    LET once == Read(r, piece[1], delimiters)
    IN  IF Len(piece) = 1 THEN once ELSE Read(once, piece[2], delimiters)

-----------------------------------------------------------------------------
(* ConvertApostropheStrings. *)

\* A turn of the loop takes one or two characters, puts out one or two, and goes on
\* in the state `then`.
Turn(taken, put, then) ==
    /\ i' = i + Len(taken)
    /\ out' = out \o put
    /\ state' = then
    /\ written' = ReadPiece(written, taken, {Quote, Apostrophe})
    /\ json' = ReadPiece(json, put, {Quote})

Copy(taken, then) == Turn(taken, taken, then)

ScanOutside(c) ==
    \/ c = Apostrophe /\ Turn(<<c>>, <<Quote>>, "Apostrophe")
    \/ c = Quote /\ Copy(<<c>>, "DoubleQuoted")
    \/ c \notin {Apostrophe, Quote} /\ Copy(<<c>>, "Outside")

\* A backslash and the character it escapes; the last character escapes nothing.
StartsPair(c) == c = Backslash /\ i < Len(text)

\* Fault: \' is rewritten in every string.
BugScanDoubleQuoted(c) ==
    \/ StartsPair(c) /\ IF text[i + 1] = Apostrophe
                        THEN Turn(<<c, Apostrophe>>, <<Apostrophe>>, "DoubleQuoted")
                        ELSE Copy(<<c, text[i + 1]>>, "DoubleQuoted")
    \/ ~StartsPair(c) /\ Copy(<<c>>, IF c = Quote THEN "Outside" ELSE "DoubleQuoted")

ScanDoubleQuoted(c) ==
    \/ StartsPair(c) /\ Copy(<<c, text[i + 1]>>, "DoubleQuoted")
    \/ ~StartsPair(c) /\ Copy(<<c>>, IF c = Quote THEN "Outside" ELSE "DoubleQuoted")

\* Fault: every backslash before an apostrophe escapes it, one that is itself
\* escaped as well.
BugScanApostrophe(c) ==
    \/ /\ StartsPair(c) /\ text[i + 1] = Apostrophe
       /\ Turn(<<c, Apostrophe>>, <<Apostrophe>>, "Apostrophe")
    \/ c = Apostrophe /\ Turn(<<c>>, <<Quote>>, "Outside")
    \/ c = Quote /\ Turn(<<c>>, <<Backslash, Quote>>, "Apostrophe")
    \/ /\ ~(StartsPair(c) /\ text[i + 1] = Apostrophe)
       /\ c \notin {Apostrophe, Quote}
       /\ Copy(<<c>>, "Apostrophe")

ScanApostrophe(c) ==
    \/ StartsPair(c) /\ IF text[i + 1] = Apostrophe
                        THEN Turn(<<c, Apostrophe>>, <<Apostrophe>>, "Apostrophe")
                        ELSE Copy(<<c, text[i + 1]>>, "Apostrophe")
    \/ c = Apostrophe /\ Turn(<<c>>, <<Quote>>, "Outside")
    \/ c = Quote /\ Turn(<<c>>, <<Backslash, Quote>>, "Apostrophe")
    \/ ~StartsPair(c) /\ c \notin {Apostrophe, Quote} /\ Copy(<<c>>, "Apostrophe")

Scan ==
    /\ phase = "scanning" /\ i <= Len(text)
    /\ \/ state = "Outside" /\ ScanOutside(text[i])
       \/ state = "DoubleQuoted" /\ ScanDoubleQuoted(text[i])
       \/ state = "Apostrophe" /\ ScanApostrophe(text[i])
    /\ UNCHANGED <<callVars, phase, normalized, status>>

-----------------------------------------------------------------------------
(* NormalizeJsonText. *)

Untouched == <<"untouched">>

Returns(answer, buffer) ==
    /\ phase' = "returned"
    /\ status' = answer
    /\ normalized' = buffer
    /\ UNCHANGED <<callVars, scanVars>>

Emptied == IF size = 0 THEN normalized ELSE <<>>

\* Fault: the buffer keeps its text when the input has no NUL.
BugRefuse ==
    \/ given = "null" /\ Returns("InvalidArgument", normalized)
    \/ given = "unterminated" /\ Returns("UnterminatedInputText", normalized)
    \/ given = "text" /\ size = 0 /\ Returns("InvalidArgument", normalized)
    \/ given = "text" /\ size > 0 /\ Len(text) > MaxInputBytes /\ Returns("DocumentTooLarge", <<>>)
    \/ given = "text" /\ size > 0 /\ text = <<>> /\ Returns("ParseError", <<>>)

\* The checks before the conversion, in their order.
Refuse ==
    \/ given = "null" /\ Returns("InvalidArgument", normalized)
    \/ given = "unterminated" /\ Returns("UnterminatedInputText", Emptied)
    \/ given = "text" /\ size = 0 /\ Returns("InvalidArgument", normalized)
    \/ given = "text" /\ size > 0 /\ Len(text) > MaxInputBytes /\ Returns("DocumentTooLarge", <<>>)
    \/ given = "text" /\ size > 0 /\ text = <<>> /\ Returns("ParseError", <<>>)

StartScan ==
    /\ given = "text" /\ size > 0 /\ Len(text) \in 1..MaxInputBytes
    /\ normalized' = <<>>
    /\ phase' = "scanning"
    /\ UNCHANGED <<callVars, scanVars, status>>

\* JsonValue::accept, whatever it says of the output, and CopyToBuffer.
Deliver ==
    /\ phase = "scanning" /\ i > Len(text)
    /\ \/ Returns("ParseError", normalized)
       \/ IF Len(out) < size THEN Returns("Ok", out) ELSE Returns("BufferTooSmall", <<>>)

\* std::bad_alloc, wherever it strikes.
Throws == phase = "scanning" /\ Returns("InternalError", Emptied)

-----------------------------------------------------------------------------
Init ==
    /\ given \in {"null", "unterminated", "text"}
    /\ text \in IF given = "text" THEN Texts ELSE {<<>>}
    /\ size \in BufferSizes
    /\ phase = "called" /\ status = "none"
    /\ i = 1 /\ state = "Outside" /\ out = <<>>
    /\ normalized = Untouched
    /\ written = ReaderStart /\ json = ReaderStart

Next == \/ phase = "called" /\ (Refuse \/ StartScan)
        \/ Scan
        \/ Deliver
        \/ Throws

Spec == Init /\ [][Next]_vars

-----------------------------------------------------------------------------
(* Properties. *)

\* The parser behind the scanner sees the strings the script wrote, and only those:
\* at every moment the output reads, as JSON, as the input does with its apostrophes.
\* No backslash, quote or apostrophe, paired, raw or last in the text, turns data into
\* structure or ends a string early (ConvertApostropheStrings).
MeansTheSame ==
    /\ json.items = written.items
    /\ json.paired = written.paired
    /\ json.within = None <=> written.within = None

\* A text whose apostrophes all stand in double-quoted strings comes out as it went
\* in.  FlattenJson relies on it: it does not convert a text without apostrophes,
\* which restifyJsonNormalize does (ConvertApostropheStrings).
PlainTextUnchanged == Apostrophe \notin written.opened => out = SubSeq(text, 1, i - 1)

\* A script that was not told Ok finds no half-converted text to send: its buffer is
\* empty, or as it was if the call could not take its arguments; with Ok the buffer
\* holds the whole conversion and its NUL (NormalizeJsonText).
NormalizedOnlyOnOk ==
    phase = "returned" =>
        CASE status = "Ok" -> normalized = out /\ i = Len(text) + 1 /\ Len(normalized) < size
          [] status = "InvalidArgument" \/ size = 0 -> normalized = Untouched
          [] OTHER -> normalized = <<>>
=============================================================================
