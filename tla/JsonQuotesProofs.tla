--------------------------- MODULE JsonQuotesProofs ---------------------------
(* The scanner never changes what a text means, whatever the characters and its  *)
(* length: the two readers stay in step, one turn of the loop at a time.          *)
EXTENDS JsonQuotes, SequenceTheorems, TLAPS

Kinds == {"open", "close", "structure", "character", "escape"}
Readers == [within : Characters \cup {None}, paired : BOOLEAN,
            opened : SUBSET Characters, items : Seq(Kinds \X Characters)]

\* The state of the scanner is the string its two readers are in.
InStep(w, j, st) ==
    /\ w \in Readers /\ j \in Readers
    /\ j.items = w.items /\ j.paired = w.paired
    /\ \/ st = "Outside" /\ w.within = None /\ j.within = None
       \/ st = "DoubleQuoted" /\ w.within = Quote /\ j.within = Quote
       \/ st = "Apostrophe" /\ w.within = Apostrophe /\ j.within = Quote

\* The inductive invariant: a reader is between a backslash and what it escapes only
\* at the end of the text.
ScanInv ==
    /\ text \in Seq(Characters)
    /\ i \in 1..(Len(text) + 1)
    /\ InStep(written, json, state)
    /\ written.paired => i = Len(text) + 1

LEMMA ReaderType ==
    ASSUME NEW within \in Characters \cup {None}, NEW paired \in BOOLEAN,
           NEW opened \in SUBSET Characters, NEW items \in Seq(Kinds \X Characters)
    PROVE  Reader(within, paired, opened, items) \in Readers
BY DEF Reader, Readers

LEMMA ReaderFields ==
    ASSUME NEW within, NEW paired, NEW opened, NEW items
    PROVE  LET r == Reader(within, paired, opened, items)
           IN  r.within = within /\ r.paired = paired /\ r.opened = opened /\ r.items = items
BY DEF Reader

\* A reader that takes a character is a reader.
LEMMA ReadIsReader ==
    ASSUME NEW r \in Readers, NEW c \in Characters, NEW delimiters \in SUBSET Characters
    PROVE  Read(r, c, delimiters) \in Readers
<1> DEFINE Item == Kinds \X Characters
<1>1. /\ r.within \in Characters \cup {None} /\ r.paired \in BOOLEAN
      /\ r.opened \in SUBSET Characters /\ r.items \in Seq(Item)
  BY DEF Readers
<1>2. \A kind \in Kinds, x \in Characters : Append(r.items, <<kind, x>>) \in Seq(Item)
  <2> SUFFICES ASSUME NEW kind \in Kinds, NEW x \in Characters
               PROVE  Append(r.items, <<kind, x>>) \in Seq(Item)
    OBVIOUS
  <2>1. <<kind, x>> \in Item
    OBVIOUS
  <2> HIDE DEF Item
  <2> QED BY <1>1, <2>1, AppendProperties
<1>3. Quote \in Characters /\ r.opened \cup {c} \in SUBSET Characters
  BY <1>1 DEF Characters
<1>4. \A x \in Characters : Append(r.items, Meaning(x, r.within)) \in Seq(Item)
  BY <1>2 DEF Meaning, Kinds
<1>5. ReadOutside(r, c, delimiters) \in Readers
  BY <1>1, <1>2, <1>3, ReaderType DEF ReadOutside, Kinds
<1>6. CASE r.within # None
  <2>1. r.within \in Characters
    BY <1>1, <1>6
  <2> QED BY <1>1, <1>2, <1>3, <1>4, <1>6, ReaderType DEF Read, ReadInString, Kinds
<1> QED BY <1>5, <1>6 DEF Read

LEMMA Delimiters ==
    /\ Apostrophe \in Characters /\ Quote \in Characters /\ Backslash \in Characters
    /\ {Quote} \in SUBSET Characters /\ {Quote, Apostrophe} \in SUBSET Characters
    /\ None \notin Characters
    /\ Apostrophe # Quote /\ Apostrophe # Backslash /\ Quote # Backslash
BY CharactersAssumption DEF Characters, None

\* Outside strings: a character both readers take alike, and an apostrophe that is
\* put out as a quote.
LEMMA CopiedOutside ==
    ASSUME NEW w, NEW j, InStep(w, j, "Outside"), NEW c \in Characters \ {Apostrophe}
    PROVE  LET w1 == Read(w, c, {Quote, Apostrophe})
               j1 == Read(j, c, {Quote})
           IN  InStep(w1, j1, IF c = Quote THEN "DoubleQuoted" ELSE "Outside") /\ ~w1.paired
<1>1. Read(w, c, {Quote, Apostrophe}) \in Readers /\ Read(j, c, {Quote}) \in Readers
  BY ReadIsReader, Delimiters DEF InStep
<1>2. w.within = None /\ j.within = None /\ j.items = w.items
  BY DEF InStep
<1> QED BY <1>1, <1>2 DEF Reader, InStep, Read, ReadOutside

LEMMA OpensApostrophe ==
    ASSUME NEW w, NEW j, InStep(w, j, "Outside")
    PROVE  LET w1 == Read(w, Apostrophe, {Quote, Apostrophe})
               j1 == Read(j, Quote, {Quote})
           IN  InStep(w1, j1, "Apostrophe") /\ ~w1.paired
<1>1. /\ Read(w, Apostrophe, {Quote, Apostrophe}) \in Readers
      /\ Read(j, Quote, {Quote}) \in Readers
  BY ReadIsReader, Delimiters DEF InStep
<1>2. w.within = None /\ j.within = None /\ j.items = w.items
  BY DEF InStep
<1> QED BY <1>1, <1>2 DEF Reader, InStep, Read, ReadOutside

\* In a string: a character both readers take alike.
LEMMA CopiedInString ==
    ASSUME NEW w, NEW j, NEW st \in {"DoubleQuoted", "Apostrophe"}, InStep(w, j, st),
           NEW c \in Characters,
           st = "Apostrophe" => c # Apostrophe /\ (w.paired \/ c # Quote)
    PROVE  LET w1 == Read(w, c, {Quote, Apostrophe})
               j1 == Read(j, c, {Quote})
           IN  /\ InStep(w1, j1, IF st = "DoubleQuoted" /\ ~w.paired /\ c = Quote
                                 THEN "Outside" ELSE st)
               /\ w1.paired <=> ~w.paired /\ c = Backslash
<1>1. Read(w, c, {Quote, Apostrophe}) \in Readers /\ Read(j, c, {Quote}) \in Readers
  BY ReadIsReader, Delimiters DEF InStep
<1>2. /\ w.within \in {Quote, Apostrophe} /\ j.within = Quote
      /\ w.within = IF st = "DoubleQuoted" THEN Quote ELSE Apostrophe
      /\ j.items = w.items /\ j.paired = w.paired /\ w.paired \in BOOLEAN
  BY DEF InStep, Readers
<1>3. /\ Read(w, c, {Quote, Apostrophe}) = ReadInString(w, c)
      /\ Read(j, c, {Quote}) = ReadInString(j, c)
  BY <1>2, Delimiters DEF Read
<1> DEFINE w1 == Read(w, c, {Quote, Apostrophe})
           j1 == Read(j, c, {Quote})
<1>4. CASE w.paired
  <2>1. Meaning(c, w.within) = Meaning(c, j.within)
    BY <1>2, <1>4, Delimiters DEF Meaning
  <2>2. /\ w1 = Reader(w.within, FALSE, w.opened, Append(w.items, Meaning(c, w.within)))
        /\ j1 = Reader(Quote, FALSE, j.opened, Append(j.items, Meaning(c, j.within)))
    BY <1>2, <1>3, <1>4 DEF ReadInString
  <2> HIDE DEF w1, j1
  <2>3. /\ w1.within = w.within /\ w1.paired = FALSE
        /\ w1.items = Append(w.items, Meaning(c, w.within))
    <3>1. w1 = Reader(w.within, FALSE, w.opened, Append(w.items, Meaning(c, w.within)))
      BY <2>2
    <3> QED BY <3>1 DEF Reader
  <2>4. /\ j1.within = Quote /\ j1.paired = FALSE
        /\ j1.items = Append(j.items, Meaning(c, j.within))
    <3>1. j1 = Reader(Quote, FALSE, j.opened, Append(j.items, Meaning(c, j.within)))
      BY <2>2
    <3> QED BY <3>1 DEF Reader
  <2>5. InStep(w1, j1, st)
    BY <1>1, <1>2, <2>1, <2>3, <2>4 DEF InStep, w1, j1
  <2> QED BY <1>4, <2>3, <2>5 DEF w1, j1
<1>5. CASE ~w.paired /\ c = Backslash
  <2>1. /\ w1 = Reader(w.within, TRUE, w.opened, w.items)
        /\ j1 = Reader(Quote, TRUE, j.opened, j.items)
    BY <1>2, <1>3, <1>5 DEF ReadInString
  <2>2. /\ w1.within = w.within /\ w1.paired = TRUE /\ w1.items = w.items
        /\ j1.within = Quote /\ j1.paired = TRUE /\ j1.items = j.items
    BY <2>1 DEF Reader
  <2> HIDE DEF w1, j1
  <2>3. InStep(w1, j1, st)
    BY <1>1, <1>2, <2>2 DEF InStep, w1, j1
  <2> QED BY <1>5, <2>2, <2>3, Delimiters DEF w1, j1
<1>6. CASE ~w.paired /\ c # Backslash
  <2> DEFINE item == IF c = w.within THEN <<"close", Quote>> ELSE <<"character", c>>
             then == IF c = w.within THEN "Outside" ELSE st
  <2>1. c = w.within <=> c = j.within
    BY <1>2, <1>6
  <2>2. /\ w1 = Reader(IF c = w.within THEN None ELSE w.within, FALSE, w.opened,
                       Append(w.items, item))
        /\ j1 = Reader(IF c = w.within THEN None ELSE Quote, FALSE, j.opened,
                       Append(j.items, item))
    BY <1>2, <1>3, <1>6, <2>1 DEF ReadInString
  <2> HIDE DEF item, w1, j1
  <2>3. /\ w1.within = IF c = w.within THEN None ELSE w.within
        /\ w1.paired = FALSE /\ w1.items = Append(w.items, item)
    <3>1. w1 = Reader(IF c = w.within THEN None ELSE w.within, FALSE, w.opened,
                      Append(w.items, item))
      BY <2>2
    <3> QED BY <3>1 DEF Reader
  <2>4. /\ j1.within = IF c = w.within THEN None ELSE Quote
        /\ j1.paired = FALSE /\ j1.items = Append(j.items, item)
    <3>1. j1 = Reader(IF c = w.within THEN None ELSE Quote, FALSE, j.opened,
                      Append(j.items, item))
      BY <2>2
    <3> QED BY <3>1 DEF Reader
  <2>5. InStep(w1, j1, then)
    BY <1>1, <1>2, <2>3, <2>4 DEF InStep, w1, j1
  <2>6. then = IF st = "DoubleQuoted" /\ ~w.paired /\ c = Quote THEN "Outside" ELSE st
    BY <1>2, <1>6, <2>1
  <2> QED BY <1>6, <2>3, <2>5, <2>6 DEF w1, j1
<1> QED BY <1>2, <1>4, <1>5, <1>6

\* In an apostrophe string: its end, a quote that must not end it, and \'.
LEMMA ClosesApostrophe ==
    ASSUME NEW w, NEW j, InStep(w, j, "Apostrophe"), ~w.paired
    PROVE  LET w1 == Read(w, Apostrophe, {Quote, Apostrophe})
               j1 == Read(j, Quote, {Quote})
           IN  InStep(w1, j1, "Outside") /\ ~w1.paired
<1>1. /\ Read(w, Apostrophe, {Quote, Apostrophe}) \in Readers
      /\ Read(j, Quote, {Quote}) \in Readers
  BY ReadIsReader, Delimiters DEF InStep
<1>2. w.within = Apostrophe /\ j.within = Quote /\ j.items = w.items /\ ~j.paired
  BY DEF InStep
<1> QED BY <1>1, <1>2, Delimiters DEF Reader, InStep, Read, ReadInString

LEMMA EscapesQuote ==
    ASSUME NEW w, NEW j, InStep(w, j, "Apostrophe"), ~w.paired
    PROVE  LET w1 == Read(w, Quote, {Quote, Apostrophe})
               j1 == Read(Read(j, Backslash, {Quote}), Quote, {Quote})
           IN  InStep(w1, j1, "Apostrophe") /\ ~w1.paired
<1> DEFINE mid == Read(j, Backslash, {Quote})
<1>1. /\ Read(w, Quote, {Quote, Apostrophe}) \in Readers
      /\ mid \in Readers /\ Read(mid, Quote, {Quote}) \in Readers
  BY ReadIsReader, Delimiters DEF InStep
<1>2. w.within = Apostrophe /\ j.within = Quote /\ j.items = w.items /\ ~j.paired
  BY DEF InStep
<1>3. mid.within = Quote /\ mid.paired /\ mid.items = w.items
  BY <1>2, Delimiters DEF Reader, Read, ReadInString
<1>4. Meaning(Quote, Quote) = <<"character", Quote>>
  BY DEF Meaning
<1> HIDE DEF mid
<1>5. InStep(Read(w, Quote, {Quote, Apostrophe}), Read(mid, Quote, {Quote}), "Apostrophe")
      /\ ~Read(w, Quote, {Quote, Apostrophe}).paired
  BY <1>1, <1>2, <1>3, <1>4, Delimiters DEF Reader, InStep, Read, ReadInString
<1> QED BY <1>5 DEF mid

LEMMA UnescapesApostrophe ==
    ASSUME NEW w, NEW j, InStep(w, j, "Apostrophe"), ~w.paired
    PROVE  LET w1 == Read(Read(w, Backslash, {Quote, Apostrophe}), Apostrophe,
                          {Quote, Apostrophe})
               j1 == Read(j, Apostrophe, {Quote})
           IN  InStep(w1, j1, "Apostrophe") /\ ~w1.paired
<1> DEFINE mid == Read(w, Backslash, {Quote, Apostrophe})
           w1 == Read(mid, Apostrophe, {Quote, Apostrophe})
           j1 == Read(j, Apostrophe, {Quote})
<1>1. mid \in Readers /\ w1 \in Readers /\ j1 \in Readers
  BY ReadIsReader, Delimiters DEF InStep
<1>2. w.within = Apostrophe /\ j.within = Quote /\ j.items = w.items /\ ~j.paired
  BY DEF InStep
<1>3. mid.within = Apostrophe /\ mid.paired /\ mid.items = w.items
  BY <1>2, Delimiters DEF Reader, Read, ReadInString
<1>4. Meaning(Apostrophe, Apostrophe) = <<"character", Apostrophe>>
  BY DEF Meaning
<1> HIDE DEF mid
<1>5. /\ w1.within = Apostrophe /\ w1.paired = FALSE
      /\ w1.items = Append(w.items, <<"character", Apostrophe>>)
  BY <1>3, <1>4, Delimiters DEF Reader, Read, ReadInString
<1>6. /\ j1.within = Quote /\ j1.paired = FALSE
      /\ j1.items = Append(w.items, <<"character", Apostrophe>>)
  BY <1>2, Delimiters DEF Reader, Read, ReadInString
<1> HIDE DEF w1, j1
<1>7. InStep(w1, j1, "Apostrophe") /\ ~w1.paired
  BY <1>1, <1>5, <1>6 DEF InStep
<1> QED BY <1>7 DEF w1, j1, mid

LEMMA Pieces ==
    ASSUME NEW r, NEW delimiters
    PROVE  /\ \A c : ReadPiece(r, <<c>>, delimiters) = Read(r, c, delimiters)
           /\ \A c, d : ReadPiece(r, <<c, d>>, delimiters)
                           = Read(Read(r, c, delimiters), d, delimiters)
BY DEF ReadPiece

\* What a turn makes of the readers, by how much it takes and puts out.
LEMMA TurnReads ==
    ASSUME NEW c, NEW p, NEW then, Turn(<<c>>, <<p>>, then)
    PROVE  /\ written' = Read(written, c, {Quote, Apostrophe})
           /\ json' = Read(json, p, {Quote})
<1>1. /\ written' = ReadPiece(written, <<c>>, {Quote, Apostrophe})
      /\ json' = ReadPiece(json, <<p>>, {Quote})
  BY DEF Turn
<1> QED BY <1>1, Pieces

LEMMA TurnReadsOneForTwo ==
    ASSUME NEW c, NEW p, NEW q, NEW then, Turn(<<c>>, <<p, q>>, then)
    PROVE  /\ written' = Read(written, c, {Quote, Apostrophe})
           /\ json' = Read(Read(json, p, {Quote}), q, {Quote})
<1>1. /\ written' = ReadPiece(written, <<c>>, {Quote, Apostrophe})
      /\ json' = ReadPiece(json, <<p, q>>, {Quote})
  BY DEF Turn
<1> QED BY <1>1, Pieces

LEMMA TurnReadsTwoForOne ==
    ASSUME NEW c, NEW d, NEW p, NEW then, Turn(<<c, d>>, <<p>>, then)
    PROVE  /\ written' = Read(Read(written, c, {Quote, Apostrophe}), d, {Quote, Apostrophe})
           /\ json' = Read(json, p, {Quote})
<1>1. /\ written' = ReadPiece(written, <<c, d>>, {Quote, Apostrophe})
      /\ json' = ReadPiece(json, <<p>>, {Quote})
  BY DEF Turn
<1> QED BY <1>1, Pieces

LEMMA TurnReadsTwo ==
    ASSUME NEW c, NEW d, NEW p, NEW q, NEW then, Turn(<<c, d>>, <<p, q>>, then)
    PROVE  /\ written' = Read(Read(written, c, {Quote, Apostrophe}), d, {Quote, Apostrophe})
           /\ json' = Read(Read(json, p, {Quote}), q, {Quote})
<1>1. /\ written' = ReadPiece(written, <<c, d>>, {Quote, Apostrophe})
      /\ json' = ReadPiece(json, <<p, q>>, {Quote})
  BY DEF Turn
<1> QED BY <1>1, Pieces

\* A turn that ends in step, and leaves a backslash unpaired only at the end of
\* the text, keeps the invariant.
LEMMA TurnKeeps ==
    ASSUME ScanInv, NEW n \in 1..2, NEW then, i' = i + n, state' = then, UNCHANGED text,
           i + n <= Len(text) + 1, InStep(written', json', then),
           written'.paired => i + n = Len(text) + 1
    PROVE  ScanInv'
<1>1. Len(text) \in Nat /\ i \in 1..(Len(text) + 1) /\ text \in Seq(Characters)
  BY DEF ScanInv
<1>2. i' \in 1..(Len(text') + 1)
  BY <1>1
<1> QED BY <1>1, <1>2 DEF ScanInv

LEMMA OneTaken ==
    ASSUME ScanInv, NEW c, NEW put, NEW then, Turn(<<c>>, put, then), UNCHANGED text,
           i <= Len(text), InStep(written', json', then), written'.paired => i = Len(text)
    PROVE  ScanInv'
<1>1. i' = i + 1 /\ state' = then
  BY DEF Turn
<1>2. i \in Nat /\ Len(text) \in Nat
  BY DEF ScanInv
<1> QED BY <1>1, <1>2, TurnKeeps

LEMMA TwoTaken ==
    ASSUME ScanInv, NEW c, NEW d, NEW put, NEW then, Turn(<<c, d>>, put, then),
           UNCHANGED text, i < Len(text), InStep(written', json', then), ~written'.paired
    PROVE  ScanInv'
<1>1. i' = i + 2 /\ state' = then
  BY DEF Turn
<1>2. i \in Nat /\ Len(text) \in Nat
  BY DEF ScanInv
<1> QED BY <1>1, <1>2, TurnKeeps

LEMMA OutsideKeeps ==
    ASSUME ScanInv, i <= Len(text), state = "Outside", ScanOutside(text[i]), UNCHANGED text
    PROVE  ScanInv'
<1> DEFINE c == text[i]
<1>1. c \in Characters /\ InStep(written, json, "Outside") /\ i + 1 <= Len(text) + 1
  BY DEF ScanInv
<1>2. CASE c = Apostrophe /\ Turn(<<c>>, <<Quote>>, "Apostrophe")
  <2>1. InStep(written', json', "Apostrophe") /\ ~written'.paired
    <3>1. written' = Read(written, c, {Quote, Apostrophe}) /\ json' = Read(json, Quote, {Quote})
      BY <1>2, TurnReads
    <3> QED BY <3>1, <1>1, <1>2, OpensApostrophe
  <2> QED BY <1>2, <2>1, OneTaken
<1>3. CASE c # Apostrophe /\ Copy(<<c>>, IF c = Quote THEN "DoubleQuoted" ELSE "Outside")
  <2> DEFINE then == IF c = Quote THEN "DoubleQuoted" ELSE "Outside"
  <2>1. Turn(<<c>>, <<c>>, then)
    BY <1>3 DEF Copy
  <2>2. InStep(written', json', then) /\ ~written'.paired
    <3>1. written' = Read(written, c, {Quote, Apostrophe}) /\ json' = Read(json, c, {Quote})
      BY <2>1, TurnReads
    <3> QED BY <3>1, <1>1, <1>3, CopiedOutside
  <2> QED BY <2>1, <2>2, OneTaken
<1> QED BY <1>2, <1>3, Delimiters DEF ScanOutside

LEMMA DoubleQuotedKeeps ==
    ASSUME ScanInv, i <= Len(text), state = "DoubleQuoted", ScanDoubleQuoted(text[i]),
           UNCHANGED text
    PROVE  ScanInv'
<1> DEFINE c == text[i]
<1>1. /\ c \in Characters /\ InStep(written, json, "DoubleQuoted") /\ ~written.paired
      /\ i \in Nat /\ Len(text) \in Nat
  BY DEF ScanInv
<1>2. CASE StartsPair(c) /\ Copy(<<c, text[i + 1]>>, "DoubleQuoted")
  <2> DEFINE d == text[i + 1]
             w1 == Read(written, c, {Quote, Apostrophe})
             j1 == Read(json, c, {Quote})
  <2>1. c = Backslash /\ i + 1 \in 1..Len(text) /\ d \in Characters
    BY <1>1, <1>2 DEF StartsPair, ScanInv
  <2>2. InStep(w1, j1, "DoubleQuoted") /\ w1.paired
    BY <1>1, <2>1, CopiedInString, Delimiters
  <2>3. InStep(Read(w1, d, {Quote, Apostrophe}), Read(j1, d, {Quote}), "DoubleQuoted")
        /\ ~Read(w1, d, {Quote, Apostrophe}).paired
    <3> HIDE DEF w1, j1
    <3> QED BY <2>1, <2>2, CopiedInString
  <2>4. Turn(<<c, d>>, <<c, d>>, "DoubleQuoted")
    BY <1>2 DEF Copy
  <2>5. InStep(written', json', "DoubleQuoted") /\ ~written'.paired
    BY <2>3, <2>4, TurnReadsTwo
  <2> QED BY <1>2, <2>4, <2>5, TwoTaken DEF StartsPair
<1>3. CASE ~StartsPair(c) /\ Copy(<<c>>, IF c = Quote THEN "Outside" ELSE "DoubleQuoted")
  <2> DEFINE then == IF c = Quote THEN "Outside" ELSE "DoubleQuoted"
  <2>1. Turn(<<c>>, <<c>>, then)
    BY <1>3 DEF Copy
  <2>2. InStep(written', json', then) /\ (written'.paired <=> c = Backslash)
    <3>1. written' = Read(written, c, {Quote, Apostrophe}) /\ json' = Read(json, c, {Quote})
      BY <2>1, TurnReads
    <3> QED BY <3>1, <1>1, <2>1, CopiedInString
  <2>3. c = Backslash => i = Len(text)
    BY <1>1, <1>3 DEF StartsPair
  <2> QED BY <2>1, <2>2, <2>3, OneTaken
<1> QED BY <1>2, <1>3 DEF ScanDoubleQuoted

LEMMA ApostropheKeeps ==
    ASSUME ScanInv, i <= Len(text), state = "Apostrophe", ScanApostrophe(text[i]),
           UNCHANGED text
    PROVE  ScanInv'
<1> DEFINE c == text[i]
           d == text[i + 1]
<1>1. /\ c \in Characters /\ InStep(written, json, "Apostrophe") /\ ~written.paired
      /\ i \in Nat /\ Len(text) \in Nat
  BY DEF ScanInv
<1>2. ASSUME StartsPair(c)
      PROVE  c = Backslash /\ i + 1 \in 1..Len(text) /\ d \in Characters
  BY <1>1, <1>2 DEF StartsPair, ScanInv
<1>3. CASE StartsPair(c) /\ d = Apostrophe /\ Turn(<<c, Apostrophe>>, <<Apostrophe>>, "Apostrophe")
  <2>1. InStep(written', json', "Apostrophe") /\ ~written'.paired
    <3>1. /\ written' = Read(Read(written, c, {Quote, Apostrophe}), Apostrophe, {Quote, Apostrophe})
          /\ json' = Read(json, Apostrophe, {Quote})
      BY <1>3, TurnReadsTwoForOne
    <3> QED BY <3>1, <1>1, <1>2, <1>3, UnescapesApostrophe
  <2> QED BY <1>3, <2>1, TwoTaken DEF StartsPair
<1>4. CASE StartsPair(c) /\ d # Apostrophe /\ Copy(<<c, d>>, "Apostrophe")
  <2> DEFINE w1 == Read(written, c, {Quote, Apostrophe})
             j1 == Read(json, c, {Quote})
  <2>1. InStep(w1, j1, "Apostrophe") /\ w1.paired
    BY <1>1, <1>2, <1>4, CopiedInString, Delimiters
  <2>2. InStep(Read(w1, d, {Quote, Apostrophe}), Read(j1, d, {Quote}), "Apostrophe")
        /\ ~Read(w1, d, {Quote, Apostrophe}).paired
    <3> HIDE DEF w1, j1
    <3> QED BY <1>2, <1>4, <2>1, CopiedInString
  <2>3. Turn(<<c, d>>, <<c, d>>, "Apostrophe")
    BY <1>4 DEF Copy
  <2>4. InStep(written', json', "Apostrophe") /\ ~written'.paired
    BY <2>2, <2>3, TurnReadsTwo
  <2> QED BY <1>4, <2>3, <2>4, TwoTaken DEF StartsPair
<1>5. CASE c = Apostrophe /\ Turn(<<c>>, <<Quote>>, "Outside")
  <2>1. InStep(written', json', "Outside") /\ ~written'.paired
    <3>1. written' = Read(written, c, {Quote, Apostrophe}) /\ json' = Read(json, Quote, {Quote})
      BY <1>5, TurnReads
    <3> QED BY <3>1, <1>1, <1>5, ClosesApostrophe
  <2> QED BY <1>5, <2>1, OneTaken
<1>6. CASE c = Quote /\ Turn(<<c>>, <<Backslash, Quote>>, "Apostrophe")
  <2>1. InStep(written', json', "Apostrophe") /\ ~written'.paired
    <3>1. /\ written' = Read(written, c, {Quote, Apostrophe})
          /\ json' = Read(Read(json, Backslash, {Quote}), Quote, {Quote})
      BY <1>6, TurnReadsOneForTwo
    <3> QED BY <3>1, <1>1, <1>6, EscapesQuote
  <2> QED BY <1>6, <2>1, OneTaken
<1>7. CASE ~StartsPair(c) /\ c \notin {Apostrophe, Quote} /\ Copy(<<c>>, "Apostrophe")
  <2>1. Turn(<<c>>, <<c>>, "Apostrophe")
    BY <1>7 DEF Copy
  <2>2. InStep(written', json', "Apostrophe") /\ (written'.paired <=> c = Backslash)
    <3>1. written' = Read(written, c, {Quote, Apostrophe}) /\ json' = Read(json, c, {Quote})
      BY <2>1, TurnReads
    <3> QED BY <3>1, <1>1, <1>7, <2>1, CopiedInString
  <2>3. c = Backslash => i = Len(text)
    BY <1>1, <1>7 DEF StartsPair
  <2> QED BY <2>1, <2>2, <2>3, OneTaken
<1> QED BY <1>3, <1>4, <1>5, <1>6, <1>7 DEF ScanApostrophe

LEMMA StartsInStep == Init => ScanInv
<1> SUFFICES ASSUME Init PROVE ScanInv
  OBVIOUS
<1>1. text \in Seq(Characters)
  <2>1. Texts \subseteq Seq(Characters)
    BY LengthsAssumption DEF Texts
  <2>2. <<>> \in Seq(Characters)
    OBVIOUS
  <2> QED BY <2>1, <2>2 DEF Init
<1>2. ReaderStart \in Readers
  <2>1. <<>> \in Seq(Kinds \X Characters)
    OBVIOUS
  <2> QED BY <2>1, ReaderType DEF ReaderStart
<1>3. ReaderStart.within = None /\ ReaderStart.paired = FALSE
  BY DEF ReaderStart, Reader
<1>4. InStep(written, json, state) /\ written.paired = FALSE
  BY <1>2, <1>3 DEF Init, InStep
<1>5. i = 1 /\ Len(text) \in Nat
  BY <1>1 DEF Init
<1> QED BY <1>1, <1>4, <1>5 DEF ScanInv

LEMMA StepsStayInStep == ScanInv /\ [Next]_vars => ScanInv'
<1> SUFFICES ASSUME ScanInv, [Next]_vars PROVE ScanInv'
  OBVIOUS
<1>1. CASE Scan
  <2>1. i <= Len(text) /\ UNCHANGED text
    BY <1>1 DEF Scan, callVars
  <2> QED BY <1>1, <2>1, OutsideKeeps, DoubleQuotedKeeps, ApostropheKeeps DEF Scan
<1>2. CASE UNCHANGED <<callVars, scanVars>>
  BY <1>2 DEF ScanInv, InStep, callVars, scanVars
<1>3. Scan \/ UNCHANGED <<callVars, scanVars>>
  BY DEF Next, Refuse, StartScan, Deliver, Throws, Returns, vars
<1> QED BY <1>1, <1>2, <1>3

\* The inductive invariant of the scanner.
THEOREM ScanInvariant == Spec => []ScanInv
BY StartsInStep, StepsStayInStep, PTL DEF Spec

\* For every text, whatever its length and characters, the output of the scanner
\* means, as JSON, what the input means with its apostrophes.
THEOREM ScannerKeepsMeaning == Spec => []MeansTheSame
<1>1. ScanInv => MeansTheSame
  BY Delimiters DEF ScanInv, InStep, MeansTheSame
<1> QED BY <1>1, ScanInvariant, PTL

-----------------------------------------------------------------------------
(* A text without apostrophe strings is copied. *)

PlainInv ==
    /\ state = "Apostrophe" => Apostrophe \in written.opened
    /\ Apostrophe \notin written.opened => out = SubSeq(text, 1, i - 1)

LEMMA OpenedStays ==
    ASSUME NEW r, NEW c, NEW delimiters
    PROVE  /\ r.opened \subseteq Read(r, c, delimiters).opened
           /\ r.within = None /\ c \in delimiters => c \in Read(r, c, delimiters).opened
<1>1. r.opened \subseteq ReadInString(r, c).opened
  BY DEF ReadInString, Reader
<1>2. /\ r.opened \subseteq ReadOutside(r, c, delimiters).opened
      /\ c \in delimiters => c \in ReadOutside(r, c, delimiters).opened
  BY DEF ReadOutside, Reader
<1> QED BY <1>1, <1>2 DEF Read

LEMMA PieceOpens ==
    ASSUME NEW r, NEW piece, NEW delimiters
    PROVE  r.opened \subseteq ReadPiece(r, piece, delimiters).opened
<1> DEFINE once == Read(r, piece[1], delimiters)
<1>1. r.opened \subseteq once.opened /\ once.opened \subseteq Read(once, piece[2], delimiters).opened
  BY OpenedStays
<1> QED BY <1>1 DEF ReadPiece

\* What is copied continues the text.
LEMMA CopiedContinues ==
    ASSUME NEW t \in Seq(Characters), NEW k \in 1..Len(t)
    PROVE  /\ SubSeq(t, 1, k - 1) \o <<t[k]>> = SubSeq(t, 1, k)
           /\ k < Len(t) => SubSeq(t, 1, k - 1) \o <<t[k], t[k + 1]>> = SubSeq(t, 1, k + 1)
OBVIOUS

LEMMA StepsStayPlain ==
    ScanInv /\ PlainInv /\ [Next]_vars => PlainInv'
<1> SUFFICES ASSUME ScanInv, PlainInv, [Next]_vars PROVE PlainInv'
  OBVIOUS
<1>1. text \in Seq(Characters) /\ i \in 1..(Len(text) + 1) /\ Len(text) \in Nat
  BY DEF ScanInv
<1>2. ASSUME NEW taken, NEW put, NEW then, Turn(taken, put, then)
      PROVE  written.opened \subseteq written'.opened
  <2>1. written' = ReadPiece(written, taken, {Quote, Apostrophe})
    BY <1>2 DEF Turn
  <2> QED BY <2>1, PieceOpens
<1>3. ASSUME NEW c, c = text[i], i <= Len(text), UNCHANGED text, NEW then,
             Copy(<<c>>, then), then = "Apostrophe" => state = "Apostrophe"
      PROVE  PlainInv'
  <2>1. Turn(<<c>>, <<c>>, then)
    BY <1>3 DEF Copy
  <2>2. written.opened \subseteq written'.opened
    BY <2>1, <1>2
  <2>3. i' = i + 1 /\ out' = out \o <<c>> /\ state' = then
    BY <2>1 DEF Turn
  <2>4. SubSeq(text, 1, i - 1) \o <<c>> = SubSeq(text, 1, i)
    BY <1>1, <1>3, CopiedContinues
  <2>5. i' - 1 = i
    BY <1>1, <2>3
  <2> QED BY <1>3, <2>2, <2>3, <2>4, <2>5 DEF PlainInv
<1>4. ASSUME NEW c, NEW d, c = text[i], d = text[i + 1], i < Len(text), UNCHANGED text,
             NEW then, Copy(<<c, d>>, then), then = "Apostrophe" => state = "Apostrophe"
      PROVE  PlainInv'
  <2>1. Turn(<<c, d>>, <<c, d>>, then)
    BY <1>4 DEF Copy
  <2>2. written.opened \subseteq written'.opened
    BY <2>1, <1>2
  <2>3. i' = i + 2 /\ out' = out \o <<c, d>> /\ state' = then
    BY <2>1 DEF Turn
  <2>4. SubSeq(text, 1, i - 1) \o <<c, d>> = SubSeq(text, 1, i + 1)
    BY <1>1, <1>4, CopiedContinues
  <2>5. i' - 1 = i + 1
    BY <1>1, <2>3
  <2> QED BY <1>4, <2>2, <2>3, <2>4, <2>5 DEF PlainInv
<1>5. ASSUME Apostrophe \in written'.opened PROVE PlainInv'
  BY <1>5 DEF PlainInv
<1>6. CASE Scan
  <2> DEFINE c == text[i]
  <2>1. i <= Len(text) /\ UNCHANGED text
    BY <1>6 DEF Scan, callVars
  <2>2. CASE state = "Outside" /\ ScanOutside(c)
    <3>1. ASSUME c = Apostrophe, Turn(<<c>>, <<Quote>>, "Apostrophe") PROVE PlainInv'
      <4>1. written' = Read(written, c, {Quote, Apostrophe}) /\ written.within = None
        BY <2>2, <3>1, TurnReads DEF ScanInv, InStep
      <4>2. Apostrophe \in Read(written, c, {Quote, Apostrophe}).opened
        BY <3>1, <4>1, OpenedStays
      <4> QED BY <4>1, <4>2, <1>5
    <3>2. ASSUME Copy(<<c>>, "DoubleQuoted") PROVE PlainInv'
      BY <2>1, <3>2, <1>3
    <3>3. ASSUME Copy(<<c>>, "Outside") PROVE PlainInv'
      BY <2>1, <3>3, <1>3
    <3> QED BY <2>2, <3>1, <3>2, <3>3 DEF ScanOutside
  <2>3. CASE state = "DoubleQuoted" /\ ScanDoubleQuoted(c)
    <3>1. ASSUME StartsPair(c), Copy(<<c, text[i + 1]>>, "DoubleQuoted") PROVE PlainInv'
      BY <2>1, <3>1, <1>4 DEF StartsPair
    <3>2. ASSUME Copy(<<c>>, IF c = Quote THEN "Outside" ELSE "DoubleQuoted") PROVE PlainInv'
      BY <2>1, <3>2, <1>3
    <3> QED BY <2>3, <3>1, <3>2 DEF ScanDoubleQuoted
  <2>4. CASE state = "Apostrophe" /\ ScanApostrophe(c)
    <3>1. Apostrophe \in written.opened
      BY <2>4 DEF PlainInv
    <3>2. PICK taken, put, then : Turn(taken, put, then)
      BY <2>4 DEF ScanApostrophe, Copy
    <3> QED BY <3>1, <3>2, <1>2, <1>5
  <2> QED BY <1>6, <2>2, <2>3, <2>4 DEF Scan
<1>7. CASE UNCHANGED <<callVars, scanVars>>
  BY <1>7 DEF PlainInv, callVars, scanVars
<1>8. Scan \/ UNCHANGED <<callVars, scanVars>>
  BY DEF Next, Refuse, StartScan, Deliver, Throws, Returns, vars
<1> QED BY <1>6, <1>7, <1>8

\* A text of any length whose apostrophes all stand in double-quoted strings comes out
\* as it went in.
THEOREM PlainTextIsCopied == Spec => []PlainTextUnchanged
<1>1. Init => PlainInv
  BY DEF Init, PlainInv, ReaderStart, Reader
<1>2. PlainInv => PlainTextUnchanged
  BY DEF PlainInv, PlainTextUnchanged
<1> QED BY <1>1, <1>2, StepsStayPlain, ScanInvariant, PTL DEF Spec

-----------------------------------------------------------------------------
(* The script's buffer. *)

\* Before the scan the buffer is the script's, during it the call's own and empty.
BufferInv ==
    /\ size \in Nat /\ phase \in {"called", "scanning", "returned"}
    /\ phase = "called" => normalized = Untouched
    /\ phase = "scanning" => normalized = <<>> /\ size > 0
    /\ NormalizedOnlyOnOk

\* Whatever the text and the size of the buffer, only Ok leaves text in it.
THEOREM NormalizedIsWhole == Spec => []NormalizedOnlyOnOk
<1>1. Init => BufferInv
  BY LengthsAssumption DEF Init, BufferInv, NormalizedOnlyOnOk
<1>2. ScanInv /\ BufferInv /\ [Next]_vars => BufferInv'
  <2> SUFFICES ASSUME ScanInv, BufferInv, [Next]_vars PROVE BufferInv'
    OBVIOUS
  <2>1. CASE phase = "called" /\ Refuse
    BY <2>1 DEF Refuse, Returns, BufferInv, NormalizedOnlyOnOk, Emptied, callVars
  <2>2. CASE phase = "called" /\ StartScan
    BY <2>2 DEF StartScan, BufferInv, NormalizedOnlyOnOk, callVars
  <2>3. CASE Scan
    BY <2>3 DEF Scan, BufferInv, NormalizedOnlyOnOk, callVars
  <2>4. CASE Deliver
    BY <2>4 DEF Deliver, Returns, BufferInv, NormalizedOnlyOnOk, ScanInv, callVars, scanVars
  <2>5. CASE Throws
    BY <2>5 DEF Throws, Returns, BufferInv, NormalizedOnlyOnOk, Emptied, callVars
  <2>6. CASE UNCHANGED vars
    BY <2>6 DEF vars, BufferInv, NormalizedOnlyOnOk, callVars, scanVars
  <2> QED BY <2>1, <2>2, <2>3, <2>4, <2>5, <2>6 DEF Next
<1>3. BufferInv => NormalizedOnlyOnOk
  BY DEF BufferInv
<1> QED BY <1>1, <1>2, <1>3, ScanInvariant, PTL DEF Spec
=============================================================================
