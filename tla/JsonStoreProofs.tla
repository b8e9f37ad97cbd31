--------------------------- MODULE JsonStoreProofs ---------------------------
(* Proofs about the document store, for every number of slots, width of the *)
(* id counter and set of scripts.                                           *)
EXTENDS JsonStoreRefinement, FiniteSetTheorems, TLAPS

-----------------------------------------------------------------------------
(* Arithmetic of a counter of width M.  *)

LEMMA DivMod ==
    ASSUME NEW M \in Nat \ {0}, NEW a \in Nat
    PROVE  /\ a % M \in 0..(M - 1)
           /\ a \div M \in Nat
           /\ a = M * (a \div M) + (a % M)
  BY SMT

LEMMA RemainderUnique ==
    ASSUME NEW M \in Nat \ {0}, NEW q \in Int, NEW p \in Int,
           NEW r \in 0..(M - 1), NEW s \in 0..(M - 1),
           M * q + r = M * p + s
    PROVE  q = p /\ r = s
<1>1. M * (q - p) = s - r
  OBVIOUS
<1>2. CASE q - p >= 1
  <2>1. M * (q - p) >= M
    BY <1>2, SMT
  <2> QED BY <2>1, <1>1
<1>3. CASE q - p <= -1
  <2>1. M * (q - p) <= -M
    BY <1>3, SMT
  <2> QED BY <2>1, <1>1
<1> QED BY <1>1, <1>2, <1>3

\* Reducing before a further step changes nothing.
LEMMA ModAdd ==
    ASSUME NEW M \in Nat \ {0}, NEW a \in Nat, NEW b \in Nat
    PROVE  ((a % M) + b) % M = (a + b) % M
<1> DEFINE c == a + b
           d == (a % M) + b
<1>1. a % M \in 0..(M - 1) /\ a \div M \in Int /\ a = M * (a \div M) + (a % M)
  BY DivMod
<1>2. c \in Nat /\ d \in Nat
  BY <1>1
<1> HIDE DEF c, d
<1>3. c % M \in 0..(M - 1) /\ c \div M \in Int /\ c = M * (c \div M) + (c % M)
  BY <1>2, DivMod
<1>4. d % M \in 0..(M - 1) /\ d \div M \in Int /\ d = M * (d \div M) + (d % M)
  BY <1>2, DivMod
<1>5. c = M * (a \div M) + d
  BY <1>1 DEF c, d
<1> DEFINE q == a \div M
           t == d \div M
           u == d % M
<1> HIDE DEF q, t, u
<1>6. q \in Int /\ t \in Int /\ u \in 0..(M - 1) /\ c = M * q + (M * t + u)
  BY <1>1, <1>4, <1>5 DEF q, t, u
<1>7. M * (q + t) = M * q + M * t
  BY <1>6, SMT
<1>8. q + t \in Int /\ M * (c \div M) + (c % M) = M * (q + t) + u
  BY <1>2, <1>3, <1>6, <1>7
<1>9. c % M = u
  <2> DEFINE v == c \div M
             w == c % M
             x == q + t
  <2>1. v \in Int /\ w \in 0..(M - 1) /\ x \in Int /\ M * v + w = M * x + u
    BY <1>3, <1>8
  <2> HIDE DEF v, w, x
  <2>2. w = u
    BY <2>1, <1>6, RemainderUnique
  <2> QED BY <2>2 DEF w
<1> QED BY <1>9 DEF c, d, u

\* Fewer than M steps apart, two distances that lead to the same value are equal.
LEMMA ModCancel ==
    ASSUME NEW M \in Nat \ {0}, NEW x \in Nat, NEW a \in 0..(M - 1), NEW b \in 0..(M - 1),
           (x + a) % M = (x + b) % M
    PROVE  a = b
<1> DEFINE p == (x + a) \div M
           q == (x + b) \div M
           r == (x + a) % M
<1>1. x + a \in Nat /\ x + b \in Nat
  OBVIOUS
<1>2. x + a = M * p + r /\ p \in Int
  BY <1>1, DivMod
<1>3. x + b = M * q + r /\ q \in Int
  BY <1>1, DivMod
<1>4. r \in Int
  BY <1>1, DivMod
<1> HIDE DEF p, q, r
<1>5. M * (p - q) = a - b
  BY <1>2, <1>3, <1>4, SMT
<1>6. CASE p - q >= 1
  <2>1. M * (p - q) >= M
    BY <1>6, <1>2, <1>3, SMT
  <2> QED BY <2>1, <1>5
<1>7. CASE p - q <= -1
  <2>1. M * (p - q) <= -M
    BY <1>7, <1>2, <1>3, SMT
  <2> QED BY <2>1, <1>5
<1>8. CASE p - q = 0
  BY <1>8, <1>5
<1> QED BY <1>6, <1>7, <1>8, <1>2, <1>3

-----------------------------------------------------------------------------
(* The inductive invariant. *)

LEMMA SilentTyped ==
    ASSUME NEW c \in Scripts, NEW op \in Operations, NEW status \in Statuses
    PROVE  Silent(c, op, status) \in Replies
  BY DEF Silent, Replies, Indices, BufferTexts

LEMMA InitStore == Init => StoreInv
<1> SUFFICES ASSUME Init PROVE StoreInv
  OBVIOUS
<1>1. TypeOK
  <2>1. PICK c \in Scripts : reply = Silent(c, "DiscardAll", "Ok")
    BY DEF Init
  <2>2. reply \in Replies
    BY <2>1, SilentTyped DEF Operations, Statuses
  <2>3. 0 \in Ids
    BY ModulusAssumption, SlotCountAssumption DEF Ids
  <2> QED
    BY <2>2, <2>3, StepBoundAssumption DEF Init, TypeOK
<1>2. DocumentIdsDistinct
  BY DEF Init, DocumentIdsDistinct
<1>3. CounterPosition
  BY DEF Init, CounterPosition
<1>4. CountsAreOwn
  BY DEF Init, CountsAreOwn
<1> QED BY <1>1, <1>2, <1>3, <1>4 DEF StoreInv

\* What a mint does to the counter and to every distance from it.
LEMMA MintAdvances ==
    ASSUME TypeOK, NEW k \in Ids, NEW id \in Ids, Mint(k, id)
    PROVE  /\ id # 0 /\ ~IsIdLive(id)
           /\ nextId' \in Ids /\ nextId' = (id + 1) % IdModulus
           /\ steps' = steps + k + 1 /\ steps' \in 1..StepBound
           /\ nextId # Unseeded =>
                \A x, a \in Nat : (x + a) % IdModulus = nextId
                                      => (x + (a + k + 1)) % IdModulus = nextId'
<1>1. PICK from \in (IF nextId = Unseeded THEN Ids ELSE {nextId}) : Passes(from, k, id)
  BY DEF Mint
<1>2. /\ id = (from + k) % IdModulus /\ id # 0 /\ ~IsIdLive(id)
      /\ nextId' = (id + 1) % IdModulus
      /\ steps' = steps + k + 1 /\ steps + k < StepBound
  BY <1>1 DEF Mint, Passes
<1>3. IdModulus \in Nat \ {0} /\ k \in Nat /\ id \in Nat
  BY ModulusAssumption, SlotCountAssumption DEF Ids
<1>4. nextId' \in Ids
  <2>1. id + 1 \in Nat
    BY <1>3
  <2>2. (id + 1) % IdModulus \in 0..(IdModulus - 1)
    BY <2>1, <1>3, DivMod
  <2> QED BY <2>2, <1>2 DEF Ids
<1>5. steps' \in 1..StepBound
  BY <1>2, <1>3, StepBoundAssumption DEF TypeOK
<1>6. ASSUME nextId # Unseeded, NEW x \in Nat, NEW a \in Nat, (x + a) % IdModulus = nextId
      PROVE  (x + (a + k + 1)) % IdModulus = nextId'
  <2>1. from = nextId /\ from \in Nat
    BY <1>6, <1>1 DEF TypeOK, Ids
  <2>2. from + k \in Nat /\ x + a \in Nat /\ k + 1 \in Nat
    BY <2>1, <1>3
  <2>3. nextId' = ((from + k) + 1) % IdModulus
    BY <2>2, <1>2, <1>3, ModAdd
  <2>4. (((x + a) % IdModulus) + (k + 1)) % IdModulus = ((x + a) + (k + 1)) % IdModulus
    BY <2>2, <1>3, ModAdd
  <2>5. (x + a) + (k + 1) = x + (a + k + 1) /\ (from + k) + 1 = from + (k + 1)
    BY <2>1, <1>3
  <2> QED BY <2>1, <2>3, <2>4, <2>5, <1>6
<1> QED BY <1>2, <1>4, <1>5, <1>6

LEMMA ParseKeeps ==
    ASSUME StoreInv, NEW c \in Scripts, NEW s \in Slots, NEW n \in EntryCounts,
           NEW k \in Ids, NEW id \in Ids, Parse(c, s, n, k, id)
    PROVE  StoreInv'
<1> DEFINE doc == [serial |-> steps', entries |-> n]
<1> USE DEF StoreInv
<1>1. /\ id # 0 /\ ~IsIdLive(id)
      /\ nextId' \in Ids /\ nextId' = (id + 1) % IdModulus
      /\ steps' = steps + k + 1 /\ steps' \in 1..StepBound
      /\ nextId # Unseeded =>
           \A x, a \in Nat : (x + a) % IdModulus = nextId
                                 => (x + (a + k + 1)) % IdModulus = nextId'
  BY MintAdvances DEF Parse
<1>2. doc \in Documents /\ doc # NoDocument
  BY <1>1 DEF Documents, NoDocument
<1>3. /\ ~occupied[s]
      /\ stored' = [stored EXCEPT ![s] = doc]
      /\ opened' = [opened EXCEPT ![c] = doc]
      /\ slotId' = [slotId EXCEPT ![s] = id]
      /\ occupied' = [occupied EXCEPT ![s] = TRUE]
      /\ handle' = [handle EXCEPT ![c] = id]
      /\ counted' = [counted EXCEPT ![c] = 0]
      /\ reply' = [Silent(c, "Parse", "Ok") EXCEPT !.of = doc]
  BY DEF Parse, FirstFree
<1> HIDE DEF doc
<1>4. TypeOK'
  <2>1. reply' \in Replies
    <3>1. "Parse" \in Operations /\ "Ok" \in Statuses  BY DEF Operations, Statuses
    <3>2. PICK q \in Replies : q = Silent(c, "Parse", "Ok")  BY <3>1, SilentTyped
    <3>3. PICK x \in Documents : x = doc  BY <1>2
    <3>4. reply' = [q EXCEPT !.of = x]  BY <1>3, <3>2, <3>3
    <3>5. [q EXCEPT !.of = x] \in Replies  BY ONLY <3>2, <3>3 DEF Replies
    <3> QED BY <3>4, <3>5
  <2>2. occupied' \in [Slots -> BOOLEAN]  BY <1>3 DEF TypeOK
  <2>3. slotId' \in [Slots -> Ids]  BY <1>3 DEF TypeOK
  <2>4. stored' \in [Slots -> Documents \cup {NoDocument}]  BY <1>2, <1>3 DEF TypeOK
  <2>5. nextId' \in Ids \cup {Unseeded} /\ steps' \in 0..StepBound  BY <1>1
  <2>6. handle' \in [Scripts -> Ids]  BY <1>3 DEF TypeOK
  <2>7. opened' \in [Scripts -> Documents \cup {NoDocument}]  BY <1>2, <1>3 DEF TypeOK
  <2>8. counted' \in [Scripts -> EntryCounts \cup {0}]  BY <1>3 DEF TypeOK
  <2> QED
    BY <2>1, <2>2, <2>3, <2>4, <2>5, <2>6, <2>7, <2>8 DEF TypeOK
<1>5. DocumentIdsDistinct'
  BY <1>1, <1>3 DEF DocumentIdsDistinct, IsIdLive, TypeOK
<1>6. CounterPosition'
  <2> DEFINE M == IdModulus
  <2>1. k \in Nat /\ id \in Nat /\ steps \in Nat
    BY ModulusAssumption DEF Ids, TypeOK
  <2>2. nextId' # Unseeded
    BY <1>1 DEF Ids, Unseeded
  <2>3. doc.serial = steps'
    BY DEF doc
  <2>4. (id + 1 + (steps' - doc.serial)) % M = nextId'
    BY <1>1, <2>1, <2>3
  <2>5. ASSUME NEW x \in Nat, NEW d \in Documents, d.serial <= steps,
               (x + 1 + (steps - d.serial)) % M = nextId
        PROVE  d.serial <= steps' /\ (x + 1 + (steps' - d.serial)) % M = nextId'
    <3>1. d.serial \in Nat /\ d.serial >= 1
      BY DEF Documents
    <3>2. nextId # Unseeded
      BY <3>1, <2>5, <2>1 DEF CounterPosition
    <3>3. x + 1 \in Nat /\ steps - d.serial \in Nat
      BY <3>1, <2>1, <2>5
    <3>4. ((x + 1) + ((steps - d.serial) + k + 1)) % M = nextId'
      BY <1>1, <2>5, <3>2, <3>3
    <3>5. (steps - d.serial) + k + 1 = steps' - d.serial
      BY <1>1, <2>1, <3>1
    <3> QED BY <3>1, <3>4, <3>5, <1>1, <2>1, <2>5
  <2>6. \A r \in Slots : occupied'[r] =>
          /\ stored'[r] # NoDocument /\ stored'[r].serial <= steps'
          /\ (slotId'[r] + 1 + (steps' - stored'[r].serial)) % M = nextId'
    <3> TAKE r \in Slots
    <3> HAVE occupied'[r]
    <3>1. CASE r = s
      BY <3>1, <1>1, <1>2, <1>3, <2>3, <2>4 DEF TypeOK
    <3>2. CASE r # s
      <4>1. occupied[r] /\ stored'[r] = stored[r] /\ slotId'[r] = slotId[r]
        BY <3>2, <1>3 DEF TypeOK
      <4>2. /\ stored[r] \in Documents /\ slotId[r] \in Nat
            /\ stored[r].serial <= steps
            /\ (slotId[r] + 1 + (steps - stored[r].serial)) % M = nextId
        BY <4>1 DEF CounterPosition, TypeOK, Ids
      <4>3. stored[r] # NoDocument
        BY <4>1 DEF CounterPosition
      <4> QED BY <4>1, <4>2, <4>3, <2>5
    <3> QED BY <3>1, <3>2
  <2>7. \A e \in Scripts : handle'[e] # 0 =>
          /\ opened'[e] # NoDocument /\ opened'[e].serial <= steps'
          /\ (handle'[e] + 1 + (steps' - opened'[e].serial)) % M = nextId'
    <3> TAKE e \in Scripts
    <3> HAVE handle'[e] # 0
    <3>1. CASE e = c
      BY <3>1, <1>1, <1>2, <1>3, <2>3, <2>4 DEF TypeOK
    <3>2. CASE e # c
      <4>1. handle[e] # 0 /\ opened'[e] = opened[e] /\ handle'[e] = handle[e]
        BY <3>2, <1>3 DEF TypeOK
      <4>2. /\ opened[e] \in Documents /\ handle[e] \in Nat
            /\ opened[e].serial <= steps
            /\ (handle[e] + 1 + (steps - opened[e].serial)) % M = nextId
        BY <4>1 DEF CounterPosition, TypeOK, Ids
      <4>3. opened[e] # NoDocument
        BY <4>1 DEF CounterPosition
      <4> QED BY <4>1, <4>2, <4>3, <2>5
    <3> QED BY <3>1, <3>2
  <2>8. \A e \in Scripts, r \in Slots :
          handle'[e] # 0 /\ occupied'[r] /\ stored'[r].serial = opened'[e].serial
              => stored'[r] = opened'[e]
    <3> TAKE e \in Scripts, r \in Slots
    <3> HAVE handle'[e] # 0 /\ occupied'[r] /\ stored'[r].serial = opened'[e].serial
    <3>1. CASE r = s /\ e = c
      BY <3>1, <1>3 DEF TypeOK
    <3>2. CASE r = s /\ e # c
      <4>1. stored'[r].serial = steps + k + 1 /\ opened'[e] = opened[e] /\ handle[e] # 0
        BY <3>2, <1>1, <1>3, <2>3 DEF TypeOK
      <4>2. opened[e].serial <= steps
        BY <4>1 DEF CounterPosition
      <4>3. opened[e] \in Documents
        BY <4>1 DEF CounterPosition, TypeOK
      <4>4. opened'[e].serial = steps + k + 1
        BY <4>1
      <4>5. opened[e].serial = steps + k + 1
        BY <4>1, <4>4
      <4> QED BY <4>2, <4>5, <2>1
    <3>3. CASE r # s /\ e = c
      <4>1. opened'[e].serial = steps + k + 1 /\ stored'[r] = stored[r] /\ occupied[r]
        BY <3>3, <1>1, <1>3, <2>3 DEF TypeOK
      <4>2. stored[r].serial <= steps
        BY <4>1 DEF CounterPosition
      <4>3. stored[r] \in Documents
        BY <4>1 DEF CounterPosition, TypeOK
      <4> QED BY <4>1, <4>2, <4>3, <2>1 DEF Documents
    <3>4. CASE r # s /\ e # c
      BY <3>4, <1>3 DEF TypeOK, CounterPosition
    <3> QED BY <3>1, <3>2, <3>3, <3>4
  <2> HIDE DEF M
  <2> QED BY <2>2, <2>6, <2>7, <2>8 DEF CounterPosition, M
<1>7. CountsAreOwn'
  <2>1. steps' <= IdModulus => steps <= IdModulus
    BY <1>1, ModulusAssumption DEF TypeOK, Ids
  <2> QED BY <2>1, <1>3 DEF CountsAreOwn, TypeOK
<1> QED BY <1>4, <1>5, <1>6, <1>7

LEMMA ParseFailsKeeps ==
    ASSUME StoreInv, NEW c \in Scripts, NEW status \in Statuses, ParseFails(c, status)
    PROVE  StoreInv'
<1> USE DEF StoreInv
<1>1. reply' \in Replies
  BY SilentTyped DEF ParseFails, Operations, Statuses
<1>2. 0 \in Ids
  BY ModulusAssumption, SlotCountAssumption DEF Ids
<1>3. TypeOK'
  BY <1>1, <1>2 DEF TypeOK, ParseFails, storeVars
<1>4. DocumentIdsDistinct'
  BY DEF DocumentIdsDistinct, ParseFails, storeVars
<1>5. CounterPosition'
  BY DEF CounterPosition, ParseFails, storeVars, TypeOK
<1>6. CountsAreOwn'
  BY DEF CountsAreOwn, ParseFails, storeVars, TypeOK
<1> QED BY <1>3, <1>4, <1>5, <1>6

LEMMA CopiedTyped ==
    ASSUME NEW ks \in BufferSizes, NEW vs \in BufferSizes
    PROVE  /\ CopyEntryTexts(ks, vs).status \in Statuses
           /\ CopyEntryTexts(ks, vs).key \in BufferTexts
           /\ CopyEntryTexts(ks, vs).value \in BufferTexts
           /\ CopyStatus(vs) \in Statuses /\ CopyText(vs) \in BufferTexts
  BY DEF CopyEntryTexts, CopyStatus, CopyText, Statuses, BufferTexts

LEMMA ReplyTyped ==
    ASSUME NEW r \in Replies, NEW d \in Documents \cup {NoDocument}, NEW t \in {0, 1}
    PROVE  /\ [r EXCEPT !.of = d, !.out = t] \in Replies
           /\ \A v \in BufferTexts :
                 /\ [r EXCEPT !.of = d, !.out = t, !.value = v] \in Replies
                 /\ \A k \in BufferTexts :
                       [r EXCEPT !.of = d, !.out = t, !.key = k, !.value = v] \in Replies
  BY DEF Replies

\* The calls that read change nothing but the reply.
LEMMA ReadsReply ==
    ASSUME StoreInv, NEW c \in Scripts,
           \/ \E i \in Indices, ks, vs \in BufferSizes : ReadEntry(c, i, ks, vs)
           \/ \E path \in Paths, vs \in BufferSizes : ReadValue(c, path, vs)
           \/ \E path \in Paths : ReadTyped(c, path)
    PROVE  reply' \in Replies /\ UNCHANGED <<storeVars, scriptVars>>
<1>1. \A s \in Slots : stored[s] \in Documents \cup {NoDocument}
  BY DEF StoreInv, TypeOK
<1>2. \A op \in Operations, status \in Statuses : Silent(c, op, status) \in Replies
  BY SilentTyped
<1>3. \A path \in Paths : PathStatus(path) \in Statuses
  BY DEF PathStatus, Statuses
<1>4. /\ {"Ok", "UnknownDocumentId", "IndexOutOfRange", "PathSyntaxError",
          "InvalidArgument", "InternalError"} \subseteq Statuses
      /\ {"ReadEntry", "ReadValue", "ReadTyped"} \subseteq Operations
  BY DEF Statuses, Operations
<1>5. ASSUME NEW i \in Indices, NEW ks \in BufferSizes, NEW vs \in BufferSizes,
             ReadEntry(c, i, ks, vs)
      PROVE  reply' \in Replies /\ UNCHANGED <<storeVars, scriptVars>>
  <2> DEFINE unread(status) == [Silent(c, "ReadEntry", status) EXCEPT !.index = i]
             copied == CopyEntryTexts(ks, vs)
  <2>1. \A status \in Statuses : unread(status) \in Replies
    <3> TAKE status \in Statuses
    <3>1. Silent(c, "ReadEntry", status) \in Replies
      BY <1>2, <1>4
    <3> QED BY <3>1 DEF Replies
  <2>2. /\ copied.status \in Statuses
        /\ copied.key \in BufferTexts /\ copied.value \in BufferTexts
    BY CopiedTyped
  <2>3. \/ \E s \in Slots :
              reply' = IF i >= stored[s].entries THEN unread("IndexOutOfRange")
                       ELSE [unread(copied.status) EXCEPT
                               !.of = stored[s], !.out = Written(copied.status),
                               !.key = copied.key, !.value = copied.value]
        \/ reply' = unread("UnknownDocumentId")
    BY <1>5 DEF ReadEntry
  <2> HIDE DEF unread, copied
  <2>4. ASSUME NEW s \in Slots
        PROVE  [unread(copied.status) EXCEPT
                  !.of = stored[s], !.out = Written(copied.status),
                  !.key = copied.key, !.value = copied.value] \in Replies
    <3>1. Written(copied.status) \in {0, 1} /\ unread(copied.status) \in Replies
      BY <2>1, <2>2 DEF Written
    <3> QED BY <3>1, <1>1, <2>2, ReplyTyped
  <2>5. reply' \in Replies
    BY <2>1, <2>3, <2>4, <1>4
  <2> QED BY <2>5, <1>5 DEF ReadEntry
<1>6. ASSUME NEW path \in Paths, NEW vs \in BufferSizes, ReadValue(c, path, vs)
      PROVE  reply' \in Replies /\ UNCHANGED <<storeVars, scriptVars>>
  <2>1. CopyStatus(vs) \in Statuses /\ CopyText(vs) \in BufferTexts
    BY CopiedTyped
  <2>2. ASSUME NEW s \in Slots
        PROVE  [Silent(c, "ReadValue", CopyStatus(vs)) EXCEPT
                  !.of = stored[s], !.out = Written(CopyStatus(vs)),
                  !.value = CopyText(vs)] \in Replies
    <3>1. /\ Written(CopyStatus(vs)) \in {0, 1}
          /\ Silent(c, "ReadValue", CopyStatus(vs)) \in Replies
      BY <2>1, <1>2, <1>4 DEF Written
    <3> QED BY <3>1, <1>1, <2>1, ReplyTyped
  <2>3. reply' \in Replies
    BY <1>2, <1>3, <1>4, <1>6, <2>2 DEF ReadValue, ReadFails
  <2> QED BY <2>3, <1>6 DEF ReadValue, ReadFails
<1>7. ASSUME NEW path \in Paths, ReadTyped(c, path)
      PROVE  reply' \in Replies /\ UNCHANGED <<storeVars, scriptVars>>
  <2>1. ASSUME NEW s \in Slots
        PROVE  [Silent(c, "ReadTyped", "Ok") EXCEPT !.of = stored[s], !.out = 1]
                  \in Replies
    <3>1. Silent(c, "ReadTyped", "Ok") \in Replies
      BY <1>2, <1>4
    <3> QED BY <3>1, <1>1, ReplyTyped
  <2>2. reply' \in Replies
    BY <1>2, <1>3, <1>4, <1>7, <2>1 DEF ReadTyped, ReadFails
  <2> QED BY <2>2, <1>7 DEF ReadTyped, ReadFails
<1> QED BY <1>5, <1>6, <1>7

\* A change of the reply alone keeps the invariant.
LEMMA ReplyKeeps ==
    ASSUME StoreInv, reply' \in Replies, UNCHANGED <<storeVars, scriptVars>>
    PROVE  StoreInv'
<1> USE DEF storeVars, scriptVars
<1>1. TypeOK'
  BY DEF StoreInv, TypeOK
<1>2. DocumentIdsDistinct'
  BY DEF StoreInv, DocumentIdsDistinct
<1>3. CounterPosition'
  BY DEF StoreInv, CounterPosition
<1>4. CountsAreOwn'
  BY DEF StoreInv, CountsAreOwn
<1> QED BY <1>1, <1>2, <1>3, <1>4 DEF StoreInv

\* The step from positions to documents: fewer than 2^32 steps apart, the ids of two
\* documents differ.
LEMMA PositionNamesDocument ==
    ASSUME TypeOK, CounterPosition, steps <= IdModulus,
           NEW c \in Scripts, NEW s \in Slots, IsLiveSlot(s, handle[c])
    PROVE  stored[s] = opened[c]
<1> DEFINE M == IdModulus
           a == steps - stored[s].serial
           b == steps - opened[c].serial
           x == handle[c] + 1
<1>1. handle[c] # 0 /\ occupied[s] /\ slotId[s] = handle[c]
  BY DEF IsLiveSlot
<1>2. /\ stored[s] \in Documents /\ stored[s].serial <= steps
      /\ opened[c] \in Documents /\ opened[c].serial <= steps
      /\ (x + a) % M = nextId /\ (x + b) % M = nextId
  BY <1>1 DEF CounterPosition, TypeOK
<1>3. M \in Nat \ {0} /\ steps \in Nat /\ x \in Nat
  BY ModulusAssumption, SlotCountAssumption DEF TypeOK, Ids
<1>4. /\ stored[s].serial \in Nat /\ stored[s].serial >= 1
      /\ opened[c].serial \in Nat /\ opened[c].serial >= 1
  BY <1>2 DEF Documents
<1>5. a \in 0..(M - 1) /\ b \in 0..(M - 1)
  BY <1>2, <1>3, <1>4
<1>6. a = b
  <2> HIDE DEF a, b, x, M
  <2> QED BY <1>2, <1>3, <1>5, ModCancel
<1>7. stored[s].serial = opened[c].serial
  BY <1>3, <1>4, <1>6
<1> QED BY <1>1, <1>7 DEF CounterPosition

LEMMA CountKeeps ==
    ASSUME StoreInv, NEW c \in Scripts, CountEntries(c)
    PROVE  StoreInv'
<1> USE DEF StoreInv
<1>1. \A s \in Slots : stored[s] \in Documents \cup {NoDocument}
  BY DEF TypeOK
<1>2. \A s \in Slots : IsLiveSlot(s, handle[c]) => stored[s] \in Documents
  BY <1>1 DEF IsLiveSlot, CounterPosition
<1>3. \A d \in Documents : d.entries \in EntryCounts /\ d.entries \in Nat
  BY EntryCountsAssumption DEF Documents
<1>4. reply' \in Replies
  <2>1. /\ Silent(c, "CountEntries", "Ok") \in Replies
        /\ Silent(c, "CountEntries", "UnknownDocumentId") \in Replies
    BY SilentTyped DEF Operations, Statuses
  <2> QED BY <2>1, <1>2, <1>3 DEF CountEntries, Replies
<1>5. counted' \in [Scripts -> EntryCounts \cup {0}]
  BY <1>2, <1>3 DEF CountEntries, TypeOK
<1>6. UNCHANGED <<storeVars, handle, opened>>
  BY DEF CountEntries
<1>7. TypeOK'
  BY <1>4, <1>5, <1>6 DEF TypeOK, storeVars
<1>8. DocumentIdsDistinct'
  BY <1>6 DEF DocumentIdsDistinct, storeVars
<1>9. CounterPosition'
  BY <1>6 DEF CounterPosition, storeVars
<1>10. CountsAreOwn'
  <2> SUFFICES ASSUME steps <= IdModulus, NEW e \in Scripts
               PROVE  counted'[e] \in {0, opened[e].entries}
    BY <1>6 DEF CountsAreOwn, storeVars
  <2>1. CASE e = c
    <3>1. \A s \in Slots : IsLiveSlot(s, handle[c]) => stored[s] = opened[c]
      BY PositionNamesDocument
    <3> QED BY <2>1, <3>1 DEF CountEntries, TypeOK
  <2>2. CASE e # c
    BY <2>2 DEF CountEntries, TypeOK, CountsAreOwn
  <2> QED BY <2>1, <2>2
<1> QED BY <1>7, <1>8, <1>9, <1>10

\* Taking documents out keeps the invariant.
LEMMA EmptiedKeeps ==
    ASSUME StoreInv, NEW S \in SUBSET Slots, Emptied(S), reply' \in Replies,
           UNCHANGED <<nextId, steps, scriptVars>>
    PROVE  StoreInv'
<1> USE DEF StoreInv, Emptied, scriptVars
<1>1. 0 \in Ids
  BY ModulusAssumption, SlotCountAssumption DEF Ids
<1>2. TypeOK'
  BY <1>1 DEF TypeOK
<1>3. DocumentIdsDistinct'
  BY DEF DocumentIdsDistinct
<1>4. CounterPosition'
  BY DEF CounterPosition
<1>5. CountsAreOwn'
  BY DEF CountsAreOwn
<1> QED BY <1>2, <1>3, <1>4, <1>5

LEMMA DiscardKeeps ==
    ASSUME StoreInv, NEW c \in Scripts, Discard(c)
    PROVE  StoreInv'
<1>1. /\ Silent(c, "Discard", "Ok") \in Replies
      /\ Silent(c, "Discard", "UnknownDocumentId") \in Replies
  BY SilentTyped DEF Operations, Statuses
<1>2. \A s \in Slots : stored[s] \in Documents \cup {NoDocument}
  BY DEF StoreInv, TypeOK
<1>3. ASSUME NEW s \in Slots, Emptied({s}),
             reply' = [Silent(c, "Discard", "Ok") EXCEPT !.of = stored[s]]
      PROVE  StoreInv'
  <2>1. reply' \in Replies
    BY <1>1, <1>2, <1>3 DEF Replies
  <2>2. {s} \in SUBSET Slots /\ UNCHANGED <<nextId, steps, scriptVars>>
    BY DEF Discard
  <2> QED BY <2>1, <2>2, <1>3, EmptiedKeeps
<1>4. ASSUME reply' = Silent(c, "Discard", "UnknownDocumentId"),
             UNCHANGED <<occupied, slotId, stored>>
      PROVE  StoreInv'
  <2>1. UNCHANGED <<storeVars, scriptVars>>
    BY <1>4 DEF Discard, storeVars
  <2> QED BY <2>1, <1>1, <1>4, ReplyKeeps
<1> QED BY <1>3, <1>4 DEF Discard

LEMMA DiscardAllKeeps ==
    ASSUME StoreInv, NEW c \in Scripts, DiscardAll(c)
    PROVE  StoreInv'
<1> DEFINE held == {s \in Slots : occupied[s]}
<1>1. IsFiniteSet(Slots)
  BY FS_Interval, SlotCountAssumption DEF Slots
<1>2. IsFiniteSet(held)
  BY <1>1, FS_Subset
<1>3. Cardinality(held) \in Nat
  BY <1>2, FS_CardinalityType
<1>4. Emptied(held) /\ UNCHANGED <<nextId, steps, scriptVars>>
      /\ reply' = [Silent(c, "DiscardAll", "Ok") EXCEPT !.number = Cardinality(held)]
  BY DEF DiscardAll
<1>5. held \in SUBSET Slots
  OBVIOUS
<1> HIDE DEF held
<1>6. reply' \in Replies
  <2>1. Silent(c, "DiscardAll", "Ok") \in Replies
    BY SilentTyped DEF Operations, Statuses
  <2> QED BY <2>1, <1>3, <1>4 DEF Replies
<1> QED BY <1>4, <1>5, <1>6, EmptiedKeeps

\* Nothing happens.
LEMMA StutterKeeps ==
    ASSUME StoreInv, UNCHANGED vars
    PROVE  StoreInv'
<1>1. reply' \in Replies /\ UNCHANGED <<storeVars, scriptVars>>
  BY DEF StoreInv, TypeOK, vars
<1> QED BY <1>1, ReplyKeeps

LEMMA StepKeeps ==
    ASSUME StoreInv, [Next]_vars
    PROVE  StoreInv'
<1>1. ASSUME NEW c \in Scripts, Call(c)
      PROVE  StoreInv'
  <2>1. CASE \E s \in Slots, n \in EntryCounts, k, id \in Ids : Parse(c, s, n, k, id)
    BY <2>1, ParseKeeps
  <2>2. CASE \E status \in Statuses : ParseFails(c, status)
    BY <2>2, ParseFailsKeeps
  <2>3. CASE CountEntries(c)
    BY <2>3, CountKeeps
  <2>4. CASE \/ \E i \in Indices, ks, vs \in BufferSizes : ReadEntry(c, i, ks, vs)
             \/ \E path \in Paths, vs \in BufferSizes : ReadValue(c, path, vs)
             \/ \E path \in Paths : ReadTyped(c, path)
    <3>1. reply' \in Replies /\ UNCHANGED <<storeVars, scriptVars>>
      BY <2>4, ReadsReply
    <3> QED BY <3>1, ReplyKeeps
  <2>5. CASE Discard(c)
    BY <2>5, DiscardKeeps
  <2>6. CASE DiscardAll(c)
    BY <2>6, DiscardAllKeeps
  <2> QED BY <1>1, <2>1, <2>2, <2>3, <2>4, <2>5, <2>6 DEF Call
<1> QED BY <1>1, StutterKeeps DEF Next

\* What is stored, and what the scripts hold, agrees with the counter in every
\* reachable state.
THEOREM StoreInvariant == Spec => []StoreInv
  BY InitStore, StepKeeps, PTL DEF Spec

\* A documentId names one document at a time.
THEOREM IdsDistinct == Spec => []DocumentIdsDistinct
<1>1. StoreInv => DocumentIdsDistinct
  BY DEF StoreInv
<1> QED BY <1>1, StoreInvariant, PTL

\* A handle names the script's own document or none, until the counter has wrapped.
THEOREM OwnDocument == Spec => []HandleNamesOwnDocument
<1>1. StoreInv => HandleNamesOwnDocument
  BY PositionNamesDocument DEF StoreInv, HandleNamesOwnDocument
<1> QED BY <1>1, StoreInvariant, PTL

-----------------------------------------------------------------------------
(* The replies. *)

\* A script reads every entry it has counted.
THEOREM CountedReadable == Spec => []CountedEntriesReadable
<1>1. Init => CountedEntriesReadable
  BY DEF Init, CountedEntriesReadable, Silent
<1>2. ASSUME StoreInv, CountedEntriesReadable, [Next]_vars
      PROVE  CountedEntriesReadable'
  <2>1. CASE UNCHANGED vars
    BY <2>1, <1>2 DEF vars, storeVars, scriptVars, CountedEntriesReadable
  <2>2. ASSUME NEW c \in Scripts, NEW i \in Indices, NEW ks \in BufferSizes,
               NEW vs \in BufferSizes, ReadEntry(c, i, ks, vs)
        PROVE  CountedEntriesReadable'
    <3> SUFFICES ASSUME steps <= IdModulus, i < counted[c],
                        reply'.status = "IndexOutOfRange"
                 PROVE  FALSE
      <4>1. reply'.by = c /\ reply'.index = i /\ UNCHANGED <<storeVars, scriptVars>>
        BY <2>2 DEF ReadEntry, Silent
      <4> QED BY <4>1 DEF CountedEntriesReadable, storeVars, scriptVars
    <3>1. PICK s \in Slots : IsLiveSlot(s, handle[c]) /\ i >= stored[s].entries
      BY <2>2 DEF ReadEntry, Silent, CopyEntryTexts
    <3>2. stored[s] = opened[c]
      BY <3>1, <1>2, PositionNamesDocument DEF StoreInv
    <3>3. counted[c] \in {0, opened[c].entries}
      BY <1>2 DEF StoreInv, CountsAreOwn
    <3>4. stored[s] \in Documents
      BY <3>1, <1>2 DEF StoreInv, TypeOK, CounterPosition, IsLiveSlot
    <3>5. i \in Nat /\ stored[s].entries \in Nat
      <4>1. \A d \in Documents : d.entries \in Nat
        BY EntryCountsAssumption DEF Documents
      <4>2. \A j \in Indices : j \in Nat
        BY EntryCountsAssumption DEF Indices
      <4> QED BY <4>1, <4>2, <3>4
    <3>6. opened[c].entries \in Nat /\ i >= opened[c].entries
      BY <3>1, <3>2, <3>5
    <3> QED BY <3>3, <3>5, <3>6
  <2>3. ASSUME NEW c \in Scripts, Call(c),
               ~ \E i \in Indices, ks, vs \in BufferSizes : ReadEntry(c, i, ks, vs)
        PROVE  CountedEntriesReadable'
    <3>1. \/ \E s \in Slots, n \in EntryCounts, k, id \in Ids : Parse(c, s, n, k, id)
          \/ \E status \in Statuses : ParseFails(c, status)
          \/ CountEntries(c)
          \/ \E path \in Paths, vs \in BufferSizes : ReadValue(c, path, vs)
          \/ \E path \in Paths : ReadTyped(c, path)
          \/ Discard(c)
          \/ DiscardAll(c)
      BY <2>3 DEF Call
    <3>2. reply'.op # "ReadEntry"
      <4>1. CASE \E s \in Slots, n \in EntryCounts, k, id \in Ids : Parse(c, s, n, k, id)
        BY <4>1 DEF Parse, Silent
      <4>2. CASE \E status \in Statuses : ParseFails(c, status)
        BY <4>2 DEF ParseFails, Silent
      <4>3. CASE CountEntries(c)
        <5> DEFINE silent(status) == Silent(c, "CountEntries", status)
                   found(d) == [Silent(c, "CountEntries", "Ok") EXCEPT !.of = d, !.number = d.entries]
        <5>1. (\E status : reply' = silent(status)) \/ (\E d : reply' = found(d))
          BY <4>3 DEF CountEntries
        <5>2. \A status : silent(status).op = "CountEntries"
          BY DEF Silent
        <5>3. \A d : found(d).op = "CountEntries"
          BY DEF Silent
        <5> HIDE DEF silent, found
        <5> QED BY <5>1, <5>2, <5>3
      <4>4. CASE Discard(c)
        <5> DEFINE silent(status) == Silent(c, "Discard", status)
                   found(d) == [Silent(c, "Discard", "Ok") EXCEPT !.of = d]
        <5>1. (\E status : reply' = silent(status)) \/ (\E d : reply' = found(d))
          BY <4>4 DEF Discard
        <5>2. \A status : silent(status).op = "Discard"
          BY DEF Silent
        <5>3. \A d : found(d).op = "Discard"
          BY DEF Silent
        <5> HIDE DEF silent, found
        <5> QED BY <5>1, <5>2, <5>3
      <4>5. CASE DiscardAll(c)
        BY <4>5 DEF DiscardAll, Silent
      <4>6. CASE \E path \in Paths, vs \in BufferSizes : ReadValue(c, path, vs)
        <5> DEFINE silent(status) == Silent(c, "ReadValue", status)
                   found(d, vs) == [Silent(c, "ReadValue", CopyStatus(vs)) EXCEPT
                                      !.of = d, !.out = Written(CopyStatus(vs)),
                                      !.value = CopyText(vs)]
        <5>1. (\E status : reply' = silent(status)) \/ (\E d, vs : reply' = found(d, vs))
          BY <4>6 DEF ReadValue, ReadFails
        <5>2. \A status : silent(status).op = "ReadValue"
          BY DEF Silent
        <5>3. \A d, vs : found(d, vs).op = "ReadValue"
          BY DEF Silent
        <5> HIDE DEF silent, found
        <5> QED BY <5>1, <5>2, <5>3
      <4>7. CASE \E path \in Paths : ReadTyped(c, path)
        <5> DEFINE silent(status) == Silent(c, "ReadTyped", status)
                   found(d) == [Silent(c, "ReadTyped", "Ok") EXCEPT !.of = d, !.out = 1]
        <5>1. (\E status : reply' = silent(status)) \/ (\E d : reply' = found(d))
          BY <4>7 DEF ReadTyped, ReadFails
        <5>2. \A status : silent(status).op = "ReadTyped"
          BY DEF Silent
        <5>3. \A d : found(d).op = "ReadTyped"
          BY DEF Silent
        <5> HIDE DEF silent, found
        <5> QED BY <5>1, <5>2, <5>3
      <4> QED BY <3>1, <4>1, <4>2, <4>3, <4>4, <4>5, <4>6, <4>7
    <3> QED BY <3>2 DEF CountedEntriesReadable
  <2> QED BY <2>1, <2>2, <2>3, <1>2 DEF Next
<1> QED BY <1>1, <1>2, StoreInvariant, PTL DEF Spec

\* What a reply has to be, as a predicate of the reply alone.
Whole(r) ==
    /\ r.out # 0 => r.status = "Ok"
    /\ r.status # "Ok" => r.key # "text" /\ r.value # "text"
    /\ r.op = "ReadEntry" => (r.key = "text" <=> r.value = "text")

LEMMA SilentWhole ==
    ASSUME NEW c, NEW op, NEW status
    PROVE  Whole(Silent(c, op, status))
  BY DEF Whole, Silent

LEMMA FoundWhole ==
    ASSUME NEW c, NEW op, NEW status, NEW d, NEW n
    PROVE  /\ Whole([Silent(c, op, status) EXCEPT !.of = d])
           /\ Whole([Silent(c, op, status) EXCEPT !.number = n])
           /\ Whole([Silent(c, op, status) EXCEPT !.of = d, !.number = n])
           /\ Whole([Silent(c, op, status) EXCEPT !.index = n])
           /\ Whole([Silent(c, op, "Ok") EXCEPT !.of = d, !.out = 1])
  BY DEF Whole, Silent

\* No reply is half a reply.
THEOREM WholeReplies == Spec => []RepliesAreWhole
<1>1. Init => Whole(reply)
  BY DEF Init, Whole, Silent
<1>2. ASSUME Whole(reply), [Next]_vars
      PROVE  Whole(reply)'
  <2>1. CASE UNCHANGED vars
    BY <2>1, <1>2 DEF vars
  <2>2. ASSUME NEW c \in Scripts, NEW i \in Indices, NEW ks \in BufferSizes,
               NEW vs \in BufferSizes, ReadEntry(c, i, ks, vs)
        PROVE  Whole(reply')
    <3> DEFINE copied == CopyEntryTexts(ks, vs)
               unread(status) == [Silent(c, "ReadEntry", status) EXCEPT !.index = i]
    <3>1. /\ copied.status = "Ok" => copied.key = "text" /\ copied.value = "text"
          /\ copied.status # "Ok" => copied.key # "text" /\ copied.value # "text"
      BY DEF CopyEntryTexts
    <3>2. \A d : Whole([unread(copied.status) EXCEPT
                          !.of = d, !.out = Written(copied.status),
                          !.key = copied.key, !.value = copied.value])
      <4> HIDE DEF copied
      <4> QED BY <3>1 DEF Whole, Silent, Written
    <3>3. \A status : Whole(unread(status))
      BY FoundWhole
    <3> HIDE DEF unread, copied
    <3>4. \/ \E s \in Slots :
                reply' = IF i >= stored[s].entries THEN unread("IndexOutOfRange")
                         ELSE [unread(copied.status) EXCEPT
                                 !.of = stored[s], !.out = Written(copied.status),
                                 !.key = copied.key, !.value = copied.value]
          \/ reply' = unread("UnknownDocumentId")
      BY <2>2 DEF ReadEntry, unread, copied
    <3> QED BY <3>2, <3>3, <3>4
  <2>3. ASSUME NEW c \in Scripts, NEW path \in Paths, NEW vs \in BufferSizes,
               ReadValue(c, path, vs)
        PROVE  Whole(reply')
    <3>1. \A d : Whole([Silent(c, "ReadValue", CopyStatus(vs)) EXCEPT
                          !.of = d, !.out = Written(CopyStatus(vs)), !.value = CopyText(vs)])
      BY DEF Whole, Silent, CopyStatus, CopyText, Written
    <3>2. \A status : Whole(Silent(c, "ReadValue", status))
      BY SilentWhole
    <3> QED BY <2>3, <3>1, <3>2 DEF ReadValue, ReadFails
  <2>4. ASSUME NEW c \in Scripts, NEW path \in Paths, ReadTyped(c, path)
        PROVE  Whole(reply')
    <3> DEFINE silent(status) == Silent(c, "ReadTyped", status)
               found(d) == [Silent(c, "ReadTyped", "Ok") EXCEPT !.of = d, !.out = 1]
    <3>1. \A status : Whole(silent(status))
      BY SilentWhole
    <3>2. \A d : Whole(found(d))
      BY FoundWhole
    <3>3. (\E status : reply' = silent(status)) \/ (\E d : reply' = found(d))
      BY <2>4 DEF ReadTyped, ReadFails
    <3> HIDE DEF silent, found
    <3> QED BY <3>1, <3>2, <3>3
  <2>5. ASSUME NEW c \in Scripts,
               \/ \E s \in Slots, n \in EntryCounts, k, id \in Ids : Parse(c, s, n, k, id)
               \/ \E status \in Statuses : ParseFails(c, status)
               \/ CountEntries(c) \/ Discard(c) \/ DiscardAll(c)
        PROVE  Whole(reply')
    <3> DEFINE silent(op, status) == Silent(c, op, status)
               found(op, d) == [Silent(c, op, "Ok") EXCEPT !.of = d]
               count(n) == [Silent(c, "DiscardAll", "Ok") EXCEPT !.number = n]
               counts(d) == [Silent(c, "CountEntries", "Ok") EXCEPT
                                !.of = d, !.number = d.entries]
    <3>1. \A op, status : Whole(silent(op, status))
      BY SilentWhole
    <3>2. \A op, d : Whole(found(op, d))
      BY FoundWhole
    <3>3. \A n : Whole(count(n))
      BY FoundWhole
    <3>4. \A d : Whole(counts(d))
      BY FoundWhole
    <3>5. \/ \E op, status : reply' = silent(op, status)
          \/ \E op, d : reply' = found(op, d)
          \/ \E n : reply' = count(n)
          \/ \E d : reply' = counts(d)
      <4>1. CASE \E s \in Slots, n \in EntryCounts, k, id \in Ids : Parse(c, s, n, k, id)
        BY <4>1 DEF Parse
      <4>2. CASE \E status \in Statuses : ParseFails(c, status)
        BY <4>2 DEF ParseFails
      <4>3. CASE CountEntries(c)
        BY <4>3 DEF CountEntries
      <4>4. CASE Discard(c)
        BY <4>4 DEF Discard
      <4>5. CASE DiscardAll(c)
        BY <4>5 DEF DiscardAll
      <4> QED BY <2>5, <4>1, <4>2, <4>3, <4>4, <4>5
    <3> HIDE DEF silent, found, count, counts
    <3> QED BY <3>1, <3>2, <3>3, <3>4, <3>5
  <2> QED BY <2>1, <2>2, <2>3, <2>4, <2>5, <1>2 DEF Next, Call
<1>3. Whole(reply) => RepliesAreWhole
  BY DEF Whole, RepliesAreWhole
<1> QED BY <1>1, <1>2, <1>3, PTL DEF Spec

\* Nothing but a discard touches a stored document.
THEOREM DocumentsKept == Spec => DocumentsAreKept
<1>1. ASSUME StoreInv, [Next]_vars, NEW s \in Slots, occupied[s]
      PROVE  \/ UNCHANGED vars
             \/ occupied'[s] /\ slotId'[s] = slotId[s] /\ stored'[s] = stored[s]
             \/ ~occupied'[s] /\ reply'.op = "DiscardAll"
             \/ ~occupied'[s] /\ reply'.op = "Discard" /\ handle[reply'.by] = slotId[s]
  <2>1. CASE \E c \in Scripts, r \in Slots, n \in EntryCounts, k, id \in Ids :
                 Parse(c, r, n, k, id)
    BY <2>1, <1>1 DEF Parse, FirstFree, StoreInv, TypeOK
  <2>2. ASSUME NEW c \in Scripts, Discard(c)
        PROVE  \/ occupied'[s] /\ slotId'[s] = slotId[s] /\ stored'[s] = stored[s]
               \/ ~occupied'[s] /\ reply'.op = "Discard" /\ handle[reply'.by] = slotId[s]
    <3>1. CASE UNCHANGED <<occupied, slotId, stored>>
      BY <3>1, <1>1
    <3>2. ASSUME NEW r \in Slots, IsLiveSlot(r, handle[c]), Emptied({r}),
                 reply' = [Silent(c, "Discard", "Ok") EXCEPT !.of = stored[r]]
          PROVE  \/ occupied'[s] /\ slotId'[s] = slotId[s] /\ stored'[s] = stored[s]
                 \/ ~occupied'[s] /\ reply'.op = "Discard" /\ handle[reply'.by] = slotId[s]
      BY <3>2, <1>1 DEF Emptied, IsLiveSlot, Silent
    <3> QED BY <3>1, <3>2, <2>2 DEF Discard
  <2>3. ASSUME NEW c \in Scripts, DiscardAll(c)
        PROVE  ~occupied'[s] /\ reply'.op = "DiscardAll"
    BY <2>3, <1>1 DEF DiscardAll, Emptied, Silent
  <2>4. ASSUME NEW c \in Scripts,
               \/ \E status \in Statuses : ParseFails(c, status)
               \/ CountEntries(c)
               \/ \E i \in Indices, ks, vs \in BufferSizes : ReadEntry(c, i, ks, vs)
               \/ \E path \in Paths, vs \in BufferSizes : ReadValue(c, path, vs)
               \/ \E path \in Paths : ReadTyped(c, path)
        PROVE  occupied'[s] /\ slotId'[s] = slotId[s] /\ stored'[s] = stored[s]
    <3>1. UNCHANGED storeVars
      BY <2>4 DEF ParseFails, CountEntries, ReadEntry, ReadValue, ReadTyped
    <3> QED BY <3>1, <1>1 DEF storeVars
  <2> QED BY <2>1, <2>2, <2>3, <2>4, <1>1 DEF Next, Call
<1>2. StoreInv /\ [Next]_vars
        => [\A s \in Slots :
              occupied[s] => \/ occupied'[s] /\ slotId'[s] = slotId[s] /\ stored'[s] = stored[s]
                             \/ ~occupied'[s] /\ reply'.op = "DiscardAll"
                             \/ ~occupied'[s] /\ reply'.op = "Discard"
                                              /\ handle[reply'.by] = slotId[s]]_vars
  BY <1>1
<1> QED BY <1>2, StoreInvariant, PTL DEF Spec, DocumentsAreKept

-----------------------------------------------------------------------------
(* The store implements its contract. *)

\* A table whose ids are distinct, as documents by id.
LEMMA ByIdValues ==
    ASSUME NEW flags \in [Slots -> BOOLEAN], NEW ids, NEW docs,
           \A r, s \in Slots : flags[r] /\ flags[s] /\ ids[r] = ids[s] => r = s
    PROVE  /\ \A id : id \in DOMAIN ByIdIn(flags, ids, docs)
                        <=> \E s \in Slots : flags[s] /\ ids[s] = id
           /\ \A s \in Slots : flags[s] => ByIdIn(flags, ids, docs)[ids[s]] = docs[s]
           /\ ByIdIn(flags, ids, docs)
                = [id \in DOMAIN ByIdIn(flags, ids, docs) |-> ByIdIn(flags, ids, docs)[id]]
<1>1. \A id : id \in DOMAIN ByIdIn(flags, ids, docs)
                 <=> \E s \in Slots : flags[s] /\ ids[s] = id
  BY DEF ByIdIn
<1>2. ASSUME NEW s \in Slots, flags[s]
      PROVE  ByIdIn(flags, ids, docs)[ids[s]] = docs[s]
  <2> DEFINE t == CHOOSE r \in Slots : flags[r] /\ ids[r] = ids[s]
  <2>1. t \in Slots /\ flags[t] /\ ids[t] = ids[s]
    BY <1>2
  <2>2. t = s
    BY <2>1, <1>2
  <2>3. ids[s] \in {ids[r] : r \in {q \in Slots : flags[q]}}
    BY <1>2
  <2>4. ByIdIn(flags, ids, docs)[ids[s]] = docs[t]
    BY <2>3 DEF ByIdIn
  <2> QED BY <2>2, <2>4
<1>3. ByIdIn(flags, ids, docs)
        = [id \in DOMAIN ByIdIn(flags, ids, docs) |-> ByIdIn(flags, ids, docs)[id]]
  BY DEF ByIdIn
<1> QED BY <1>1, <1>2, <1>3

LEMMA ByIdCardinality ==
    ASSUME NEW flags \in [Slots -> BOOLEAN], NEW ids, NEW docs,
           \A r, s \in Slots : flags[r] /\ flags[s] /\ ids[r] = ids[s] => r = s
    PROVE  LET used == {s \in Slots : flags[s]}
               taken == DOMAIN ByIdIn(flags, ids, docs)
           IN  /\ IsFiniteSet(used) /\ Cardinality(used) \in Nat
               /\ Cardinality(taken) = Cardinality(used)
               /\ (\A s \in Slots : flags[s]) => Cardinality(taken) = SlotCount
               /\ (\E s \in Slots : ~flags[s]) => Cardinality(taken) < SlotCount
<1> DEFINE used == {s \in Slots : flags[s]}
           taken == DOMAIN ByIdIn(flags, ids, docs)
           f == [s \in used |-> ids[s]]
<1>1. IsFiniteSet(Slots) /\ Cardinality(Slots) = SlotCount
  BY FS_Interval, SlotCountAssumption DEF Slots
<1>2. used \subseteq Slots
  OBVIOUS
<1>3. /\ IsFiniteSet(used) /\ Cardinality(used) <= SlotCount
      /\ (Cardinality(used) = SlotCount) => (used = Slots)
  BY <1>1, <1>2, FS_Subset
<1>4. Cardinality(used) \in Nat
  BY <1>3, FS_CardinalityType
<1>5. f \in Bijection(used, taken)
  <2>1. \A id : id \in taken <=> \E s \in Slots : flags[s] /\ ids[s] = id
    BY ByIdValues
  <2>2. f \in [used -> taken]
    BY <2>1
  <2>3. f \in Injection(used, taken)
    BY <2>2 DEF Injection, IsInjective
  <2>4. f \in Surjection(used, taken)
    BY <2>1, <2>2 DEF Surjection
  <2> QED BY <2>3, <2>4 DEF Bijection
<1>6. ExistsBijection(used, taken)
  BY <1>5 DEF ExistsBijection
<1> HIDE DEF used, taken
<1>7. Cardinality(taken) = Cardinality(used)
  BY <1>3, <1>6, FS_Bijection
<1>8. (\A s \in Slots : flags[s]) => used = Slots
  BY DEF used
<1>9. (\E s \in Slots : ~flags[s]) => used # Slots
  BY DEF used
<1>10. (\E s \in Slots : ~flags[s]) => Cardinality(taken) < SlotCount
  BY <1>3, <1>4, <1>7, <1>9, SlotCountAssumption
<1> QED BY <1>1, <1>3, <1>4, <1>7, <1>8, <1>10 DEF used, taken

LEMMA TableById ==
    ASSUME StoreInv
    PROVE  /\ occupied \in [Slots -> BOOLEAN]
           /\ \A r, s \in Slots : occupied[r] /\ occupied[s] /\ slotId[r] = slotId[s] => r = s
  BY DEF StoreInv, TypeOK, DocumentIdsDistinct

\* What the contract sees of the table.
LEMMA HeldValues ==
    ASSUME StoreInv
    PROVE  /\ \A id : id \in DOMAIN Held <=> \E s \in Slots : occupied[s] /\ slotId[s] = id
           /\ \A s \in Slots : occupied[s] => Held[slotId[s]] = stored[s]
           /\ Held = [id \in DOMAIN Held |-> Held[id]]
  BY TableById, ByIdValues DEF Held

LEMMA HeldCardinality ==
    ASSUME StoreInv
    PROVE  /\ Cardinality(DOMAIN Held) = Cardinality({s \in Slots : occupied[s]})
           /\ (\A s \in Slots : occupied[s]) => Cardinality(DOMAIN Held) = SlotCount
           /\ (\E s \in Slots : ~occupied[s]) => Cardinality(DOMAIN Held) < SlotCount
  BY TableById, ByIdCardinality DEF Held

LEMMA HeldUnchanged ==
    ASSUME UNCHANGED storeVars
    PROVE  Held' = Held
  BY DEF storeVars, Held

LEMMA HeldValuesNext ==
    ASSUME StoreInv'
    PROVE  /\ \A id : id \in DOMAIN Held' <=> \E s \in Slots : occupied'[s] /\ slotId'[s] = id
           /\ \A s \in Slots : occupied'[s] => Held'[slotId'[s]] = stored'[s]
           /\ Held' = [id \in DOMAIN Held' |-> Held'[id]]
<1>1. /\ occupied' \in [Slots -> BOOLEAN]
      /\ \A r, s \in Slots : occupied'[r] /\ occupied'[s] /\ slotId'[r] = slotId'[s] => r = s
  BY DEF StoreInv, TypeOK, DocumentIdsDistinct
<1>2. Held' = ByIdIn(occupied', slotId', stored')
  BY DEF Held
<1> QED BY <1>1, <1>2, ByIdValues

\* The instance brings its own copy of FiniteSets.
LEMMA SameCardinality == \A S : Contract!Cardinality(S) = Cardinality(S)
  BY DEF Contract!Cardinality, Cardinality

LEMMA ParseStores ==
    ASSUME StoreInv, StoreInv', NEW c \in Scripts, NEW s \in Slots, NEW n \in EntryCounts,
           NEW k \in Ids, NEW id \in Ids, Parse(c, s, n, k, id)
    PROVE  \E doc \in Documents : Contract!Store(id, doc)
<1> DEFINE doc == [serial |-> steps', entries |-> n]
<1>1. /\ ~occupied[s]
      /\ stored' = [stored EXCEPT ![s] = doc]
      /\ slotId' = [slotId EXCEPT ![s] = id]
      /\ occupied' = [occupied EXCEPT ![s] = TRUE]
      /\ reply' = [Silent(c, "Parse", "Ok") EXCEPT !.of = doc]
  BY DEF Parse, FirstFree
<1>2. id # 0 /\ ~IsIdLive(id) /\ steps' \in 1..StepBound
  BY MintAdvances DEF Parse, StoreInv
<1>3. doc \in Documents
  BY <1>2 DEF Documents
<1> HIDE DEF doc
<1>4. id \notin DOMAIN Held
  BY <1>2, HeldValues DEF IsIdLive
<1>5. Cardinality(DOMAIN Held) < SlotCount
  BY <1>1, HeldCardinality
<1>6. Held' = [i \in DOMAIN Held \cup {id} |-> IF i = id THEN doc ELSE Held[i]]
  <2>1. occupied'[s] /\ slotId'[s] = id /\ stored'[s] = doc
    BY <1>1 DEF StoreInv, TypeOK
  <2>2. \A r \in Slots \ {s} : /\ occupied'[r] = occupied[r]
                               /\ slotId'[r] = slotId[r] /\ stored'[r] = stored[r]
    BY <1>1 DEF StoreInv, TypeOK
  <2>3. DOMAIN Held' = DOMAIN Held \cup {id}
    <3>1. \A i : i \in DOMAIN Held' <=> \E r \in Slots : occupied'[r] /\ slotId'[r] = i
      BY HeldValuesNext
    <3>2. \A i : i \in DOMAIN Held <=> \E r \in Slots : occupied[r] /\ slotId[r] = i
      BY HeldValues
    <3>3. \A i : i \in DOMAIN Held' <=> i \in DOMAIN Held \/ i = id
      BY <3>1, <3>2, <2>1, <2>2, <1>1
    <3> QED BY <3>3
  <2>4. ASSUME NEW i \in DOMAIN Held'
        PROVE  Held'[i] = IF i = id THEN doc ELSE Held[i]
    <3>1. CASE i = id
      BY <3>1, <2>1, HeldValuesNext
    <3>2. CASE i # id
      <4>1. PICK r \in Slots : occupied[r] /\ slotId[r] = i
        BY <3>2, <2>3, HeldValues
      <4>2. r # s
        BY <4>1, <1>1
      <4>3. Held[i] = stored[r] /\ Held'[i] = stored'[r]
        BY <4>1, <4>2, <2>2, HeldValues, HeldValuesNext
      <4> QED BY <4>2, <4>3, <2>2, <3>2
    <3> QED BY <3>1, <3>2
  <2>5. Held' = [i \in DOMAIN Held' |-> Held'[i]]
    BY HeldValuesNext
  <2> QED BY <2>3, <2>4, <2>5
<1>7. Answer' = [status |-> "Ok", of |-> doc, number |-> 0]
  BY <1>1 DEF Answer, Silent
<1> QED BY <1>2, <1>3, <1>4, <1>5, <1>6, <1>7, SameCardinality
        DEF Contract!Store, Contract!Taken, Contract!Answers

LEMMA ParseRefuses ==
    ASSUME StoreInv, NEW c \in Scripts, NEW status \in Statuses, ParseFails(c, status)
    PROVE  Contract!Refuse(status)
<1>1. Held' = Held
  BY HeldUnchanged DEF ParseFails
<1>2. Answer' = [status |-> status, of |-> NoDocument, number |-> 0]
  BY DEF ParseFails, Silent, Answer
<1>3. status = "NoFreeDocumentSlot" => Cardinality(DOMAIN Held) = SlotCount
  BY HeldCardinality DEF ParseFails
<1>4. status \notin {"Ok", "UnknownDocumentId"}
  BY DEF ParseFails
<1> QED BY <1>1, <1>2, <1>3, <1>4, SameCardinality DEF Contract!Refuse, Contract!Taken, Contract!Answers

LEMMA HandleTaken ==
    ASSUME StoreInv, NEW c \in Scripts
    PROVE  /\ \A s \in Slots : IsLiveSlot(s, handle[c])
                => handle[c] \in DOMAIN Held /\ Held[handle[c]] = stored[s]
           /\ ~IsLive(handle[c]) => handle[c] \notin DOMAIN Held
<1>1. ASSUME handle[c] \in DOMAIN Held
      PROVE  IsLive(handle[c])
  <2>1. PICK s \in Slots : occupied[s] /\ slotId[s] = handle[c]
    BY <1>1, HeldValues
  <2>2. slotId[s] # 0
    BY <2>1 DEF StoreInv, DocumentIdsDistinct
  <2> QED BY <2>1, <2>2 DEF IsLive, IsLiveSlot
<1> QED BY <1>1, HeldValues DEF IsLiveSlot

\* A call that finds no document under the handle.
LEMMA UnknownLooks ==
    ASSUME StoreInv, NEW c \in Scripts, ~IsLive(handle[c]), UNCHANGED storeVars,
           NEW status \in Statuses, status # "Ok",
           Answer' = [status |-> status, of |-> NoDocument, number |-> 0]
    PROVE  Contract!Look(handle[c], status)
<1>1. Held' = Held /\ handle[c] \notin DOMAIN Held
  BY HeldUnchanged, HandleTaken
<1> QED BY <1>1 DEF Contract!Look, Contract!Taken, Contract!Answers

\* A call that finds the document in slot s.
LEMMA FoundLooks ==
    ASSUME StoreInv, NEW c \in Scripts, NEW s \in Slots, IsLiveSlot(s, handle[c]),
           UNCHANGED storeVars, NEW status \in Statuses, status # "UnknownDocumentId",
           \/ \E number \in {0, stored[s].entries} :
                 Answer' = [status |-> status, of |-> stored[s], number |-> number]
           \/ status # "Ok" /\ Answer' = [status |-> status, of |-> NoDocument, number |-> 0]
    PROVE  Contract!Look(handle[c], status)
<1>1. Held' = Held /\ handle[c] \in DOMAIN Held /\ Held[handle[c]] = stored[s]
  BY HeldUnchanged, HandleTaken
<1> QED BY <1>1 DEF Contract!Look, Contract!Taken, Contract!Answers

LEMMA CountLooks ==
    ASSUME StoreInv, NEW c \in Scripts, CountEntries(c)
    PROVE  \E status \in Statuses : Contract!Look(handle[c], status)
<1>1. UNCHANGED storeVars /\ "Ok" \in Statuses /\ "UnknownDocumentId" \in Statuses
  BY DEF CountEntries, Statuses
<1>2. ASSUME NEW s \in Slots, IsLiveSlot(s, handle[c]),
             reply' = [Silent(c, "CountEntries", "Ok") EXCEPT
                         !.of = stored[s], !.number = stored[s].entries]
      PROVE  Contract!Look(handle[c], "Ok")
  <2>1. Answer' = [status |-> "Ok", of |-> stored[s], number |-> stored[s].entries]
    BY <1>2 DEF Answer, Silent
  <2> QED BY <2>1, <1>1, <1>2, FoundLooks
<1>3. ASSUME ~IsLive(handle[c]), reply' = Silent(c, "CountEntries", "UnknownDocumentId")
      PROVE  Contract!Look(handle[c], "UnknownDocumentId")
  <2>1. Answer' = [status |-> "UnknownDocumentId", of |-> NoDocument, number |-> 0]
    BY <1>3 DEF Answer, Silent
  <2> QED BY <2>1, <1>1, <1>3, UnknownLooks
<1> QED BY <1>1, <1>2, <1>3 DEF CountEntries

LEMMA EntryLooks ==
    ASSUME StoreInv, NEW c \in Scripts, NEW i \in Indices, NEW ks \in BufferSizes,
           NEW vs \in BufferSizes, ReadEntry(c, i, ks, vs)
    PROVE  \E status \in Statuses : Contract!Look(handle[c], status)
<1> DEFINE copied == CopyEntryTexts(ks, vs)
           unread(status) == [Silent(c, "ReadEntry", status) EXCEPT !.index = i]
           read(d) == [unread(copied.status) EXCEPT
                         !.of = d, !.out = Written(copied.status),
                         !.key = copied.key, !.value = copied.value]
<1>1. /\ UNCHANGED storeVars
      /\ \/ \E s \in Slots :
               /\ IsLiveSlot(s, handle[c])
               /\ reply' = IF i >= stored[s].entries THEN unread("IndexOutOfRange")
                           ELSE read(stored[s])
         \/ ~IsLive(handle[c]) /\ reply' = unread("UnknownDocumentId")
  BY DEF ReadEntry
<1>2. copied.status \in Statuses /\ copied.status # "UnknownDocumentId"
  BY DEF CopyEntryTexts, Statuses
<1>3. \A status : /\ unread(status).status = status
                  /\ unread(status).of = NoDocument /\ unread(status).number = 0
  BY DEF Silent
<1>4. \A d : read(d).status = copied.status /\ read(d).of = d /\ read(d).number = 0
  <2> HIDE DEF copied
  <2> QED BY DEF Silent
<1> HIDE DEF copied, unread, read
<1>5. {"IndexOutOfRange", "UnknownDocumentId"} \subseteq Statuses
  BY DEF Statuses
<1>6. ASSUME NEW s \in Slots, IsLiveSlot(s, handle[c]), reply' = unread("IndexOutOfRange")
      PROVE  Contract!Look(handle[c], "IndexOutOfRange")
  <2>1. Answer' = [status |-> "IndexOutOfRange", of |-> NoDocument, number |-> 0]
    BY <1>3, <1>6 DEF Answer
  <2> QED BY <2>1, <1>1, <1>5, <1>6, FoundLooks
<1>7. ASSUME NEW s \in Slots, IsLiveSlot(s, handle[c]), reply' = read(stored[s])
      PROVE  Contract!Look(handle[c], copied.status)
  <2>1. Answer' = [status |-> copied.status, of |-> stored[s], number |-> 0]
    BY <1>4, <1>7 DEF Answer
  <2> QED BY <2>1, <1>1, <1>2, <1>7, FoundLooks
<1>8. ASSUME ~IsLive(handle[c]), reply' = unread("UnknownDocumentId")
      PROVE  Contract!Look(handle[c], "UnknownDocumentId")
  <2>1. Answer' = [status |-> "UnknownDocumentId", of |-> NoDocument, number |-> 0]
    BY <1>3, <1>8 DEF Answer
  <2> QED BY <2>1, <1>1, <1>5, <1>8, UnknownLooks
<1> QED BY <1>1, <1>2, <1>5, <1>6, <1>7, <1>8

\* The two calls that read by path.
LEMMA PathLooks ==
    ASSUME StoreInv, NEW c \in Scripts, NEW path \in Paths,
           (\E vs \in BufferSizes : ReadValue(c, path, vs)) \/ ReadTyped(c, path)
    PROVE  \E status \in Statuses : Contract!Look(handle[c], status)
<1> DEFINE silent(op, status) == Silent(c, op, status)
           value(d, vs) == [Silent(c, "ReadValue", CopyStatus(vs)) EXCEPT
                              !.of = d, !.out = Written(CopyStatus(vs)),
                              !.value = CopyText(vs)]
           number(d) == [Silent(c, "ReadTyped", "Ok") EXCEPT !.of = d, !.out = 1]
<1>1. PathStatus(path) \in Statuses /\ PathStatus(path) # "UnknownDocumentId"
  BY DEF PathStatus, Statuses
<1>2. {"Ok", "PathSyntaxError", "InvalidArgument", "InternalError",
        "UnknownDocumentId"} \subseteq Statuses
  BY DEF Statuses
<1>3. \A vs : CopyStatus(vs) \in Statuses /\ CopyStatus(vs) # "UnknownDocumentId"
  BY DEF CopyStatus, Statuses
<1>4. UNCHANGED storeVars
  BY DEF ReadValue, ReadTyped
<1>5. \/ \E s \in Slots : \E op, vs :
            /\ IsLiveSlot(s, handle[c])
            /\ \/ PathStatus(path) # "Ok" /\ reply' = silent(op, PathStatus(path))
               \/ reply' = value(stored[s], vs)
               \/ reply' = number(stored[s])
      \/ \E op, status : /\ status \in {"PathSyntaxError", "InvalidArgument", "InternalError"}
                          /\ reply' = silent(op, status)
      \/ ~IsLive(handle[c]) /\ \E op : reply' = silent(op, "UnknownDocumentId")
  <2>1. ASSUME NEW vs \in BufferSizes, ReadValue(c, path, vs)
        PROVE  <1>5!:
    BY <2>1 DEF ReadValue, ReadFails
  <2>2. ASSUME ReadTyped(c, path)
        PROVE  <1>5!:
    BY <2>2 DEF ReadTyped, ReadFails
  <2> QED BY <2>1, <2>2
<1>6. \A op, status : /\ silent(op, status).status = status
                      /\ silent(op, status).of = NoDocument /\ silent(op, status).number = 0
  BY DEF Silent
<1>7. \A d, vs : /\ value(d, vs).status = CopyStatus(vs)
                 /\ value(d, vs).of = d /\ value(d, vs).number = 0
  BY DEF Silent
<1>8. \A d : number(d).status = "Ok" /\ number(d).of = d /\ number(d).number = 0
  BY DEF Silent
<1> HIDE DEF silent, value, number
<1>9. ASSUME NEW op, NEW status \in Statuses, status \notin {"Ok", "UnknownDocumentId"},
             reply' = silent(op, status)
      PROVE  Contract!Look(handle[c], status)
  <2>1. Answer' = [status |-> status, of |-> NoDocument, number |-> 0]
    BY <1>6, <1>9 DEF Answer
  <2>2. ASSUME NEW s \in Slots, IsLiveSlot(s, handle[c])
        PROVE  Contract!Look(handle[c], status)
    BY <2>1, <2>2, <1>4, <1>9, FoundLooks
  <2>3. ASSUME ~IsLive(handle[c])
        PROVE  Contract!Look(handle[c], status)
    BY <2>1, <2>3, <1>4, <1>9, UnknownLooks
  <2> QED BY <2>2, <2>3 DEF IsLive
<1>10. ASSUME NEW s \in Slots, NEW vs, IsLiveSlot(s, handle[c]), reply' = value(stored[s], vs)
       PROVE  Contract!Look(handle[c], CopyStatus(vs))
  <2>1. Answer' = [status |-> CopyStatus(vs), of |-> stored[s], number |-> 0]
    BY <1>7, <1>10 DEF Answer
  <2> QED BY <2>1, <1>3, <1>4, <1>10, FoundLooks
<1>11. ASSUME NEW s \in Slots, IsLiveSlot(s, handle[c]), reply' = number(stored[s])
       PROVE  Contract!Look(handle[c], "Ok")
  <2>1. Answer' = [status |-> "Ok", of |-> stored[s], number |-> 0]
    BY <1>8, <1>11 DEF Answer
  <2> QED BY <2>1, <1>2, <1>4, <1>11, FoundLooks
<1>12. ASSUME NEW op, ~IsLive(handle[c]), reply' = silent(op, "UnknownDocumentId")
       PROVE  Contract!Look(handle[c], "UnknownDocumentId")
  <2>1. Answer' = [status |-> "UnknownDocumentId", of |-> NoDocument, number |-> 0]
    BY <1>6, <1>12 DEF Answer
  <2> QED BY <2>1, <1>2, <1>4, <1>12, UnknownLooks
<1> QED BY <1>1, <1>2, <1>3, <1>5, <1>9, <1>10, <1>11, <1>12

LEMMA DiscardForgets ==
    ASSUME StoreInv, StoreInv', NEW c \in Scripts, Discard(c)
    PROVE  \/ Contract!Forget(handle[c])
           \/ \E status \in Statuses : Contract!Look(handle[c], status)
<1>1. ASSUME NEW s \in Slots, IsLiveSlot(s, handle[c]), Emptied({s}),
             reply' = [Silent(c, "Discard", "Ok") EXCEPT !.of = stored[s]]
      PROVE  Contract!Forget(handle[c])
  <2>1. handle[c] \in DOMAIN Held /\ Held[handle[c]] = stored[s]
    BY <1>1, HandleTaken
  <2>2. Answer' = [status |-> "Ok", of |-> stored[s], number |-> 0]
    BY <1>1 DEF Answer, Silent
  <2>3. ~occupied'[s] /\ occupied[s] /\ slotId[s] = handle[c]
    BY <1>1 DEF Emptied, IsLiveSlot
  <2>4. \A r \in Slots \ {s} : /\ occupied'[r] = occupied[r]
                               /\ slotId'[r] = slotId[r] /\ stored'[r] = stored[r]
    BY <1>1 DEF Emptied, StoreInv, TypeOK
  <2>5. DOMAIN Held' = DOMAIN Held \ {handle[c]}
    <3>1. \A i : i \in DOMAIN Held' <=> \E r \in Slots : occupied'[r] /\ slotId'[r] = i
      BY HeldValuesNext
    <3>2. \A i : i \in DOMAIN Held <=> \E r \in Slots : occupied[r] /\ slotId[r] = i
      BY HeldValues
    <3>3. \A r \in Slots \ {s} : occupied[r] => slotId[r] # handle[c]
      BY <2>3, TableById
    <3>4. \A i : i \in DOMAIN Held' <=> i \in DOMAIN Held /\ i # handle[c]
      BY <3>1, <3>2, <3>3, <2>3, <2>4
    <3> QED BY <3>4
  <2>6. ASSUME NEW i \in DOMAIN Held'
        PROVE  Held'[i] = Held[i]
    <3>1. PICK r \in Slots : occupied'[r] /\ slotId'[r] = i
      BY HeldValuesNext
    <3>2. r # s
      BY <3>1, <2>3
    <3> QED BY <3>1, <3>2, <2>4, HeldValues, HeldValuesNext
  <2>7. Held' = [i \in DOMAIN Held' |-> Held'[i]]
    BY HeldValuesNext
  <2>8. Held' = [i \in DOMAIN Held \ {handle[c]} |-> Held[i]]
    BY <2>5, <2>6, <2>7
  <2> QED BY <2>1, <2>2, <2>8 DEF Contract!Forget, Contract!Taken, Contract!Answers
<1>2. ASSUME ~IsLive(handle[c]), reply' = Silent(c, "Discard", "UnknownDocumentId"),
             UNCHANGED <<occupied, slotId, stored>>
      PROVE  Contract!Look(handle[c], "UnknownDocumentId") /\ "UnknownDocumentId" \in Statuses
  <2>1. UNCHANGED storeVars /\ "UnknownDocumentId" \in Statuses
    BY <1>2 DEF Discard, storeVars, Statuses
  <2>2. Answer' = [status |-> "UnknownDocumentId", of |-> NoDocument, number |-> 0]
    BY <1>2 DEF Answer, Silent
  <2> QED BY <2>1, <2>2, <1>2, UnknownLooks
<1> QED BY <1>1, <1>2 DEF Discard

LEMMA DiscardAllForgets ==
    ASSUME StoreInv, StoreInv', NEW c \in Scripts, DiscardAll(c)
    PROVE  Contract!ForgetAll
<1> DEFINE used == {s \in Slots : occupied[s]}
<1>1. Emptied(used)
      /\ reply' = [Silent(c, "DiscardAll", "Ok") EXCEPT !.number = Cardinality(used)]
  BY DEF DiscardAll
<1>2. Cardinality(used) = Cardinality(DOMAIN Held)
  BY HeldCardinality
<1>3. Answer' = [status |-> "Ok", of |-> NoDocument, number |-> Cardinality(used)]
  <2> HIDE DEF used
  <2> QED BY <1>1 DEF Answer, Silent
<1>4. \A s \in Slots : ~occupied'[s]
  BY <1>1 DEF Emptied
<1>5. DOMAIN Held' = {}
  BY <1>4, HeldValuesNext
<1>6. Held' = [i \in {} |-> NoDocument]
  BY <1>5, HeldValuesNext
<1> QED BY <1>2, <1>3, <1>6, SameCardinality
        DEF Contract!ForgetAll, Contract!Taken, Contract!Answers

\* Every step of the store is a step of the contract or none.
LEMMA StepImplements ==
    ASSUME StoreInv, StoreInv', [Next]_vars
    PROVE  [Contract!Next]_(Contract!vars)
<1> SUFFICES Contract!Next \/ UNCHANGED <<Held, Answer>>
  BY DEF Contract!vars
<1>1. CASE UNCHANGED vars
  <2>1. UNCHANGED storeVars /\ reply' = reply
    BY <1>1 DEF vars
  <2> QED BY <2>1, HeldUnchanged DEF Answer
<1>2. ASSUME NEW c \in Scripts, Call(c)
      PROVE  Contract!Next
  <2>1. handle[c] \in Ids
    BY DEF StoreInv, TypeOK
  <2>2. CASE \E s \in Slots, n \in EntryCounts, k, id \in Ids : Parse(c, s, n, k, id)
    BY <2>2, ParseStores DEF Contract!Next
  <2>3. CASE \E status \in Statuses : ParseFails(c, status)
    BY <2>3, ParseRefuses DEF Contract!Next
  <2>4. CASE CountEntries(c)
    BY <2>1, <2>4, CountLooks DEF Contract!Next
  <2>5. CASE \E i \in Indices, ks, vs \in BufferSizes : ReadEntry(c, i, ks, vs)
    BY <2>1, <2>5, EntryLooks DEF Contract!Next
  <2>6. CASE \/ \E path \in Paths, vs \in BufferSizes : ReadValue(c, path, vs)
             \/ \E path \in Paths : ReadTyped(c, path)
    BY <2>1, <2>6, PathLooks DEF Contract!Next
  <2>7. CASE Discard(c)
    BY <2>1, <2>7, DiscardForgets DEF Contract!Next
  <2>8. CASE DiscardAll(c)
    BY <2>8, DiscardAllForgets DEF Contract!Next
  <2> QED BY <1>2, <2>2, <2>3, <2>4, <2>5, <2>6, <2>7, <2>8 DEF Call
<1> QED BY <1>1, <1>2 DEF Next

LEMMA InitImplements == Init => Contract!Init
<1> SUFFICES ASSUME Init PROVE Contract!Init
  OBVIOUS
<1>1. StoreInv
  BY InitStore
<1>2. DOMAIN Held = {}
  BY <1>1, HeldValues DEF Init
<1>3. Held = [i \in {} |-> NoDocument]
  BY <1>1, <1>2, HeldValues
<1>4. Answer = [status |-> "Ok", of |-> NoDocument, number |-> 0]
  BY DEF Init, Silent, Answer
<1> QED BY <1>3, <1>4 DEF Contract!Init

\* The slots, the counter and the search for an id implement a set of at most
\* SlotCount documents under ids of their own.
THEOREM StoreImplementsContract == Spec => ImplementsContract
<1>1. StoreInv /\ StoreInv' /\ [Next]_vars => [Contract!Next]_(Contract!vars)
  BY StepImplements
<1> QED BY <1>1, InitImplements, StoreInvariant, PTL
        DEF Spec, ImplementsContract, Contract!Spec
=============================================================================
