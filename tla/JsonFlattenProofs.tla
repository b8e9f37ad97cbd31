-------------------------- MODULE JsonFlattenProofs --------------------------
(* Proofs about FlattenJson, whatever the limits are and whatever the text      *)
(* holds.  The counting pass stays inside its fixed arrays (IInv); its byte     *)
(* counts are those of the paths it never builds (FramesAgree); it stops at the *)
(* limit (Counted); the document it reads is a tree whose leaves come in order  *)
(* (TextInv); and the traversal lists them (WalkInv).                           *)
EXTENDS JsonFlatten, FiniteSetTheorems, SequenceTheorems, WellFoundedInduction, TLAPS

------------------------------------------------------------------------------
(* Sums.                                                                      *)

(* A set of numbers has a least one. *)
LEMMA LeastNumber ==
  ASSUME NEW K \in SUBSET Nat, K # {}
  PROVE  \E k \in K : \A j \in K : k <= j
<1>1. IsWellFoundedOn(OpToRel(<, Nat), Nat)  BY NatLessThanWellFounded
<1>2. PICK k \in K : \A j \in K : ~ (<<j, k>> \in OpToRel(<, Nat))  BY <1>1, WFMin
<1>3. \A j \in K : <<j, k>> \in Nat \X Nat  OBVIOUS
<1>4. \A j \in K : ~ (j < k)  BY <1>2, <1>3 DEF OpToRel
<1> QED BY <1>4

(* f holds the sums of the first numbers of v, up to m of them. *)
Sums(f, v, m) == f[0] = 0 /\ \A n \in 1 .. m : f[n] = f[n - 1] + v[n]

LEMMA SumsAgree ==
  ASSUME NEW m \in Nat, NEW v, NEW f, NEW g, Sums(f, v, m), Sums(g, v, m)
  PROVE  \A n \in 0 .. m : f[n] = g[n]
<1> DEFINE differ == {n \in 0 .. m : f[n] # g[n]}
<1> SUFFICES ASSUME differ # {} PROVE FALSE  OBVIOUS
<1>1. differ \in SUBSET Nat  OBVIOUS
<1>2. PICK k \in differ : \A j \in differ : k <= j  BY <1>1, LeastNumber
<1>3. k \in 1 .. m /\ k - 1 \in 0 .. m /\ k - 1 \notin differ  BY <1>2 DEF Sums
<1>4. f[k - 1] = g[k - 1]  BY <1>3
<1>5. f[k] = f[k - 1] + v[k] /\ g[k] = g[k - 1] + v[k]  BY <1>3 DEF Sums
<1> QED BY <1>2, <1>4, <1>5

(* Some function sums the first numbers of a sequence. *)
LEMMA SumsExist ==
  ASSUME NEW v \in Seq(Nat)
  PROVE  \E f \in [0 .. Len(v) -> Nat] : Sums(f, v, Len(v))
<1> DEFINE some(k) == {f \in [0 .. k -> Nat] : Sums(f, v, k)}
           none == {k \in 0 .. Len(v) : some(k) = {}}
<1>1. Len(v) \in Nat /\ \A n \in 1 .. Len(v) : v[n] \in Nat  BY LenProperties
<1>2. none = {}
  <2> SUFFICES ASSUME none # {} PROVE FALSE  OBVIOUS
  <2>1. none \in SUBSET Nat /\ none \subseteq 0 .. Len(v)  BY <1>1
  <2>2. PICK k \in none : \A j \in none : k <= j
    <3> HIDE DEF none
    <3> QED BY <2>1, LeastNumber
  <2>3. k # 0
    <3>1. [n \in 0 .. 0 |-> 0] \in some(0)  BY DEF Sums
    <3> QED BY <2>2, <3>1
  <2>4. k \in 1 .. Len(v) /\ k - 1 \in 0 .. Len(v) /\ k - 1 \notin none
    <3> HIDE DEF none
    <3> QED BY <1>1, <2>1, <2>2, <2>3
  <2>5. PICK f \in some(k - 1) : TRUE  BY <2>4
  <2> DEFINE g == [n \in 0 .. k |-> IF n = k THEN f[k - 1] + v[k] ELSE f[n]]
  <2>6. /\ f \in [0 .. k - 1 -> Nat] /\ f[0] = 0
        /\ \A n \in 1 .. k - 1 : f[n] = f[n - 1] + v[n]
    BY <2>5 DEF Sums
  <2>7. v[k] \in Nat /\ f[k - 1] \in Nat  BY <1>1, <2>4, <2>6
  <2>8. g \in [0 .. k -> Nat] /\ g[0] = 0 /\ g[k] = f[k - 1] + v[k]
        /\ \A n \in 0 .. k - 1 : g[n] = f[n]
    BY <2>4, <2>6, <2>7
  <2>9. \A n \in 1 .. k : g[n] = g[n - 1] + v[n]
    <3> HIDE DEF g
    <3> SUFFICES ASSUME NEW n \in 1 .. k PROVE g[n] = g[n - 1] + v[n]  OBVIOUS
    <3>1. g[n - 1] = f[n - 1]  BY <2>4, <2>8
    <3>2. n = k \/ n \in 1 .. k - 1  BY <2>4
    <3>3. CASE n = k  BY <2>8, <3>1, <3>3
    <3>4. CASE n \in 1 .. k - 1
      <4>1. f[n] = f[n - 1] + v[n] /\ g[n] = f[n]  BY <2>6, <2>8, <3>4
      <4> QED BY <3>1, <4>1
    <3> QED BY <3>2, <3>3, <3>4
  <2>10. g \in some(k)
    <3> HIDE DEF g
    <3> QED BY <2>8, <2>9 DEF Sums
  <2> QED BY <2>2, <2>10
<1>3. \A k \in 0 .. Len(v) : some(k) # {}  BY <1>2
<1>4. some(Len(v)) # {}
  <2> HIDE DEF some
  <2> QED BY <1>1, <1>3
<1> QED BY <1>4

LEMMA TotalDefined ==
  ASSUME NEW v \in Seq(Nat)
  PROVE  \E f \in [0 .. Len(v) -> Nat] :
           Sums(f, v, Len(v)) /\ Total(v) = f[Len(v)]
<1> DEFINE Sum(f) == f = [n \in 0 .. Len(v) |-> IF n = 0 THEN 0 ELSE f[n - 1] + v[n]]
           c == CHOOSE f : Sum(f)
<1>1. Len(v) \in Nat  BY LenProperties
<1>2. PICK f \in [0 .. Len(v) -> Nat] : Sums(f, v, Len(v))  BY SumsExist
<1>3. Sum(f)
  <2>1. \A n \in 0 .. Len(v) : f[n] = IF n = 0 THEN 0 ELSE f[n - 1] + v[n]
    BY <1>1, <1>2 DEF Sums
  <2> QED BY <1>2, <2>1
<1>4. Sum(c)  BY <1>3
<1>5. Sums(c, v, Len(v))
  <2> HIDE DEF c
  <2>1. \A n \in 0 .. Len(v) : c[n] = IF n = 0 THEN 0 ELSE c[n - 1] + v[n]  BY <1>4
  <2> QED BY <1>1, <2>1 DEF Sums
<1>6. \A n \in 0 .. Len(v) : c[n] = f[n]
  <2> HIDE DEF c
  <2> QED BY <1>1, <1>2, <1>5, SumsAgree
<1>7. Total(v) = c[Len(v)]  BY DEF Total
<1> HIDE DEF c
<1> QED BY <1>1, <1>2, <1>6, <1>7

LEMMA TotalEmpty == Total(<<>>) = 0
<1>1. <<>> \in Seq(Nat) /\ Len(<<>>) = 0  BY EmptySeq
<1> QED BY <1>1, TotalDefined DEF Sums

LEMMA TotalIsNat == ASSUME NEW v \in Seq(Nat) PROVE Total(v) \in Nat
<1>1. Len(v) \in Nat  BY LenProperties
<1> QED BY <1>1, TotalDefined

LEMMA TotalAppend ==
  ASSUME NEW v \in Seq(Nat), NEW x \in Nat
  PROVE  Total(Append(v, x)) = Total(v) + x
<1> DEFINE w == Append(v, x)
<1>1. /\ w \in Seq(Nat) /\ Len(w) = Len(v) + 1 /\ Len(v) \in Nat
      /\ w[Len(w)] = x /\ \A i \in 1 .. Len(v) : w[i] = v[i]
  BY AppendProperties, LenProperties
<1> HIDE DEF w
<1>2. PICK f \in [0 .. Len(v) -> Nat] :
        Sums(f, v, Len(v)) /\ Total(v) = f[Len(v)]
  BY TotalDefined
<1>3. PICK g \in [0 .. Len(w) -> Nat] :
        Sums(g, w, Len(w)) /\ Total(w) = g[Len(w)]
  BY <1>1, TotalDefined
<1>4. \A n \in 0 .. Len(v) : f[n] = g[n]
  <2>1. Sums(g, v, Len(v))  BY <1>1, <1>3 DEF Sums
  <2>2. Len(v) \in Nat /\ Sums(f, v, Len(v))  BY <1>1, <1>2
  <2> QED BY ONLY <2>1, <2>2, SumsAgree
<1>5. Total(w) = g[Len(v)] + x
  <2>1. Len(w) \in 1 .. Len(w) /\ Len(w) - 1 = Len(v)  BY <1>1
  <2>2. g[Len(w)] = g[Len(w) - 1] + w[Len(w)]  BY <1>3, <2>1 DEF Sums
  <2> QED BY <1>1, <1>3, <2>1, <2>2
<1> QED BY <1>1, <1>2, <1>4, <1>5 DEF w

(* The sum without its k-th number. *)
LEMMA TotalRemove ==
  ASSUME NEW v \in Seq(Nat), NEW w \in Seq(Nat), NEW k \in 1 .. Len(v),
         Len(v) = Len(w) + 1,
         \A i \in 1 .. Len(w) : w[i] = IF i < k THEN v[i] ELSE v[i + 1]
  PROVE  Total(v) = Total(w) + v[k]
<1>1. Len(v) \in Nat /\ Len(w) \in Nat /\ v[k] \in Nat  BY LenProperties
<1>2. PICK f \in [0 .. Len(v) -> Nat] :
        Sums(f, v, Len(v)) /\ Total(v) = f[Len(v)]
  BY TotalDefined
<1>3. PICK g \in [0 .. Len(w) -> Nat] :
        Sums(g, w, Len(w)) /\ Total(w) = g[Len(w)]
  BY TotalDefined
<1> DEFINE at == [n \in 0 .. Len(w) |-> IF n < k THEN n ELSE n + 1]
           Same(n) == f[at[n]] = g[n] + (IF n < k THEN 0 ELSE v[k])
           differ == {n \in 0 .. Len(w) : ~ Same(n)}
<1> USE DEF Sums
<1>4. differ = {}
  <2> SUFFICES ASSUME differ # {} PROVE FALSE  OBVIOUS
  <2>1. differ \in SUBSET Nat /\ differ \subseteq 0 .. Len(w)  BY <1>1
  <2>2. PICK n \in differ : \A j \in differ : n <= j
    <3> HIDE DEF differ
    <3> QED BY <2>1, LeastNumber
  <2>3. n \in 0 .. Len(w) /\ ~ Same(n)  BY <2>2
  <2>4. CASE n = 0
    <3>1. n < k /\ at[n] = 0 /\ f[0] = 0 /\ g[0] = 0  BY <1>1, <1>2, <1>3, <2>4
    <3> QED BY <2>3, <2>4, <3>1
  <2>5. CASE n # 0
    <3>1. n \in 1 .. Len(w) /\ n - 1 \in 0 .. Len(w)  BY <1>1, <2>3, <2>5
    <3>2. Same(n - 1)
      <4>1. n - 1 \notin differ
        <5> HIDE DEF differ
        <5> QED BY <2>2, <3>1
      <4> QED BY <3>1, <4>1
    <3>3. g[n] = g[n - 1] + w[n] /\ g[n] \in Nat /\ g[n - 1] \in Nat  BY <1>3, <3>1
    <3>4. w[n] \in Nat /\ w[n] = IF n < k THEN v[n] ELSE v[n + 1]
      BY <1>1, <3>1, ElementOfSeq
    <3>5. CASE n < k
      <4>1. at[n] = n /\ at[n - 1] = n - 1  BY <3>1, <3>5
      <4>2. f[n] = f[n - 1] + v[n]  BY <1>1, <1>2, <3>1
      <4>3. f[n - 1] = g[n - 1]  BY <1>1, <3>1, <3>2, <3>3, <3>5, <4>1
      <4>4. f[n] = g[n]  BY <3>3, <3>4, <3>5, <4>2, <4>3
      <4> QED BY <2>3, <3>3, <3>5, <4>1, <4>4
    <3>6. CASE ~ (n < k)
      <4>1. at[n] = n + 1 /\ n + 1 \in 1 .. Len(v) /\ (n + 1) - 1 = n  BY <1>1, <3>1, <3>6
      <4>2. f[n + 1] = f[(n + 1) - 1] + v[n + 1]  BY <1>2, <4>1
      <4>3. f[n] = g[n - 1] + v[k]
        <5>1. CASE n = k
          <6>1. at[n - 1] = n - 1 /\ n \in 1 .. Len(v)  BY <1>1, <3>1, <5>1
          <6>2. f[n] = f[n - 1] + v[n]  BY <1>2, <6>1
          <6>3. f[n - 1] = g[n - 1]  BY <1>1, <3>1, <3>2, <3>3, <5>1, <6>1
          <6> QED BY <5>1, <6>2, <6>3
        <5>2. CASE n # k
          <6>1. at[n - 1] = n /\ ~ (n - 1 < k)  BY <1>1, <3>1, <3>6, <5>2
          <6> QED BY <3>2, <6>1
        <5> QED BY <5>1, <5>2
      <4>4. f[n + 1] = g[n] + v[k]
        <5>1. f[n + 1] = f[n] + v[n + 1]  BY <4>1, <4>2
        <5>2. v[n + 1] = w[n] /\ v[n + 1] \in Nat  BY <3>4, <3>6
        <5>3. PICK i \in Nat : i = g[n - 1]  BY <3>3
        <5>4. PICK j \in Nat : j = w[n]  BY <3>4
        <5>5. PICK h \in Nat : h = v[k]  BY <1>1
        <5>6. f[n + 1] = (i + h) + j  BY <4>3, <5>1, <5>2, <5>3, <5>4, <5>5
        <5>7. g[n] + v[k] = (i + j) + h  BY <3>3, <5>3, <5>4, <5>5
        <5> QED BY <5>6, <5>7
      <4> QED BY <2>3, <3>6, <4>1, <4>4
    <3> QED BY <3>5, <3>6
  <2> QED BY <2>4, <2>5
<1>5. Same(Len(w))
  <2>1. \A n \in 0 .. Len(w) : Same(n)  BY <1>4
  <2> HIDE DEF Same
  <2> QED BY <1>1, <2>1
<1>6. CASE k = Len(v)
  <2>1. at[Len(w)] = Len(w) /\ Len(w) < k /\ Len(v) - 1 = Len(w)  BY <1>1, <1>6
  <2>2. f[Len(w)] = g[Len(w)]
    <3>1. f[Len(w)] = g[Len(w)] + 0  BY <1>5, <2>1
    <3>2. Len(w) \in 0 .. Len(w)  BY <1>1
    <3>3. PICK x \in Nat : x = g[Len(w)]  BY <3>2
    <3> QED BY ONLY <3>1, <3>3
  <2>3. f[Len(v)] = f[Len(v) - 1] + v[Len(v)]
    <3>1. Len(v) \in 1 .. Len(v)  BY <1>1
    <3> QED BY <1>2, <3>1
  <2> QED BY <1>2, <1>3, <1>6, <2>1, <2>2, <2>3
<1>7. CASE k # Len(v)
  <2>1. at[Len(w)] = Len(v) /\ ~ (Len(w) < k)  BY <1>1, <1>7
  <2> QED BY <1>2, <1>3, <1>5, <2>1
<1> QED BY <1>6, <1>7

------------------------------------------------------------------------------
(* The bytes of keys.                                                         *)

TokenBytes(t) == 1 + t.bytes + t.escaped

LEMMA BytesOfPath ==
  ASSUME NEW p \in Seq(Token)
  PROVE  /\ [i \in DOMAIN p |-> 1 + p[i].bytes + p[i].escaped] \in Seq(Nat)
         /\ KeyBytes(p) \in Nat
<1> DEFINE b == [i \in DOMAIN p |-> 1 + p[i].bytes + p[i].escaped]
<1>1. Len(p) \in Nat /\ DOMAIN p = 1 .. Len(p) /\ \A i \in 1 .. Len(p) : p[i] \in Token
  BY LenProperties
<1>2. b \in [1 .. Len(p) -> Nat]  BY <1>1 DEF Token
<1>3. b \in Seq(Nat)  BY <1>1, <1>2, SeqDef
<1>4. KeyBytes(p) = Total(b)  BY DEF KeyBytes
<1> HIDE DEF b
<1>5. KeyBytes(p) \in Nat  BY <1>3, <1>4, TotalIsNat
<1> QED BY <1>3, <1>5 DEF b

LEMMA BytesOfRoot == KeyBytes(<<>>) = 0
<1>1. [i \in DOMAIN <<>> |-> 1 + <<>>[i].bytes + <<>>[i].escaped] = <<>>  OBVIOUS
<1> QED BY <1>1, TotalEmpty DEF KeyBytes

LEMMA BytesOfChild ==
  ASSUME NEW p \in Seq(Token), NEW t \in Token
  PROVE  KeyBytes(Append(p, t)) = KeyBytes(p) + TokenBytes(t)
<1> DEFINE q == Append(p, t)
           b == [i \in DOMAIN p |-> 1 + p[i].bytes + p[i].escaped]
           c == [i \in DOMAIN q |-> 1 + q[i].bytes + q[i].escaped]
<1>1. /\ q \in Seq(Token) /\ Len(q) = Len(p) + 1 /\ Len(p) \in Nat
      /\ q[Len(p) + 1] = t /\ \A i \in 1 .. Len(p) : q[i] = p[i]
      /\ DOMAIN q = 1 .. Len(q) /\ DOMAIN p = 1 .. Len(p)
  BY AppendProperties, LenProperties
<1>2. b \in Seq(Nat) /\ c \in Seq(Nat)
  <2> HIDE DEF q
  <2> QED BY <1>1, BytesOfPath
<1>3. TokenBytes(t) \in Nat  BY DEF Token, TokenBytes
<1> DEFINE d == Append(b, TokenBytes(t))
<1>4. Len(b) = Len(p) /\ Len(c) = Len(p) + 1
  <2>1. DOMAIN b = 1 .. Len(p) /\ DOMAIN c = 1 .. Len(p) + 1  BY <1>1
  <2> HIDE DEF b, c
  <2> QED BY <1>1, <1>2, <2>1, LenProperties
<1>5. d \in Seq(Nat) /\ Len(d) = Len(p) + 1
      /\ d[Len(p) + 1] = TokenBytes(t) /\ \A i \in 1 .. Len(p) : d[i] = b[i]
  <2> HIDE DEF b
  <2> QED BY <1>2, <1>3, <1>4, AppendProperties
<1>6. \A i \in 1 .. Len(p) + 1 : c[i] = d[i]
  <2> HIDE DEF d
  <2> SUFFICES ASSUME NEW i \in 1 .. Len(p) + 1 PROVE c[i] = d[i]  OBVIOUS
  <2>1. i \in DOMAIN q /\ c[i] = TokenBytes(q[i])  BY <1>1 DEF TokenBytes
  <2>2. CASE i = Len(p) + 1  BY <1>1, <1>5, <2>1, <2>2
  <2>3. CASE i \in 1 .. Len(p)
    <3>1. b[i] = TokenBytes(p[i])  BY <1>1, <2>3 DEF TokenBytes
    <3> QED BY <1>1, <1>5, <2>1, <2>3, <3>1
  <2> QED BY <1>1, <2>2, <2>3
<1>7. c = d
  <2> HIDE DEF c, d
  <2> QED BY <1>2, <1>4, <1>5, <1>6, SeqEqual
<1>8. KeyBytes(q) = Total(c) /\ KeyBytes(p) = Total(b)  BY DEF KeyBytes
<1> HIDE DEF b, c, q
<1> QED BY <1>2, <1>3, <1>7, <1>8, TotalAppend DEF q

LEMMA TextOfKeys ==
  ASSUME NEW list \in Seq(Seq(Token))
  PROVE  /\ [i \in DOMAIN list |-> KeyBytes(list[i])] \in Seq(Nat)
         /\ Len([i \in DOMAIN list |-> KeyBytes(list[i])]) = Len(list)
         /\ KeyText(list) \in Nat
<1> DEFINE b == [i \in DOMAIN list |-> KeyBytes(list[i])]
<1>1. Len(list) \in Nat /\ DOMAIN list = 1 .. Len(list)
      /\ \A i \in 1 .. Len(list) : list[i] \in Seq(Token)
  BY LenProperties
<1>2. b \in [1 .. Len(list) -> Nat]  BY <1>1, BytesOfPath
<1>3. b \in Seq(Nat)  BY <1>1, <1>2, SeqDef
<1>4. KeyText(list) = Total(b)  BY DEF KeyText
<1> HIDE DEF b
<1>5. KeyText(list) \in Nat  BY <1>3, <1>4, TotalIsNat
<1>6. Len(b) = Len(list)  BY <1>1, <1>2, <1>3, LenProperties
<1> QED BY <1>3, <1>5, <1>6 DEF b

LEMMA TextOfNoKeys == KeyText(<<>>) = 0
<1>1. [i \in DOMAIN <<>> |-> KeyBytes(<<>>[i])] = <<>>  OBVIOUS
<1> QED BY <1>1, TotalEmpty DEF KeyText

LEMMA TextOfOneMore ==
  ASSUME NEW list \in Seq(Seq(Token)), NEW p \in Seq(Token)
  PROVE  KeyText(Append(list, p)) = KeyText(list) + KeyBytes(p)
<1> DEFINE q == Append(list, p)
           b == [i \in DOMAIN list |-> KeyBytes(list[i])]
           c == [i \in DOMAIN q |-> KeyBytes(q[i])]
           d == Append(b, KeyBytes(p))
<1>1. /\ q \in Seq(Seq(Token)) /\ Len(q) = Len(list) + 1 /\ Len(list) \in Nat
      /\ q[Len(list) + 1] = p /\ \A i \in 1 .. Len(list) : q[i] = list[i]
      /\ DOMAIN q = 1 .. Len(q) /\ DOMAIN list = 1 .. Len(list)
  BY AppendProperties, LenProperties
<1>2. b \in Seq(Nat) /\ c \in Seq(Nat) /\ Len(b) = Len(list) /\ Len(c) = Len(list) + 1
  <2> HIDE DEF q
  <2> QED BY <1>1, TextOfKeys
<1>3. KeyBytes(p) \in Nat  BY BytesOfPath
<1>4. d \in Seq(Nat) /\ Len(d) = Len(list) + 1
      /\ d[Len(list) + 1] = KeyBytes(p) /\ \A i \in 1 .. Len(list) : d[i] = b[i]
  <2> HIDE DEF b
  <2> QED BY <1>2, <1>3, AppendProperties
<1>5. \A i \in 1 .. Len(list) + 1 : c[i] = d[i]
  <2> HIDE DEF d
  <2> SUFFICES ASSUME NEW i \in 1 .. Len(list) + 1 PROVE c[i] = d[i]  OBVIOUS
  <2>1. i \in DOMAIN q /\ c[i] = KeyBytes(q[i])  BY <1>1
  <2>2. CASE i = Len(list) + 1  BY <1>1, <1>4, <2>1, <2>2
  <2>3. CASE i \in 1 .. Len(list)
    <3>1. b[i] = KeyBytes(list[i])  BY <1>1, <2>3
    <3> QED BY <1>1, <1>4, <2>1, <2>3, <3>1
  <2> QED BY <1>1, <2>2, <2>3
<1>6. c = d
  <2> HIDE DEF c, d
  <2> QED BY <1>2, <1>4, <1>5, SeqEqual
<1>7. KeyText(q) = Total(c) /\ KeyText(list) = Total(b)  BY DEF KeyText
<1> HIDE DEF b, c, q
<1> QED BY <1>2, <1>3, <1>6, <1>7, TotalAppend DEF q

------------------------------------------------------------------------------
(* Sequences, read from the front.                                            *)

LEMMA PrefixOf ==
  ASSUME NEW S, NEW s \in Seq(S), NEW n \in 0 .. Len(s)
  PROVE  /\ SubSeq(s, 1, n) \in Seq(S) /\ Len(SubSeq(s, 1, n)) = n
         /\ \A i \in 1 .. n : SubSeq(s, 1, n)[i] = s[i]
<1>1. Len(s) \in Nat /\ \A i \in 1 .. n : s[i] \in S  BY LenProperties
<1>2. \A i \in 1 .. n : 1 + i - 1 = i  BY <1>1
<1>3. n - 1 + 1 = n  BY <1>1
<1> QED BY <1>1, <1>2, <1>3, SubSeqProperties

LEMMA PrefixWhole == ASSUME NEW S, NEW s \in Seq(S) PROVE SubSeq(s, 1, Len(s)) = s
BY SubSeqFull

LEMMA PrefixOfPrefix ==
  ASSUME NEW S, NEW s \in Seq(S), NEW n \in 0 .. Len(s), NEW m \in 0 .. n
  PROVE  SubSeq(SubSeq(s, 1, n), 1, m) = SubSeq(s, 1, m)
<1>1. Len(s) \in Nat  BY LenProperties
<1> DEFINE a == SubSeq(s, 1, n)
           b == SubSeq(a, 1, m)
           c == SubSeq(s, 1, m)
<1>2. a \in Seq(S) /\ Len(a) = n /\ \A i \in 1 .. n : a[i] = s[i]  BY PrefixOf
<1>3. c \in Seq(S) /\ Len(c) = m /\ \A i \in 1 .. m : c[i] = s[i]  BY <1>1, PrefixOf
<1> HIDE DEF a, c
<1>4. b \in Seq(S) /\ Len(b) = m /\ \A i \in 1 .. m : b[i] = a[i]  BY <1>2, PrefixOf
<1> HIDE DEF b
<1>5. b = c  BY <1>2, <1>3, <1>4, SeqEqual
<1> QED BY <1>5 DEF a, b, c

LEMMA Appended ==
  ASSUME NEW S, NEW s \in Seq(S), NEW x \in S
  PROVE  /\ Append(s, x) \in Seq(S) /\ Append(s, x) # <<>>
         /\ Len(s) \in Nat /\ Len(Append(s, x)) = Len(s) + 1
         /\ \A i \in 1 .. Len(s) : Append(s, x)[i] = s[i]
         /\ Append(s, x)[Len(s) + 1] = x
         /\ Last(Append(s, x)) = x /\ Front(Append(s, x)) = s
         /\ \A n \in 0 .. Len(s) : SubSeq(Append(s, x), 1, n) = SubSeq(s, 1, n)
<1> DEFINE t == Append(s, x)
<1>1. /\ t \in Seq(S) /\ t # <<>> /\ Len(t) = Len(s) + 1 /\ Len(s) \in Nat
      /\ \A i \in 1 .. Len(s) : t[i] = s[i]
      /\ t[Len(s) + 1] = x
  BY AppendProperties, LenProperties
<1> HIDE DEF t
<1>2. ASSUME NEW n \in 0 .. Len(s) PROVE SubSeq(t, 1, n) = SubSeq(s, 1, n)
  <2> DEFINE a == SubSeq(t, 1, n)
             b == SubSeq(s, 1, n)
  <2>0. n \in 0 .. Len(t)  BY <1>1
  <2>1. a \in Seq(S) /\ Len(a) = n /\ \A i \in 1 .. n : a[i] = t[i]
    BY <1>1, <2>0, PrefixOf
  <2>2. b \in Seq(S) /\ Len(b) = n /\ \A i \in 1 .. n : b[i] = s[i]
    BY PrefixOf
  <2> HIDE DEF a, b
  <2>3. \A i \in 1 .. n : a[i] = b[i]  BY <1>1, <2>1, <2>2
  <2>4. a = b  BY <2>1, <2>2, <2>3, SeqEqual
  <2> QED BY <2>4 DEF a, b
<1>3. Last(t) = x  BY <1>1 DEF Last
<1>4. Front(t) = s
  <2>1. Front(t) = SubSeq(t, 1, Len(s))  BY <1>1 DEF Front
  <2>2. Len(s) \in 0 .. Len(s)  BY <1>1
  <2>3. SubSeq(t, 1, Len(s)) = SubSeq(s, 1, Len(s))  BY <1>2, <2>2
  <2> QED BY <2>1, <2>3, PrefixWhole
<1> QED BY <1>1, <1>2, <1>3, <1>4 DEF t

LEMMA Shortened ==
  ASSUME NEW S, NEW s \in Seq(S), s # <<>>
  PROVE  /\ Len(s) \in Nat \ {0} /\ Last(s) \in S /\ Last(s) = s[Len(s)]
         /\ Front(s) \in Seq(S) /\ Len(Front(s)) = Len(s) - 1
         /\ \A i \in 1 .. Len(s) - 1 : Front(s)[i] = s[i]
         /\ Front(s) = SubSeq(s, 1, Len(s) - 1)
<1>1. Len(s) \in Nat \ {0}  BY EmptySeq
<1>2. Len(s) - 1 \in 0 .. Len(s) /\ Len(s) \in 1 .. Len(s)  BY <1>1
<1>3. Front(s) = SubSeq(s, 1, Len(s) - 1)  BY DEF Front
<1>4. Last(s) = s[Len(s)] /\ s[Len(s)] \in S  BY <1>2, ElementOfSeq DEF Last
<1> DEFINE n == Len(s) - 1
<1>5. /\ SubSeq(s, 1, n) \in Seq(S) /\ Len(SubSeq(s, 1, n)) = n
      /\ \A i \in 1 .. n : SubSeq(s, 1, n)[i] = s[i]
  <2> HIDE DEF n
  <2> QED BY <1>2, PrefixOf DEF n
<1> QED BY <1>1, <1>3, <1>4, <1>5

LEMMA PrefixGrows ==
  ASSUME NEW S, NEW s \in Seq(S), NEW n \in 1 .. Len(s)
  PROVE  SubSeq(s, 1, n) = Append(SubSeq(s, 1, n - 1), s[n])
<1>1. Len(s) \in Nat /\ s[n] \in S /\ n \in 0 .. Len(s) /\ n - 1 \in 0 .. Len(s)
  BY LenProperties
<1> DEFINE a == SubSeq(s, 1, n)
           b == SubSeq(s, 1, n - 1)
           c == Append(b, s[n])
<1>2. a \in Seq(S) /\ Len(a) = n /\ \A i \in 1 .. n : a[i] = s[i]  BY <1>1, PrefixOf
<1>3. b \in Seq(S) /\ Len(b) = n - 1 /\ \A i \in 1 .. n - 1 : b[i] = s[i]
  BY <1>1, PrefixOf
<1> HIDE DEF a, b
<1>4. c \in Seq(S) /\ Len(c) = n /\ c[n] = s[n] /\ \A i \in 1 .. n - 1 : c[i] = b[i]
  BY <1>1, <1>3, Appended
<1> HIDE DEF c
<1>5. \A i \in 1 .. n : i = n \/ i \in 1 .. n - 1  BY <1>1
<1>6. \A i \in 1 .. n : a[i] = c[i]  BY <1>2, <1>3, <1>4, <1>5
<1>7. a = c  BY <1>2, <1>4, <1>6, SeqEqual
<1> QED BY <1>7 DEF a, b, c

(* s is not a prefix of a shorter sequence; a prefix agrees with the front.     *)
LEMMA PrefixAgrees ==
  ASSUME NEW S, NEW s \in Seq(S), NEW t \in Seq(S)
  PROVE  IsPrefix(s, t) <=> /\ Len(s) <= Len(t)
                            /\ s = SubSeq(t, 1, Len(s))
BY PrefixWhole DEF IsPrefix

------------------------------------------------------------------------------
(* Documents.  Of a document d, any path that is not empty hangs below the     *)
(* path one token shorter, and the members of an object or array are distinct. *)

Kinds == Scalars \cup {"object", "array"}
Elements == [kind : Kinds, members : Seq(Token)]
HasMember(d, p, t) == \E i \in 1 .. Len(d[p].members) : d[p].members[i] = t

IsDocument(d) ==
  \A p \in DOMAIN d : p \in Seq(Token) /\ d[p] \in Elements

IsTree(d) ==
  \A p \in DOMAIN d :
    /\ \A n \in 1 .. Len(p) : /\ SubSeq(p, 1, n - 1) \in DOMAIN d
                              /\ HasMember(d, SubSeq(p, 1, n - 1), p[n])
    /\ \A i \in 1 .. Len(d[p].members) :
         /\ Append(p, d[p].members[i]) \in DOMAIN d
         /\ \A j \in 1 .. Len(d[p].members) :
              d[p].members[i] = d[p].members[j] => i = j

(* Precedes, of any document; and p is the path of the last value read.        *)
Before(d, p, q) ==
  \E n \in 1 .. Len(p) :
    /\ n <= Len(q) /\ SubSeq(p, 1, n - 1) = SubSeq(q, 1, n - 1)
    /\ \E i, j \in 1 .. Len(d[SubSeq(p, 1, n - 1)].members) :
         /\ i < j
         /\ d[SubSeq(p, 1, n - 1)].members[i] = p[n]
         /\ d[SubSeq(p, 1, n - 1)].members[j] = q[n]
IsLast(d, p) ==
  \A n \in 1 .. Len(p) : /\ d[SubSeq(p, 1, n - 1)].members # <<>>
                         /\ Last(d[SubSeq(p, 1, n - 1)].members) = p[n]

(* The one element of a document that is only a value. *)
LEMMA PutRoot ==
  ASSUME DOMAIN document = {}, NEW k \in Kinds, NEW d, d = Put(<<>>, k)
  PROVE  /\ DOMAIN d = {<<>>} /\ d[<<>>] = [kind |-> k, members |-> <<>>]
         /\ IsDocument(d) /\ IsTree(d) /\ IsLast(d, <<>>)
<1>1. DOMAIN d = {<<>>} /\ d[<<>>] = [kind |-> k, members |-> <<>>]  BY DEF Put
<1>2. <<>> \in Seq(Token) /\ Len(<<>>) = 0  BY EmptySeq
<1>3. IsDocument(d)
  <2>1. d[<<>>] \in Elements
    <3>1. <<>> \in Seq(Token)  BY <1>2
    <3>2. [kind |-> k, members |-> <<>>] \in Elements  BY <3>1 DEF Elements
    <3> QED BY <1>1, <3>2
  <2> QED BY <1>1, <1>2, <2>1 DEF IsDocument
<1>4. IsTree(d)  BY <1>1, <1>2 DEF IsTree
<1>5. IsLast(d, <<>>)  BY <1>2 DEF IsLast
<1> QED BY <1>1, <1>3, <1>4, <1>5

(* What the document d is after a value of kind k was put at p, as the member t of  *)
(* the element L.                                                             *)
PutAt(d, L, t, p, k) ==
  /\ p \in Seq(Token) /\ p # L
  /\ p \in DOMAIN d /\ d[p] = [kind |-> k, members |-> <<>>]
  /\ \A q : q \in DOMAIN d <=> q = p \/ (q \in DOMAIN document /\ ~ IsPrefix(p, q))
  /\ L \in DOMAIN d
  /\ \A q \in DOMAIN d : q # p => d[q].kind = document[q].kind
  /\ \A q \in DOMAIN d : q # p /\ q # L => d[q] = document[q]
  /\ d[L].members = IF HasMember(document, L, t) THEN document[L].members
                                              ELSE Append(document[L].members, t)
  /\ IsDocument(d)

LEMMA PutBelow ==
  ASSUME IsDocument(document), NEW L \in DOMAIN document, NEW t \in Token,
         NEW k \in Kinds, NEW p, p = Append(L, t), NEW d, d = Put(p, k)
  PROVE  PutAt(d, L, t, p, k)
<1>1. L \in Seq(Token) /\ document[L] \in Elements  BY DEF IsDocument
<1>2. /\ p \in Seq(Token) /\ p # <<>> /\ Len(L) \in Nat /\ Len(p) = Len(L) + 1
      /\ Last(p) = t /\ Front(p) = L
  BY <1>1, Appended
<1>3. p # L /\ ~ IsPrefix(p, L)  BY <1>2 DEF IsPrefix
<1> DEFINE joins(q) == q = L /\ ~ Contains(document[q].members, t)
<1>4. /\ \A q : q \in DOMAIN d <=> q = p \/ (q \in DOMAIN document /\ ~ IsPrefix(p, q))
      /\ d[p] = [kind |-> k, members |-> <<>>]
      /\ \A q \in DOMAIN d : q # p =>
           d[q] = IF joins(q) THEN [document[q] EXCEPT !.members = Append(@, t)]
                              ELSE document[q]
  BY <1>2 DEF Put
<1>5. L \in DOMAIN d /\ p \in DOMAIN d  BY <1>3, <1>4
<1>6. \A q \in DOMAIN d : q # p /\ q # L => d[q] = document[q]  BY <1>4
<1>7. d[L] = IF HasMember(document, L, t) THEN document[L]
             ELSE [document[L] EXCEPT !.members = Append(@, t)]
  BY <1>3, <1>4, <1>5 DEF HasMember, Contains
<1>8. document[L].members \in Seq(Token) /\ Append(document[L].members, t) \in Seq(Token)
  BY <1>1, Appended DEF Elements
<1>9. /\ d[L].kind = document[L].kind /\ d[L] \in Elements
      /\ d[L].members = IF HasMember(document, L, t) THEN document[L].members
                                                  ELSE Append(document[L].members, t)
  BY <1>1, <1>7, <1>8 DEF Elements
<1>10. d[p] \in Elements
  <2>1. <<>> \in Seq(Token)  BY EmptySeq
  <2> QED BY <1>4, <2>1 DEF Elements
<1>11. IsDocument(d)
  BY <1>2, <1>4, <1>6, <1>9, <1>10 DEF IsDocument
<1> QED BY <1>2, <1>3, <1>4, <1>5, <1>6, <1>9, <1>11 DEF PutAt

(* A key that is new to its object replaces nothing. *)
LEMMA NothingBelow ==
  ASSUME IsDocument(document), IsTree(document), NEW L \in DOMAIN document,
         NEW t \in Token, ~ HasMember(document, L, t), NEW q \in DOMAIN document
  PROVE  ~ IsPrefix(Append(L, t), q)
<1> DEFINE p == Append(L, t)
<1>1. L \in Seq(Token) /\ q \in Seq(Token)  BY DEF IsDocument
<1>2. /\ p \in Seq(Token) /\ Len(L) \in Nat /\ Len(p) = Len(L) + 1 /\ p[Len(L) + 1] = t
      /\ SubSeq(p, 1, Len(L)) = L
  <2>1. Len(L) \in 0 .. Len(L) /\ SubSeq(L, 1, Len(L)) = L
    BY <1>1, PrefixWhole, LenProperties
  <2> QED BY <1>1, <2>1, Appended
<1> HIDE DEF p
<1> SUFFICES ASSUME IsPrefix(p, q) PROVE FALSE  BY DEF p
<1>3. Len(p) \in 1 .. Len(q) /\ Len(p) \in 0 .. Len(q) /\ p = SubSeq(q, 1, Len(p))
  BY <1>1, <1>2, PrefixAgrees, LenProperties
<1>4. SubSeq(q, 1, Len(L)) = L
  <2>1. Len(L) \in 0 .. Len(p)  BY <1>2
  <2> QED BY <1>1, <1>2, <1>3, <2>1, PrefixOfPrefix
<1>5. q[Len(p)] = t
  <2>1. Len(p) \in 1 .. Len(p)  BY <1>2
  <2>2. SubSeq(q, 1, Len(p))[Len(p)] = q[Len(p)]  BY <1>1, <1>3, <2>1, PrefixOf
  <2> QED BY <1>2, <1>3, <2>2
<1>6. Len(p) - 1 = Len(L)  BY <1>2
<1>7. HasMember(document, SubSeq(q, 1, Len(p) - 1), q[Len(p)])  BY <1>3 DEF IsTree
<1> QED BY <1>4, <1>5, <1>6, <1>7

LEMMA PutKeepsTree ==
  ASSUME IsDocument(document), IsTree(document), NEW L \in DOMAIN document,
         NEW t \in Token, NEW k \in Kinds, NEW p, p = Append(L, t), NEW d, d = Put(p, k)
  PROVE  IsTree(d)
<1>1. L \in Seq(Token) /\ document[L].members \in Seq(Token)  BY DEF IsDocument, Elements
<1>2. /\ p \in Seq(Token) /\ Len(L) \in Nat /\ Len(p) = Len(L) + 1 /\ p[Len(L) + 1] = t
      /\ \A i \in 1 .. Len(L) : p[i] = L[i]
      /\ \A n \in 0 .. Len(L) : SubSeq(p, 1, n) = SubSeq(L, 1, n)
      /\ SubSeq(L, 1, Len(L)) = L
  BY <1>1, Appended, PrefixWhole
<1>3. /\ p # L /\ p \in DOMAIN d /\ d[p] = [kind |-> k, members |-> <<>>]
      /\ \A q : q \in DOMAIN d <=> q = p \/ (q \in DOMAIN document /\ ~ IsPrefix(p, q))
      /\ L \in DOMAIN d
      /\ \A q \in DOMAIN d : q # p /\ q # L => d[q] = document[q]
      /\ d[L].members = IF HasMember(document, L, t) THEN document[L].members
                                                  ELSE Append(document[L].members, t)
  <2>1. PutAt(d, L, t, p, k)  BY PutBelow
  <2> QED BY <2>1 DEF PutAt
<1>4. /\ HasMember(d, L, t)
      /\ \A u : HasMember(document, L, u) => HasMember(d, L, u)
  <2>1. CASE HasMember(document, L, t)  BY <1>3, <2>1 DEF HasMember
  <2>2. CASE ~ HasMember(document, L, t)
    <3> DEFINE m == document[L].members
               a == Append(m, t)
    <3>1. /\ Len(m) \in Nat /\ Len(a) = Len(m) + 1 /\ a[Len(m) + 1] = t
          /\ \A i \in 1 .. Len(m) : a[i] = m[i]
      BY <1>1, Appended
    <3>2. d[L].members = a  BY <1>3, <2>2
    <3> HIDE DEF a
    <3> QED BY <3>1, <3>2 DEF HasMember
  <2> QED BY <2>1, <2>2
<1>5. \A q \in DOMAIN d : q # p => \A u : HasMember(document, q, u) => HasMember(d, q, u)
  <2> SUFFICES ASSUME NEW q \in DOMAIN d, q # p, NEW u, HasMember(document, q, u)
               PROVE  HasMember(d, q, u)
    OBVIOUS
  <2>1. CASE q = L  BY <1>4, <2>1
  <2>2. CASE q # L
    <3>1. d[q] = document[q]  BY <1>3, <2>2
    <3> QED BY <3>1 DEF HasMember
  <2> QED BY <2>1, <2>2
<1>6. ASSUME NEW q \in DOMAIN d, NEW n \in 1 .. Len(q)
      PROVE  SubSeq(q, 1, n - 1) \in DOMAIN d /\ HasMember(d, SubSeq(q, 1, n - 1), q[n])
  <2>1. CASE q # p
    <3>1. q \in DOMAIN document /\ q \in Seq(Token) /\ ~ IsPrefix(p, q)
      BY <1>3, <2>1 DEF IsDocument
    <3> DEFINE a == SubSeq(q, 1, n - 1)
    <3>2. a \in DOMAIN document /\ HasMember(document, a, q[n])  BY <3>1 DEF IsTree
    <3>3. ~ IsPrefix(p, a) /\ a # p
      <4>1. Len(q) \in Nat /\ n - 1 \in 0 .. Len(q)  BY <3>1, LenProperties
      <4>2. a \in Seq(Token) /\ Len(a) = n - 1  BY <3>1, <4>1, PrefixOf
      <4>3. ASSUME IsPrefix(p, a) PROVE FALSE
        <5>1. Len(p) \in 0 .. n - 1 /\ Len(p) <= Len(q) /\ p = SubSeq(a, 1, Len(p))
          <6> HIDE DEF a
          <6>1. Len(p) <= Len(a) /\ p = SubSeq(a, 1, Len(p))
            BY <1>2, <4>2, <4>3, PrefixAgrees
          <6> QED BY <1>2, <4>1, <4>2, <6>1
        <5>2. SubSeq(a, 1, Len(p)) = SubSeq(q, 1, Len(p))
          BY <3>1, <4>1, <5>1, PrefixOfPrefix
        <5> QED BY <1>2, <3>1, <5>1, <5>2, PrefixAgrees
      <4>4. IsPrefix(p, p)  BY <1>2 DEF IsPrefix
      <4> QED BY <4>3, <4>4
    <3>4. a \in DOMAIN d  BY <1>3, <3>2, <3>3
    <3> QED BY <1>5, <3>2, <3>3, <3>4
  <2>2. CASE q = p
    <3>1. n \in 1 .. Len(L) + 1  BY <1>2, <2>2
    <3>2. CASE n = Len(L) + 1
      <4>1. n - 1 = Len(L) /\ n - 1 \in 0 .. Len(L)  BY <1>2, <3>2
      <4>2. SubSeq(q, 1, n - 1) = L /\ q[n] = t  BY <1>2, <2>2, <3>2, <4>1
      <4> QED BY <1>3, <1>4, <4>2
    <3>3. CASE n \in 1 .. Len(L)
      <4> DEFINE a == SubSeq(L, 1, n - 1)
      <4>1. n - 1 \in 0 .. Len(L)  BY <1>2, <3>3
      <4>2. SubSeq(q, 1, n - 1) = a /\ q[n] = L[n]  BY <1>2, <2>2, <3>3, <4>1
      <4>3. a \in DOMAIN document /\ HasMember(document, a, L[n])  BY <3>3 DEF IsTree
      <4>4. Len(a) = n - 1  BY <1>1, <4>1, PrefixOf
      <4>5. ~ (Len(p) <= Len(a))  BY <1>2, <3>3, <4>4
      <4>6. ~ IsPrefix(p, a) /\ a # p  BY <1>2, <4>5 DEF IsPrefix
      <4>7. a \in DOMAIN d  BY <1>3, <4>3, <4>6
      <4> QED BY <1>5, <4>2, <4>3, <4>6, <4>7
    <3> QED BY <1>2, <3>1, <3>2, <3>3
  <2> QED BY <2>1, <2>2
<1>7. ASSUME NEW q \in DOMAIN d, NEW i \in 1 .. Len(d[q].members)
      PROVE  /\ Append(q, d[q].members[i]) \in DOMAIN d
             /\ \A j \in 1 .. Len(d[q].members) : d[q].members[i] = d[q].members[j] => i = j
  <2>1. CASE q = p
    <3>1. Len(d[q].members) = 0  BY <1>3, <2>1, EmptySeq
    <3> QED BY <3>1
  <2>2. CASE q # p
    <3>1. q \in DOMAIN document /\ q \in Seq(Token) /\ ~ IsPrefix(p, q)
      BY <1>3, <2>2 DEF IsDocument
    <3> DEFINE m == document[q].members
    <3>2. m \in Seq(Token) /\ Len(m) \in Nat  BY <3>1, LenProperties DEF IsDocument, Elements
    <3>3. ASSUME NEW h \in 1 .. Len(m)
          PROVE  /\ Append(q, m[h]) \in DOMAIN d
                 /\ \A j \in 1 .. Len(m) : m[h] = m[j] => h = j
      <4>1. Append(q, m[h]) \in DOMAIN document /\ \A j \in 1 .. Len(m) : m[h] = m[j] => h = j
        BY <3>1, <3>3 DEF IsTree
      <4>2. CASE Append(q, m[h]) = p  BY <1>3, <4>1, <4>2
      <4>3. CASE Append(q, m[h]) # p
        <5> DEFINE c == Append(q, m[h])
        <5>1. m[h] \in Token  BY <3>2, <3>3, ElementOfSeq
        <5>2. /\ c \in Seq(Token) /\ Len(c) = Len(q) + 1 /\ Len(q) \in Nat
              /\ \A n \in 0 .. Len(q) : SubSeq(c, 1, n) = SubSeq(q, 1, n)
          BY <3>1, <5>1, Appended
        <5> HIDE DEF c
        <5>3. ASSUME IsPrefix(p, c) PROVE FALSE
          <6>1. Len(p) <= Len(c) /\ p = SubSeq(c, 1, Len(p))
            BY <1>2, <5>2, <5>3, PrefixAgrees
          <6>2. CASE Len(p) = Len(c)
            <7>1. p = c  BY <5>2, <6>1, <6>2, PrefixWhole
            <7> QED BY <4>3, <7>1 DEF c
          <6>3. CASE Len(p) # Len(c)
            <7>1. Len(p) \in 0 .. Len(q) /\ Len(p) <= Len(q)  BY <1>2, <5>2, <6>1, <6>3
            <7>2. p = SubSeq(q, 1, Len(p))  BY <5>2, <6>1, <7>1
            <7> QED BY <1>2, <3>1, <7>1, <7>2, PrefixAgrees
          <6> QED BY <6>2, <6>3
        <5> QED BY <1>3, <4>1, <5>3 DEF c
      <4> QED BY <4>1, <4>2, <4>3
    <3>4. CASE d[q].members = m  BY <3>3, <3>4
    <3>5. CASE d[q].members # m
      <4>1. q = L /\ ~ HasMember(document, L, t) /\ d[q].members = Append(m, t)
        BY <1>3, <2>2, <3>5
      <4>2. /\ Len(Append(m, t)) = Len(m) + 1 /\ Append(m, t)[Len(m) + 1] = t
            /\ \A h \in 1 .. Len(m) : Append(m, t)[h] = m[h]
        BY <3>2, Appended
      <4>3. \A h \in 1 .. Len(m) : m[h] # t  BY <4>1 DEF HasMember
      <4>4. i = Len(m) + 1 \/ i \in 1 .. Len(m)  BY <3>2, <4>1, <4>2
      <4>5. CASE i \in 1 .. Len(m)
        <5>1. d[q].members[i] = m[i]  BY <4>1, <4>2, <4>5
        <5> QED BY <3>2, <3>3, <4>1, <4>2, <4>3, <4>5, <5>1
      <4>6. CASE i = Len(m) + 1
        <5>1. d[q].members[i] = t  BY <4>1, <4>2, <4>6
        <5>2. Append(q, t) = p  BY <4>1
        <5>3. ASSUME NEW j \in 1 .. Len(m) + 1, d[q].members[j] = t PROVE j = i
          <6>1. j = Len(m) + 1 \/ j \in 1 .. Len(m)  BY <3>2
          <6>2. CASE j \in 1 .. Len(m)
            <7>1. d[q].members[j] = m[j]  BY <4>1, <4>2, <6>2
            <7> QED BY <4>3, <5>3, <6>2, <7>1
          <6> QED BY <4>6, <6>1, <6>2
        <5>4. Append(q, d[q].members[i]) \in DOMAIN d  BY <1>3, <5>1, <5>2
        <5> QED BY <4>1, <4>2, <5>1, <5>3, <5>4
      <4> QED BY <4>4, <4>5, <4>6
    <3> QED BY <3>4, <3>5
  <2> QED BY <2>1, <2>2
<1> QED BY <1>6, <1>7 DEF IsTree

(* A new key disturbs the order of none of the paths there were. *)
LEMMA BeforeKept ==
  ASSUME IsDocument(document), IsTree(document), NEW L \in DOMAIN document,
         NEW t \in Token, NEW k \in Kinds, NEW p, p = Append(L, t), NEW d, d = Put(p, k),
         ~ HasMember(document, L, t),
         NEW q \in DOMAIN document, NEW r \in DOMAIN document, Before(document, q, r)
  PROVE  Before(d, q, r)
<1>1. PutAt(d, L, t, p, k)  BY PutBelow
<1>2. PICK n \in 1 .. Len(q) :
        /\ n <= Len(r) /\ SubSeq(q, 1, n - 1) = SubSeq(r, 1, n - 1)
        /\ \E i, j \in 1 .. Len(document[SubSeq(q, 1, n - 1)].members) :
             /\ i < j
             /\ document[SubSeq(q, 1, n - 1)].members[i] = q[n]
             /\ document[SubSeq(q, 1, n - 1)].members[j] = r[n]
  BY DEF Before
<1> DEFINE a == SubSeq(q, 1, n - 1)
           m == document[a].members
<1>3. a \in DOMAIN document  BY <1>2 DEF IsTree
<1>4. ~ IsPrefix(p, a)  BY <1>3, NothingBelow
<1>5. a \in DOMAIN d /\ a # p
  <2>1. IsPrefix(p, p)  BY DEF IsPrefix
  <2> QED BY <1>1, <1>3, <1>4, <2>1 DEF PutAt
<1>6. m \in Seq(Token)  BY <1>3 DEF IsDocument, Elements
<1>7. Len(m) \in Nat /\ Len(m) <= Len(d[a].members)
      /\ \A i \in 1 .. Len(m) : d[a].members[i] = m[i]
  <2>1. Len(m) \in Nat  BY <1>6, LenProperties
  <2>2. CASE d[a].members = m  BY <2>1, <2>2
  <2>3. CASE d[a].members # m
    <3>1. d[a].members = Append(m, t)  BY <1>1, <1>5, <2>3 DEF PutAt
    <3>2. /\ Len(Append(m, t)) = Len(m) + 1
          /\ \A i \in 1 .. Len(m) : Append(m, t)[i] = m[i]
      BY <1>6, Appended
    <3> QED BY <2>1, <3>1, <3>2
  <2> QED BY <2>2, <2>3
<1>8. PICK i \in 1 .. Len(m), j \in 1 .. Len(m) : i < j /\ m[i] = q[n] /\ m[j] = r[n]
  BY <1>2
<1>9. Len(d[a].members) \in Nat
  <2>1. d[a].members \in Seq(Token)  BY <1>1, <1>5 DEF PutAt, IsDocument, Elements
  <2> QED BY <2>1, LenProperties
<1>10. /\ i \in 1 .. Len(d[a].members) /\ j \in 1 .. Len(d[a].members)
       /\ d[a].members[i] = q[n] /\ d[a].members[j] = r[n]
  <2> HIDE DEF m, a
  <2> QED BY <1>7, <1>8, <1>9
<1> QED BY <1>2, <1>8, <1>10 DEF Before

(* The leaf read last comes after every other. *)
LEMMA LastIsAfter ==
  ASSUME NEW d, IsDocument(d), IsTree(d), NEW p \in DOMAIN d, IsLast(d, p),
         d[p].members = <<>>, NEW q \in DOMAIN d, q # p, d[q].members = <<>>
  PROVE  Before(d, q, p)
<1>1. p \in Seq(Token) /\ q \in Seq(Token) /\ Len(p) \in Nat /\ Len(q) \in Nat
  BY LenProperties DEF IsDocument
<1> DEFINE parts == {n \in 1 .. Len(p) : n > Len(q) \/ q[n] # p[n]}
<1>2. parts # {}
  <2> SUFFICES ASSUME parts = {} PROVE FALSE  OBVIOUS
  <2>1. \A n \in 1 .. Len(p) : n <= Len(q) /\ q[n] = p[n]  BY <1>1
  <2> HIDE DEF parts
  <2>2. Len(p) <= Len(q)
    <3>1. CASE Len(p) = 0  BY <1>1, <3>1
    <3>2. CASE Len(p) # 0
      <4>1. Len(p) \in 1 .. Len(p)  BY <1>1, <3>2
      <4> QED BY <2>1, <4>1
    <3> QED BY <3>1, <3>2
  <2>3. Len(p) # Len(q)
    <3> SUFFICES ASSUME Len(p) = Len(q) PROVE FALSE  OBVIOUS
    <3>1. p = q  BY <1>1, <2>1, SeqEqual
    <3> QED BY <3>1
  <2>4. SubSeq(q, 1, Len(p)) = p
    <3> DEFINE a == SubSeq(q, 1, Len(p))
    <3>1. Len(p) \in 0 .. Len(q)  BY <1>1, <2>2
    <3>2. a \in Seq(Token) /\ Len(a) = Len(p) /\ \A n \in 1 .. Len(p) : a[n] = q[n]
      BY <1>1, <3>1, PrefixOf
    <3> HIDE DEF a
    <3>3. \A n \in 1 .. Len(a) : a[n] = p[n]  BY <2>1, <3>2
    <3>4. a = p  BY <1>1, <3>2, <3>3, SeqEqual
    <3> QED BY <3>4 DEF a
  <2>5. Len(p) + 1 \in 1 .. Len(q) /\ (Len(p) + 1) - 1 = Len(p)  BY <1>1, <2>2, <2>3
  <2>6. HasMember(d, SubSeq(q, 1, (Len(p) + 1) - 1), q[Len(p) + 1])  BY <2>5 DEF IsTree
  <2>7. HasMember(d, p, q[Len(p) + 1])  BY <2>4, <2>5, <2>6
  <2>8. Len(d[p].members) = 0  BY EmptySeq
  <2> QED BY <2>7, <2>8 DEF HasMember
<1>3. parts \in SUBSET Nat /\ parts \subseteq 1 .. Len(p)  BY <1>1
<1>4. PICK n \in parts : \A j \in parts : n <= j
  <2> HIDE DEF parts
  <2> QED BY <1>2, <1>3, LeastNumber
<1>5. n \in 1 .. Len(p) /\ n - 1 \in 0 .. Len(p) /\ (n > Len(q) \/ q[n] # p[n])  BY <1>1, <1>4
<1>6. \A j \in 1 .. n - 1 : j <= Len(q) /\ q[j] = p[j]
  <2> SUFFICES ASSUME NEW j \in 1 .. n - 1 PROVE j <= Len(q) /\ q[j] = p[j]  OBVIOUS
  <2>1. j \in 1 .. Len(p) /\ ~ (n <= j)  BY <1>1, <1>5
  <2>2. j \notin parts
    <3> HIDE DEF parts
    <3> QED BY <1>4, <2>1
  <2> QED BY <1>1, <2>1, <2>2
<1> HIDE DEF parts
<1>7. n - 1 \in 0 .. Len(q)
  <2>1. CASE n = 1  BY <1>1, <2>1
  <2>2. CASE n # 1
    <3>1. n - 1 \in 1 .. n - 1  BY <1>5, <2>2
    <3> QED BY <1>1, <1>5, <1>6, <3>1
  <2> QED BY <2>1, <2>2
<1> DEFINE a == SubSeq(p, 1, n - 1)
           b == SubSeq(q, 1, n - 1)
           m == d[a].members
<1>8. a = b
  <2>1. a \in Seq(Token) /\ Len(a) = n - 1 /\ \A j \in 1 .. n - 1 : a[j] = p[j]
    BY <1>1, <1>5, PrefixOf
  <2>2. b \in Seq(Token) /\ Len(b) = n - 1 /\ \A j \in 1 .. n - 1 : b[j] = q[j]
    BY <1>1, <1>7, PrefixOf
  <2> HIDE DEF a, b
  <2>3. \A j \in 1 .. Len(a) : a[j] = b[j]  BY <1>6, <2>1, <2>2
  <2> QED BY <2>1, <2>2, <2>3, SeqEqual
<1>9. m # <<>> /\ Last(m) = p[n] /\ a \in DOMAIN d  BY <1>5 DEF IsLast, IsTree
<1>10. m \in Seq(Token) /\ Len(m) \in Nat \ {0} /\ m[Len(m)] = p[n]
  <2>1. m \in Seq(Token)  BY <1>9 DEF IsDocument, Elements
  <2> QED BY <1>9, <2>1, EmptySeq DEF Last
<1>11. n <= Len(q)
  <2> SUFFICES ASSUME ~ (n <= Len(q)) PROVE FALSE  OBVIOUS
  <2>1. n - 1 = Len(q)  BY <1>1, <1>5, <1>7
  <2>2. b = q  BY <1>1, <2>1, PrefixWhole
  <2> QED BY <1>8, <1>9, <2>2
<1>12. n \in 1 .. Len(q) /\ q[n] # p[n]  BY <1>1, <1>5, <1>11
<1>13. HasMember(d, b, q[n])  BY <1>12 DEF IsTree
<1>14. PICK i \in 1 .. Len(m) : m[i] = q[n]  BY <1>8, <1>13 DEF HasMember
<1>15. i < Len(m) /\ Len(m) \in 1 .. Len(m)
  <2> HIDE DEF m
  <2> QED BY <1>10, <1>12, <1>14
<1>16. /\ n <= Len(p) /\ d[b].members[i] = q[n] /\ d[b].members[Len(m)] = p[n]
       /\ i \in 1 .. Len(d[b].members) /\ Len(m) \in 1 .. Len(d[b].members)
  <2>1. d[b].members = m  BY <1>8
  <2> HIDE DEF m, b
  <2> QED BY <1>5, <1>10, <1>14, <1>15, <2>1
<1> QED BY <1>8, <1>12, <1>15, <1>16 DEF Before

LEMMA DigitsAreNat == ASSUME NEW n \in Nat PROVE DecimalDigits(n) \in Nat
<1>1. IsFiniteSet(1 .. n)  BY FS_Interval
<1>2. IsFiniteSet({d \in 1 .. n : Radix ^ d <= n})  BY <1>1, FS_Subset
<1>3. Cardinality({d \in 1 .. n : Radix ^ d <= n}) \in Nat  BY <1>2, FS_CardinalityType
<1> QED BY <1>3 DEF DecimalDigits

------------------------------------------------------------------------------
(* The text read so far.  The open containers are the path of the innermost    *)
(* one; the leaves include every leaf of the document, and as long as no key    *)
(* was repeated they are these and in their order.                             *)

TextTyped ==
  /\ open \in Seq(Seq(Token)) /\ leaves \in Seq(Seq(Token))
  /\ pending = <<>> \/ \E t \in Names : pending = <<t>>
Chain ==
  open # <<>> =>
    /\ Last(open) \in DOMAIN document
    /\ \A i \in 1 .. Len(open) :
         /\ open[i] = SubSeq(Last(open), 1, i - 1) /\ Len(open[i]) = i - 1
         /\ document[open[i]].kind = "array" =>
              \A j \in 1 .. Len(document[open[i]].members) :
                document[open[i]].members[j] = IndexToken(j - 1)
PendingKey == pending # <<>> => InObject

LeafPaths == {p \in DOMAIN document :
                document[p].members = <<>> /\ (open # <<>> => p # Last(open))}
LeavesCounted == LeafPaths \subseteq Range(leaves)
LeavesInOrder ==
  /\ open # <<>> => IsLast(document, Last(open))
  /\ pending # <<>> => ~ HasMember(document, Last(open), Last(pending))
  /\ Range(leaves) \subseteq LeafPaths
  /\ \A a, b \in 1 .. Len(leaves) : a < b => Before(document, leaves[a], leaves[b])

TextInv ==
  /\ IsDocument(document) /\ IsTree(document)
  /\ TextTyped /\ Chain /\ PendingKey /\ LeavesCounted
  /\ ~ repeated => LeavesInOrder

LEMMA IndexTokens ==
  ASSUME NEW i \in Nat
  PROVE  IndexToken(i) \in Token /\ IndexToken(i).key = i
                                 /\ TokenBytes(IndexToken(i)) = 1 + DecimalDigits(i)
<1>1. DecimalDigits(i) \in Nat  BY DigitsAreNat
<1> QED BY <1>1 DEF IndexToken, Token, TokenBytes

(* The innermost open container. *)
LEMMA Innermost ==
  ASSUME TextInv, open # <<>>
  PROVE  /\ Len(open) \in Nat \ {0} /\ Last(open) = open[Len(open)]
         /\ Last(open) \in DOMAIN document /\ Last(open) \in Seq(Token)
         /\ Len(Last(open)) = Len(open) - 1
         /\ document[Last(open)] \in Elements
         /\ document[Last(open)].members \in Seq(Token)
         /\ \A i \in 1 .. Len(open) : open[i] \in DOMAIN document
<1>1. open \in Seq(Seq(Token))  BY DEF TextInv, TextTyped
<1>2. Len(open) \in Nat \ {0} /\ Last(open) = open[Len(open)]  BY <1>1, Shortened
<1>3. Len(open) \in 1 .. Len(open)  BY <1>2
<1>4. Last(open) \in DOMAIN document /\ Len(Last(open)) = Len(open) - 1
  BY <1>2, <1>3 DEF TextInv, Chain
<1>5. Last(open) \in Seq(Token) /\ document[Last(open)] \in Elements
  BY <1>4 DEF TextInv, IsDocument
<1>6. \A i \in 1 .. Len(open) : open[i] \in DOMAIN document
  <2> SUFFICES ASSUME NEW i \in 1 .. Len(open) PROVE open[i] \in DOMAIN document  OBVIOUS
  <2>1. open[i] = SubSeq(Last(open), 1, i - 1)  BY DEF TextInv, Chain
  <2>2. CASE i = Len(open)  BY <1>2, <1>4, <2>2
  <2>3. CASE i # Len(open)
    <3>1. i \in 1 .. Len(Last(open))  BY <1>2, <1>4, <2>3
    <3> QED BY <1>4, <2>1, <3>1 DEF TextInv, IsTree
  <2> QED BY <2>2, <2>3
<1> QED BY <1>2, <1>4, <1>5, <1>6 DEF Elements

(* Where a value goes, and the token that is new there. *)
LEMMA ChildBelow ==
  ASSUME TextInv, AtValue, open # <<>>
  PROVE  \E t \in Token :
           /\ ChildPath = Append(Last(open), t)
           /\ InArray => /\ t = IndexToken(Len(document[Last(open)].members))
                         /\ ~ HasMember(document, Last(open), t)
           /\ ~ InArray => pending = <<t>> /\ InObject
           /\ ~ repeated => ~ HasMember(document, Last(open), t)
<1> DEFINE m == document[Last(open)].members
<1>1. m \in Seq(Token) /\ Len(m) \in Nat
  <2>1. m \in Seq(Token)  BY Innermost
  <2> QED BY <2>1, LenProperties
<1>2. CASE InArray
  <2> DEFINE t == IndexToken(Len(m))
  <2>1. t \in Token /\ t.key = Len(m)  BY <1>1, IndexTokens
  <2>2. ASSUME NEW j \in 1 .. Len(m) PROVE m[j] # t
    <3>1. Len(open) \in 1 .. Len(open) /\ Last(open) = open[Len(open)]
      BY Innermost
    <3>2. m[j] = IndexToken(j - 1)  BY <1>2, <3>1 DEF TextInv, Chain, InArray
    <3>3. j - 1 \in Nat /\ j - 1 # Len(m)  BY <1>1
    <3>4. m[j].key = j - 1  BY <3>2, <3>3, IndexTokens
    <3> HIDE DEF t, m
    <3> QED BY <2>1, <3>3, <3>4
  <2>3. ~ HasMember(document, Last(open), t)  BY <2>2 DEF HasMember
  <2>4. ChildPath = Append(Last(open), t)  BY <1>2 DEF ChildPath
  <2> HIDE DEF t
  <2>5. t = IndexToken(Len(m))  BY DEF t
  <2> QED BY <1>2, <2>1, <2>3, <2>4, <2>5
<1>3. CASE ~ InArray
  <2>1. pending # <<>> /\ InObject  BY <1>3 DEF AtValue, TextInv, PendingKey
  <2>2. PICK t \in Names : pending = <<t>>  BY <2>1 DEF TextInv, TextTyped
  <2>3. t \in Token  BY FlattenAssumption
  <2>4. Last(pending) = t  BY <2>2 DEF Last
  <2>5. ChildPath = Append(Last(open), t)  BY <1>3, <2>4 DEF ChildPath
  <2>6. ~ repeated => ~ HasMember(document, Last(open), t)
    BY <2>1, <2>4 DEF TextInv, LeavesInOrder
  <2> QED BY <1>3, <2>1, <2>2, <2>3, <2>5, <2>6
<1> QED BY <1>2, <1>3

(* What reading a value of kind k makes of the document, inside a container.   *)
ReadBelow(d, k) ==
  /\ ChildPath \in Seq(Token) /\ ChildPath \in DOMAIN d
  /\ d[ChildPath] = [kind |-> k, members |-> <<>>]
  /\ Len(ChildPath) = Len(open)
  /\ \A i \in 1 .. Len(open) : SubSeq(ChildPath, 1, i - 1) = open[i]
  /\ IsDocument(d) /\ IsTree(d)
  /\ Last(open) \in DOMAIN d /\ d[Last(open)].members # <<>>
  /\ InArray => Len(d[Last(open)].members) = Len(document[Last(open)].members) + 1
  /\ \A i \in 1 .. Len(open) :
       /\ open[i] \in DOMAIN d /\ d[open[i]].kind = document[open[i]].kind
       /\ i # Len(open) => d[open[i]] = document[open[i]]
       /\ d[open[i]].kind = "array" =>
            \A j \in 1 .. Len(d[open[i]].members) : d[open[i]].members[j] = IndexToken(j - 1)
  /\ \A q \in DOMAIN d : q # ChildPath /\ d[q].members = <<>> => q \in LeafPaths
  /\ ~ repeated => /\ IsLast(d, Last(open)) /\ IsLast(d, ChildPath)
                   /\ \A q \in LeafPaths : q \in DOMAIN d /\ q # ChildPath /\ d[q] = document[q]
                   /\ \A q, r \in LeafPaths : Before(document, q, r) => Before(d, q, r)

LEMMA ValueBelow ==
  ASSUME TextInv, AtValue, open # <<>>, NEW k \in Kinds, NEW d, d = Put(ChildPath, k)
  PROVE  ReadBelow(d, k)
<1> DEFINE L == Last(open)
           m == document[L].members
<1>1. PICK t \in Token :
        /\ ChildPath = Append(L, t)
        /\ InArray => t = IndexToken(Len(m)) /\ ~ HasMember(document, L, t)
        /\ ~ repeated => ~ HasMember(document, L, t)
  BY ChildBelow
<1>2. PICK p : p = ChildPath  OBVIOUS
<1>3. /\ Len(open) \in Nat \ {0} /\ L = open[Len(open)] /\ L \in DOMAIN document
      /\ L \in Seq(Token) /\ Len(L) = Len(open) - 1 /\ m \in Seq(Token)
      /\ \A i \in 1 .. Len(open) : open[i] \in DOMAIN document
  BY Innermost
<1>4. /\ p \in Seq(Token) /\ Len(p) = Len(open) /\ p[Len(open)] = t
      /\ \A i \in 1 .. Len(L) : p[i] = L[i]
      /\ \A n \in 0 .. Len(L) : SubSeq(p, 1, n) = SubSeq(L, 1, n)
  BY <1>1, <1>2, <1>3, Appended
<1>5. /\ IsDocument(document) /\ IsTree(document)
      /\ \A i \in 1 .. Len(open) :
           /\ open[i] = SubSeq(L, 1, i - 1) /\ Len(open[i]) = i - 1
           /\ document[open[i]].kind = "array" =>
                \A j \in 1 .. Len(document[open[i]].members) :
                  document[open[i]].members[j] = IndexToken(j - 1)
  BY DEF TextInv, Chain
<1>6. PutAt(d, L, t, p, k)  BY <1>1, <1>2, <1>3, <1>5, PutBelow
<1>7. IsTree(d)  BY <1>1, <1>2, <1>3, <1>5, PutKeepsTree
<1>8. \A i \in 1 .. Len(open) : SubSeq(p, 1, i - 1) = open[i]
  <2> SUFFICES ASSUME NEW i \in 1 .. Len(open) PROVE SubSeq(p, 1, i - 1) = open[i]  OBVIOUS
  <2>1. i - 1 \in 0 .. Len(L)  BY <1>3
  <2> QED BY <1>4, <1>5, <2>1
<1>9. /\ HasMember(document, L, t) => d[L].members = m
      /\ ~ HasMember(document, L, t) =>
           /\ d[L].members = Append(m, t) /\ Last(d[L].members) = t
           /\ Len(m) \in Nat /\ Len(d[L].members) = Len(m) + 1
           /\ d[L].members[Len(m) + 1] = t /\ \A j \in 1 .. Len(m) : d[L].members[j] = m[j]
      /\ d[L].members # <<>>
  <2>1. CASE HasMember(document, L, t)
    <3>1. d[L].members = m  BY <1>6, <2>1 DEF PutAt
    <3>2. m # <<>>
      <4>1. Len(<<>>) = 0  BY EmptySeq
      <4> QED BY <2>1, <4>1 DEF HasMember
    <3> QED BY <2>1, <3>1, <3>2
  <2>2. CASE ~ HasMember(document, L, t)
    <3>1. d[L].members = Append(m, t)  BY <1>6, <2>2 DEF PutAt
    <3> HIDE DEF m
    <3> QED BY <1>3, <2>2, <3>1, Appended
  <2> QED BY <2>1, <2>2
<1>10. \A i \in 1 .. Len(open) : open[i] \in DOMAIN d /\ open[i] # p
  <2> SUFFICES ASSUME NEW i \in 1 .. Len(open) PROVE open[i] \in DOMAIN d /\ open[i] # p  OBVIOUS
  <2>1. ~ (Len(p) <= Len(open[i]))  BY <1>3, <1>4, <1>5
  <2>2. ~ IsPrefix(p, open[i]) /\ open[i] # p  BY <1>3, <1>4, <2>1 DEF IsPrefix
  <2> QED BY <1>3, <1>6, <2>2 DEF PutAt
<1>11. \A i \in 1 .. Len(open) : i # Len(open) => open[i] # L /\ d[open[i]] = document[open[i]]
  <2> SUFFICES ASSUME NEW i \in 1 .. Len(open), i # Len(open)
               PROVE  open[i] # L /\ d[open[i]] = document[open[i]]
    OBVIOUS
  <2>1. Len(open[i]) # Len(L)  BY <1>3, <1>5
  <2>2. open[i] # L  BY <2>1
  <2> QED BY <1>6, <1>10, <2>2 DEF PutAt
<1>12. ASSUME NEW i \in 1 .. Len(open)
       PROVE  /\ open[i] \in DOMAIN d /\ d[open[i]].kind = document[open[i]].kind
              /\ i # Len(open) => d[open[i]] = document[open[i]]
              /\ d[open[i]].kind = "array" =>
                   \A j \in 1 .. Len(d[open[i]].members) :
                     d[open[i]].members[j] = IndexToken(j - 1)
  <2>1. open[i] \in DOMAIN d /\ d[open[i]].kind = document[open[i]].kind
    BY <1>6, <1>10 DEF PutAt
  <2>2. CASE i # Len(open)  BY <1>5, <1>11, <2>1, <2>2
  <2>3. CASE i = Len(open)
    <3>1. open[i] = L  BY <1>3, <2>3
    <3> SUFFICES ASSUME d[L].kind = "array", NEW j \in 1 .. Len(d[L].members)
                 PROVE  d[L].members[j] = IndexToken(j - 1)
      BY <2>1, <2>3, <3>1
    <3>2. InArray  BY <2>1, <3>1 DEF InArray
    <3>3. \A h \in 1 .. Len(m) : m[h] = IndexToken(h - 1)  BY <1>5, <2>1, <3>1
    <3>4. /\ d[L].members[Len(m) + 1] = IndexToken(Len(m)) /\ Len(m) \in Nat
          /\ Len(d[L].members) = Len(m) + 1 /\ \A h \in 1 .. Len(m) : d[L].members[h] = m[h]
      BY <1>1, <1>9, <3>2
    <3>5. j = Len(m) + 1 \/ j \in 1 .. Len(m)  BY <3>4
    <3>6. CASE j = Len(m) + 1
      <4>1. j - 1 = Len(m)  BY <3>4, <3>6
      <4> QED BY <3>4, <3>6, <4>1
    <3>7. CASE j \in 1 .. Len(m)  BY <3>3, <3>4, <3>7
    <3> QED BY <3>5, <3>6, <3>7
  <2> QED BY <2>2, <2>3
<1>13. ASSUME NEW q \in DOMAIN d, q # p, d[q].members = <<>> PROVE q \in LeafPaths
  <2>1. q \in DOMAIN document /\ q # L  BY <1>6, <1>9, <1>13 DEF PutAt
  <2>2. d[q] = document[q]  BY <1>6, <1>13, <2>1 DEF PutAt
  <2> QED BY <1>13, <2>1, <2>2 DEF LeafPaths
<1>14. InArray => Len(d[L].members) = Len(m) + 1  BY <1>1, <1>9
<1>15. ASSUME ~ repeated
       PROVE  /\ IsLast(d, L) /\ IsLast(d, p)
              /\ \A q \in LeafPaths : q \in DOMAIN d /\ q # p /\ d[q] = document[q]
              /\ \A q, r \in LeafPaths : Before(document, q, r) => Before(d, q, r)
  <2>1. ~ HasMember(document, L, t)  BY <1>1, <1>15
  <2>2. IsLast(document, L)  BY <1>15 DEF TextInv, LeavesInOrder
  <2>3. ASSUME NEW n \in 1 .. Len(L)
        PROVE  /\ d[SubSeq(L, 1, n - 1)].members # <<>>
               /\ Last(d[SubSeq(L, 1, n - 1)].members) = L[n]
    <3>1. n \in 1 .. Len(open) /\ n # Len(open)  BY <1>3
    <3>2. d[SubSeq(L, 1, n - 1)] = document[SubSeq(L, 1, n - 1)]  BY <1>5, <1>11, <3>1
    <3> QED BY <2>2, <3>2 DEF IsLast
  <2>4. IsLast(d, L)  BY <2>3 DEF IsLast
  <2>5. IsLast(d, p)
    <3> SUFFICES ASSUME NEW n \in 1 .. Len(p)
                 PROVE  /\ d[SubSeq(p, 1, n - 1)].members # <<>>
                        /\ Last(d[SubSeq(p, 1, n - 1)].members) = p[n]
      BY DEF IsLast
    <3>1. n \in 1 .. Len(open)  BY <1>4
    <3>2. CASE n = Len(open)
      <4>1. SubSeq(p, 1, n - 1) = L  BY <1>3, <1>8, <3>1, <3>2
      <4> QED BY <1>4, <1>9, <2>1, <3>2, <4>1
    <3>3. CASE n # Len(open)
      <4>1. n \in 1 .. Len(L) /\ n - 1 \in 0 .. Len(L)  BY <1>3, <3>1, <3>3
      <4>2. SubSeq(p, 1, n - 1) = SubSeq(L, 1, n - 1) /\ p[n] = L[n]  BY <1>4, <4>1
      <4> QED BY <2>3, <4>1, <4>2
    <3> QED BY <3>2, <3>3
  <2>6. ASSUME NEW q \in LeafPaths PROVE q \in DOMAIN d /\ q # p /\ d[q] = document[q]
    <3>1. q \in DOMAIN document /\ q # L  BY DEF LeafPaths
    <3>2. ~ IsPrefix(p, q)  BY <1>1, <1>2, <1>3, <1>5, <2>1, <3>1, NothingBelow
    <3>3. IsPrefix(p, p)  BY <1>4 DEF IsPrefix
    <3>4. q # p /\ q \in DOMAIN d  BY <1>6, <3>1, <3>2, <3>3 DEF PutAt
    <3> QED BY <1>6, <3>1, <3>4 DEF PutAt
  <2>7. ASSUME NEW q \in LeafPaths, NEW r \in LeafPaths, Before(document, q, r)
        PROVE  Before(d, q, r)
    <3>1. q \in DOMAIN document /\ r \in DOMAIN document  BY DEF LeafPaths
    <3> QED BY <1>1, <1>2, <1>3, <1>5, <2>1, <2>7, <3>1, BeforeKept
  <2> QED BY <2>4, <2>5, <2>6, <2>7
<1>16. /\ p \in DOMAIN d /\ d[p] = [kind |-> k, members |-> <<>>] /\ IsDocument(d)
       /\ L \in DOMAIN d
  BY <1>6 DEF PutAt
<1> HIDE DEF L, m
<1> QED BY <1>2, <1>4, <1>7, <1>8, <1>9, <1>12, <1>13, <1>14, <1>15, <1>16
        DEF ReadBelow, L, m

------------------------------------------------------------------------------
(* Every event of the parser keeps TextInv.                                   *)

(* A path appended to the leaves. *)
LEMMA OneMoreLeaf ==
  ASSUME leaves \in Seq(Seq(Token)), NEW p \in Seq(Token), leaves' = Append(leaves, p)
  PROVE  /\ leaves' \in Seq(Seq(Token)) /\ Len(leaves') = Len(leaves) + 1
         /\ Len(leaves) \in Nat /\ leaves'[Len(leaves) + 1] = p
         /\ \A i \in 1 .. Len(leaves) : leaves'[i] = leaves[i]
         /\ \A q : q \in Range(leaves') <=> q = p \/ q \in Range(leaves)
<1>1. /\ leaves' \in Seq(Seq(Token)) /\ Len(leaves') = Len(leaves) + 1
      /\ Len(leaves) \in Nat /\ leaves'[Len(leaves) + 1] = p
      /\ \A i \in 1 .. Len(leaves) : leaves'[i] = leaves[i]
  BY Appended
<1>2. DOMAIN leaves = 1 .. Len(leaves) /\ DOMAIN leaves' = 1 .. Len(leaves) + 1
  BY <1>1, LenProperties
<1>3. \A q : q \in Range(leaves') <=> q = p \/ q \in Range(leaves)
  <2> SUFFICES ASSUME NEW q PROVE q \in Range(leaves') <=> q = p \/ q \in Range(leaves)
    OBVIOUS
  <2>1. ASSUME q \in Range(leaves') PROVE q = p \/ q \in Range(leaves)
    <3>1. PICK i \in 1 .. Len(leaves) + 1 : q = leaves'[i]  BY <1>2, <2>1 DEF Range
    <3>2. CASE i = Len(leaves) + 1  BY <1>1, <3>1, <3>2
    <3>3. CASE i \in 1 .. Len(leaves)  BY <1>1, <1>2, <3>1, <3>3 DEF Range
    <3> QED BY <1>1, <3>1, <3>2, <3>3
  <2>2. ASSUME q \in Range(leaves) PROVE q \in Range(leaves')
    <3>1. PICK i \in 1 .. Len(leaves) : q = leaves[i]  BY <1>2, <2>2 DEF Range
    <3>2. i \in 1 .. Len(leaves) + 1 /\ leaves'[i] = q  BY <1>1, <3>1
    <3> QED BY <1>2, <3>2 DEF Range
  <2>3. p \in Range(leaves')
    <3>1. Len(leaves) + 1 \in 1 .. Len(leaves) + 1  BY <1>1
    <3> QED BY <1>1, <1>2, <3>1 DEF Range
  <2> QED BY <2>1, <2>2, <2>3
<1> QED BY <1>1, <1>3

(* The order of the leaves when p is one more. *)
LEMMA OrderOfOneMore ==
  ASSUME leaves \in Seq(Seq(Token)), NEW p \in Seq(Token), leaves' = Append(leaves, p),
         \A a, b \in 1 .. Len(leaves) : a < b => Before(document', leaves[a], leaves[b]),
         \A q \in Range(leaves) : Before(document', q, p)
  PROVE  \A a, b \in 1 .. Len(leaves') : a < b => Before(document', leaves'[a], leaves'[b])
<1>1. /\ Len(leaves') = Len(leaves) + 1 /\ Len(leaves) \in Nat
      /\ leaves'[Len(leaves) + 1] = p
      /\ \A i \in 1 .. Len(leaves) : leaves'[i] = leaves[i]
  BY OneMoreLeaf
<1>2. \A i \in 1 .. Len(leaves) : leaves[i] \in Range(leaves)  BY LenProperties DEF Range
<1> SUFFICES ASSUME NEW a \in 1 .. Len(leaves'), NEW b \in 1 .. Len(leaves'), a < b
             PROVE  Before(document', leaves'[a], leaves'[b])
  OBVIOUS
<1>3. a \in 1 .. Len(leaves) /\ leaves'[a] = leaves[a]  BY <1>1
<1>4. CASE b \in 1 .. Len(leaves)  BY <1>1, <1>3, <1>4
<1>5. CASE b = Len(leaves) + 1
  <2>1. leaves'[b] = p  BY <1>1, <1>5
  <2>2. leaves[a] \in Range(leaves)  BY <1>2, <1>3
  <2>3. Before(document', leaves[a], p)  BY <2>2
  <2> QED BY <1>3, <2>1, <2>3
<1>6. b \in 1 .. Len(leaves) \/ b = Len(leaves) + 1  BY <1>1
<1> QED BY <1>4, <1>5, <1>6

LEMMA RootText ==
  ASSUME TextInv, open = <<>>
  PROVE  pending = <<>> /\ (AtValue => DOMAIN document = {} /\ ChildPath = <<>>)
BY DEF TextInv, PendingKey, InObject, AtValue, ChildPath

LEMMA LeafText ==
  ASSUME TextInv, AtValue, NEW k \in Scalars, document' = Put(ChildPath, k),
         pending' = <<>>, leaves' = Append(leaves, ChildPath), UNCHANGED <<open, repeated>>
  PROVE  TextInv'
<1>1. k \in Kinds  BY DEF Kinds
<1>2. open \in Seq(Seq(Token)) /\ leaves \in Seq(Seq(Token))  BY DEF TextInv, TextTyped
<1>3. CASE open = <<>>
  <2>1. DOMAIN document = {} /\ ChildPath = <<>>  BY <1>3, RootText
  <2>2. /\ DOMAIN document' = {<<>>} /\ document'[<<>>].members = <<>>
        /\ IsDocument(document') /\ IsTree(document') /\ <<>> \in Seq(Token)
    <3>1. PICK d : d = document'  OBVIOUS
    <3>2. d = Put(<<>>, k)  BY <2>1, <3>1
    <3>3. /\ DOMAIN d = {<<>>} /\ d[<<>>] = [kind |-> k, members |-> <<>>]
          /\ IsDocument(d) /\ IsTree(d)
      BY <1>1, <2>1, <3>2, PutRoot
    <3>4. <<>> \in Seq(Token)  BY EmptySeq
    <3>5. d[<<>>].members = <<>>  BY <3>3
    <3> QED BY <3>1, <3>3, <3>4, <3>5
  <2>3. /\ leaves' \in Seq(Seq(Token))
        /\ \A q : q \in Range(leaves') <=> q = <<>> \/ q \in Range(leaves)
    BY <1>2, <2>1, <2>2, OneMoreLeaf
  <2>4. \A q : q \in LeafPaths' <=> q = <<>>
    BY <1>3, <2>2 DEF LeafPaths
  <2>5. LeavesCounted'  BY <2>3, <2>4 DEF LeavesCounted
  <2>6. ASSUME ~ repeated' PROVE LeavesInOrder'
    <3>1. Range(leaves) = {} /\ \A a, b \in 1 .. Len(leaves) :
                                  a < b => Before(document, leaves[a], leaves[b])
      BY <2>1, <2>6 DEF TextInv, LeavesInOrder, LeafPaths
    <3>2. \A a \in 1 .. Len(leaves) : FALSE
      <4>1. DOMAIN leaves = 1 .. Len(leaves)  BY <1>2, LenProperties
      <4>2. \A a \in DOMAIN leaves : leaves[a] \in Range(leaves)  BY DEF Range
      <4> QED BY <3>1, <4>1, <4>2
    <3>3. \A a, b \in 1 .. Len(leaves') : a < b => Before(document', leaves'[a], leaves'[b])
      BY <1>2, <2>1, <2>2, <3>1, <3>2, OrderOfOneMore
    <3>4. Range(leaves') \subseteq LeafPaths'  BY <2>3, <2>4, <3>1
    <3> QED BY <1>3, <3>3, <3>4 DEF LeavesInOrder
  <2> QED BY <1>2, <1>3, <2>2, <2>3, <2>5, <2>6
          DEF TextInv, TextTyped, Chain, PendingKey
<1>4. CASE open # <<>>
  <2>1. ReadBelow(document', k)  BY <1>1, <1>4, ValueBelow
  <2>2. /\ ChildPath \in Seq(Token) /\ Len(ChildPath) = Len(open)
        /\ Len(open) \in Nat \ {0} /\ Len(Last(open)) = Len(open) - 1
    BY <1>4, <2>1, Innermost DEF ReadBelow
  <2>3. ChildPath # Last(open)  BY <2>2
  <2>4. /\ leaves' \in Seq(Seq(Token))
        /\ \A q : q \in Range(leaves') <=> q = ChildPath \/ q \in Range(leaves)
    BY <1>2, <2>2, OneMoreLeaf
  <2>5. Chain'
    <3>1. \A i \in 1 .. Len(open) : open[i] = SubSeq(Last(open), 1, i - 1)
                                    /\ Len(open[i]) = i - 1
      BY <1>4 DEF TextInv, Chain
    <3> QED BY <1>4, <2>1, <3>1 DEF Chain, ReadBelow
  <2>6. \A q \in LeafPaths' : q = ChildPath \/ q \in LeafPaths
    BY <2>1 DEF LeafPaths, ReadBelow
  <2>7. LeavesCounted'  BY <2>4, <2>6 DEF LeavesCounted, TextInv
  <2>8. ASSUME ~ repeated' PROVE LeavesInOrder'
    <3>1. /\ Range(leaves) \subseteq LeafPaths
          /\ \A a, b \in 1 .. Len(leaves) : a < b => Before(document, leaves[a], leaves[b])
      BY <2>8 DEF TextInv, LeavesInOrder
    <3>2. /\ IsLast(document', Last(open)) /\ IsLast(document', ChildPath)
          /\ \A q \in LeafPaths : /\ q \in DOMAIN document' /\ q # ChildPath
                                  /\ document'[q] = document[q]
          /\ \A q, r \in LeafPaths : Before(document, q, r) => Before(document', q, r)
          /\ ChildPath \in DOMAIN document' /\ document'[ChildPath].members = <<>>
          /\ IsDocument(document') /\ IsTree(document')
      BY <2>1, <2>8 DEF ReadBelow
    <3>3. \A q \in LeafPaths : q \in LeafPaths' /\ document'[q].members = <<>>
      BY <3>2 DEF LeafPaths
    <3>4. ChildPath \in LeafPaths'  BY <2>3, <3>2 DEF LeafPaths
    <3>5. Range(leaves') \subseteq LeafPaths'  BY <2>4, <3>1, <3>3, <3>4
    <3>6. \A q \in Range(leaves) : Before(document', q, ChildPath)
      <4> SUFFICES ASSUME NEW q \in Range(leaves) PROVE Before(document', q, ChildPath)
        OBVIOUS
      <4>1. q \in DOMAIN document' /\ q # ChildPath /\ document'[q].members = <<>>
        BY <3>1, <3>2, <3>3
      <4> QED BY <3>2, <4>1, LastIsAfter
    <3>7. \A i \in 1 .. Len(leaves) : leaves[i] \in LeafPaths
      BY <1>2, <3>1, LenProperties DEF Range
    <3>8. \A a, b \in 1 .. Len(leaves) : a < b => Before(document', leaves[a], leaves[b])
      BY <3>1, <3>2, <3>7
    <3>9. \A a, b \in 1 .. Len(leaves') : a < b => Before(document', leaves'[a], leaves'[b])
      BY <1>2, <2>2, <3>6, <3>8, OrderOfOneMore
    <3> QED BY <3>2, <3>5, <3>9 DEF LeavesInOrder
  <2> QED BY <1>2, <2>1, <2>4, <2>5, <2>7, <2>8
          DEF TextInv, TextTyped, PendingKey, ReadBelow
<1> QED BY <1>3, <1>4

LEMMA OpenText ==
  ASSUME TextInv, AtValue, NEW k \in {"object", "array"}, document' = Put(ChildPath, k),
         pending' = <<>>, open' = Append(open, ChildPath), UNCHANGED <<leaves, repeated>>
  PROVE  TextInv'
<1>1. k \in Kinds  BY DEF Kinds
<1>2. open \in Seq(Seq(Token)) /\ leaves \in Seq(Seq(Token))  BY DEF TextInv, TextTyped
<1>3. \A i \in 1 .. Len(leaves) : leaves[i] \in Range(leaves)
  BY <1>2, LenProperties DEF Range
<1>4. CASE open = <<>>
  <2>1. DOMAIN document = {} /\ ChildPath = <<>>  BY <1>4, RootText
  <2>2. /\ DOMAIN document' = {<<>>} /\ document'[<<>>].members = <<>>
        /\ IsDocument(document') /\ IsTree(document') /\ IsLast(document', <<>>)
        /\ <<>> \in Seq(Token) /\ Len(<<>>) = 0
    <3>1. PICK d : d = document'  OBVIOUS
    <3>2. d = Put(<<>>, k)  BY <2>1, <3>1
    <3>3. /\ DOMAIN d = {<<>>} /\ d[<<>>] = [kind |-> k, members |-> <<>>]
          /\ IsDocument(d) /\ IsTree(d) /\ IsLast(d, <<>>)
      BY <1>1, <2>1, <3>2, PutRoot
    <3>4. <<>> \in Seq(Token) /\ Len(<<>>) = 0  BY EmptySeq
    <3>5. d[<<>>].members = <<>>  BY <3>3
    <3> QED BY <3>1, <3>3, <3>4, <3>5
  <2>3. /\ open' \in Seq(Seq(Token)) /\ Len(open') = 1 /\ open'[1] = <<>>
        /\ Last(open') = <<>> /\ open' # <<>>
    <3>1. open' = Append(open, <<>>) /\ Len(open) = 0  BY <1>4, <2>1, EmptySeq
    <3>2. /\ Append(open, <<>>) \in Seq(Seq(Token)) /\ Append(open, <<>>) # <<>>
          /\ Len(Append(open, <<>>)) = Len(open) + 1
          /\ Append(open, <<>>)[Len(open) + 1] = <<>> /\ Last(Append(open, <<>>)) = <<>>
      <4>1. <<>> \in Seq(Token)  BY <2>2
      <4>2. PICK p \in Seq(Token) : p = <<>>  BY <4>1
      <4>3. /\ Append(open, p) \in Seq(Seq(Token)) /\ Append(open, p) # <<>>
            /\ Len(Append(open, p)) = Len(open) + 1
            /\ Append(open, p)[Len(open) + 1] = p /\ Last(Append(open, p)) = p
        BY <1>2, Appended
      <4> QED BY <4>2, <4>3
    <3> QED BY <3>1, <3>2
  <2>4. \A i \in 1 .. Len(open') : i = 1  BY <2>3
  <2>5. SubSeq(<<>>, 1, 1 - 1) = <<>>  BY SubSeqEmpty
  <2>6. Chain'
    <3>1. \A j \in 1 .. Len(document'[open'[1]].members) : FALSE  BY <2>2, <2>3
    <3> QED BY <2>2, <2>3, <2>4, <2>5, <3>1 DEF Chain
  <2>7. LeafPaths' = {}  BY <2>2, <2>3 DEF LeafPaths
  <2>8. ASSUME ~ repeated' PROVE LeavesInOrder'
    <3>1. Range(leaves) = {}  BY <2>1, <2>8 DEF TextInv, LeavesInOrder, LeafPaths
    <3>2. \A a \in 1 .. Len(leaves) : FALSE  BY <1>3, <3>1
    <3> QED BY <2>2, <2>3, <3>1, <3>2 DEF LeavesInOrder
  <2> QED BY <1>2, <2>2, <2>3, <2>6, <2>7, <2>8
          DEF TextInv, TextTyped, PendingKey, LeavesCounted
<1>5. CASE open # <<>>
  <2>1. ReadBelow(document', k)  BY <1>1, <1>5, ValueBelow
  <2>2. /\ ChildPath \in Seq(Token) /\ Len(ChildPath) = Len(open)
        /\ Len(open) \in Nat \ {0} /\ Len(Last(open)) = Len(open) - 1
    BY <1>5, <2>1, Innermost DEF ReadBelow
  <2>3. /\ open' \in Seq(Seq(Token)) /\ Len(open') = Len(open) + 1 /\ open' # <<>>
        /\ open'[Len(open) + 1] = ChildPath /\ Last(open') = ChildPath
        /\ \A i \in 1 .. Len(open) : open'[i] = open[i]
    <3>1. PICK p \in Seq(Token) : p = ChildPath  BY <2>2
    <3>2. open' = Append(open, p)  BY <3>1
    <3>3. /\ Append(open, p) \in Seq(Seq(Token)) /\ Append(open, p) # <<>>
          /\ Len(Append(open, p)) = Len(open) + 1
          /\ \A i \in 1 .. Len(open) : Append(open, p)[i] = open[i]
          /\ Append(open, p)[Len(open) + 1] = p /\ Last(Append(open, p)) = p
      <4>1. open \in Seq(Seq(Token)) /\ p \in Seq(Token)  BY <1>2, <3>1
      <4> QED BY ONLY <4>1, Appended
    <3> QED BY <3>1, <3>2, <3>3
  <2>4. Chain'
    <3>1. SubSeq(ChildPath, 1, (Len(open) + 1) - 1) = ChildPath  BY <2>2, PrefixWhole
    <3>2. ASSUME NEW i \in 1 .. Len(open')
          PROVE  /\ open'[i] = SubSeq(Last(open'), 1, i - 1) /\ Len(open'[i]) = i - 1
                 /\ document'[open'[i]].kind = "array" =>
                      \A j \in 1 .. Len(document'[open'[i]].members) :
                        document'[open'[i]].members[j] = IndexToken(j - 1)
      <4>1. CASE i = Len(open) + 1
        <5>1. Len(document'[open'[i]].members) = 0
          BY <2>1, <2>3, <4>1, EmptySeq DEF ReadBelow
        <5>2. (Len(open) + 1) - 1 = Len(open)  BY <2>2
        <5>3. /\ open'[i] = SubSeq(ChildPath, 1, i - 1) /\ Len(open'[i]) = i - 1
              /\ Last(open') = ChildPath
          BY <2>2, <2>3, <3>1, <4>1, <5>2
        <5> QED BY <5>1, <5>3
      <4>2. CASE i \in 1 .. Len(open)
        <5>1. open[i] = SubSeq(ChildPath, 1, i - 1)  BY <2>1, <4>2 DEF ReadBelow
        <5>2. Len(open[i]) = i - 1  BY <1>5, <4>2 DEF TextInv, Chain
        <5>3. open'[i] = open[i] /\ Last(open') = ChildPath  BY <2>3, <4>2
        <5>4. document'[open[i]].kind = "array" =>
                \A j \in 1 .. Len(document'[open[i]].members) :
                  document'[open[i]].members[j] = IndexToken(j - 1)
          BY <2>1, <4>2 DEF ReadBelow
        <5> QED BY <5>1, <5>2, <5>3, <5>4
      <4>3. i = Len(open) + 1 \/ i \in 1 .. Len(open)  BY <2>2, <2>3
      <4> QED BY <4>1, <4>2, <4>3
    <3> QED BY <2>1, <2>3, <3>2 DEF Chain, ReadBelow
  <2>5. \A q \in LeafPaths' : q \in LeafPaths
    BY <2>1, <2>3 DEF LeafPaths, ReadBelow
  <2>6. LeavesCounted'  BY <2>5 DEF LeavesCounted, TextInv
  <2>7. ASSUME ~ repeated' PROVE LeavesInOrder'
    <3>1. /\ Range(leaves) \subseteq LeafPaths
          /\ \A a, b \in 1 .. Len(leaves) : a < b => Before(document, leaves[a], leaves[b])
      BY <2>7 DEF TextInv, LeavesInOrder
    <3>2. /\ IsLast(document', ChildPath)
          /\ \A q \in LeafPaths : /\ q \in DOMAIN document' /\ q # ChildPath
                                  /\ document'[q] = document[q]
          /\ \A q, r \in LeafPaths : Before(document, q, r) => Before(document', q, r)
      BY <2>1, <2>7 DEF ReadBelow
    <3>3. \A q \in LeafPaths : q \in LeafPaths'  BY <2>3, <3>2 DEF LeafPaths
    <3>4. Range(leaves') \subseteq LeafPaths'  BY <3>1, <3>3
    <3>5. \A a, b \in 1 .. Len(leaves') : a < b => Before(document', leaves'[a], leaves'[b])
      BY <1>3, <3>1, <3>2
    <3> QED BY <2>3, <3>2, <3>4, <3>5 DEF LeavesInOrder
  <2> QED BY <1>2, <2>1, <2>3, <2>4, <2>6, <2>7
          DEF TextInv, TextTyped, PendingKey, ReadBelow
<1> QED BY <1>4, <1>5

LEMMA KeyReadText ==
  ASSUME TextInv, AtKey, NEW n \in Names, pending' = <<n>>,
         repeated' = (repeated \/ Contains(document[Last(open)].members, n)),
         UNCHANGED <<open, document, leaves>>
  PROVE  TextInv'
<1>1. InObject' /\ Last(pending') = n  BY DEF AtKey, InObject, Last
<1>2. ASSUME ~ repeated'
      PROVE  LeavesInOrder'
  <2>1. ~ repeated /\ ~ Contains(document[Last(open)].members, n)  BY <1>2
  <2>2. ~ HasMember(document, Last(open), n)  BY <2>1 DEF Contains, HasMember
  <2>3. LeavesInOrder /\ LeafPaths' = LeafPaths  BY <2>1 DEF TextInv, LeafPaths
  <2> QED BY <1>1, <2>2, <2>3 DEF LeavesInOrder
<1>3. TextTyped' /\ Chain'  BY DEF TextInv, TextTyped, Chain
<1>4. LeavesCounted'  BY DEF TextInv, LeavesCounted, LeafPaths
<1> QED BY <1>1, <1>2, <1>3, <1>4 DEF TextInv, PendingKey

(* The parent of the innermost open container. *)
LEMMA Parent ==
  ASSUME TextInv, open # <<>>, NEW o, o = Front(open), o # <<>>
  PROVE  /\ Last(o) \in DOMAIN document /\ Last(o) \in Seq(Token)
         /\ document[Last(o)].members # <<>>
         /\ Len(Last(o)) = Len(o) - 1 /\ Len(o) = Len(open) - 1
         /\ \A n \in 0 .. Len(o) - 1 : SubSeq(Last(o), 1, n) = SubSeq(Last(open), 1, n)
         /\ \A n \in 1 .. Len(o) - 1 : Last(o)[n] = Last(open)[n]
<1> DEFINE L == Last(open)
<1>1. /\ Len(open) \in Nat \ {0} /\ L \in DOMAIN document /\ L \in Seq(Token)
      /\ Len(L) = Len(open) - 1 /\ \A i \in 1 .. Len(open) : open[i] \in DOMAIN document
  BY Innermost
<1>2. open \in Seq(Seq(Token))  BY DEF TextInv, TextTyped
<1>3. /\ o \in Seq(Seq(Token)) /\ Len(o) = Len(open) - 1
      /\ \A i \in 1 .. Len(open) - 1 : o[i] = open[i]
  BY <1>2, Shortened
<1>4. Len(o) \in Nat \ {0} /\ Last(o) = o[Len(o)] /\ Last(o) \in Seq(Token)
  BY <1>3, Shortened
<1> DEFINE n == Len(open) - 1
<1>5. n \in 1 .. Len(open) /\ n \in 1 .. Len(L) /\ Len(o) = n /\ n - 1 \in 0 .. Len(L)
  BY <1>1, <1>3, <1>4
<1>6. Last(o) = open[n] /\ open[n] = SubSeq(L, 1, n - 1) /\ Len(open[n]) = n - 1
  <2>1. \A i \in 1 .. Len(open) : open[i] = SubSeq(L, 1, i - 1) /\ Len(open[i]) = i - 1
    BY DEF TextInv, Chain
  <2>2. n \in 1 .. Len(open) - 1  BY <1>5
  <2> HIDE DEF n
  <2> QED BY <1>3, <1>4, <1>5, <2>1, <2>2
<1> HIDE DEF n
<1>7. HasMember(document, SubSeq(L, 1, n - 1), L[n])  BY <1>1, <1>5 DEF TextInv, IsTree
<1>8. document[Last(o)].members # <<>>
  <2>1. Len(<<>>) = 0  BY EmptySeq
  <2> QED BY <1>6, <1>7, <2>1 DEF HasMember
<1>9. /\ \A i \in 0 .. n - 1 : SubSeq(Last(o), 1, i) = SubSeq(L, 1, i)
      /\ \A i \in 1 .. n - 1 : Last(o)[i] = L[i]
  <2> HIDE DEF L
  <2>1. \A i \in 0 .. n - 1 : SubSeq(SubSeq(L, 1, n - 1), 1, i) = SubSeq(L, 1, i)
    BY <1>1, <1>5, PrefixOfPrefix
  <2>2. \A i \in 1 .. n - 1 : SubSeq(L, 1, n - 1)[i] = L[i]  BY <1>1, <1>5, PrefixOf
  <2> QED BY <1>6, <2>1, <2>2
<1> QED BY <1>1, <1>3, <1>4, <1>5, <1>6, <1>8, <1>9

LEMMA CloseText ==
  ASSUME TextInv, open # <<>>, pending = <<>>, open' = Front(open),
         UNCHANGED <<pending, document, repeated>>,
         leaves' = IF document[Last(open)].members = <<>> THEN Append(leaves, Last(open))
                                                          ELSE leaves
  PROVE  TextInv'
<1> DEFINE L == Last(open)
<1>1. /\ Len(open) \in Nat \ {0} /\ L \in DOMAIN document /\ L \in Seq(Token)
      /\ Len(L) = Len(open) - 1
  BY Innermost
<1>2. open \in Seq(Seq(Token)) /\ leaves \in Seq(Seq(Token))  BY DEF TextInv, TextTyped
<1>3. /\ open' \in Seq(Seq(Token)) /\ Len(open') = Len(open) - 1
      /\ \A i \in 1 .. Len(open) - 1 : open'[i] = open[i]
  BY <1>2, Shortened
<1>4. ASSUME open' # <<>>
      PROVE  /\ Last(open') \in DOMAIN document /\ document[Last(open')].members # <<>>
             /\ Len(Last(open')) = Len(open') - 1
             /\ \A n \in 0 .. Len(open') - 1 : SubSeq(Last(open'), 1, n) = SubSeq(L, 1, n)
             /\ \A n \in 1 .. Len(open') - 1 : Last(open')[n] = L[n]
  <2>1. PICK o : o = open'  OBVIOUS
  <2>2. o = Front(open) /\ o # <<>>  BY <1>4, <2>1
  <2>3. /\ Last(o) \in DOMAIN document /\ document[Last(o)].members # <<>>
        /\ Len(Last(o)) = Len(o) - 1
        /\ \A n \in 0 .. Len(o) - 1 : SubSeq(Last(o), 1, n) = SubSeq(L, 1, n)
        /\ \A n \in 1 .. Len(o) - 1 : Last(o)[n] = L[n]
    BY <2>2, Parent
  <2> HIDE DEF L
  <2> QED BY <2>1, <2>3
<1>5. \A q : q \in LeafPaths' <=> q \in DOMAIN document /\ document[q].members = <<>>
  BY <1>4 DEF LeafPaths
<1>6. \A q : q \in LeafPaths <=> q \in DOMAIN document /\ document[q].members = <<>> /\ q # L
  BY DEF LeafPaths
<1> HIDE DEF L
<1>7. Chain'
  <2> SUFFICES ASSUME open' # <<>>, NEW i \in 1 .. Len(open')
               PROVE  /\ open'[i] = SubSeq(Last(open'), 1, i - 1) /\ Len(open'[i]) = i - 1
                      /\ document[open'[i]].kind = "array" =>
                           \A j \in 1 .. Len(document[open'[i]].members) :
                             document[open'[i]].members[j] = IndexToken(j - 1)
    BY <1>4 DEF Chain
  <2>1. i \in 1 .. Len(open) - 1 /\ i \in 1 .. Len(open) /\ i - 1 \in 0 .. Len(open') - 1
    BY <1>1, <1>3
  <2>2. /\ open[i] = SubSeq(L, 1, i - 1) /\ Len(open[i]) = i - 1
        /\ document[open[i]].kind = "array" =>
             \A j \in 1 .. Len(document[open[i]].members) :
               document[open[i]].members[j] = IndexToken(j - 1)
    BY <2>1 DEF TextInv, Chain, L
  <2>3. SubSeq(Last(open'), 1, i - 1) = SubSeq(L, 1, i - 1)  BY <1>4, <2>1
  <2>4. open'[i] = open[i]  BY <1>3, <2>1
  <2> QED BY <2>2, <2>3, <2>4
<1>8. /\ leaves' \in Seq(Seq(Token))
      /\ document[L].members = <<>> =>
           \A q : q \in Range(leaves') <=> q = L \/ q \in Range(leaves)
      /\ document[L].members # <<>> => leaves' = leaves
  <2>1. CASE document[L].members = <<>>
    <3>1. leaves' = Append(leaves, L)  BY <2>1 DEF L
    <3> QED BY <1>1, <1>2, <2>1, <3>1, OneMoreLeaf
  <2>2. CASE document[L].members # <<>>  BY <1>2, <2>2 DEF L
  <2> QED BY <2>1, <2>2
<1>9. LeavesCounted'
  <2>1. LeafPaths \subseteq Range(leaves)  BY DEF TextInv, LeavesCounted
  <2>2. CASE document[L].members = <<>>
    BY <1>5, <1>6, <1>8, <2>1, <2>2 DEF LeavesCounted
  <2>3. CASE document[L].members # <<>>
    <3>1. leaves' = leaves  BY <1>8, <2>3
    <3>2. \A q \in LeafPaths' : q \in LeafPaths  BY <1>5, <1>6, <2>3
    <3>3. \A q \in LeafPaths' : q \in Range(leaves')  BY <2>1, <3>1, <3>2
    <3> QED BY <3>3 DEF LeavesCounted
  <2> QED BY <2>2, <2>3
<1>10. ASSUME ~ repeated' PROVE LeavesInOrder'
  <2>1. /\ IsLast(document, L) /\ Range(leaves) \subseteq LeafPaths
        /\ \A a, b \in 1 .. Len(leaves) : a < b => Before(document, leaves[a], leaves[b])
    BY <1>10 DEF TextInv, LeavesInOrder, L
  <2>2. ASSUME open' # <<>> PROVE IsLast(document, Last(open'))
    <3> SUFFICES ASSUME NEW n \in 1 .. Len(Last(open'))
                 PROVE  /\ document[SubSeq(Last(open'), 1, n - 1)].members # <<>>
                        /\ Last(document[SubSeq(Last(open'), 1, n - 1)].members)
                             = Last(open')[n]
      BY DEF IsLast
    <3>1. n \in 1 .. Len(open') - 1 /\ n - 1 \in 0 .. Len(open') - 1 /\ n \in 1 .. Len(L)
      BY <1>1, <1>3, <1>4, <2>2
    <3>2. SubSeq(Last(open'), 1, n - 1) = SubSeq(L, 1, n - 1) /\ Last(open')[n] = L[n]
      BY <1>4, <2>2, <3>1
    <3> QED BY <2>1, <3>1, <3>2 DEF IsLast
  <2>3. Range(leaves') \subseteq LeafPaths'
    <3>1. CASE document[L].members = <<>>  BY <1>1, <1>5, <1>6, <1>8, <2>1, <3>1
    <3>2. CASE document[L].members # <<>>
      <4>1. leaves' = leaves  BY <1>8, <3>2
      <4> QED BY <1>5, <1>6, <2>1, <4>1
    <3> QED BY <3>1, <3>2
  <2>4. \A a, b \in 1 .. Len(leaves') : a < b => Before(document', leaves'[a], leaves'[b])
    <3>1. CASE document[L].members = <<>>
      <4>1. leaves' = Append(leaves, L)  BY <3>1 DEF L
      <4>2. ASSUME NEW q \in Range(leaves) PROVE Before(document', q, L)
        <5>1. q \in DOMAIN document /\ document[q].members = <<>> /\ q # L
          BY <1>6, <2>1
        <5>2. IsDocument(document) /\ IsTree(document)  BY DEF TextInv
        <5>3. Before(document, q, L)  BY <1>1, <2>1, <3>1, <5>1, <5>2, LastIsAfter
        <5> QED BY <5>3
      <4>3. \A a, b \in 1 .. Len(leaves) : a < b => Before(document', leaves[a], leaves[b])
        BY <2>1
      <4> QED BY <1>1, <1>2, <4>1, <4>2, <4>3, OrderOfOneMore
    <3>2. CASE document[L].members # <<>>
      <4>1. leaves' = leaves  BY <1>8, <3>2
      <4> QED BY <2>1, <4>1
    <3> QED BY <3>1, <3>2
  <2> QED BY <2>2, <2>3, <2>4 DEF LeavesInOrder
<1> QED BY <1>3, <1>7, <1>8, <1>9, <1>10 DEF TextInv, TextTyped, PendingKey

LEMMA SameText == ASSUME TextInv, UNCHANGED text PROVE TextInv'
<1>1. LeafPaths' = LeafPaths  BY DEF text, LeafPaths
<1>2. LeavesInOrder => LeavesInOrder'  BY <1>1 DEF text, LeavesInOrder
<1> QED BY <1>1, <1>2 DEF text, TextInv, TextTyped, Chain, PendingKey, InObject, LeavesCounted

LEMMA InitText == ASSUME Init PROVE TextInv
<1>1. open = <<>> /\ pending = <<>> /\ document = <<>> /\ leaves = <<>>  BY DEF Init
<1>2. DOMAIN <<>> = {} /\ <<>> \in Seq(Seq(Token)) /\ Len(<<>>) = 0
  <2>1. <<>> \in Seq(Seq(Token)) /\ Len(<<>>) = 0  BY EmptySeq
  <2>2. DOMAIN <<>> = 1 .. 0  BY <2>1, LenProperties
  <2> QED BY <2>1, <2>2
<1>3. TextTyped /\ Chain /\ PendingKey  BY <1>1, <1>2 DEF TextTyped, Chain, PendingKey
<1>4. IsDocument(document) /\ IsTree(document)  BY <1>1, <1>2 DEF IsDocument, IsTree
<1>5. LeafPaths = {}  BY <1>1, <1>2 DEF LeafPaths
<1>6. Range(leaves) = {}  BY <1>1, <1>2 DEF Range
<1>7. \A a, b \in 1 .. Len(leaves) : a < b => Before(document, leaves[a], leaves[b])
  BY <1>1, <1>2
<1>8. LeavesInOrder  BY <1>1, <1>5, <1>6, <1>7 DEF LeavesInOrder
<1> QED BY <1>3, <1>4, <1>5, <1>8 DEF TextInv, LeavesCounted

------------------------------------------------------------------------------
FrameArrays ==
  [1 .. MaxDepth -> [isArray : BOOLEAN, nextIndex : Nat, prefixBytes : Nat]]

(* open is a sequence (of whatever it holds). *)
OpenIsSeq == open \in Seq({open[i] : i \in DOMAIN open})

(* depth_ follows the parser's own nesting, which is why Close never takes it  *)
(* below zero.                                                                 *)
DepthIsNesting ==
  OpenIsSeq /\ (phase \in {"call", "scan"} => depth = Len(open))

IInv == TypeOK /\ DepthIsNesting

LEMMA KeyBytesAreNat == ASSUME TypeOK PROVE NextKeyBytes \in Nat
<1>1. CASE depth = 0  BY <1>1 DEF NextKeyBytes
<1>2. CASE depth # 0
  <2>1. depth \in 1 .. MaxDepth  BY <1>2, FlattenAssumption DEF TypeOK
  <2>2. Top \in [isArray : BOOLEAN, nextIndex : Nat, prefixBytes : Nat]
    BY <2>1 DEF Top, TypeOK
  <2>3. DecimalDigits(Top.nextIndex) \in Nat  BY <2>2, DigitsAreNat
  <2>4. pendingTokenBytes \in Nat  BY DEF TypeOK
  <2> QED BY <1>2, <2>2, <2>3, <2>4 DEF NextKeyBytes
<1> QED BY <1>1, <1>2

LEMMA AdvancedKeepsType ==
  ASSUME TypeOK
  PROVE  Advanced \in FrameArrays
<1>1. CASE depth = 0 \/ ~ Top.isArray  BY <1>1 DEF Advanced, TypeOK, FrameArrays
<1>2. CASE ~ (depth = 0 \/ ~ Top.isArray)
  <2>1. depth \in 1 .. MaxDepth  BY <1>2, FlattenAssumption DEF TypeOK
  <2>2. frames[depth] \in [isArray : BOOLEAN, nextIndex : Nat, prefixBytes : Nat]
    BY <2>1 DEF TypeOK
  <2>3. [frames[depth] EXCEPT !.nextIndex = @ + 1]
          \in [isArray : BOOLEAN, nextIndex : Nat, prefixBytes : Nat]
    BY <2>2
  <2> QED BY <1>2, <2>1, <2>3 DEF Advanced, TypeOK, FrameArrays
<1> QED BY <1>1, <1>2

(* CountEntry and AddKeyBytes take neither counter past its limit. *)
LEMMA CountingKeepsLimits ==
  ASSUME TypeOK, NEW p, NEW keyBytes \in Nat, CountLeaf(p, keyBytes)
  PROVE  /\ entryCount' \in 0 .. MaxEntries /\ keyTotal' \in 0 .. MaxKeyBytes
         /\ phase' \in {phase, "done"}
         /\ status' \in {status, "TooManyEntries", "KeyTextTooLarge"}
         /\ out' = out
<1>1. entryCount \in 0 .. MaxEntries /\ keyTotal \in 0 .. MaxKeyBytes  BY DEF TypeOK
<1>2. MaxEntries \in Nat /\ MaxKeyBytes \in Nat  BY FlattenAssumption
<1>3. CASE CountVerdict(keyBytes) = "Ok"
  <2>1. ~ (entryCount >= MaxEntries) /\ ~ (keyBytes > MaxKeyBytes - keyTotal)
    BY <1>1, <1>2, <1>3 DEF CountVerdict
  <2> QED BY <1>1, <1>2, <1>3, <2>1 DEF CountLeaf
<1>4. CASE CountVerdict(keyBytes) # "Ok"
  <2>1. CountVerdict(keyBytes) \in {"TooManyEntries", "KeyTextTooLarge"}
    BY <1>1, <1>2, <1>4 DEF CountVerdict
  <2> QED BY <1>1, <1>4, <2>1 DEF CountLeaf, Return
<1> QED BY <1>3, <1>4

LEMMA SeqOfItsElements ==
  ASSUME NEW S, NEW s \in Seq(S)
  PROVE  s \in Seq({s[i] : i \in DOMAIN s})
<1> DEFINE T == {s[i] : i \in DOMAIN s}
<1>1. Len(s) \in Nat /\ s \in [1 .. Len(s) -> S] /\ DOMAIN s = 1 .. Len(s)
  BY LenProperties
<1>2. s \in [1 .. Len(s) -> T]  BY <1>1
<1>3. Seq(T) = UNION {[1 .. n -> T] : n \in Nat}  BY SeqDef
<1> QED BY <1>1, <1>2, <1>3

LEMMA AppendIsSeq ==
  ASSUME OpenIsSeq, NEW x, open' = Append(open, x)
  PROVE  OpenIsSeq' /\ Len(open') = Len(open) + 1
<1> DEFINE S == {open[i] : i \in DOMAIN open}
<1>1. open \in Seq(S)  BY DEF OpenIsSeq
<1>2. open \in Seq(S \cup {x})  BY <1>1, SeqMonotonic
<1>3. open' \in Seq(S \cup {x}) /\ Len(open') = Len(open) + 1  BY <1>2
<1>4. open' \in Seq({open'[i] : i \in DOMAIN open'})
  <2> HIDE DEF S
  <2> QED BY <1>3, SeqOfItsElements
<1> QED BY <1>3, <1>4 DEF OpenIsSeq

LEMMA FrontIsSeq ==
  ASSUME OpenIsSeq, open # <<>>, open' = Front(open)
  PROVE  OpenIsSeq' /\ Len(open') = Len(open) - 1 /\ Len(open) \in Nat \ {0}
<1> DEFINE S == {open[i] : i \in DOMAIN open}
<1>1. open \in Seq(S)  BY DEF OpenIsSeq
<1>2. open' = SubSeq(open, 1, Len(open) - 1)  BY DEF Front
<1> HIDE DEF S
<1>3. Len(open) \in Nat \ {0}  BY <1>1, EmptySeq
<1>4. open' \in Seq(S) /\ Len(open') = Len(open) - 1
  <2>1. PICK n \in Nat : n = Len(open) - 1  BY <1>3
  <2>2. \A i \in 1 .. n : open[i] \in S  BY <1>1, <1>3, <2>1, ElementOfSeq
  <2>3. SubSeq(open, 1, n) \in Seq(S) /\ Len(SubSeq(open, 1, n)) = n
    <3>1. Len(SubSeq(open, 1, n)) = IF 1 <= n THEN n - 1 + 1 ELSE 0
      BY <2>2, SubSeqProperties
    <3>2. SubSeq(open, 1, n) \in Seq(S)  BY <2>2, SubSeqProperties
    <3> QED BY <3>1, <3>2
  <2> QED BY <1>2, <2>1, <2>3
<1>5. open' \in Seq({open'[i] : i \in DOMAIN open'})  BY <1>4, SeqOfItsElements
<1> QED BY <1>3, <1>4, <1>5 DEF OpenIsSeq

LEMMA InitIInv == Init => IInv
<1> SUFFICES ASSUME Init PROVE IInv  OBVIOUS
<1>1. frames \in FrameArrays  BY DEF Init, KeyFrame, FrameArrays
<1>2. depth = 0 /\ entryCount = 0 /\ keyTotal = 0 /\ pendingTokenBytes = 0
  BY DEF Init
<1>3. 0 \in 0 .. MaxDepth /\ 0 \in 0 .. MaxEntries /\ 0 \in 0 .. MaxKeyBytes
  BY FlattenAssumption
<1>4. previousEventOpenedContainer \in BOOLEAN /\ repeated \in BOOLEAN
  BY DEF Init
<1>5. phase = "call" /\ status = "none" /\ out = "before" /\ open = <<>>  BY DEF Init
<1>6. TypeOK  BY <1>1, <1>2, <1>3, <1>4, <1>5 DEF TypeOK, FrameArrays
<1>7. OpenIsSeq /\ Len(open) = 0
  <2>1. open \in Seq({open[i] : i \in DOMAIN open}) /\ Len(open) = 0
    BY <1>5, EmptySeq
  <2> QED BY <2>1 DEF OpenIsSeq
<1> QED BY <1>2, <1>6, <1>7 DEF IInv, DepthIsNesting

(* Returning ends the scan, so only the types are left to keep. *)
LEMMA ReturnIInv ==
  ASSUME IInv, NEW s \in {"ParseError", "DocumentTooLarge", "NestingTooDeep"},
         Return(s), UNCHANGED <<depth, frames, entryCount, keyTotal, open>>,
         pendingTokenBytes' = pendingTokenBytes,
         previousEventOpenedContainer' \in BOOLEAN, repeated' \in BOOLEAN
  PROVE  IInv'
BY DEF Return, IInv, TypeOK, DepthIsNesting, OpenIsSeq

LEMMA CallIInv == ASSUME IInv, NEW t \in Texts, FlattenJson(t) PROVE IInv'
<1>1. CASE TextCheck(t) # "Ok"
  <2>1. TextCheck(t) \in {"DocumentTooLarge", "ParseError"}  BY <1>1 DEF TextCheck
  <2>2. previousEventOpenedContainer \in BOOLEAN /\ repeated \in BOOLEAN
    BY DEF IInv, TypeOK
  <2> QED BY <1>1, <2>1, <2>2, ReturnIInv DEF FlattenJson, sax, text
<1>2. CASE TextCheck(t) = "Ok"
  <2>1. phase = "call" /\ phase' = "scan"  BY <1>2 DEF FlattenJson
  <2>2. UNCHANGED <<status, out, depth, frames, entryCount, keyTotal,
                    pendingTokenBytes, previousEventOpenedContainer, open, repeated>>
    BY <1>2 DEF FlattenJson, sax, text
  <2> QED BY <2>1, <2>2 DEF IInv, TypeOK, DepthIsNesting, OpenIsSeq
<1> QED BY <1>1, <1>2

(* What IInv says of the scan, and that it survives a leaf being counted. *)
LEMMA CountedIInv ==
  ASSUME IInv, NEW p, NEW keyBytes \in Nat, CountLeaf(p, keyBytes), phase = "scan",
         frames' \in FrameArrays, depth' \in 0 .. MaxDepth, OpenIsSeq',
         depth' = Len(open'), pendingTokenBytes' = pendingTokenBytes,
         previousEventOpenedContainer' = FALSE, repeated' = repeated
  PROVE  IInv'
<1>1. /\ entryCount' \in 0 .. MaxEntries /\ keyTotal' \in 0 .. MaxKeyBytes
      /\ phase' \in {phase, "done"}
      /\ status' \in {status, "TooManyEntries", "KeyTextTooLarge"}
      /\ out' = out
  BY CountingKeepsLimits DEF IInv
<1>2. /\ status \in {"none", "Ok", "ParseError", "DocumentTooLarge", "NestingTooDeep",
                     "TooManyEntries", "KeyTextTooLarge"}
      /\ out \in {"before", "entries"} /\ pendingTokenBytes \in Nat
      /\ repeated \in BOOLEAN
  BY DEF IInv, TypeOK
<1>3. previousEventOpenedContainer' \in BOOLEAN /\ repeated' \in BOOLEAN  BY <1>2
<1>4. TypeOK'  BY <1>1, <1>2, <1>3 DEF TypeOK, FrameArrays
<1> QED BY <1>4 DEF IInv, DepthIsNesting

LEMMA KeyIInv == ASSUME IInv, NEW n \in Names, Key(n) PROVE IInv'
<1>1. UNCHANGED <<depth, frames, entryCount, keyTotal, open>>  BY DEF Key
<1>2. previousEventOpenedContainer' \in BOOLEAN /\ repeated' \in BOOLEAN
  BY DEF Key, IInv, TypeOK
<1>3. CASE n.nul
  <2>1. Return("ParseError") /\ UNCHANGED pendingTokenBytes  BY <1>3 DEF Key
  <2> QED BY <1>1, <1>2, <2>1, ReturnIInv
<1>4. CASE ~ n.nul
  <2>1. n.bytes + n.escaped \in Nat  BY FlattenAssumption DEF Token
  <2>2. pendingTokenBytes' \in Nat /\ UNCHANGED <<phase, status, out>>
    BY <1>4, <2>1 DEF Key
  <2> QED BY <1>1, <1>2, <2>2 DEF IInv, TypeOK, DepthIsNesting, OpenIsSeq
<1> QED BY <1>3, <1>4

LEMMA LeafIInv == ASSUME IInv, NEW kind \in Scalars, Leaf(kind) PROVE IInv'
<1>1. NextKeyBytes \in Nat /\ Advanced \in FrameArrays
  BY KeyBytesAreNat, AdvancedKeepsType DEF IInv
<1>2. /\ CountLeaf(ChildPath, NextKeyBytes) /\ phase = "scan" /\ frames' = Advanced
      /\ UNCHANGED <<depth, open, pendingTokenBytes, repeated>>
      /\ previousEventOpenedContainer' = FALSE
  BY DEF Leaf
<1>3. depth' \in 0 .. MaxDepth /\ OpenIsSeq' /\ depth' = Len(open')
  BY <1>2 DEF IInv, TypeOK, DepthIsNesting, OpenIsSeq
<1> QED BY <1>1, <1>2, <1>3, CountedIInv

LEMMA OpenIInv ==
  ASSUME IInv, NEW kind \in {"object", "array"}, Open(kind) PROVE IInv'
<1>1. NextKeyBytes \in Nat /\ Advanced \in FrameArrays
  BY KeyBytesAreNat, AdvancedKeepsType DEF IInv
<1>2. KeyFrame(kind = "array", NextKeyBytes)
        \in [isArray : BOOLEAN, nextIndex : Nat, prefixBytes : Nat]
  BY <1>1 DEF KeyFrame
<1>3. /\ phase = "scan" /\ depth < MaxDepth /\ depth' = depth + 1
      /\ frames' = [Advanced EXCEPT ![depth + 1] = KeyFrame(kind = "array", NextKeyBytes)]
      /\ open' = Append(open, ChildPath)
      /\ UNCHANGED <<phase, status, out, entryCount, keyTotal, pendingTokenBytes, repeated>>
      /\ previousEventOpenedContainer' = TRUE
  BY DEF Open
<1>4. depth \in 0 .. MaxDepth /\ MaxDepth \in Nat  BY FlattenAssumption DEF IInv, TypeOK
<1>5. depth' \in 0 .. MaxDepth /\ depth + 1 \in 1 .. MaxDepth  BY <1>3, <1>4
<1>6. frames' \in FrameArrays  BY <1>1, <1>2, <1>3, <1>5 DEF FrameArrays
<1>7. OpenIsSeq' /\ depth' = Len(open')
  BY <1>3, AppendIsSeq DEF IInv, DepthIsNesting
<1>8. TypeOK'  BY <1>3, <1>5, <1>6 DEF IInv, TypeOK, FrameArrays
<1> QED BY <1>7, <1>8 DEF IInv, DepthIsNesting

LEMMA CloseIInv == ASSUME IInv, Close PROVE IInv'
<1>1. /\ phase = "scan" /\ open # <<>> /\ depth' = depth - 1 /\ open' = Front(open)
      /\ UNCHANGED <<frames, pendingTokenBytes, repeated>>
      /\ previousEventOpenedContainer' = FALSE
  BY DEF Close, InArray, AtKey, InObject
<1>2. OpenIsSeq' /\ Len(open') = Len(open) - 1 /\ Len(open) \in Nat \ {0}
  BY <1>1, FrontIsSeq DEF IInv, DepthIsNesting
<1>3. depth = Len(open) /\ depth \in 0 .. MaxDepth /\ MaxDepth \in Nat
  BY <1>1, FlattenAssumption DEF IInv, TypeOK, DepthIsNesting
<1>4. depth' \in 0 .. MaxDepth /\ depth' = Len(open') /\ depth \in 1 .. MaxDepth
  BY <1>1, <1>2, <1>3
<1>5. frames' \in FrameArrays  BY <1>1 DEF IInv, TypeOK, FrameArrays
<1>6. CASE previousEventOpenedContainer
  <2>1. Top.prefixBytes \in Nat  BY <1>4 DEF Top, IInv, TypeOK
  <2>2. CountLeaf(Last(open), Top.prefixBytes)  BY <1>6 DEF Close
  <2> QED BY <1>1, <1>2, <1>4, <1>5, <2>1, <2>2, CountedIInv
<1>7. CASE ~ previousEventOpenedContainer
  <2>1. UNCHANGED <<entryCount, keyTotal, phase, status, out>>  BY <1>7 DEF Close
  <2> QED BY <1>1, <1>2, <1>4, <1>5, <2>1
          DEF IInv, TypeOK, DepthIsNesting, FrameArrays
<1> QED BY <1>6, <1>7

(* The list is made after the scan and from the document alone. *)
LEMMA WalkIInv ==
  ASSUME IInv, FlattenDocument \/ Pop \/ Step \/ FlattenReturns PROVE IInv'
<1>1. UNCHANGED <<depth, frames, entryCount, keyTotal, pendingTokenBytes,
                  previousEventOpenedContainer, open, repeated>>
  BY DEF FlattenDocument, Pop, Step, FlattenReturns, sax, text
<1>2. /\ phase' \in {"flatten", "done"} /\ status' \in {status, "Ok"}
      /\ out' \in {out, "entries"}
  BY DEF FlattenDocument, Pop, Step, FlattenReturns
<1> QED BY <1>1, <1>2 DEF IInv, TypeOK, DepthIsNesting, OpenIsSeq

LEMMA StepIInv == IInv /\ [Next]_vars => IInv'
<1> SUFFICES ASSUME IInv, [Next]_vars PROVE IInv'  OBVIOUS
<1>1. ASSUME NEW t \in Texts, FlattenJson(t) PROVE IInv'  BY <1>1, CallIInv
<1>2. ASSUME NEW n \in Names, Key(n) PROVE IInv'  BY <1>2, KeyIInv
<1>3. ASSUME NEW kind \in Scalars, Leaf(kind) PROVE IInv'  BY <1>3, LeafIInv
<1>4. ASSUME NEW kind \in {"object", "array"}, Open(kind) PROVE IInv'
  BY <1>4, OpenIInv
<1>5. CASE OpenTooDeep \/ Malformed
  <2>1. previousEventOpenedContainer \in BOOLEAN /\ repeated \in BOOLEAN
    BY DEF IInv, TypeOK
  <2> QED BY <1>5, <2>1, ReturnIInv DEF OpenTooDeep, Malformed, sax, text
<1>6. CASE Close  BY <1>6, CloseIInv
<1>7. CASE FlattenDocument \/ Pop \/ Step \/ FlattenReturns  BY <1>7, WalkIInv
<1>8. CASE UNCHANGED vars
  BY <1>8 DEF vars, sax, text, IInv, TypeOK, DepthIsNesting, OpenIsSeq
<1> QED BY <1>1, <1>2, <1>3, <1>4, <1>5, <1>6, <1>7, <1>8 DEF Next, Scan

------------------------------------------------------------------------------
(* The frames of the counting pass are the open containers of the text.        *)

FrameRecords == [isArray : BOOLEAN, nextIndex : Nat, prefixBytes : Nat]

Describes(f, d, p) ==
  /\ f.prefixBytes = KeyBytes(p) /\ f.isArray = (d[p].kind = "array")
  /\ f.isArray => f.nextIndex = Len(d[p].members)
FramesAgree ==
  phase \in {"call", "scan"} =>
    /\ depth = Len(open)
    /\ \A i \in 1 .. Len(open) : Describes(frames[i], document, open[i])
    /\ pending # <<>> => pendingTokenBytes = Last(pending).bytes + Last(pending).escaped
    /\ previousEventOpenedContainer =
         (open # <<>> /\ document[Last(open)].members = <<>> /\ pending = <<>>)

ScanInv == TypeOK /\ TextInv /\ FramesAgree

LEMMA TopFrame ==
  ASSUME ScanInv, phase \in {"call", "scan"}, open # <<>>
  PROVE  /\ depth = Len(open) /\ depth \in 1 .. MaxDepth /\ Top = frames[Len(open)]
         /\ Top \in FrameRecords
         /\ Top.prefixBytes = KeyBytes(Last(open)) /\ (Top.isArray <=> InArray)
         /\ InArray => Top.nextIndex = Len(document[Last(open)].members)
<1>1. depth = Len(open) /\ \A i \in 1 .. Len(open) : Describes(frames[i], document, open[i])
  BY DEF ScanInv, FramesAgree
<1>2. Len(open) \in Nat \ {0} /\ Last(open) = open[Len(open)]  BY Innermost DEF ScanInv
<1>3. depth \in 1 .. MaxDepth  BY <1>1, <1>2, FlattenAssumption DEF ScanInv, TypeOK
<1>4. Top = frames[Len(open)]  BY <1>1 DEF Top
<1>5. Describes(Top, document, Last(open))  BY <1>1, <1>2, <1>4
<1>6. Top \in FrameRecords  BY <1>3 DEF ScanInv, TypeOK, Top, FrameRecords
<1> QED BY <1>1, <1>3, <1>4, <1>5, <1>6 DEF Describes, InArray

(* NextKeyBytes is the length of the path it never builds. *)
LEMMA NextKeyIsChild ==
  ASSUME ScanInv, phase = "scan", AtValue
  PROVE  ChildPath \in Seq(Token) /\ NextKeyBytes = KeyBytes(ChildPath)
<1>1. CASE open = <<>>
  <2>1. ChildPath = <<>> /\ Len(<<>>) = 0 /\ <<>> \in Seq(Token)
    BY <1>1, EmptySeq DEF ChildPath
  <2>2. depth = 0  BY <1>1, <2>1 DEF ScanInv, FramesAgree
  <2> QED BY <2>1, <2>2, BytesOfRoot DEF NextKeyBytes
<1>2. CASE open # <<>>
  <2>1. /\ depth # 0 /\ Top.prefixBytes = KeyBytes(Last(open)) /\ (Top.isArray <=> InArray)
        /\ InArray => Top.nextIndex = Len(document[Last(open)].members)
    BY <1>2, TopFrame, FlattenAssumption
  <2>2. PICK t \in Token :
          /\ ChildPath = Append(Last(open), t)
          /\ InArray => t = IndexToken(Len(document[Last(open)].members))
          /\ ~ InArray => pending = <<t>>
    BY <1>2, ChildBelow DEF ScanInv
  <2>3. Last(open) \in Seq(Token) /\ document[Last(open)].members \in Seq(Token)
    BY <1>2, Innermost DEF ScanInv
  <2>4. ChildPath \in Seq(Token) /\ KeyBytes(Last(open)) \in Nat
        /\ KeyBytes(ChildPath) = KeyBytes(Last(open)) + TokenBytes(t)
    BY <2>2, <2>3, BytesOfChild, BytesOfPath, Appended
  <2>5. NextKeyBytes = KeyBytes(Last(open)) + 1
          + (IF InArray THEN DecimalDigits(Len(document[Last(open)].members))
                        ELSE pendingTokenBytes)
    BY <2>1 DEF NextKeyBytes
  <2>6. CASE InArray
    <3>1. Len(document[Last(open)].members) \in Nat  BY <2>3, LenProperties
    <3>2. TokenBytes(t) = 1 + DecimalDigits(Len(document[Last(open)].members))
          /\ DecimalDigits(Len(document[Last(open)].members)) \in Nat
      BY <2>2, <2>6, <3>1, IndexTokens, DigitsAreNat
    <3> QED BY <2>4, <2>5, <2>6, <3>2
  <2>7. CASE ~ InArray
    <3>0. pending = <<t>>  BY <2>2, <2>7
    <3>1. pending # <<>> /\ Last(pending) = t  BY <3>0 DEF Last
    <3>2. pendingTokenBytes = t.bytes + t.escaped
      BY <3>1 DEF ScanInv, FramesAgree
    <3>3. t.bytes \in Nat /\ t.escaped \in Nat  BY DEF Token
    <3> QED BY <2>4, <2>5, <2>7, <3>2, <3>3 DEF TokenBytes
  <2> QED BY <2>4, <2>6, <2>7
<1> QED BY <1>1, <1>2

LEMMA AdvancedDescribes ==
  ASSUME ScanInv, phase = "scan", AtValue, NEW k \in Kinds, NEW d, d = Put(ChildPath, k),
         NEW i \in 1 .. Len(open)
  PROVE  Describes(Advanced[i], d, open[i])
<1>1. open # <<>>
  <2>1. Len(<<>>) = 0  BY EmptySeq
  <2> QED BY <2>1
<1>2. /\ depth = Len(open) /\ depth \in 1 .. MaxDepth /\ Top = frames[Len(open)]
      /\ Top \in FrameRecords /\ (Top.isArray <=> InArray)
      /\ InArray => Top.nextIndex = Len(document[Last(open)].members)
  BY <1>1, TopFrame
<1>3. Describes(frames[i], document, open[i])  BY DEF ScanInv, FramesAgree
<1>4. /\ InArray => Len(d[Last(open)].members) = Len(document[Last(open)].members) + 1
      /\ d[open[i]].kind = document[open[i]].kind
      /\ i # Len(open) => d[open[i]] = document[open[i]]
  <2>1. ReadBelow(d, k)  BY <1>1, ValueBelow DEF ScanInv
  <2> QED BY <2>1 DEF ReadBelow
<1>5. i \in 1 .. MaxDepth /\ Len(open) \in 1 .. MaxDepth  BY <1>2, FlattenAssumption
<1>6. frames \in [1 .. MaxDepth -> FrameRecords]  BY DEF ScanInv, TypeOK, FrameRecords
<1>7. CASE i # Len(open)
  <2>1. Advanced[i] = frames[i]  BY <1>2, <1>5, <1>6, <1>7 DEF Advanced
  <2>2. d[open[i]] = document[open[i]]  BY <1>4, <1>7
  <2> QED BY <1>3, <2>1, <2>2 DEF Describes
<1>8. CASE i = Len(open)
  <2>1. open[i] = Last(open)  BY <1>1, <1>8, Innermost DEF ScanInv
  <2>2. CASE InArray
    <3>1. Advanced = [frames EXCEPT ![depth].nextIndex = @ + 1]
      BY <1>2, <2>2, FlattenAssumption DEF Advanced
    <3>2. Advanced[i] = [Top EXCEPT !.nextIndex = @ + 1]
      BY <1>2, <1>5, <1>6, <1>8, <3>1
    <3>3. /\ Advanced[i].isArray = frames[i].isArray
          /\ Advanced[i].prefixBytes = frames[i].prefixBytes
          /\ Advanced[i].nextIndex = Top.nextIndex + 1
      BY <1>2, <1>8, <3>2 DEF FrameRecords
    <3> QED BY <1>2, <1>3, <1>4, <2>1, <2>2, <3>3 DEF Describes
  <2>3. CASE ~ InArray
    <3>1. Advanced = frames /\ ~ frames[i].isArray
      BY <1>2, <1>8, <2>3 DEF Advanced
    <3> QED BY <1>3, <1>4, <3>1 DEF Describes
  <2> QED BY <2>2, <2>3
<1> QED BY <1>7, <1>8

LEMMA CloseClosesInnermost ==
  ASSUME ScanInv, Close
  PROVE  /\ open # <<>> /\ pending = <<>> /\ phase = "scan"
         /\ previousEventOpenedContainer = (document[Last(open)].members = <<>>)
<1>1. phase = "scan" /\ (InArray \/ AtKey)  BY DEF Close
<1>2. open # <<>>  BY <1>1 DEF InArray, AtKey, InObject
<1>3. pending = <<>>
  <2>1. pending # <<>> => InObject  BY DEF ScanInv, TextInv, PendingKey
  <2> QED BY <1>1, <2>1 DEF InArray, InObject, AtKey
<1> QED BY <1>1, <1>2, <1>3 DEF ScanInv, FramesAgree

LEMMA StepText == ASSUME ScanInv, [Next]_vars PROVE TextInv'
<1>0. TextInv  BY DEF ScanInv
<1>1. ASSUME NEW n \in Names, Key(n) PROVE TextInv'
  BY <1>0, <1>1, KeyReadText DEF Key
<1>2. ASSUME NEW kind \in Scalars, Leaf(kind) PROVE TextInv'
  <2>1. /\ AtValue /\ document' = Put(ChildPath, kind) /\ pending' = <<>>
        /\ leaves' = Append(leaves, ChildPath) /\ UNCHANGED <<open, repeated>>
    BY <1>2 DEF Leaf, CountLeaf
  <2> QED BY <1>0, <2>1, LeafText
<1>3. ASSUME NEW kind \in {"object", "array"}, Open(kind) PROVE TextInv'
  <2>1. /\ AtValue /\ document' = Put(ChildPath, kind) /\ pending' = <<>>
        /\ open' = Append(open, ChildPath) /\ UNCHANGED <<leaves, repeated>>
    BY <1>3 DEF Open
  <2> QED BY <1>0, <2>1, OpenText
<1>4. CASE Close
  <2>1. /\ open # <<>> /\ pending = <<>>
        /\ previousEventOpenedContainer = (document[Last(open)].members = <<>>)
    BY <1>4, CloseClosesInnermost
  <2>2. open' = Front(open) /\ UNCHANGED <<pending, document, repeated>>  BY <1>4 DEF Close
  <2>3. leaves' = IF document[Last(open)].members = <<>> THEN Append(leaves, Last(open))
                                                         ELSE leaves
    BY <1>4, <2>1 DEF Close, CountLeaf
  <2> QED BY <1>0, <2>1, <2>2, <2>3, CloseText
<1>5. CASE UNCHANGED text  BY <1>0, <1>5, SameText
<1>6. CASE ~ UNCHANGED text
  <2>1. ~ UNCHANGED vars  BY <1>6 DEF vars
  <2>2. \A t \in Texts : ~ FlattenJson(t)  BY <1>6 DEF FlattenJson
  <2>3. ~ (OpenTooDeep \/ Malformed \/ FlattenDocument \/ Pop \/ Step \/ FlattenReturns)
    BY <1>6 DEF OpenTooDeep, Malformed, FlattenDocument, Pop, Step, FlattenReturns
  <2> QED BY <1>1, <1>2, <1>3, <1>4, <2>1, <2>2, <2>3 DEF Next, Scan
<1> QED BY <1>5, <1>6

LEMMA StepFrames == ASSUME ScanInv, [Next]_vars, TextInv', TypeOK' PROVE FramesAgree'
<1>1. CASE UNCHANGED <<sax, text>> /\ (phase' \in {"call", "scan"} => phase \in {"call", "scan"})
  <2>1. FramesAgree  BY DEF ScanInv
  <2> QED BY <1>1, <2>1 DEF FramesAgree, Describes, sax, text
<1>2. ASSUME NEW n \in Names, Key(n), phase' \in {"call", "scan"} PROVE FramesAgree'
  <2>1. /\ phase = "scan" /\ pending' = <<n>> /\ ~ previousEventOpenedContainer'
        /\ UNCHANGED <<depth, frames, open, document>>
    BY <1>2 DEF Key
  <2>2. pendingTokenBytes' = n.bytes + n.escaped  BY <1>2 DEF Key, Return
  <2>3. pending' # <<>> /\ Last(pending') = n  BY <2>1 DEF Last
  <2>4. /\ depth = Len(open)
        /\ \A i \in 1 .. Len(open) : Describes(frames[i], document, open[i])
    BY <2>1 DEF ScanInv, FramesAgree
  <2>5. previousEventOpenedContainer' = FALSE  BY <1>2 DEF Key
  <2> QED BY <2>1, <2>2, <2>3, <2>4, <2>5 DEF FramesAgree
<1>3. ASSUME NEW kind \in Scalars, Leaf(kind) PROVE FramesAgree'
  <2>1. /\ phase = "scan" /\ AtValue /\ document' = Put(ChildPath, kind) /\ pending' = <<>>
        /\ frames' = Advanced /\ UNCHANGED <<depth, open>>
        /\ previousEventOpenedContainer' = FALSE
    BY <1>3 DEF Leaf
  <2>2. kind \in Kinds  BY DEF Kinds
  <2>3. depth = Len(open)  BY <2>1 DEF ScanInv, FramesAgree
  <2>4. ASSUME NEW i \in 1 .. Len(open) PROVE Describes(frames'[i], document', open[i])
    <3>1. PICK d : d = document'  OBVIOUS
    <3>2. Describes(Advanced[i], d, open[i])  BY <2>1, <2>2, <3>1, AdvancedDescribes
    <3> QED BY <2>1, <3>1, <3>2
  <2>5. open # <<>> => document'[Last(open)].members # <<>>
    <3> SUFFICES ASSUME open # <<>> PROVE document'[Last(open)].members # <<>>  OBVIOUS
    <3>1. PICK d : d = document'  OBVIOUS
    <3>2. ReadBelow(d, kind)  BY <2>1, <2>2, <3>1, ValueBelow DEF ScanInv
    <3> QED BY <3>1, <3>2 DEF ReadBelow
  <2> QED BY <2>1, <2>3, <2>4, <2>5 DEF FramesAgree
<1>4. ASSUME NEW kind \in {"object", "array"}, Open(kind) PROVE FramesAgree'
  <2>1. /\ phase = "scan" /\ AtValue /\ document' = Put(ChildPath, kind) /\ pending' = <<>>
        /\ frames' = [Advanced EXCEPT ![depth + 1] = KeyFrame(kind = "array", NextKeyBytes)]
        /\ open' = Append(open, ChildPath) /\ depth' = depth + 1 /\ depth < MaxDepth
        /\ previousEventOpenedContainer' = TRUE
    BY <1>4 DEF Open
  <2>2. kind \in Kinds  BY DEF Kinds
  <2>3. depth = Len(open) /\ depth \in 0 .. MaxDepth /\ MaxDepth \in Nat
    BY <2>1, FlattenAssumption DEF ScanInv, FramesAgree, TypeOK
  <2>4. ChildPath \in Seq(Token) /\ NextKeyBytes = KeyBytes(ChildPath)
    BY <2>1, NextKeyIsChild
  <2>5. /\ Len(open') = Len(open) + 1 /\ Last(open') = ChildPath /\ open' # <<>>
        /\ open'[Len(open) + 1] = ChildPath
        /\ \A i \in 1 .. Len(open) : open'[i] = open[i]
    <3>1. PICK p \in Seq(Token) : p = ChildPath  BY <2>4
    <3>2. open \in Seq(Seq(Token))  BY DEF ScanInv, TextInv, TextTyped
    <3>3. open' = Append(open, p)  BY <2>1, <3>1
    <3>4. /\ Len(Append(open, p)) = Len(open) + 1 /\ Last(Append(open, p)) = p
          /\ Append(open, p) # <<>> /\ Append(open, p)[Len(open) + 1] = p
          /\ \A i \in 1 .. Len(open) : Append(open, p)[i] = open[i]
      BY <3>2, Appended
    <3> QED BY <3>1, <3>3, <3>4
  <2>6. Advanced \in [1 .. MaxDepth -> FrameRecords]
    BY AdvancedKeepsType DEF ScanInv, FrameArrays, FrameRecords
  <2>7. /\ \A i \in 1 .. Len(open) : frames'[i] = Advanced[i]
        /\ frames'[Len(open) + 1] = KeyFrame(kind = "array", NextKeyBytes)
    BY <2>1, <2>3, <2>6
  <2>8. document'[ChildPath] = [kind |-> kind, members |-> <<>>]
    <3>1. PICK d : d = document'  OBVIOUS
    <3>2. d = Put(ChildPath, kind)  BY <2>1, <3>1
    <3>3. CASE open # <<>>
      <4>1. ReadBelow(d, kind)  BY <2>1, <2>2, <3>2, <3>3, ValueBelow DEF ScanInv
      <4> QED BY <3>1, <4>1 DEF ReadBelow
    <3>4. CASE open = <<>>
      <4>1. DOMAIN document = {} /\ ChildPath = <<>>
        BY <2>1, <3>4, RootText DEF ScanInv
      <4>2. d = Put(<<>>, kind)  BY <3>2, <4>1
      <4>3. d[<<>>] = [kind |-> kind, members |-> <<>>]  BY <2>2, <4>1, <4>2, PutRoot
      <4> QED BY <3>1, <4>1, <4>3
    <3> QED BY <3>3, <3>4
  <2>9. ASSUME NEW i \in 1 .. Len(open') PROVE Describes(frames'[i], document', open'[i])
    <3>1. CASE i = Len(open) + 1
      <4>1. frames'[i] = KeyFrame(kind = "array", KeyBytes(ChildPath))  BY <2>4, <2>7, <3>1
      <4>2. open'[i] = ChildPath  BY <2>5, <3>1
      <4>3. Len(<<>>) = 0  BY EmptySeq
      <4> QED BY <2>8, <4>1, <4>2, <4>3 DEF Describes, KeyFrame
    <3>2. CASE i \in 1 .. Len(open)
      <4>1. PICK d : d = document'  OBVIOUS
      <4>2. Describes(Advanced[i], d, open[i])
        BY <2>1, <2>2, <3>2, <4>1, AdvancedDescribes
      <4>3. frames'[i] = Advanced[i] /\ open'[i] = open[i]  BY <2>5, <2>7, <3>2
      <4> QED BY <4>1, <4>2, <4>3
    <3>3. i = Len(open) + 1 \/ i \in 1 .. Len(open)  BY <2>3, <2>5
    <3> QED BY <3>1, <3>2, <3>3
  <2>10. document'[Last(open')].members = <<>>  BY <2>5, <2>8
  <2> QED BY <2>1, <2>3, <2>5, <2>9, <2>10 DEF FramesAgree
<1>5. CASE Close
  <2>1. open # <<>> /\ pending = <<>> /\ phase = "scan"  BY <1>5, CloseClosesInnermost
  <2>2. /\ open' = Front(open) /\ depth' = depth - 1 /\ previousEventOpenedContainer' = FALSE
        /\ UNCHANGED <<frames, document, pending>>
    BY <1>5 DEF Close
  <2>3. /\ depth = Len(open)
        /\ \A i \in 1 .. Len(open) : Describes(frames[i], document, open[i])
    BY <2>1 DEF ScanInv, FramesAgree
  <2>4. /\ Len(open') = Len(open) - 1 /\ Len(open) \in Nat \ {0}
        /\ \A i \in 1 .. Len(open) - 1 : open'[i] = open[i]
    <3>1. open \in Seq(Seq(Token))  BY DEF ScanInv, TextInv, TextTyped
    <3> QED BY <2>1, <2>2, <3>1, Shortened
  <2>5. open' # <<>> => document[Last(open')].members # <<>>
    <3>1. PICK o : o = open'  OBVIOUS
    <3>2. o = Front(open)  BY <2>2, <3>1
    <3>3. o # <<>> => document[Last(o)].members # <<>>  BY <2>1, <3>2, Parent DEF ScanInv
    <3> QED BY <3>1, <3>3
  <2>6. ASSUME NEW i \in 1 .. Len(open') PROVE Describes(frames'[i], document', open'[i])
    <3>1. i \in 1 .. Len(open) - 1 /\ i \in 1 .. Len(open)  BY <2>4
    <3>2. Describes(frames[i], document, open[i]) /\ open'[i] = open[i]  BY <2>3, <2>4, <3>1
    <3> QED BY <2>2, <3>2
  <2> QED BY <2>1, <2>2, <2>3, <2>4, <2>5, <2>6 DEF FramesAgree
<1>6. CASE UNCHANGED vars  BY <1>1, <1>6 DEF vars
<1>7. ASSUME NEW t \in Texts, FlattenJson(t) PROVE FramesAgree'
  BY <1>1, <1>7 DEF FlattenJson
<1>8. CASE OpenTooDeep \/ Malformed \/ FlattenDocument \/ Pop \/ Step \/ FlattenReturns
  <2>1. phase' \notin {"call", "scan"}
    BY <1>8 DEF OpenTooDeep, Malformed, FlattenDocument, Pop, Step, FlattenReturns, Return
  <2> QED BY <2>1 DEF FramesAgree
<1>9. phase' \notin {"call", "scan"} => FramesAgree'  BY DEF FramesAgree
<1> QED BY <1>2, <1>3, <1>4, <1>5, <1>6, <1>7, <1>8, <1>9 DEF Next, Scan

------------------------------------------------------------------------------
(* The counters are those of the leaves, until one is refused.                 *)

Within(list) == Len(list) <= MaxEntries /\ KeyText(list) <= MaxKeyBytes
Counted ==
  /\ status = "none" <=> phase # "done"
  /\ status \in {"none", "Ok"} => Len(leaves) = entryCount /\ KeyText(leaves) = keyTotal
  /\ status = "TooManyEntries" => Within(Front(leaves)) /\ Len(leaves) = MaxEntries + 1
  /\ status = "KeyTextTooLarge" =>
       /\ Within(Front(leaves)) /\ Len(leaves) <= MaxEntries
       /\ KeyText(leaves) > MaxKeyBytes

LEMMA CountOneMore ==
  ASSUME TypeOK, leaves \in Seq(Seq(Token)), Counted, phase = "scan", NEW p \in Seq(Token),
         CountLeaf(p, KeyBytes(p))
  PROVE  Counted'
<1>1. /\ entryCount \in 0 .. MaxEntries /\ keyTotal \in 0 .. MaxKeyBytes
      /\ MaxEntries \in Nat /\ MaxKeyBytes \in Nat
  BY FlattenAssumption DEF TypeOK
<1>2. status = "none" /\ Len(leaves) = entryCount /\ KeyText(leaves) = keyTotal
  BY DEF Counted
<1>3. Within(leaves)  BY <1>1, <1>2 DEF Within
<1>4. leaves' = Append(leaves, p)  BY DEF CountLeaf
<1>5. KeyBytes(p) \in Nat  BY BytesOfPath
<1>6. Len(leaves') = entryCount + 1 /\ Front(leaves') = leaves
  BY <1>2, <1>4, Appended
<1>7. KeyText(leaves') = keyTotal + KeyBytes(p)  BY <1>2, <1>4, TextOfOneMore
<1>8. CASE CountVerdict(KeyBytes(p)) = "Ok"
  <2>1. /\ entryCount' = entryCount + 1 /\ keyTotal' = keyTotal + KeyBytes(p)
        /\ UNCHANGED <<phase, status>>
    BY <1>8 DEF CountLeaf
  <2> QED BY <1>2, <1>6, <1>7, <2>1 DEF Counted
<1>9. CASE CountVerdict(KeyBytes(p)) # "Ok"
  <2>1. phase' = "done" /\ status' = CountVerdict(KeyBytes(p))
    BY <1>9 DEF CountLeaf, Return
  <2>2. CASE entryCount >= MaxEntries
    <3>1. status' = "TooManyEntries" /\ Len(leaves') = MaxEntries + 1
      BY <1>1, <1>6, <2>1, <2>2 DEF CountVerdict
    <3>2. Within(Front(leaves'))  BY <1>3, <1>6
    <3> QED BY <2>1, <3>1, <3>2 DEF Counted, Within
  <2>3. CASE entryCount < MaxEntries
    <3>1. status' = "KeyTextTooLarge" /\ KeyBytes(p) > MaxKeyBytes - keyTotal
      BY <1>1, <1>5, <1>9, <2>1, <2>3 DEF CountVerdict
    <3>2. KeyText(leaves') > MaxKeyBytes /\ Len(leaves') <= MaxEntries
      BY <1>1, <1>5, <1>6, <1>7, <2>3, <3>1
    <3>3. Within(Front(leaves'))  BY <1>3, <1>6
    <3> QED BY <2>1, <3>1, <3>2, <3>3 DEF Counted, Within
  <2> QED BY <1>1, <2>2, <2>3
<1> QED BY <1>8, <1>9

(* Any other return, or none. *)
LEMMA CountedStays ==
  ASSUME Counted, UNCHANGED <<leaves, entryCount, keyTotal>>,
         \/ phase # "done" /\ phase' # "done" /\ status' = status
         \/ phase # "done" /\ phase' = "done"
              /\ status' \in {"Ok", "ParseError", "DocumentTooLarge", "NestingTooDeep"}
         \/ UNCHANGED <<phase, status>>
  PROVE  Counted'
<1>1. phase # "done" => Len(leaves) = entryCount /\ KeyText(leaves) = keyTotal
  BY DEF Counted
<1>2. Len(leaves') = Len(leaves) /\ KeyText(leaves') = KeyText(leaves)
      /\ Front(leaves') = Front(leaves)
  OBVIOUS
<1>3. CASE phase # "done" /\ phase' = "done"
           /\ status' \in {"Ok", "ParseError", "DocumentTooLarge", "NestingTooDeep"}
  BY <1>1, <1>2, <1>3 DEF Counted
<1>4. CASE phase # "done" /\ phase' # "done" /\ status' = status
  BY <1>1, <1>2, <1>4 DEF Counted
<1>5. CASE UNCHANGED <<phase, status>>
  BY <1>2, <1>5 DEF Counted, Within
<1> QED BY <1>3, <1>4, <1>5

LEMMA StepCounted == ASSUME ScanInv, Counted, [Next]_vars PROVE Counted'
<1>0. TypeOK /\ leaves \in Seq(Seq(Token))  BY DEF ScanInv, TextInv, TextTyped
<1>1. ASSUME NEW kind \in Scalars, Leaf(kind) PROVE Counted'
  <2>1. phase = "scan" /\ AtValue /\ CountLeaf(ChildPath, NextKeyBytes)  BY <1>1 DEF Leaf
  <2>2. ChildPath \in Seq(Token) /\ NextKeyBytes = KeyBytes(ChildPath)
    BY <2>1, NextKeyIsChild
  <2>3. CountLeaf(ChildPath, KeyBytes(ChildPath))  BY <2>1, <2>2
  <2> QED BY <1>0, <2>1, <2>2, <2>3, CountOneMore
<1>2. CASE Close
  <2>1. open # <<>> /\ phase = "scan"  BY <1>2, CloseClosesInnermost
  <2>2. CASE previousEventOpenedContainer
    <3>1. Last(open) \in Seq(Token) /\ Top.prefixBytes = KeyBytes(Last(open))
      BY <2>1, Innermost, TopFrame DEF ScanInv
    <3>2. CountLeaf(Last(open), KeyBytes(Last(open)))  BY <1>2, <2>2, <3>1 DEF Close
    <3> QED BY <1>0, <2>1, <3>1, <3>2, CountOneMore
  <2>3. CASE ~ previousEventOpenedContainer
    <3>1. UNCHANGED <<phase, status, leaves, entryCount, keyTotal>>
      BY <1>2, <2>3 DEF Close
    <3> QED BY <3>1, CountedStays
  <2> QED BY <2>2, <2>3
<1>3. ASSUME NEW n \in Names, Key(n) PROVE Counted'
  <2>1. phase = "scan" /\ UNCHANGED <<leaves, entryCount, keyTotal>>  BY <1>3 DEF Key
  <2>2. \/ phase' = "done" /\ status' = "ParseError"
        \/ UNCHANGED <<phase, status>>
    BY <1>3 DEF Key, Return
  <2> QED BY <2>1, <2>2, CountedStays
<1>4. ASSUME NEW kind \in {"object", "array"}, Open(kind) PROVE Counted'
  <2>1. UNCHANGED <<phase, status, leaves, entryCount, keyTotal>>  BY <1>4 DEF Open
  <2> QED BY <2>1, CountedStays
<1>5. CASE OpenTooDeep \/ Malformed
  <2>1. /\ phase = "scan" /\ phase' = "done" /\ status' \in {"ParseError", "NestingTooDeep"}
        /\ UNCHANGED <<leaves, entryCount, keyTotal>>
    BY <1>5 DEF OpenTooDeep, Malformed, Return, sax, text
  <2> QED BY <2>1, CountedStays
<1>6. ASSUME NEW t \in Texts, FlattenJson(t) PROVE Counted'
  <2>1. phase = "call" /\ UNCHANGED <<leaves, entryCount, keyTotal>>
    BY <1>6 DEF FlattenJson, sax, text
  <2>2. \/ phase' = "done" /\ status' \in {"DocumentTooLarge", "ParseError"}
        \/ phase' = "scan" /\ status' = status
    BY <1>6 DEF FlattenJson, Return, TextCheck
  <2> QED BY <2>1, <2>2, CountedStays
<1>7. CASE FlattenDocument \/ Pop \/ Step \/ FlattenReturns
  <2>1. UNCHANGED <<leaves, entryCount, keyTotal>> /\ phase \in {"scan", "flatten"}
    BY <1>7 DEF FlattenDocument, Pop, Step, FlattenReturns, sax, text
  <2>2. \/ phase' = "done" /\ status' = "Ok"
        \/ phase' = "flatten" /\ status' = status
    BY <1>7 DEF FlattenDocument, Pop, Step, FlattenReturns
  <2> QED BY <2>1, <2>2, CountedStays
<1>8. CASE UNCHANGED vars  BY <1>8, CountedStays DEF vars, sax, text
<1> QED BY <1>1, <1>2, <1>3, <1>4, <1>5, <1>6, <1>7, <1>8 DEF Next, Scan

LEMMA InitScan == ASSUME Init PROVE ScanInv /\ Counted
<1>1. TypeOK /\ TextInv  BY InitIInv, InitText DEF IInv
<1>2. open = <<>> /\ leaves = <<>> /\ depth = 0 /\ pending = <<>> /\ phase = "call"
      /\ status = "none" /\ entryCount = 0 /\ keyTotal = 0
      /\ previousEventOpenedContainer = FALSE /\ Len(<<>>) = 0
  BY EmptySeq DEF Init
<1>3. FramesAgree
  <2>1. Len(open) = 0 /\ \A i \in 1 .. Len(open) : FALSE  BY <1>2
  <2>2. \A i \in 1 .. Len(open) : Describes(frames[i], document, open[i])  BY <2>1
  <2>3. previousEventOpenedContainer
          = (open # <<>> /\ document[Last(open)].members = <<>> /\ pending = <<>>)
    BY <1>2
  <2> QED BY <1>2, <2>1, <2>2, <2>3 DEF FramesAgree
<1>4. Counted  BY <1>2, TextOfNoKeys DEF Counted
<1> QED BY <1>1, <1>3, <1>4 DEF ScanInv

LEMMA StepScan == IInv /\ ScanInv /\ Counted /\ [Next]_vars => (ScanInv /\ Counted)'
<1> SUFFICES ASSUME IInv, ScanInv, Counted, [Next]_vars PROVE (ScanInv /\ Counted)'
  OBVIOUS
<1>1. TypeOK'  BY StepIInv DEF IInv
<1>2. TextInv' /\ FramesAgree' /\ Counted'  BY <1>1, StepText, StepFrames, StepCounted
<1> QED BY <1>1, <1>2 DEF ScanInv

LEMMA FramesFollow == ScanInv => FramesDescribeOpenContainers
<1> SUFFICES ASSUME ScanInv, phase = "scan" PROVE FramesDescribeOpenContainers
  BY DEF FramesDescribeOpenContainers
<1>1. /\ depth = Len(open)
      /\ \A i \in 1 .. Len(open) : Describes(frames[i], document, open[i])
      /\ previousEventOpenedContainer =
           (open # <<>> /\ document[Last(open)].members = <<>> /\ pending = <<>>)
  BY DEF ScanInv, FramesAgree
<1> QED BY <1>1 DEF FramesDescribeOpenContainers, Describes

LEMMA LimitsFollow == ScanInv /\ Counted => LimitsAreExact
<1> SUFFICES ASSUME ScanInv, Counted PROVE LimitsAreExact  OBVIOUS
<1>1. phase = "scan" \/ status = "Ok" => Within(leaves)
  <2>1. entryCount <= MaxEntries /\ keyTotal <= MaxKeyBytes
    BY FlattenAssumption DEF ScanInv, TypeOK
  <2> QED BY <2>1 DEF Counted, Within
<1> QED BY <1>1 DEF LimitsAreExact, Counted, Within

------------------------------------------------------------------------------
(* FlattenDocument walks the finished document with a stack of frames.  Of the  *)
(* walk s with path w: the frames are the way down to the member being walked,  *)
(* and a leaf has been visited when it lies in a member some frame is done with. *)

WalkFrames == [at : Seq(Token), index : Nat, prefixSize : Nat]
Members(d, p) == d[p].members
Tips(d) == {p \in DOMAIN d : Members(d, p) = <<>>}

Walking(d, s, w, k) ==
  /\ k - 1 <= Len(w) /\ s[k].at = SubSeq(w, 1, k - 1) /\ s[k].prefixSize = k - 1
  /\ s[k].at \in DOMAIN d /\ Members(d, s[k].at) # <<>>
  /\ s[k].index \in 0 .. Len(Members(d, s[k].at))
  /\ k < Len(s) => k <= Len(w) /\ s[k].index > 0 /\ Members(d, s[k].at)[s[k].index] = w[k]
Walked(d, s, w) ==
  /\ s \in Seq(WalkFrames) /\ w \in Seq(Token)
  /\ \A k \in 1 .. Len(s) : Walking(d, s, w, k)

Finished(s, k) == IF k = Len(s) THEN s[k].index ELSE s[k].index - 1
Passed(d, s, k, p) ==
  /\ k <= Len(p) /\ SubSeq(p, 1, k - 1) = s[k].at
  /\ \E i \in 1 .. Finished(s, k) : Members(d, s[k].at)[i] = p[k]
Visited(d, s, p) == s = <<>> \/ \E k \in 1 .. Len(s) : Passed(d, s, k, p)
SameVisited(d, s, r) == \A q \in Tips(d) : Visited(d, r, q) <=> Visited(d, s, q)
OneMoreVisited(d, s, r, p) ==
  \A q \in Tips(d) : Visited(d, r, q) <=> q = p \/ Visited(d, s, q)

(* Every path of a document starts at its root. *)
LEMMA RootIsThere ==
  ASSUME NEW d, IsDocument(d), IsTree(d), NEW p \in DOMAIN d
  PROVE  /\ <<>> \in DOMAIN d /\ p \in Seq(Token) /\ Len(p) \in Nat
         /\ p # <<>> => /\ 1 \in 1 .. Len(p) /\ SubSeq(p, 1, 1 - 1) = <<>>
                        /\ HasMember(d, <<>>, p[1])
<1>1. p \in Seq(Token)  BY DEF IsDocument
<1>2. Len(p) \in Nat /\ (p # <<>> => Len(p) # 0) /\ (p = <<>> => Len(p) = 0)
  BY <1>1, EmptySeq, LenProperties
<1>3. CASE p # <<>>
  <2>1. 1 \in 1 .. Len(p)  BY <1>2, <1>3
  <2>2. SubSeq(p, 1, 1 - 1) = <<>>
    <3>1. 1 - 1 = 0 /\ 0 \in 0 .. Len(p)  BY <1>2
    <3>2. SubSeq(p, 1, 0) \in Seq(Token) /\ Len(SubSeq(p, 1, 0)) = 0
      BY <1>1, <3>1, PrefixOf
    <3> QED BY <3>1, <3>2, EmptySeq
  <2>3. SubSeq(p, 1, 1 - 1) \in DOMAIN d /\ HasMember(d, SubSeq(p, 1, 1 - 1), p[1])
    BY <2>1 DEF IsTree
  <2> QED BY <1>1, <1>2, <2>1, <2>2, <2>3
<1> QED BY <1>1, <1>2, <1>3

(* The member the innermost frame comes to next. *)
NextMember(d, s, w, c, t) ==
  /\ c \in DOMAIN d /\ c \in Seq(Token) /\ Len(c) = Len(s) /\ c[Len(s)] = t
  /\ t \in Token /\ Append(SubSeq(w, 1, s[Len(s)].prefixSize), t) = c
  /\ \A k \in 1 .. Len(s) : SubSeq(c, 1, k - 1) = s[k].at
  /\ \A k \in 1 .. Len(s) - 1 : c[k] = Members(d, s[k].at)[s[k].index]
  /\ Members(d, s[Len(s)].at)[s[Len(s)].index + 1] = c[Len(s)]
  /\ Len(s) \in Nat \ {0} /\ s[Len(s)].index \in Nat
  /\ s[Len(s)].index < Len(Members(d, s[Len(s)].at)) /\ Members(d, s[Len(s)].at) \in Seq(Token)

LEMMA NextIsBelow ==
  ASSUME NEW d, IsDocument(d), IsTree(d), NEW s, NEW w, Walked(d, s, w), s # <<>>,
         s[Len(s)].index < Len(Members(d, s[Len(s)].at)),
         NEW t, t = Members(d, s[Len(s)].at)[s[Len(s)].index + 1],
         NEW c, c = Append(s[Len(s)].at, t)
  PROVE  NextMember(d, s, w, c, t)
<1> DEFINE K == Len(s)
           a == s[Len(s)].at
           n == s[Len(s)].index + 1
<1>1. s \in Seq(WalkFrames) /\ w \in Seq(Token) /\ K \in Nat \ {0}
  BY EmptySeq DEF Walked
<1>2. Walking(d, s, w, K) /\ K \in 1 .. Len(s)  BY <1>1 DEF Walked
<1>3. /\ a = SubSeq(w, 1, K - 1) /\ s[K].prefixSize = K - 1 /\ K - 1 <= Len(w)
      /\ a \in DOMAIN d /\ s[K].index \in 0 .. Len(Members(d, a))
  BY <1>2 DEF Walking
<1>4. a \in Seq(Token) /\ Members(d, a) \in Seq(Token) /\ Len(Members(d, a)) \in Nat
  <2>1. a \in Seq(Token) /\ Members(d, a) \in Seq(Token)
    BY <1>3 DEF IsDocument, Elements, Members
  <2> QED BY <2>1, LenProperties
<1>5. n \in 1 .. Len(Members(d, a)) /\ t = Members(d, a)[n]  BY <1>3, <1>4
<1>6. t \in Token  BY <1>4, <1>5, ElementOfSeq
<1>7. c \in DOMAIN d
  <2>1. Append(a, d[a].members[n]) \in DOMAIN d
    BY <1>3, <1>5 DEF IsTree, Members
  <2> QED BY <1>5, <2>1 DEF Members
<1>8. Len(w) \in Nat /\ Len(a) = K - 1 /\ K - 1 \in 0 .. Len(w)
  <2>1. Len(w) \in Nat /\ K - 1 \in 0 .. Len(w)  BY <1>1, <1>3, LenProperties
  <2> HIDE DEF K
  <2>2. Len(SubSeq(w, 1, K - 1)) = K - 1  BY <1>1, <2>1, PrefixOf
  <2> QED BY <1>3, <2>1, <2>2
<1>9. /\ c \in Seq(Token) /\ Len(c) = K /\ c[K] = t
      /\ \A i \in 0 .. K - 1 : SubSeq(c, 1, i) = SubSeq(a, 1, i)
      /\ \A i \in 1 .. K - 1 : c[i] = a[i]
  <2> HIDE DEF a, K
  <2>1. /\ Append(a, t) \in Seq(Token) /\ Len(Append(a, t)) = Len(a) + 1
        /\ Append(a, t)[Len(a) + 1] = t
        /\ \A i \in 1 .. Len(a) : Append(a, t)[i] = a[i]
        /\ \A i \in 0 .. Len(a) : SubSeq(Append(a, t), 1, i) = SubSeq(a, 1, i)
    BY <1>4, <1>6, Appended
  <2>2. c = Append(a, t) /\ Len(a) + 1 = K  BY <1>1, <1>8 DEF a
  <2> QED BY <1>8, <2>1, <2>2
<1>10. \A i \in 0 .. K - 1 : SubSeq(a, 1, i) = SubSeq(w, 1, i)
  <2> HIDE DEF a, K
  <2> QED BY <1>1, <1>3, <1>8, PrefixOfPrefix
<1>11. \A i \in 1 .. K - 1 : a[i] = w[i]
  <2> HIDE DEF a, K
  <2> QED BY <1>1, <1>3, <1>8, PrefixOf
<1>12. ASSUME NEW k \in 1 .. K
       PROVE  /\ SubSeq(c, 1, k - 1) = s[k].at
              /\ k # K => c[k] = Members(d, s[k].at)[s[k].index]
  <2>1. Walking(d, s, w, k)  BY DEF Walked
  <2>2. k - 1 \in 0 .. K - 1  BY <1>1
  <2>3. SubSeq(c, 1, k - 1) = SubSeq(w, 1, k - 1)  BY <1>9, <1>10, <2>2
  <2>4. ASSUME k # K PROVE c[k] = Members(d, s[k].at)[s[k].index]
    <3>1. k < Len(s) /\ k \in 1 .. K - 1  BY <1>1, <2>4
    <3>2. c[k] = w[k]  BY <1>9, <1>11, <3>1
    <3> QED BY <2>1, <3>1, <3>2 DEF Walking
  <2> QED BY <2>1, <2>3, <2>4 DEF Walking
<1>13. Append(SubSeq(w, 1, s[K].prefixSize), t) = c  BY <1>3
<1>14. \A k \in 1 .. K - 1 : k \in 1 .. K /\ k # K  BY <1>1
<1>15. s[K].index \in Nat  BY <1>3, <1>4
<1> QED BY <1>1, <1>4, <1>5, <1>6, <1>7, <1>9, <1>12, <1>13, <1>14, <1>15 DEF NextMember

(* Every leaf passed comes before it. *)
LEMMA PassedIsBefore ==
  ASSUME NEW d, NEW s, NEW w, Walked(d, s, w), NEW c, NEW t, NextMember(d, s, w, c, t),
         IsDocument(d), NEW q \in DOMAIN d, NEW k \in 1 .. Len(s), Passed(d, s, k, q)
  PROVE  Before(d, q, c)
<1> DEFINE a == s[k].at
<1>1. /\ k <= Len(q) /\ SubSeq(q, 1, k - 1) = a /\ Len(s) \in Nat \ {0} /\ Len(c) = Len(s)
      /\ SubSeq(c, 1, k - 1) = a
  BY DEF Passed, NextMember
<1>2. PICK i \in 1 .. Finished(s, k) : Members(d, a)[i] = q[k]  BY DEF Passed
<1>3. a \in DOMAIN d /\ s[k].index \in 0 .. Len(Members(d, a)) /\ Walking(d, s, w, k)
  BY DEF Walked, Walking
<1>4. Len(Members(d, a)) \in Nat
  BY <1>3, LenProperties DEF IsDocument, Elements, Members
<1>5. q \in Seq(Token) /\ Len(q) \in Nat  BY LenProperties DEF IsDocument
<1> DEFINE j == IF k = Len(s) THEN s[k].index + 1 ELSE s[k].index
<1>6. i < j /\ j \in Nat  BY <1>3, <1>4 DEF Finished
<1>7. Members(d, a)[j] = c[k]
  <2>1. CASE k = Len(s)  BY <2>1 DEF NextMember
  <2>2. CASE k # Len(s)
    <3>1. k \in 1 .. Len(s) - 1  BY <1>1, <2>2
    <3> QED BY <2>2, <3>1 DEF NextMember
  <2> QED BY <2>1, <2>2
<1>8. j \in 1 .. Len(Members(d, a))
  <2>1. CASE k = Len(s)
    <3>1. s[k].index < Len(Members(d, a))
      BY <2>1 DEF NextMember
    <3> QED BY <1>3, <1>4, <2>1, <3>1
  <2>2. CASE k # Len(s)  BY <1>2, <1>3, <1>4, <1>6, <2>2
  <2> QED BY <2>1, <2>2
<1> HIDE DEF a, j
<1>9. i \in 1 .. Len(Members(d, a)) /\ k \in 1 .. Len(q) /\ k <= Len(c)
  BY <1>1, <1>4, <1>5, <1>6, <1>8
<1> QED BY <1>1, <1>2, <1>6, <1>7, <1>8, <1>9 DEF Before, Members

(* A frame moved on to its next member. *)
LEMMA FrameAdvanced ==
  ASSUME NEW A, NEW f \in [at : A, index : Nat, prefixSize : Nat]
  PROVE  /\ [f EXCEPT !.index = f.index + 1] \in [at : A, index : Nat, prefixSize : Nat]
         /\ [f EXCEPT !.index = f.index + 1].at = f.at
         /\ [f EXCEPT !.index = f.index + 1].index = f.index + 1
         /\ [f EXCEPT !.index = f.index + 1].prefixSize = f.prefixSize
<1>1. f.index \in Nat  OBVIOUS
<1>2. PICK n \in Nat : n = f.index + 1  BY <1>1
<1>3. [f EXCEPT !.index = n] \in [at : A, index : Nat, prefixSize : Nat]  OBVIOUS
<1>4. /\ [f EXCEPT !.index = n].at = f.at /\ [f EXCEPT !.index = n].index = n
      /\ [f EXCEPT !.index = n].prefixSize = f.prefixSize
  OBVIOUS
<1> QED BY <1>2, <1>3, <1>4

Advances(s, r) == r = [s EXCEPT ![Len(s)].index = @ + 1]

LEMMA AdvancedWalk ==
  ASSUME NEW s \in Seq(WalkFrames), s # <<>>, NEW r, Advances(s, r)
  PROVE  /\ r \in Seq(WalkFrames) /\ r # <<>> /\ Len(r) = Len(s) /\ Len(s) \in Nat \ {0}
         /\ \A k \in 1 .. Len(s) - 1 : r[k] = s[k]
         /\ r[Len(s)].at = s[Len(s)].at /\ r[Len(s)].prefixSize = s[Len(s)].prefixSize
         /\ r[Len(s)].index = s[Len(s)].index + 1
<1>1. Len(s) \in Nat \ {0} /\ Len(s) \in 1 .. Len(s)  BY EmptySeq
<1>2. PICK f \in WalkFrames : f = s[Len(s)]
  <2>1. s[Len(s)] \in WalkFrames  BY <1>1, ElementOfSeq
  <2> QED BY <2>1
<1> DEFINE e == [f EXCEPT !.index = f.index + 1]
<1>3. /\ e \in WalkFrames /\ e.at = f.at /\ e.prefixSize = f.prefixSize
      /\ e.index = f.index + 1
  <2>1. f \in [at : Seq(Token), index : Nat, prefixSize : Nat]  BY DEF WalkFrames
  <2>2. /\ e \in [at : Seq(Token), index : Nat, prefixSize : Nat]
        /\ e.at = f.at /\ e.prefixSize = f.prefixSize /\ e.index = f.index + 1
    BY ONLY <2>1, FrameAdvanced
  <2> QED BY <2>2 DEF WalkFrames
<1>4. r = [s EXCEPT ![Len(s)] = e]  BY <1>2 DEF Advances
<1> HIDE DEF e
<1>5. /\ r \in Seq(WalkFrames) /\ Len(r) = Len(s) /\ r[Len(s)] = e
      /\ \A k \in 1 .. Len(s) : k # Len(s) => r[k] = s[k]
  BY <1>1, <1>3, <1>4, ExceptSeq
<1>6. r # <<>>  BY <1>1, <1>5, EmptySeq
<1> QED BY <1>1, <1>2, <1>3, <1>5, <1>6

(* A leaf below the innermost frame. *)
LEMMA LeafWalked ==
  ASSUME NEW d, IsDocument(d), IsTree(d), NEW s, NEW w, Walked(d, s, w), s # <<>>,
         NEW c, NEW t, NextMember(d, s, w, c, t), NEW r, r = [s EXCEPT ![Len(s)].index = @ + 1]
  PROVE  Walked(d, r, c)
<1>1. s \in Seq(WalkFrames)  BY DEF Walked
<1>2. /\ r \in Seq(WalkFrames) /\ Len(r) = Len(s) /\ Len(s) \in Nat \ {0}
      /\ \A k \in 1 .. Len(s) - 1 : r[k] = s[k]
      /\ r[Len(s)].at = s[Len(s)].at /\ r[Len(s)].prefixSize = s[Len(s)].prefixSize
      /\ r[Len(s)].index = s[Len(s)].index + 1
  <2>1. s # <<>> /\ Advances(s, r)  BY DEF Advances
  <2> QED BY ONLY <1>1, <2>1, AdvancedWalk
<1>3. /\ c \in Seq(Token) /\ Len(c) = Len(s)
      /\ \A k \in 1 .. Len(s) : SubSeq(c, 1, k - 1) = s[k].at
      /\ \A k \in 1 .. Len(s) - 1 : c[k] = Members(d, s[k].at)[s[k].index]
      /\ s[Len(s)].index \in Nat /\ s[Len(s)].index < Len(Members(d, s[Len(s)].at))
      /\ Len(Members(d, s[Len(s)].at)) \in Nat
  BY LenProperties DEF NextMember
<1> SUFFICES ASSUME NEW k \in 1 .. Len(r) PROVE Walking(d, r, c, k)
  BY <1>2, <1>3 DEF Walked
<1>4. k \in 1 .. Len(s) /\ Walking(d, s, w, k)  BY <1>2 DEF Walked
<1>5. r[k].at = s[k].at /\ r[k].prefixSize = s[k].prefixSize
  <2>1. k \in 1 .. Len(s) - 1 \/ k = Len(s)  BY <1>2, <1>4
  <2> QED BY <1>2, <2>1
<1>6. /\ k - 1 <= Len(c) /\ r[k].at = SubSeq(c, 1, k - 1) /\ r[k].prefixSize = k - 1
      /\ r[k].at \in DOMAIN d /\ Members(d, r[k].at) # <<>>
  <2>1. k - 1 <= Len(c)  BY <1>2, <1>3, <1>4
  <2> QED BY <1>3, <1>4, <1>5, <2>1 DEF Walking
<1>7. r[k].index \in 0 .. Len(Members(d, r[k].at))
  <2>1. CASE k = Len(s)
    <3>1. s[k].index + 1 \in 0 .. Len(Members(d, s[k].at))  BY <1>3, <2>1
    <3> QED BY <1>2, <1>5, <2>1, <3>1
  <2>2. CASE k # Len(s)
    <3>1. r[k] = s[k]  BY <1>2, <1>4, <2>2
    <3> QED BY <1>4, <3>1 DEF Walking
  <2> QED BY <2>1, <2>2
<1>8. k < Len(r) => k <= Len(c) /\ r[k].index > 0 /\ Members(d, r[k].at)[r[k].index] = c[k]
  <2> SUFFICES ASSUME k < Len(r)
               PROVE  k <= Len(c) /\ r[k].index > 0 /\ Members(d, r[k].at)[r[k].index] = c[k]
    OBVIOUS
  <2>1. k \in 1 .. Len(s) - 1 /\ k < Len(s) /\ k <= Len(c)  BY <1>2, <1>3, <1>4
  <2>2. r[k] = s[k] /\ s[k].index > 0  BY <1>2, <1>4, <2>1 DEF Walking
  <2> QED BY <1>3, <2>1, <2>2
<1> QED BY <1>6, <1>7, <1>8 DEF Walking

LEMMA LeafVisited ==
  ASSUME NEW d, IsDocument(d), IsTree(d), NEW s, NEW w, Walked(d, s, w), s # <<>>,
         NEW c, NEW t, NextMember(d, s, w, c, t), Members(d, c) = <<>>,
         NEW r, r = [s EXCEPT ![Len(s)].index = @ + 1]
  PROVE  OneMoreVisited(d, s, r, c)
<1> SUFFICES ASSUME NEW q \in DOMAIN d
             PROVE  Visited(d, r, q) <=> q = c \/ Visited(d, s, q)
  BY DEF OneMoreVisited, Tips
<1>1. s \in Seq(WalkFrames)  BY DEF Walked
<1>2. /\ r # <<>> /\ Len(r) = Len(s) /\ Len(s) \in Nat \ {0}
      /\ \A k \in 1 .. Len(s) - 1 : r[k] = s[k]
      /\ r[Len(s)].at = s[Len(s)].at /\ r[Len(s)].index = s[Len(s)].index + 1
  <2>1. s # <<>> /\ Advances(s, r)  BY DEF Advances
  <2> QED BY ONLY <1>1, <2>1, AdvancedWalk
<1>3. /\ c \in DOMAIN d /\ c \in Seq(Token) /\ Len(c) = Len(s) /\ c[Len(s)] = t
      /\ SubSeq(c, 1, Len(s) - 1) = s[Len(s)].at
      /\ Members(d, s[Len(s)].at)[s[Len(s)].index + 1] = t /\ s[Len(s)].index \in Nat
  <2>1. Len(s) \in 1 .. Len(s)  BY <1>2
  <2> QED BY <2>1 DEF NextMember
<1>4. q \in Seq(Token) /\ Len(q) \in Nat  BY LenProperties DEF IsDocument
<1>5. \A k \in 1 .. Len(s) - 1 : Passed(d, r, k, q) <=> Passed(d, s, k, q)
  <2> SUFFICES ASSUME NEW k \in 1 .. Len(s) - 1
               PROVE  Passed(d, r, k, q) <=> Passed(d, s, k, q)
    OBVIOUS
  <2>1. r[k] = s[k] /\ k # Len(s) /\ Finished(r, k) = Finished(s, k)
    BY <1>2 DEF Finished
  <2> QED BY <2>1 DEF Passed
<1>6. ASSUME Passed(d, r, Len(s), q), ~ Passed(d, s, Len(s), q) PROVE q = c
  <2>1. /\ Len(s) <= Len(q) /\ SubSeq(q, 1, Len(s) - 1) = s[Len(s)].at
    BY <1>2, <1>6 DEF Passed
  <2>2. PICK i \in 1 .. s[Len(s)].index + 1 : Members(d, s[Len(s)].at)[i] = q[Len(s)]
    BY <1>2, <1>6 DEF Passed, Finished
  <2>3. i \notin 1 .. s[Len(s)].index  BY <1>6, <2>1, <2>2 DEF Passed, Finished
  <2>4. i = s[Len(s)].index + 1  BY <1>3, <2>3
  <2>5. q[Len(s)] = t  BY <1>3, <2>2, <2>4
  <2>6. Len(s) \in 1 .. Len(q) /\ Len(s) \in 1 .. Len(c)  BY <1>2, <1>3, <1>4, <2>1
  <2>7. SubSeq(q, 1, Len(s)) = Append(SubSeq(q, 1, Len(s) - 1), t)
    BY <1>4, <2>5, <2>6, PrefixGrows
  <2>8. SubSeq(c, 1, Len(s)) = Append(SubSeq(c, 1, Len(s) - 1), t)
    BY <1>3, <2>6, PrefixGrows
  <2>9. SubSeq(c, 1, Len(s)) = c  BY <1>3, PrefixWhole
  <2>10. SubSeq(q, 1, Len(s)) = c  BY <1>3, <2>1, <2>7, <2>8, <2>9
  <2>11. Len(q) = Len(s)
    <3> SUFFICES ASSUME Len(q) # Len(s) PROVE FALSE  OBVIOUS
    <3>1. Len(s) + 1 \in 1 .. Len(q) /\ (Len(s) + 1) - 1 = Len(s)  BY <1>2, <1>4, <2>1
    <3>2. HasMember(d, SubSeq(q, 1, (Len(s) + 1) - 1), q[Len(s) + 1])
      BY <3>1 DEF IsTree
    <3>3. HasMember(d, c, q[Len(s) + 1])  BY <2>10, <3>1, <3>2
    <3>4. Len(<<>>) = 0  BY EmptySeq
    <3> QED BY <3>3, <3>4 DEF HasMember, Members
  <2> QED BY <1>4, <2>10, <2>11, PrefixWhole
<1>7. Passed(d, s, Len(s), q) => Passed(d, r, Len(s), q)
  BY <1>2, <1>3 DEF Passed, Finished
<1>8. Passed(d, r, Len(s), c)
  <2>1. Finished(r, Len(s)) = s[Len(s)].index + 1  BY <1>2 DEF Finished
  <2>2. s[Len(s)].index + 1 \in 1 .. s[Len(s)].index + 1  BY <1>3
  <2>3. Len(s) <= Len(c)  BY <1>2, <1>3
  <2> QED BY <1>2, <1>3, <2>1, <2>2, <2>3 DEF Passed
<1>9. \A k \in 1 .. Len(s) : k \in 1 .. Len(s) - 1 \/ k = Len(s)  BY <1>2
<1>10. Len(s) \in 1 .. Len(s) /\ \A k \in 1 .. Len(s) - 1 : k \in 1 .. Len(s)  BY <1>2
<1>11. Visited(d, r, q) <=> \E k \in 1 .. Len(s) : Passed(d, r, k, q)  BY <1>2 DEF Visited
<1>12. Visited(d, s, q) <=> \E k \in 1 .. Len(s) : Passed(d, s, k, q)  BY DEF Visited
<1>13. ASSUME Visited(d, r, q) PROVE q = c \/ Visited(d, s, q)
  <2>1. PICK k \in 1 .. Len(s) : Passed(d, r, k, q)  BY <1>11, <1>13
  <2>2. CASE k = Len(s)  BY <1>6, <1>10, <1>12, <2>1, <2>2
  <2>3. CASE k \in 1 .. Len(s) - 1  BY <1>5, <1>12, <2>1, <2>3
  <2> QED BY <1>9, <2>2, <2>3
<1>14. ASSUME Visited(d, s, q) PROVE Visited(d, r, q)
  <2>1. PICK k \in 1 .. Len(s) : Passed(d, s, k, q)  BY <1>12, <1>14
  <2>2. CASE k = Len(s)  BY <1>7, <1>10, <1>11, <2>1, <2>2
  <2>3. CASE k \in 1 .. Len(s) - 1  BY <1>5, <1>11, <2>1, <2>3
  <2> QED BY <1>9, <2>2, <2>3
<1>15. q = c => Visited(d, r, q)  BY <1>8, <1>10, <1>11
<1> QED BY <1>13, <1>14, <1>15

(* A container below the innermost frame, which is not empty. *)
IsPushed(s, f, u) ==
  /\ u \in Seq(WalkFrames) /\ u # <<>> /\ Len(u) = Len(s) + 1 /\ Len(s) \in Nat \ {0}
  /\ u[Len(s) + 1] = f
  /\ \A k \in 1 .. Len(s) - 1 : u[k] = s[k]
  /\ u[Len(s)] = [s EXCEPT ![Len(s)].index = @ + 1][Len(s)]
  /\ u[Len(s)].at = s[Len(s)].at /\ u[Len(s)].prefixSize = s[Len(s)].prefixSize
  /\ u[Len(s)].index = s[Len(s)].index + 1

LEMMA Pushed ==
  ASSUME NEW s \in Seq(WalkFrames), s # <<>>, NEW f \in WalkFrames,
         NEW u, u = Append([s EXCEPT ![Len(s)].index = @ + 1], f)
  PROVE  IsPushed(s, f, u)
<1>1. PICK r : r = [s EXCEPT ![Len(s)].index = @ + 1]  OBVIOUS
<1>2. /\ r \in Seq(WalkFrames) /\ Len(r) = Len(s) /\ Len(s) \in Nat \ {0}
      /\ \A k \in 1 .. Len(s) - 1 : r[k] = s[k]
      /\ r[Len(s)].at = s[Len(s)].at /\ r[Len(s)].prefixSize = s[Len(s)].prefixSize
      /\ r[Len(s)].index = s[Len(s)].index + 1
  <2>1. s # <<>> /\ Advances(s, r)  BY <1>1 DEF Advances
  <2> QED BY <2>1, AdvancedWalk
<1>3. u = Append(r, f)  BY <1>1
<1>4. /\ u \in Seq(WalkFrames) /\ u # <<>> /\ Len(u) = Len(r) + 1 /\ u[Len(r) + 1] = f
      /\ \A k \in 1 .. Len(r) : u[k] = r[k]
  <2>1. r \in Seq(WalkFrames)  BY <1>2
  <2>2. /\ Append(r, f) \in Seq(WalkFrames) /\ Append(r, f) # <<>>
        /\ Len(Append(r, f)) = Len(r) + 1 /\ Append(r, f)[Len(r) + 1] = f
        /\ \A k \in 1 .. Len(r) : Append(r, f)[k] = r[k]
    BY <2>1, Appended
  <2> QED BY <1>3, <2>2
<1>5. Len(s) \in 1 .. Len(r) /\ \A k \in 1 .. Len(s) - 1 : k \in 1 .. Len(r)  BY <1>2
<1> QED BY <1>1, <1>2, <1>4, <1>5 DEF IsPushed

LEMMA PushWalked ==
  ASSUME NEW d, IsDocument(d), IsTree(d), NEW s, NEW w, Walked(d, s, w), s # <<>>,
         NEW c, NEW t, NextMember(d, s, w, c, t), Members(d, c) # <<>>,
         NEW f \in WalkFrames, f.at = c, f.index = 0, f.prefixSize = Len(c),
         NEW u, u = Append([s EXCEPT ![Len(s)].index = @ + 1], f)
  PROVE  Walked(d, u, c)
<1>1. s \in Seq(WalkFrames)  BY DEF Walked
<1>2. /\ c \in DOMAIN d /\ c \in Seq(Token) /\ Len(c) = Len(s)
      /\ Members(d, s[Len(s)].at)[s[Len(s)].index + 1] = c[Len(s)] /\ s[Len(s)].index \in Nat
      /\ Members(d, c) \in Seq(Token) /\ Len(Members(d, c)) \in Nat /\ Len(c) \in Nat
  <2>1. /\ c \in DOMAIN d /\ c \in Seq(Token) /\ Len(c) = Len(s)
        /\ Members(d, s[Len(s)].at)[s[Len(s)].index + 1] = c[Len(s)] /\ s[Len(s)].index \in Nat
    BY DEF NextMember
  <2>2. Members(d, c) \in Seq(Token)  BY <2>1 DEF IsDocument, Elements, Members
  <2> QED BY <2>1, <2>2, LenProperties
<1>4. PICK r : r = [s EXCEPT ![Len(s)].index = @ + 1]  OBVIOUS
<1>5. /\ u \in Seq(WalkFrames) /\ Len(u) = Len(s) + 1 /\ Len(s) \in Nat \ {0}
      /\ u[Len(s) + 1] = f
      /\ \A k \in 1 .. Len(s) - 1 : u[k] = s[k]
      /\ u[Len(s)].at = s[Len(s)].at /\ u[Len(s)].index = s[Len(s)].index + 1
      /\ u[Len(s)] = r[Len(s)]
  <2>1. IsPushed(s, f, u)  BY <1>1, Pushed
  <2> QED BY <1>4, <2>1 DEF IsPushed
<1>6. /\ Len(r) = Len(s) /\ \A k \in 1 .. Len(s) - 1 : r[k] = s[k]
  <2>1. s # <<>> /\ Advances(s, r)  BY <1>1, <1>4 DEF Advances
  <2>2. s \in Seq(WalkFrames)  BY <1>1
  <2> QED BY <2>1, <2>2, AdvancedWalk
<1>7. Walked(d, r, c)  BY <1>4, LeafWalked
<1> SUFFICES ASSUME NEW k \in 1 .. Len(u) PROVE Walking(d, u, c, k)
  BY <1>2, <1>5 DEF Walked
<1>8. CASE k = Len(s) + 1
  <2>1. k - 1 = Len(c) /\ ~ (k < Len(u)) /\ u[k] = f  BY <1>2, <1>5, <1>8
  <2>2. SubSeq(c, 1, k - 1) = c  BY <1>2, <2>1, PrefixWhole
  <2>3. k - 1 <= Len(c)  BY <1>2, <2>1
  <2>4. 0 \in 0 .. Len(Members(d, c))  BY <1>2
  <2> QED BY <1>2, <2>1, <2>2, <2>3, <2>4 DEF Walking
<1>9. CASE k = Len(s)
  <2>1. Walking(d, r, c, k) /\ u[k] = r[k]  BY <1>5, <1>6, <1>7, <1>9 DEF Walked
  <2>2. k <= Len(c) /\ u[k].index > 0 /\ Members(d, u[k].at)[u[k].index] = c[k]
    BY <1>2, <1>5, <1>9
  <2> QED BY <2>1, <2>2 DEF Walking
<1>10. CASE k \in 1 .. Len(s) - 1
  <2>1. k \in 1 .. Len(r) /\ k < Len(r) /\ u[k] = r[k]  BY <1>5, <1>6, <1>10
  <2>2. Walking(d, r, c, k)  BY <1>7, <2>1 DEF Walked
  <2> QED BY <2>1, <2>2 DEF Walking
<1>11. k = Len(s) + 1 \/ k = Len(s) \/ k \in 1 .. Len(s) - 1  BY <1>5
<1> QED BY <1>8, <1>9, <1>10, <1>11

LEMMA PushVisited ==
  ASSUME NEW d, NEW s \in Seq(WalkFrames), s # <<>>, NEW f \in WalkFrames, f.index = 0,
         NEW u, u = Append([s EXCEPT ![Len(s)].index = @ + 1], f)
  PROVE  SameVisited(d, s, u)
<1> SUFFICES ASSUME NEW q PROVE Visited(d, u, q) <=> Visited(d, s, q)  BY DEF SameVisited
<1>1. /\ u # <<>> /\ Len(u) = Len(s) + 1 /\ Len(s) \in Nat \ {0} /\ u[Len(s) + 1] = f
      /\ \A k \in 1 .. Len(s) - 1 : u[k] = s[k]
      /\ u[Len(s)].at = s[Len(s)].at /\ u[Len(s)].index = s[Len(s)].index + 1
  BY Pushed DEF IsPushed
<1>2. s[Len(s)].index \in Nat
  <2>1. s[Len(s)] \in WalkFrames  BY <1>1, ElementOfSeq
  <2> QED BY <2>1 DEF WalkFrames
<1>3. \A k \in 1 .. Len(s) : Passed(d, u, k, q) <=> Passed(d, s, k, q)
  <2> SUFFICES ASSUME NEW k \in 1 .. Len(s) PROVE Passed(d, u, k, q) <=> Passed(d, s, k, q)
    OBVIOUS
  <2>1. u[k].at = s[k].at /\ Finished(u, k) = Finished(s, k)
    <3>1. CASE k = Len(s)
      <4>1. Finished(u, k) = (s[k].index + 1) - 1 /\ Finished(s, k) = s[k].index
        BY <1>1, <3>1 DEF Finished
      <4> QED BY <1>1, <1>2, <3>1, <4>1
    <3>2. CASE k # Len(s)
      <4>1. k \in 1 .. Len(s) - 1 /\ k # Len(u)  BY <1>1, <3>2
      <4> QED BY <1>1, <3>2, <4>1 DEF Finished
    <3> QED BY <3>1, <3>2
  <2> QED BY <2>1 DEF Passed
<1>4. ~ Passed(d, u, Len(s) + 1, q)
  <2>1. Finished(u, Len(s) + 1) = 0  BY <1>1 DEF Finished
  <2> QED BY <2>1 DEF Passed
<1>5. \A k : k \in 1 .. Len(u) <=> k \in 1 .. Len(s) \/ k = Len(s) + 1  BY <1>1
<1> QED BY <1>1, <1>3, <1>4, <1>5 DEF Visited

(* A frame done with is left. *)
LEMMA PopWalked ==
  ASSUME NEW d, NEW s, NEW w, Walked(d, s, w), s # <<>>, NEW r, r = Front(s)
  PROVE  /\ Walked(d, r, w) /\ Len(r) = Len(s) - 1 /\ Len(s) \in Nat \ {0}
         /\ \A k \in 1 .. Len(s) - 1 : r[k] = s[k]
<1>1. s \in Seq(WalkFrames) /\ w \in Seq(Token)  BY DEF Walked
<1>2. /\ r \in Seq(WalkFrames) /\ Len(r) = Len(s) - 1 /\ Len(s) \in Nat \ {0}
      /\ \A k \in 1 .. Len(s) - 1 : r[k] = s[k]
  BY <1>1, Shortened
<1>3. ASSUME NEW k \in 1 .. Len(r) PROVE Walking(d, r, w, k)
  <2>1. k \in 1 .. Len(s) - 1 /\ k \in 1 .. Len(s) /\ k < Len(s)  BY <1>2
  <2>2. Walking(d, s, w, k) /\ r[k] = s[k]  BY <1>2, <2>1 DEF Walked
  <2> QED BY <2>1, <2>2 DEF Walking
<1> QED BY <1>1, <1>2, <1>3 DEF Walked

LEMMA PopVisited ==
  ASSUME NEW d, IsDocument(d), IsTree(d), NEW s, NEW w, Walked(d, s, w), s # <<>>,
         s[Len(s)].index = Len(Members(d, s[Len(s)].at)), NEW r, r = Front(s)
  PROVE  SameVisited(d, s, r)
<1> SUFFICES ASSUME NEW q \in Tips(d) PROVE Visited(d, r, q) <=> Visited(d, s, q)
  BY DEF SameVisited
<1> DEFINE K == Len(s)
           a == s[Len(s)].at
<1>1. /\ Walked(d, r, w) /\ Len(r) = K - 1 /\ K \in Nat \ {0}
      /\ \A k \in 1 .. K - 1 : r[k] = s[k]
  BY PopWalked
<1>2. q \in DOMAIN d /\ q \in Seq(Token) /\ Len(q) \in Nat /\ Members(d, q) = <<>>
  BY LenProperties DEF Tips, IsDocument
<1>3. /\ K - 1 <= Len(w) /\ a = SubSeq(w, 1, K - 1) /\ a \in DOMAIN d
      /\ Members(d, a) # <<>> /\ s[K].index = Len(Members(d, a))
  <2>1. Walking(d, s, w, K)  BY <1>1 DEF Walked
  <2> QED BY <2>1 DEF Walking
<1>4. w \in Seq(Token) /\ Len(w) \in Nat  BY LenProperties DEF Walked
<1>5. Finished(s, K) = Len(Members(d, a))  BY <1>3 DEF Finished
<1>6. s[K].at = a  OBVIOUS
<1>7. ASSUME NEW n \in 1 .. Len(q), n = K, SubSeq(q, 1, n - 1) = a PROVE Passed(d, s, K, q)
  <2>1. HasMember(d, a, q[K])  BY <1>2, <1>7 DEF IsTree
  <2>2. \E i \in 1 .. Finished(s, K) : Members(d, a)[i] = q[K]
    BY <1>5, <2>1 DEF HasMember, Members
  <2>3. K <= Len(q)  BY <1>2, <1>7
  <2> HIDE DEF K, a
  <2> QED BY <1>6, <1>7, <2>2, <2>3 DEF Passed
<1>8. CASE K = 1
  <2>1. r = <<>>
    <3>1. r \in Seq(WalkFrames) /\ Len(r) = 0  BY <1>1, <1>8 DEF Walked
    <3> QED BY <3>1, EmptySeq
  <2>2. a = <<>>
    <3>1. SubSeq(w, 1, 0) \in Seq(Token) /\ Len(SubSeq(w, 1, 0)) = 0  BY <1>4, PrefixOf
    <3>2. a = SubSeq(w, 1, 0)  BY <1>3, <1>8
    <3> QED BY <3>1, <3>2, EmptySeq
  <2>3. q # <<>>  BY <1>2, <1>3, <2>2
  <2>4. 1 \in 1 .. Len(q) /\ SubSeq(q, 1, 1 - 1) = <<>>  BY <1>2, <2>3, RootIsThere
  <2>5. Passed(d, s, K, q)  BY <1>7, <1>8, <2>2, <2>4
  <2> QED BY <1>1, <2>1, <2>5 DEF Visited
<1>9. CASE K # 1
  <2> DEFINE J == K - 1
  <2>1. J \in 1 .. K - 1 /\ J \in 1 .. K /\ K \in 1 .. K /\ J < K /\ J \in 0 .. Len(w)
    BY <1>1, <1>3, <1>4, <1>9
  <2>2. r # <<>>
    <3>1. Len(<<>>) = 0  BY EmptySeq
    <3> QED BY <1>1, <1>9, <3>1
  <2>3. /\ s[J].at = SubSeq(w, 1, J - 1) /\ J <= Len(w) /\ s[J].index > 0
        /\ s[J].index \in Nat /\ Members(d, s[J].at)[s[J].index] = w[J]
    <3>1. Walking(d, s, w, J)  BY <2>1 DEF Walked
    <3>2. Len(Members(d, s[J].at)) \in Nat
      BY <3>1, LenProperties DEF Walking, IsDocument, Elements, Members
    <3> QED BY <2>1, <3>1, <3>2 DEF Walking
  <2>4. /\ Finished(r, J) = s[J].index /\ Finished(s, J) = s[J].index - 1 /\ r[J] = s[J]
    BY <1>1, <2>1 DEF Finished
  <2>5. a = Append(SubSeq(w, 1, J - 1), w[J]) /\ a = SubSeq(w, 1, J)
    <3>1. a = SubSeq(w, 1, J)  BY <1>3
    <3>2. J \in 1 .. Len(w)  BY <1>4, <2>1
    <3> HIDE DEF a, J
    <3> QED BY <1>4, <3>1, <3>2, PrefixGrows
  <2> HIDE DEF K, J, a
  <2>6. Passed(d, s, J, q) => Passed(d, r, J, q)
    <3>1. \A i \in 1 .. s[J].index - 1 : i \in 1 .. s[J].index  BY <2>3
    <3> QED BY <2>4, <3>1 DEF Passed
  <2>7. ASSUME Passed(d, s, K, q) PROVE Passed(d, r, J, q)
    <3>1. K <= Len(q) /\ SubSeq(q, 1, K - 1) = a  BY <1>6, <2>7 DEF Passed
    <3>2. J <= Len(q) /\ J \in 1 .. Len(q) /\ K - 1 = J /\ J \in 0 .. Len(q)
          /\ J - 1 \in 0 .. J
      BY <1>1, <1>2, <2>1, <3>1 DEF J
    <3>3. SubSeq(q, 1, J) = a  BY <3>1, <3>2
    <3>4. SubSeq(a, 1, J - 1) = SubSeq(q, 1, J - 1) /\ a[J] = q[J]
      <4>1. SubSeq(SubSeq(q, 1, J), 1, J - 1) = SubSeq(q, 1, J - 1)
        BY <1>2, <3>2, PrefixOfPrefix
      <4>2. SubSeq(q, 1, J)[J] = q[J]
        <5>1. \A i \in 1 .. J : SubSeq(q, 1, J)[i] = q[i]  BY <1>2, <3>2, PrefixOf
        <5>2. J \in 1 .. J  BY <2>1
        <5> QED BY <5>1, <5>2
      <4> QED BY <3>3, <4>1, <4>2
    <3>5. SubSeq(a, 1, J - 1) = SubSeq(w, 1, J - 1) /\ a[J] = w[J]
      <4>1. SubSeq(SubSeq(w, 1, J), 1, J - 1) = SubSeq(w, 1, J - 1)
        BY <1>4, <2>1, <3>2, PrefixOfPrefix
      <4>2. \A i \in 1 .. J : SubSeq(w, 1, J)[i] = w[i]  BY <1>4, <2>1, PrefixOf
      <4>3. J \in 1 .. J  BY <2>1
      <4> QED BY <2>5, <4>1, <4>2, <4>3
    <3>6. s[J].index \in 1 .. Finished(r, J)  BY <2>3, <2>4
    <3> QED BY <2>3, <2>4, <3>2, <3>4, <3>5, <3>6 DEF Passed
  <2>8. ASSUME Passed(d, r, J, q), ~ Passed(d, s, J, q) PROVE Passed(d, s, K, q)
    <3>1. J <= Len(q) /\ SubSeq(q, 1, J - 1) = s[J].at  BY <2>4, <2>8 DEF Passed
    <3>2. PICK i \in 1 .. s[J].index : Members(d, s[J].at)[i] = q[J]
      BY <2>4, <2>8 DEF Passed
    <3>3. i \notin 1 .. s[J].index - 1  BY <2>4, <2>8, <3>1, <3>2 DEF Passed
    <3>4. i = s[J].index  BY <2>3, <3>3
    <3>5. q[J] = w[J]  BY <2>3, <3>2, <3>4
    <3>6. J \in 1 .. Len(q)  BY <1>2, <2>1, <3>1
    <3>7. SubSeq(q, 1, J) = Append(SubSeq(q, 1, J - 1), q[J])  BY <1>2, <3>6, PrefixGrows
    <3>8. SubSeq(q, 1, J) = a  BY <2>3, <2>5, <3>1, <3>5, <3>7
    <3>9. Len(q) # J
      <4> SUFFICES ASSUME Len(q) = J PROVE FALSE  OBVIOUS
      <4>1. q = a  BY <1>2, <3>8, PrefixWhole
      <4> QED BY <1>2, <1>3, <4>1
    <3>10. K \in 1 .. Len(q) /\ K - 1 = J  BY <1>1, <1>2, <3>1, <3>9 DEF J
    <3> QED BY <1>7, <3>8, <3>10
  <2>9. \A k \in 1 .. J - 1 : Passed(d, r, k, q) <=> Passed(d, s, k, q)
    <3> SUFFICES ASSUME NEW k \in 1 .. J - 1 PROVE Passed(d, r, k, q) <=> Passed(d, s, k, q)
      OBVIOUS
    <3>1. k \in 1 .. K - 1 /\ k # J /\ k # K  BY <1>1, <2>1 DEF J
    <3>2. r[k] = s[k]  BY <1>1, <3>1
    <3>3. Len(r) = J /\ Len(s) = K  BY <1>1 DEF J, K
    <3>4. Finished(r, k) = Finished(s, k)  BY <3>1, <3>2, <3>3 DEF Finished
    <3> QED BY <3>2, <3>4 DEF Passed
  <2>10. /\ \A k : k \in 1 .. Len(r) <=> k \in 1 .. J - 1 \/ k = J
         /\ \A k : k \in 1 .. Len(s) <=> k \in 1 .. J - 1 \/ k = J \/ k = K
    <3>1. Len(r) = J /\ Len(s) = K /\ J \in Nat \ {0} /\ K = J + 1
      BY <1>1, <2>1 DEF J, K
    <3> QED BY <3>1
  <2>11. Visited(d, r, q) <=> \E k \in 1 .. Len(r) : Passed(d, r, k, q)  BY <2>2 DEF Visited
  <2>12. Visited(d, s, q) <=> \E k \in 1 .. Len(s) : Passed(d, s, k, q)  BY DEF Visited
  <2>13. ASSUME Visited(d, r, q) PROVE Visited(d, s, q)
    <3>1. PICK k \in 1 .. Len(r) : Passed(d, r, k, q)  BY <2>11, <2>13
    <3>2. CASE k \in 1 .. J - 1  BY <2>9, <2>10, <2>12, <3>1, <3>2
    <3>3. CASE k = J  BY <2>8, <2>10, <2>12, <3>1, <3>3
    <3> QED BY <2>10, <3>2, <3>3
  <2>14. ASSUME Visited(d, s, q) PROVE Visited(d, r, q)
    <3>1. PICK k \in 1 .. Len(s) : Passed(d, s, k, q)  BY <2>12, <2>14
    <3>2. CASE k \in 1 .. J - 1  BY <2>9, <2>10, <2>11, <3>1, <3>2
    <3>3. CASE k = J  BY <2>6, <2>10, <2>11, <3>1, <3>3
    <3>4. CASE k = K  BY <2>7, <2>10, <2>11, <3>1, <3>4
    <3> QED BY <2>10, <3>2, <3>3, <3>4
  <2> QED BY <2>13, <2>14
<1> QED BY <1>8, <1>9

------------------------------------------------------------------------------
(* The entries are the leaves visited, in document order.                      *)

EntryRecords == [key : Seq(Token), value : Kinds]
Listed(d, s, e) ==
  /\ e \in Seq(EntryRecords)
  /\ \A q \in Tips(d) : Visited(d, s, q) => \E i \in 1 .. Len(e) : e[i].key = q
  /\ \A i \in 1 .. Len(e) : /\ e[i].key \in Tips(d) /\ Visited(d, s, e[i].key)
                            /\ e[i].value = d[e[i].key].kind
  /\ \A i, j \in 1 .. Len(e) : i < j => Before(d, e[i].key, e[j].key)

WalkInv ==
  /\ phase \in {"call", "scan"} => stack = <<>> /\ path = <<>> /\ entries = <<>>
  /\ phase = "flatten" \/ status = "Ok" =>
       /\ open = <<>> /\ <<>> \in DOMAIN document
       /\ Walked(document, stack, path) /\ Listed(document, stack, entries)
  /\ status = "Ok" => stack = <<>>

LEMMA SameList ==
  ASSUME NEW d, NEW s, NEW r, NEW e, Listed(d, s, e), SameVisited(d, s, r)
  PROVE  Listed(d, r, e)
BY DEF Listed, SameVisited

LEMMA OneMoreEntry ==
  ASSUME NEW d, IsDocument(d), NEW s, NEW r, NEW e, Listed(d, s, e), NEW c \in Tips(d),
         OneMoreVisited(d, s, r, c),
         \A q \in Tips(d) : Visited(d, s, q) => Before(d, q, c),
         NEW x, x = [key |-> c, value |-> d[c].kind], NEW f, f = Append(e, x)
  PROVE  Listed(d, r, f)
<1>1. c \in DOMAIN d  BY DEF Tips
<1>2. c \in Seq(Token) /\ d[c].kind \in Kinds  BY <1>1 DEF IsDocument, Elements
<1>3. x \in EntryRecords /\ x.key = c /\ x.value = d[c].kind
  BY <1>2 DEF EntryRecords
<1>4. e \in Seq(EntryRecords)  BY DEF Listed
<1>5. /\ f \in Seq(EntryRecords) /\ Len(f) = Len(e) + 1 /\ Len(e) \in Nat
      /\ f[Len(e) + 1] = x /\ \A i \in 1 .. Len(e) : f[i] = e[i]
  BY <1>3, <1>4, Appended
<1>6. \A i \in 1 .. Len(f) : i \in 1 .. Len(e) \/ i = Len(e) + 1  BY <1>5
<1>7. Len(e) + 1 \in 1 .. Len(f) /\ \A i \in 1 .. Len(e) : i \in 1 .. Len(f)  BY <1>5
<1>8. \A i \in 1 .. Len(e) : /\ e[i].key \in Tips(d) /\ Visited(d, s, e[i].key)
                             /\ e[i].value = d[e[i].key].kind
  BY DEF Listed
<1>9. ASSUME NEW q \in Tips(d), Visited(d, r, q) PROVE \E i \in 1 .. Len(f) : f[i].key = q
  <2>1. CASE q = c  BY <1>3, <1>5, <1>7, <2>1
  <2>2. CASE q # c
    <3>1. Visited(d, s, q)  BY <1>9, <2>2 DEF OneMoreVisited
    <3>2. PICK i \in 1 .. Len(e) : e[i].key = q  BY <3>1 DEF Listed
    <3>3. i \in 1 .. Len(f) /\ f[i].key = q  BY <1>5, <1>7, <3>2
    <3> QED BY <3>3
  <2> QED BY <2>1, <2>2
<1>10. ASSUME NEW i \in 1 .. Len(f)
       PROVE  /\ f[i].key \in Tips(d) /\ Visited(d, r, f[i].key)
              /\ f[i].value = d[f[i].key].kind
  <2>1. CASE i \in 1 .. Len(e)  BY <1>5, <1>8, <2>1 DEF OneMoreVisited
  <2>2. CASE i = Len(e) + 1  BY <1>3, <1>5, <2>2 DEF OneMoreVisited
  <2> QED BY <1>6, <2>1, <2>2
<1>11. ASSUME NEW i \in 1 .. Len(f), NEW j \in 1 .. Len(f), i < j
       PROVE  Before(d, f[i].key, f[j].key)
  <2>1. i \in 1 .. Len(e)  BY <1>5, <1>11
  <2>2. CASE j \in 1 .. Len(e)
    <3>1. Before(d, e[i].key, e[j].key)  BY <1>11, <2>1, <2>2 DEF Listed
    <3> QED BY <1>5, <2>1, <2>2, <3>1
  <2>3. CASE j = Len(e) + 1
    <3>1. Before(d, e[i].key, c)  BY <1>8, <2>1
    <3>2. f[i].key = e[i].key /\ f[j].key = c  BY <1>3, <1>5, <2>1, <2>3
    <3> QED BY <3>1, <3>2
  <2> QED BY <1>6, <2>2, <2>3
<1> QED BY <1>5, <1>9, <1>10, <1>11 DEF Listed

LEMMA WalkBegins ==
  ASSUME TextInv, Counted, WalkInv, FlattenDocument PROVE WalkInv'
<1>1. /\ phase = "scan" /\ phase' = "flatten" /\ UNCHANGED <<status, open, document, path>>
      /\ open = <<>> /\ DOMAIN document # {}
  BY DEF FlattenDocument, text, AtEnd
<1>2. stack = <<>> /\ path = <<>> /\ entries = <<>> /\ status' # "Ok"
  BY <1>1 DEF WalkInv, Counted
<1>3. IsDocument(document) /\ IsTree(document)  BY DEF TextInv
<1>4. <<>> \in DOMAIN document /\ \A q \in DOMAIN document :
                                    q # <<>> => HasMember(document, <<>>, q[1])
  BY <1>1, <1>3, RootIsThere
<1>5. PICK root \in Seq(Token) : root = <<>> /\ Len(root) = 0
  BY EmptySeq
<1>6. /\ root \in DOMAIN document /\ document[root].kind \in Kinds
      /\ Members(document, root) \in Seq(Token) /\ Len(Members(document, root)) \in Nat
  <2>1. /\ root \in DOMAIN document /\ document[root].kind \in Kinds
        /\ Members(document, root) \in Seq(Token)
    BY <1>3, <1>4, <1>5 DEF IsDocument, Elements, Members
  <2> QED BY <2>1, LenProperties
<1>7. CASE IsNonEmptyContainer(<<>>)
  <2>1. stack' = <<[at |-> root, index |-> 0, prefixSize |-> 0]>> /\ entries' = <<>>
    BY <1>2, <1>5, <1>7 DEF FlattenDocument, Frame
  <2>2. PICK s : s = stack'  OBVIOUS
  <2>3. /\ s \in Seq(WalkFrames) /\ Len(s) = 1 /\ s[1].at = root /\ s[1].index = 0
        /\ s[1].prefixSize = 0 /\ s # <<>>
    <3>1. PICK f : f = [at |-> root, index |-> 0, prefixSize |-> 0]  OBVIOUS
    <3>2. f \in WalkFrames /\ f.at = root /\ f.index = 0 /\ f.prefixSize = 0
      BY <3>1 DEF WalkFrames
    <3>3. s = <<f>>  BY <2>1, <2>2, <3>1
    <3> QED BY <3>2, <3>3
  <2>4. Members(document, root) # <<>>
    BY <1>5, <1>7 DEF IsNonEmptyContainer, Members
  <2>5. Walking(document, s, root, 1)
    <3>1. SubSeq(root, 1, 1 - 1) = root  BY <1>5, SubSeqEmpty
    <3> QED BY <1>5, <1>6, <2>3, <2>4, <3>1 DEF Walking
  <2>6. Walked(document, s, root)
    <3>1. \A k \in 1 .. Len(s) : k = 1  BY <2>3
    <3> QED BY <2>3, <2>5, <3>1 DEF Walked
  <2>7. ASSUME NEW q \in Tips(document) PROVE ~ Visited(document, s, q)
    <3>1. \A k \in 1 .. Len(s) : Finished(s, k) = 0  BY <2>3 DEF Finished
    <3> QED BY <2>3, <3>1 DEF Visited, Passed
  <2>8. Listed(document, s, <<>>)
    <3>1. <<>> \in Seq(EntryRecords) /\ Len(<<>>) = 0  BY EmptySeq
    <3> QED BY <2>7, <3>1 DEF Listed
  <2> QED BY <1>1, <1>2, <1>4, <1>5, <2>1, <2>2, <2>6, <2>8 DEF WalkInv
<1>8. CASE ~ IsNonEmptyContainer(<<>>)
  <2>1. stack' = <<>> /\ entries' = <<[key |-> root, value |-> document[root].kind]>>
    BY <1>2, <1>5, <1>8 DEF FlattenDocument, Entry
  <2>2. Members(document, root) = <<>>
    BY <1>5, <1>8 DEF IsNonEmptyContainer, Members
  <2>3. \A q : q \in Tips(document) <=> q = root
    <3>1. Len(<<>>) = 0  BY EmptySeq
    <3>2. \A q \in DOMAIN document : q = root
      BY <1>4, <1>5, <2>2, <3>1 DEF HasMember, Members
    <3> QED BY <1>6, <2>2, <3>2 DEF Tips
  <2>4. \A q : Visited(document, <<>>, q)  BY DEF Visited
  <2>5. PICK x : x = [key |-> root, value |-> document[root].kind]  OBVIOUS
  <2>6. x \in EntryRecords /\ x.key = root /\ x.value = document[root].kind
    BY <1>6, <2>5 DEF EntryRecords
  <2>7. PICK e : e = <<x>>  OBVIOUS
  <2>8. e \in Seq(EntryRecords) /\ Len(e) = 1 /\ e[1] = x  BY <2>6, <2>7
  <2>9. \A i \in 1 .. Len(e) : i = 1  BY <2>8
  <2>10. \A i, j \in 1 .. Len(e) : ~ (i < j)  BY <2>9
  <2>11. 1 \in 1 .. Len(e)  BY <2>8
  <2>12. Listed(document, <<>>, e)
    BY <2>3, <2>4, <2>6, <2>8, <2>9, <2>10, <2>11 DEF Listed
  <2>13. Walked(document, <<>>, <<>>)
    <3>1. <<>> \in Seq(WalkFrames) /\ <<>> \in Seq(Token) /\ Len(<<>>) = 0  BY EmptySeq
    <3> QED BY <3>1 DEF Walked
  <2> QED BY <1>1, <1>2, <1>4, <2>1, <2>5, <2>7, <2>12, <2>13 DEF WalkInv
<1> QED BY <1>7, <1>8

LEMMA WalkPops == ASSUME TextInv, Counted, WalkInv, Pop PROVE WalkInv'
<1>1. /\ phase = "flatten" /\ phase' = "flatten" /\ stack # <<>> /\ stack' = Front(stack)
      /\ UNCHANGED <<status, open, document, path, entries>>
  BY DEF Pop, text
<1>2. /\ open = <<>> /\ <<>> \in DOMAIN document
      /\ Walked(document, stack, path) /\ Listed(document, stack, entries) /\ status # "Ok"
  BY <1>1 DEF WalkInv, Counted
<1>3. IsDocument(document) /\ IsTree(document)  BY DEF TextInv
<1>4. stack[Len(stack)].index = Len(Members(document, stack[Len(stack)].at))
  BY DEF Pop, Last, Members
<1>5. PICK r : r = stack'  OBVIOUS
<1>6. r = Front(stack)  BY <1>1, <1>5
<1>7. Walked(document, r, path)  BY <1>1, <1>2, <1>6, PopWalked
<1>8. SameVisited(document, stack, r)
  BY <1>1, <1>2, <1>3, <1>4, <1>6, PopVisited
<1>9. Listed(document, r, entries)  BY <1>2, <1>8, SameList
<1> QED BY <1>1, <1>2, <1>5, <1>7, <1>9 DEF WalkInv

LEMMA WalkSteps == ASSUME TextInv, Counted, WalkInv, Step PROVE WalkInv'
<1>1. /\ phase = "flatten" /\ phase' = "flatten" /\ stack # <<>>
      /\ UNCHANGED <<status, open, document>>
  BY DEF Step, text
<1>2. /\ open = <<>> /\ <<>> \in DOMAIN document
      /\ Walked(document, stack, path) /\ Listed(document, stack, entries) /\ status # "Ok"
  BY <1>1 DEF WalkInv, Counted
<1>3. IsDocument(document) /\ IsTree(document)  BY DEF TextInv
<1>4. PICK t : t = Members(document, stack[Len(stack)].at)[stack[Len(stack)].index + 1]
  OBVIOUS
<1>5. PICK c : c = Append(stack[Len(stack)].at, t)  OBVIOUS
<1>6. PICK r : r = [stack EXCEPT ![Len(stack)].index = @ + 1]  OBVIOUS
<1>7. /\ stack[Len(stack)].index < Len(Members(document, stack[Len(stack)].at))
      /\ path' = Append(SubSeq(path, 1, stack[Len(stack)].prefixSize), t)
      /\ \/ /\ IsNonEmptyContainer(c)
            /\ stack' = Append(r, Frame(c, Len(path'))) /\ entries' = entries
         \/ /\ ~ IsNonEmptyContainer(c)
            /\ stack' = r /\ entries' = Append(entries, Entry(path', c))
  BY <1>4, <1>5, <1>6 DEF Step, Last, Members, Resized
<1>8. NextMember(document, stack, path, c, t)
  BY <1>1, <1>2, <1>3, <1>4, <1>5, <1>7, NextIsBelow
<1>9. path' = c /\ c \in DOMAIN document /\ c \in Seq(Token)  BY <1>7, <1>8 DEF NextMember
<1>10. CASE IsNonEmptyContainer(c)
  <2>1. Members(document, c) # <<>>  BY <1>10 DEF IsNonEmptyContainer, Members
  <2>2. PICK f : f = [at |-> c, index |-> 0, prefixSize |-> Len(c)]  OBVIOUS
  <2>3. f \in WalkFrames /\ f.at = c /\ f.index = 0 /\ f.prefixSize = Len(c)
    <3>1. Len(c) \in Nat  BY <1>9, LenProperties
    <3> QED BY <1>9, <2>2, <3>1 DEF WalkFrames
  <2>4. PICK u : u = stack'  OBVIOUS
  <2>5. u = Append([stack EXCEPT ![Len(stack)].index = @ + 1], f) /\ entries' = entries
    BY <1>6, <1>7, <1>9, <1>10, <2>2, <2>4 DEF Frame
  <2>6. Walked(document, u, c)
    BY <1>1, <1>2, <1>3, <1>8, <2>1, <2>3, <2>5, PushWalked
  <2>7. SameVisited(document, stack, u)
    <3>1. stack \in Seq(WalkFrames)  BY <1>2 DEF Walked
    <3> QED BY <1>1, <2>3, <2>5, <3>1, PushVisited
  <2>8. Listed(document, u, entries)  BY <1>2, <2>7, SameList
  <2> QED BY <1>1, <1>2, <1>9, <2>4, <2>5, <2>6, <2>8 DEF WalkInv
<1>11. CASE ~ IsNonEmptyContainer(c)
  <2>1. Members(document, c) = <<>>  BY <1>11 DEF IsNonEmptyContainer, Members
  <2>2. c \in Tips(document)  BY <1>9, <2>1 DEF Tips
  <2>3. PICK x : x = [key |-> c, value |-> document[c].kind]  OBVIOUS
  <2>4. PICK e : e = Append(entries, x)  OBVIOUS
  <2>5. stack' = r /\ entries' = e  BY <1>7, <1>9, <1>11, <2>3, <2>4 DEF Entry
  <2>6. Walked(document, r, c)  BY <1>1, <1>2, <1>3, <1>6, <1>8, LeafWalked
  <2>7. OneMoreVisited(document, stack, r, c)
    BY <1>1, <1>2, <1>3, <1>6, <1>8, <2>1, LeafVisited
  <2>8. ASSUME NEW q \in Tips(document), Visited(document, stack, q)
        PROVE  Before(document, q, c)
    <3>1. q \in DOMAIN document  BY DEF Tips
    <3>2. PICK k \in 1 .. Len(stack) : Passed(document, stack, k, q)
      BY <1>1, <2>8 DEF Visited
    <3> QED BY <1>2, <1>3, <1>8, <3>1, <3>2, PassedIsBefore
  <2>9. Listed(document, r, e)
    BY <1>2, <1>3, <2>2, <2>3, <2>4, <2>7, <2>8, OneMoreEntry
  <2> QED BY <1>1, <1>2, <1>9, <2>5, <2>6, <2>9 DEF WalkInv
<1> QED BY <1>10, <1>11

LEMMA StepWalk == ASSUME TextInv, Counted, WalkInv, [Next]_vars PROVE WalkInv'
<1>1. CASE Scan \/ \E t \in Texts : FlattenJson(t)
  <2>1. phase \in {"call", "scan"} /\ UNCHANGED walk
    BY <1>1 DEF Scan, Key, Leaf, Open, OpenTooDeep, Close, Malformed, FlattenJson
  <2>2. status = "none"  BY <2>1 DEF Counted
  <2>3. phase' \in {"scan", "done"} /\ status' # "Ok"
    <3>1. ASSUME NEW p, NEW b, CountLeaf(p, b), phase = "scan"
          PROVE  phase' \in {"scan", "done"} /\ status' # "Ok"
      BY <2>2, <3>1 DEF CountLeaf, Return
    <3>2. CASE \E kind \in Scalars : Leaf(kind)  BY <3>1, <3>2 DEF Leaf
    <3>3. CASE Close  BY <2>2, <3>1, <3>3 DEF Close
    <3>4. CASE \E t \in Texts : FlattenJson(t)
      BY <2>2, <3>4 DEF FlattenJson, Return
    <3>5. CASE (\E n \in Names : Key(n)) \/ (\E kind \in {"object", "array"} : Open(kind))
               \/ OpenTooDeep \/ Malformed
      BY <2>2, <3>5 DEF Key, Open, OpenTooDeep, Malformed, Return
    <3> QED BY <1>1, <3>2, <3>3, <3>4, <3>5 DEF Scan
  <2> QED BY <2>1, <2>3 DEF WalkInv, walk
<1>2. CASE FlattenDocument  BY <1>2, WalkBegins
<1>3. CASE Pop  BY <1>3, WalkPops
<1>4. CASE Step  BY <1>4, WalkSteps
<1>5. CASE FlattenReturns
  <2>1. /\ phase = "flatten" /\ stack = <<>> /\ phase' = "done" /\ status' = "Ok"
        /\ UNCHANGED <<open, document, stack, path, entries>>
    BY <1>5 DEF FlattenReturns, text, walk
  <2> QED BY <2>1 DEF WalkInv
<1>6. CASE UNCHANGED vars  BY <1>6 DEF vars, text, walk, WalkInv
<1> QED BY <1>1, <1>2, <1>3, <1>4, <1>5, <1>6 DEF Next

LEMMA EntriesFollow == TextInv /\ WalkInv => EntriesAreTheLeavesInOrder
<1> SUFFICES ASSUME TextInv, WalkInv, status = "Ok" PROVE EntriesAreTheLeavesInOrder
  BY DEF EntriesAreTheLeavesInOrder
<1>1. Listed(document, <<>>, entries)  BY DEF WalkInv
<1>2. DOMAIN entries = 1 .. Len(entries)  BY <1>1, LenProperties DEF Listed
<1>3. {entries[i].key : i \in DOMAIN entries} = Tips(document)
  <2>1. \A q \in Tips(document) : \E i \in 1 .. Len(entries) : entries[i].key = q
    BY <1>1 DEF Listed, Visited
  <2>2. \A i \in 1 .. Len(entries) : entries[i].key \in Tips(document)  BY <1>1 DEF Listed
  <2> QED BY <1>2, <2>1, <2>2
<1>4. \A i \in DOMAIN entries : /\ entries[i].value = document[entries[i].key].kind
                                /\ entries[i].key \in DOMAIN document
  BY <1>1, <1>2 DEF Listed, Tips
<1>5. ASSUME NEW i \in DOMAIN entries, NEW j \in DOMAIN entries, i < j
      PROVE  Precedes(entries[i].key, entries[j].key)
  <2>1. Before(document, entries[i].key, entries[j].key)  BY <1>1, <1>2, <1>5 DEF Listed
  <2> DEFINE p == entries[i].key
             q == entries[j].key
  <2>2. PICK n \in 1 .. Len(p) :
          /\ n <= Len(q) /\ SubSeq(p, 1, n - 1) = SubSeq(q, 1, n - 1)
          /\ \E k, m \in 1 .. Len(document[SubSeq(p, 1, n - 1)].members) :
               /\ k < m
               /\ document[SubSeq(p, 1, n - 1)].members[k] = p[n]
               /\ document[SubSeq(p, 1, n - 1)].members[m] = q[n]
    BY <2>1 DEF Before
  <2>3. p \in DOMAIN document  BY <1>4
  <2>4. SubSeq(p, 1, n - 1) \in DOMAIN document  BY <2>3 DEF TextInv, IsTree
  <2> DEFINE m == document[SubSeq(p, 1, n - 1)].members
  <2>5. DOMAIN m = 1 .. Len(m)
    <3>1. m \in Seq(Token)  BY <2>4 DEF TextInv, IsDocument, Elements
    <3> HIDE DEF m
    <3> QED BY <3>1, LenProperties
  <2> QED BY <2>2, <2>5 DEF Precedes
<1> QED BY <1>3, <1>4, <1>5 DEF EntriesAreTheLeavesInOrder, Tips, Members

------------------------------------------------------------------------------
(* What is listed against what was counted.                                    *)

(* Document order is strict. *)
LEMMA BeforeIsStrict ==
  ASSUME NEW d, IsDocument(d), IsTree(d), NEW p \in DOMAIN d, NEW q \in DOMAIN d,
         Before(d, p, q)
  PROVE  ~ Before(d, q, p)
<1> SUFFICES ASSUME Before(d, q, p) PROVE FALSE  OBVIOUS
<1>1. p \in Seq(Token) /\ q \in Seq(Token) /\ Len(p) \in Nat /\ Len(q) \in Nat
  BY LenProperties DEF IsDocument
<1>2. PICK n \in 1 .. Len(p) :
        /\ n <= Len(q) /\ SubSeq(p, 1, n - 1) = SubSeq(q, 1, n - 1)
        /\ \E i, j \in 1 .. Len(d[SubSeq(p, 1, n - 1)].members) :
             /\ i < j
             /\ d[SubSeq(p, 1, n - 1)].members[i] = p[n]
             /\ d[SubSeq(p, 1, n - 1)].members[j] = q[n]
  BY DEF Before
<1>3. PICK m \in 1 .. Len(q) :
        /\ m <= Len(p) /\ SubSeq(q, 1, m - 1) = SubSeq(p, 1, m - 1)
        /\ \E i, j \in 1 .. Len(d[SubSeq(q, 1, m - 1)].members) :
             /\ i < j
             /\ d[SubSeq(q, 1, m - 1)].members[i] = q[m]
             /\ d[SubSeq(q, 1, m - 1)].members[j] = p[m]
  BY DEF Before
<1>4. PICK a : a = SubSeq(p, 1, n - 1)  OBVIOUS
<1>5. PICK b : b = SubSeq(q, 1, m - 1)  OBVIOUS
<1>6. a \in DOMAIN d /\ b \in DOMAIN d  BY <1>4, <1>5 DEF IsTree
<1>7. /\ \A i, j \in 1 .. Len(d[a].members) : d[a].members[i] = d[a].members[j] => i = j
      /\ \A i, j \in 1 .. Len(d[b].members) : d[b].members[i] = d[b].members[j] => i = j
  BY <1>6 DEF IsTree
<1>8. PICK i \in 1 .. Len(d[a].members), j \in 1 .. Len(d[a].members) :
        i < j /\ d[a].members[i] = p[n] /\ d[a].members[j] = q[n]
  BY <1>2, <1>4
<1>9. PICK f \in 1 .. Len(d[b].members), g \in 1 .. Len(d[b].members) :
        f < g /\ d[b].members[f] = q[m] /\ d[b].members[g] = p[m]
  BY <1>3, <1>5
<1>10. Len(d[a].members) \in Nat /\ Len(d[b].members) \in Nat
  BY <1>6, LenProperties DEF IsDocument, Elements
<1>11. p[n] # q[n] /\ p[m] # q[m]
  <2>1. i # j /\ f # g  BY <1>8, <1>9, <1>10
  <2> QED BY <1>7, <1>8, <1>9, <2>1
<1>12. CASE n = m
  <2>1. a = b  BY <1>2, <1>4, <1>5, <1>12
  <2>2. d[a].members[g] = d[a].members[i] /\ d[a].members[f] = d[a].members[j]
    BY <1>8, <1>9, <1>12, <2>1
  <2>3. g = i /\ f = j  BY <1>7, <2>1, <2>2
  <2> QED BY <1>8, <1>9, <1>10, <2>3
<1>13. CASE n < m
  <2>0. n \in Nat /\ 1 <= n /\ m \in Nat /\ m <= Len(p) /\ m <= Len(q) /\ Len(p) \in Nat /\ Len(q) \in Nat
    <3>1. n \in 1 .. Len(p) /\ m \in 1 .. Len(q) /\ m <= Len(p)  BY <1>3
    <3> QED BY ONLY <1>1, <3>1
  <2>1. n \in 1 .. m - 1 /\ m - 1 \in 0 .. Len(p) /\ m - 1 \in 0 .. Len(q)
    BY ONLY <1>13, <2>0
  <2>2. SubSeq(p, 1, m - 1)[n] = p[n]  BY <1>1, <2>1, PrefixOf
  <2>3. SubSeq(q, 1, m - 1)[n] = q[n]  BY <1>1, <2>1, PrefixOf
  <2> QED BY <1>3, <1>11, <2>2, <2>3
<1>14. CASE m < n
  <2>0. m \in Nat /\ 1 <= m /\ n \in Nat /\ n <= Len(p) /\ n <= Len(q) /\ Len(p) \in Nat /\ Len(q) \in Nat
    <3>1. n \in 1 .. Len(p) /\ m \in 1 .. Len(q) /\ n <= Len(q)  BY <1>2
    <3> QED BY ONLY <1>1, <3>1
  <2>1. m \in 1 .. n - 1 /\ n - 1 \in 0 .. Len(p) /\ n - 1 \in 0 .. Len(q)
    BY ONLY <1>14, <2>0
  <2>2. SubSeq(p, 1, n - 1)[m] = p[m]  BY <1>1, <2>1, PrefixOf
  <2>3. SubSeq(q, 1, n - 1)[m] = q[m]  BY <1>1, <2>1, PrefixOf
  <2> QED BY <1>2, <1>11, <2>2, <2>3
<1> QED BY <1>12, <1>13, <1>14

(* Two listings of the same elements in the same strict order R are one. *)
InOrder(R, u) == \A i, j \in 1 .. Len(u) : i < j => <<u[i], u[j]>> \in R
Holds(u, v) == \A i \in 1 .. Len(u) : \E j \in 1 .. Len(v) : v[j] = u[i]

LEMMA NotEarlier ==
  ASSUME NEW R, \A p, q : <<p, q>> \in R => <<q, p>> \notin R,
         NEW u, NEW v, InOrder(R, u), Holds(u, v), NEW n \in 1 .. Len(u),
         Len(u) \in Nat, Len(v) \in Nat,
         \A k \in 1 .. n - 1 : k \in 1 .. Len(v) /\ v[k] = u[k]
  PROVE  \E j \in 1 .. Len(v) : v[j] = u[n] /\ j >= n
<1>1. PICK j \in 1 .. Len(v) : v[j] = u[n]  BY DEF Holds
<1>2. CASE j < n
  <2>1. j \in 1 .. n - 1 /\ j \in 1 .. Len(u)  BY <1>2
  <2>2. u[j] = u[n]  BY <1>1, <2>1
  <2>3. <<u[j], u[n]>> \in R  BY <1>2, <2>1 DEF InOrder
  <2> QED BY <2>2, <2>3
<1> QED BY <1>1, <1>2

LEMMA OrderIsUnique ==
  ASSUME NEW R, \A p, q : <<p, q>> \in R => <<q, p>> \notin R,
         NEW S, NEW u \in Seq(S), NEW v \in Seq(S), InOrder(R, u), InOrder(R, v),
         Holds(u, v), Holds(v, u)
  PROVE  u = v
<1>1. Len(u) \in Nat /\ Len(v) \in Nat  BY LenProperties
<1> DEFINE Same(n) == n \in 1 .. Len(u) /\ n \in 1 .. Len(v) /\ u[n] = v[n]
           differ == {n \in Nat \ {0} : (n <= Len(u) \/ n <= Len(v)) /\ ~ Same(n)}
<1>2. differ = {}
  <2> SUFFICES ASSUME differ # {} PROVE FALSE  OBVIOUS
  <2>1. differ \in SUBSET Nat  OBVIOUS
  <2>2. PICK n \in differ : \A k \in differ : n <= k
    <3> HIDE DEF differ
    <3> QED BY <2>1, LeastNumber
  <2>3. n \in Nat \ {0} /\ (n <= Len(u) \/ n <= Len(v)) /\ ~ Same(n)  OBVIOUS
  <2>4. \A k \in 1 .. n - 1 : k \in 1 .. Len(u) /\ k \in 1 .. Len(v) /\ u[k] = v[k]
    <3> SUFFICES ASSUME NEW k \in 1 .. n - 1 PROVE Same(k)  OBVIOUS
    <3>1. k \in Nat \ {0} /\ ~ (n <= k) /\ (k <= Len(u) \/ k <= Len(v))  BY <1>1, <2>3
    <3>2. k \notin differ  BY <2>2, <3>1
    <3> QED BY <3>1, <3>2
  <2> HIDE DEF differ
  <2>5. n <= Len(u) => \E j \in 1 .. Len(v) : v[j] = u[n] /\ j >= n
    <3> SUFFICES ASSUME n <= Len(u) PROVE \E j \in 1 .. Len(v) : v[j] = u[n] /\ j >= n
      OBVIOUS
    <3>1. n \in 1 .. Len(u)  BY <1>1, <2>3
    <3>2. \A k \in 1 .. n - 1 : k \in 1 .. Len(v) /\ v[k] = u[k]  BY <2>4
    <3> QED BY <1>1, <3>1, <3>2, NotEarlier
  <2>6. n <= Len(v) => \E j \in 1 .. Len(u) : u[j] = v[n] /\ j >= n
    <3> SUFFICES ASSUME n <= Len(v) PROVE \E j \in 1 .. Len(u) : u[j] = v[n] /\ j >= n
      OBVIOUS
    <3>1. n \in 1 .. Len(v)  BY <1>1, <2>3
    <3>2. \A k \in 1 .. n - 1 : k \in 1 .. Len(u) /\ u[k] = v[k]  BY <2>4
    <3> QED BY <1>1, <3>1, <3>2, NotEarlier
  <2>7. n \in 1 .. Len(u) /\ n \in 1 .. Len(v)  BY <1>1, <2>3, <2>5, <2>6
  <2>8. u[n] # v[n]  BY <2>3, <2>7
  <2>9. PICK j \in 1 .. Len(v) : v[j] = u[n] /\ j >= n  BY <1>1, <2>5, <2>7
  <2>10. PICK k \in 1 .. Len(u) : u[k] = v[n] /\ k >= n  BY <1>1, <2>6, <2>7
  <2>11. n < j /\ n < k  BY <1>1, <2>7, <2>8, <2>9, <2>10
  <2>12. <<v[n], v[j]>> \in R /\ <<u[n], u[k]>> \in R  BY <2>7, <2>11 DEF InOrder
  <2>13. <<v[n], u[n]>> \in R /\ <<u[n], v[n]>> \in R  BY <2>9, <2>10, <2>12
  <2> QED BY <2>13
<1>3. \A n \in Nat \ {0} : n <= Len(u) \/ n <= Len(v) => Same(n)  BY <1>2
<1>4. Len(u) = Len(v)
  <2>1. Len(u) # 0 => Len(u) <= Len(v)  BY <1>1, <1>3
  <2>2. Len(v) # 0 => Len(v) <= Len(u)  BY <1>1, <1>3
  <2> QED BY <1>1, <2>1, <2>2
<1>5. \A n \in 1 .. Len(u) : u[n] = v[n]  BY <1>1, <1>3
<1> QED BY <1>4, <1>5, SeqEqual

LEMMA TextOfRemoved ==
  ASSUME NEW list \in Seq(Seq(Token)), NEW rest \in Seq(Seq(Token)), NEW k \in 1 .. Len(list),
         Len(list) = Len(rest) + 1,
         \A i \in 1 .. Len(rest) : rest[i] = IF i < k THEN list[i] ELSE list[i + 1]
  PROVE  KeyText(list) = KeyText(rest) + KeyBytes(list[k])
<1> DEFINE v == [i \in DOMAIN list |-> KeyBytes(list[i])]
           w == [i \in DOMAIN rest |-> KeyBytes(rest[i])]
<1>1. /\ Len(list) \in Nat /\ DOMAIN list = 1 .. Len(list)
      /\ Len(rest) \in Nat /\ DOMAIN rest = 1 .. Len(rest)
  BY LenProperties
<1>2. v \in Seq(Nat) /\ Len(v) = Len(list) /\ w \in Seq(Nat) /\ Len(w) = Len(rest)
  BY TextOfKeys
<1>3. /\ \A i \in 1 .. Len(list) : v[i] = KeyBytes(list[i])
      /\ \A i \in 1 .. Len(rest) : w[i] = KeyBytes(rest[i])
  BY <1>1
<1>4. KeyText(list) = Total(v) /\ KeyText(rest) = Total(w)  BY DEF KeyText
<1> HIDE DEF v, w
<1>5. \A i \in 1 .. Len(w) : w[i] = IF i < k THEN v[i] ELSE v[i + 1]
  <2> SUFFICES ASSUME NEW i \in 1 .. Len(rest)
               PROVE  w[i] = IF i < k THEN v[i] ELSE v[i + 1]
    BY <1>2
  <2>1. i \in 1 .. Len(list) /\ i + 1 \in 1 .. Len(list)  BY <1>1
  <2>2. rest[i] = IF i < k THEN list[i] ELSE list[i + 1]  OBVIOUS
  <2> QED BY <1>3, <2>1, <2>2
<1>6. k \in 1 .. Len(v) /\ Len(v) = Len(w) + 1  BY <1>2
<1>7. Total(v) = Total(w) + v[k]  BY <1>2, <1>5, <1>6, TotalRemove
<1> QED BY <1>3, <1>4, <1>7

(* A list of distinct keys that are all in another list is no longer than it. *)
Distinct(u) == \A i, j \in 1 .. Len(u) : u[i] = u[j] => i = j
Fits(u, v) == Len(u) <= Len(v) /\ KeyText(u) <= KeyText(v)
Lists == Seq(Seq(Token))

LEMMA RemoveOne ==
  ASSUME NEW u \in Lists, NEW v \in Lists, Distinct(u), Holds(u, v), u # <<>>
  PROVE  \E a \in Lists, b \in Lists :
           /\ Len(u) = Len(a) + 1 /\ Distinct(a) /\ Holds(a, b)
           /\ Fits(a, b) => Fits(u, v)
<1>1. Len(u) \in Nat \ {0} /\ Len(v) \in Nat /\ Len(u) \in 1 .. Len(u)
  BY EmptySeq, LenProperties DEF Lists
<1> DEFINE a == Front(u)
           x == u[Len(u)]
<1>2. /\ a \in Lists /\ Len(a) = Len(u) - 1 /\ a = SubSeq(u, 1, Len(u) - 1)
      /\ \A i \in 1 .. Len(u) - 1 : a[i] = u[i]
      /\ x \in Seq(Token)
  <2>1. u \in Seq(Seq(Token))  BY DEF Lists
  <2>2. u # <<>>  OBVIOUS
  <2>3. PICK y : y = Front(u)  OBVIOUS
  <2>4. /\ y \in Seq(Seq(Token)) /\ Len(y) = Len(u) - 1 /\ y = SubSeq(u, 1, Len(u) - 1)
        /\ \A i \in 1 .. Len(u) - 1 : y[i] = u[i]
        /\ u[Len(u)] \in Seq(Token)
    BY ONLY <2>1, <2>2, <2>3, Shortened
  <2> QED BY <2>3, <2>4 DEF Lists
<1>3. u = Append(a, x)
  <2>1. SubSeq(u, 1, Len(u)) = u  BY PrefixWhole DEF Lists
  <2>2. SubSeq(u, 1, Len(u)) = Append(SubSeq(u, 1, Len(u) - 1), u[Len(u)])
    BY <1>1, PrefixGrows DEF Lists
  <2> QED BY <1>2, <2>1, <2>2
<1>4. PICK k \in 1 .. Len(v) : v[k] = x  BY <1>1 DEF Holds
<1> HIDE DEF a, x
<1> DEFINE b == [i \in 1 .. Len(v) - 1 |-> IF i < k THEN v[i] ELSE v[i + 1]]
<1>5. /\ b \in Lists /\ Len(v) = Len(b) + 1
      /\ \A i \in 1 .. Len(b) : b[i] = IF i < k THEN v[i] ELSE v[i + 1]
  <2>1. Len(v) - 1 \in Nat  BY <1>1
  <2>2. \A i \in 1 .. Len(v) - 1 : (IF i < k THEN v[i] ELSE v[i + 1]) \in Seq(Token)
    <3> SUFFICES ASSUME NEW i \in 1 .. Len(v) - 1
                 PROVE  v[i] \in Seq(Token) /\ v[i + 1] \in Seq(Token)
      OBVIOUS
    <3>1. i \in 1 .. Len(v) /\ i + 1 \in 1 .. Len(v)  BY <1>1
    <3> QED BY <3>1, ElementOfSeq DEF Lists
  <2>3. b \in [1 .. Len(v) - 1 -> Seq(Token)]  BY <2>2
  <2>4. b \in Seq(Seq(Token)) /\ Len(b) = Len(v) - 1 /\ DOMAIN b = 1 .. Len(v) - 1
    <3>1. Seq(Seq(Token)) = UNION {[1 .. n -> Seq(Token)] : n \in Nat}  BY SeqDef
    <3>2. DOMAIN b = 1 .. Len(v) - 1  OBVIOUS
    <3> HIDE DEF b
    <3>3. b \in Seq(Seq(Token))  BY <2>1, <2>3, <3>1
    <3> QED BY <2>1, <3>2, <3>3, LenProperties
  <2> QED BY <1>1, <2>4 DEF Lists
<1> HIDE DEF b
<1>6. Distinct(a)
  <2> SUFFICES ASSUME NEW i \in 1 .. Len(a), NEW j \in 1 .. Len(a), a[i] = a[j] PROVE i = j
    BY DEF Distinct
  <2>1. i \in 1 .. Len(u) /\ j \in 1 .. Len(u) /\ u[i] = u[j]  BY <1>1, <1>2
  <2> QED BY <2>1 DEF Distinct
<1>7. Holds(a, b)
  <2> SUFFICES ASSUME NEW i \in 1 .. Len(a) PROVE \E j \in 1 .. Len(b) : b[j] = a[i]
    BY DEF Holds
  <2>1. i \in 1 .. Len(u) /\ i # Len(u) /\ a[i] = u[i]  BY <1>1, <1>2
  <2>2. u[i] # x  BY <1>1, <2>1 DEF Distinct, x
  <2>3. PICK j \in 1 .. Len(v) : v[j] = u[i]  BY <2>1 DEF Holds
  <2>4. j # k  BY <1>4, <2>2, <2>3
  <2>5. CASE j < k
    <3>1. j \in 1 .. Len(b) /\ b[j] = v[j]  BY <1>1, <1>5, <2>5
    <3> QED BY <2>1, <2>3, <3>1
  <2>6. CASE j > k
    <3>1. j - 1 \in 1 .. Len(b) /\ ~ (j - 1 < k) /\ (j - 1) + 1 = j  BY <1>1, <1>5, <2>6
    <3>2. b[j - 1] = v[j]  BY <1>5, <3>1
    <3> QED BY <2>1, <2>3, <3>1, <3>2
  <2> QED BY <2>4, <2>5, <2>6
<1>8. Fits(a, b) => Fits(u, v)
  <2>1. KeyText(u) = KeyText(a) + KeyBytes(x)  BY <1>2, <1>3, TextOfOneMore DEF Lists
  <2>2. KeyText(v) = KeyText(b) + KeyBytes(v[k])  BY <1>5, TextOfRemoved DEF Lists
  <2>3. KeyText(a) \in Nat /\ KeyText(b) \in Nat  BY <1>2, <1>5, TextOfKeys DEF Lists
  <2>4. KeyBytes(x) \in Nat  BY <1>2, BytesOfPath
  <2>5. Len(a) \in Nat /\ Len(b) \in Nat  BY <1>2, <1>5, LenProperties DEF Lists
  <2> QED BY <1>1, <1>2, <1>4, <1>5, <2>1, <2>2, <2>3, <2>4, <2>5 DEF Fits
<1>9. Len(u) = Len(a) + 1  BY <1>1, <1>2
<1> QED BY <1>2, <1>5, <1>6, <1>7, <1>8, <1>9

LEMMA HeldFits ==
  ASSUME NEW u \in Lists, NEW v \in Lists, Distinct(u), Holds(u, v)
  PROVE  Fits(u, v)
<1> DEFINE Bad(n) == \E a \in Lists, b \in Lists :
                       /\ Len(a) = n /\ Distinct(a) /\ Holds(a, b) /\ ~ Fits(a, b)
           bad == {n \in Nat : Bad(n)}
<1>1. bad = {}
  <2> SUFFICES ASSUME bad # {} PROVE FALSE  OBVIOUS
  <2>1. bad \in SUBSET Nat  OBVIOUS
  <2>2. PICK n \in bad : \A k \in bad : n <= k
    <3> HIDE DEF bad
    <3> QED BY <2>1, LeastNumber
  <2>3. n \in Nat  OBVIOUS
  <2>4. PICK a \in Lists, b \in Lists :
          Len(a) = n /\ Distinct(a) /\ Holds(a, b) /\ ~ Fits(a, b)
    BY <2>2
  <2>5. a # <<>>
    <3> SUFFICES ASSUME a = <<>> PROVE FALSE  OBVIOUS
    <3>1. Len(a) = 0 /\ KeyText(a) = 0  BY EmptySeq, TextOfNoKeys
    <3>2. Len(b) \in Nat /\ KeyText(b) \in Nat  BY LenProperties, TextOfKeys DEF Lists
    <3> QED BY <2>4, <3>1, <3>2 DEF Fits
  <2>6. PICK c \in Lists, e \in Lists :
          /\ Len(a) = Len(c) + 1 /\ Distinct(c) /\ Holds(c, e)
          /\ Fits(c, e) => Fits(a, b)
    BY <2>4, <2>5, RemoveOne
  <2>7. Len(c) \in Nat /\ Len(c) < n  BY <2>4, <2>6, LenProperties DEF Lists
  <2>8. Bad(Len(c))  BY <2>4, <2>6
  <2>9. Len(c) \in bad  BY <2>7, <2>8
  <2> HIDE DEF bad, Bad
  <2> QED BY <2>2, <2>3, <2>7, <2>9
<1>2. Len(u) \in Nat  BY LenProperties DEF Lists
<1> QED BY <1>1, <1>2

LEMMA CountsFollow == TextInv /\ Counted /\ WalkInv => CountsCoverEntries
<1> SUFFICES ASSUME TextInv, Counted, WalkInv, status = "Ok" PROVE CountsCoverEntries
  BY DEF CountsCoverEntries
<1> DEFINE keys == Keys(entries)
<1>1. Listed(document, <<>>, entries) /\ open = <<>>  BY DEF WalkInv
<1>2. Len(leaves) = entryCount /\ KeyText(leaves) = keyTotal  BY DEF Counted
<1>3. entries \in Seq(EntryRecords) /\ DOMAIN entries = 1 .. Len(entries)
      /\ Len(entries) \in Nat
  BY <1>1, LenProperties DEF Listed
<1>4. /\ keys \in Lists /\ Len(keys) = Len(entries)
      /\ \A i \in 1 .. Len(entries) : keys[i] = entries[i].key
  <2>1. \A i \in 1 .. Len(entries) : entries[i].key \in Seq(Token)
    <3>1. \A i \in 1 .. Len(entries) : entries[i] \in EntryRecords  BY <1>3, ElementOfSeq
    <3> QED BY <3>1 DEF EntryRecords
  <2>2. keys \in [1 .. Len(entries) -> Seq(Token)] /\ DOMAIN keys = 1 .. Len(entries)
        /\ \A i \in 1 .. Len(entries) : keys[i] = entries[i].key
    BY <1>3, <2>1 DEF Keys
  <2>3. Seq(Seq(Token)) = UNION {[1 .. n -> Seq(Token)] : n \in Nat}  BY SeqDef
  <2> HIDE DEF keys
  <2>4. keys \in Seq(Seq(Token))  BY <1>3, <2>2, <2>3
  <2> QED BY <1>3, <2>2, <2>4, LenProperties DEF Lists
<1>5. leaves \in Lists /\ DOMAIN leaves = 1 .. Len(leaves)
  BY LenProperties DEF TextInv, TextTyped, Lists
<1>6. LeafPaths = Tips(document)  BY <1>1 DEF LeafPaths, Tips, Members
<1>7. \A i \in 1 .. Len(keys) : keys[i] \in Tips(document) /\ keys[i] \in DOMAIN document
  BY <1>1, <1>4 DEF Listed, Tips
<1>8. \A i, j \in 1 .. Len(keys) : i < j => Before(document, keys[i], keys[j])
  BY <1>1, <1>4 DEF Listed
<1> HIDE DEF keys
<1>9. Holds(keys, leaves)
  <2> SUFFICES ASSUME NEW i \in 1 .. Len(keys)
               PROVE  \E j \in 1 .. Len(leaves) : leaves[j] = keys[i]
    BY DEF Holds
  <2>1. keys[i] \in Range(leaves)  BY <1>6, <1>7 DEF TextInv, LeavesCounted
  <2> QED BY <1>5, <2>1 DEF Range
<1>10. \A p, q \in DOMAIN document : Before(document, p, q) => ~ Before(document, q, p)
  BY BeforeIsStrict DEF TextInv
<1>11. Distinct(keys)
  <2> SUFFICES ASSUME NEW i \in 1 .. Len(keys), NEW j \in 1 .. Len(keys), keys[i] = keys[j]
               PROVE  i = j
    BY DEF Distinct
  <2>1. ~ (i < j) /\ ~ (j < i)
    <3>1. \A p \in DOMAIN document : ~ Before(document, p, p)  BY <1>10
    <3> QED BY <1>7, <1>8, <3>1
  <2> QED BY <1>3, <1>4, <2>1
<1>12. Fits(keys, leaves)  BY <1>4, <1>5, <1>9, <1>11, HeldFits
<1>13. ASSUME ~ repeated PROVE keys = leaves
  <2> DEFINE R == {e \in (DOMAIN document) \X (DOMAIN document) :
                     Before(document, e[1], e[2])}
  <2>1. \A p, q : <<p, q>> \in R => <<q, p>> \notin R  BY <1>10
  <2>2. /\ \A i \in 1 .. Len(leaves) : leaves[i] \in Tips(document)
        /\ \A i, j \in 1 .. Len(leaves) : i < j => Before(document, leaves[i], leaves[j])
    <3>1. LeavesInOrder  BY <1>13 DEF TextInv
    <3>2. \A i \in 1 .. Len(leaves) : leaves[i] \in Range(leaves)  BY <1>5 DEF Range
    <3> QED BY <1>6, <3>1, <3>2 DEF LeavesInOrder
  <2>3. InOrder(R, keys)  BY <1>7, <1>8 DEF InOrder
  <2>4. InOrder(R, leaves)
    <3>1. \A i \in 1 .. Len(leaves) : leaves[i] \in DOMAIN document  BY <2>2 DEF Tips
    <3> QED BY <2>2, <3>1 DEF InOrder
  <2>5. Holds(leaves, keys)
    <3> SUFFICES ASSUME NEW i \in 1 .. Len(leaves)
                 PROVE  \E j \in 1 .. Len(keys) : keys[j] = leaves[i]
      BY DEF Holds
    <3>1. \E j \in 1 .. Len(entries) : entries[j].key = leaves[i]
      BY <1>1, <2>2 DEF Listed, Visited
    <3> QED BY <1>4, <3>1
  <2> HIDE DEF R
  <2> QED BY <1>4, <1>5, <1>9, <2>1, <2>3, <2>4, <2>5, OrderIsUnique DEF Lists
<1>14. ~ repeated => Len(entries) = entryCount  BY <1>2, <1>4, <1>13
<1>15. Len(entries) <= entryCount /\ KeyText(keys) <= keyTotal  BY <1>2, <1>4, <1>12 DEF Fits
<1> QED BY <1>2, <1>13, <1>14, <1>15 DEF CountsCoverEntries, keys

------------------------------------------------------------------------------
(* The theorems.                                                               *)

(* What holds between any two events and any two turns of the loop. *)
FlattenInv == IInv /\ ScanInv /\ Counted /\ WalkInv

LEMMA InitFlatten == Init => FlattenInv
<1> SUFFICES ASSUME Init PROVE FlattenInv  OBVIOUS
<1>1. IInv /\ ScanInv /\ Counted  BY InitIInv, InitScan
<1>2. phase = "call" /\ status = "none" /\ stack = <<>> /\ path = <<>> /\ entries = <<>>
  BY DEF Init
<1>3. WalkInv  BY <1>2 DEF WalkInv
<1> QED BY <1>1, <1>3 DEF FlattenInv

LEMMA StepFlatten == FlattenInv /\ [Next]_vars => FlattenInv'
<1> SUFFICES ASSUME FlattenInv, [Next]_vars PROVE FlattenInv'  OBVIOUS
<1>1. IInv /\ ScanInv /\ Counted /\ WalkInv /\ TextInv  BY DEF FlattenInv, ScanInv
<1>2. IInv' /\ (ScanInv /\ Counted)'  BY <1>1, StepIInv, StepScan
<1>3. WalkInv'  BY <1>1, StepWalk
<1> QED BY <1>2, <1>3 DEF FlattenInv

(* For every text and every choice of the limits: the fixed array of frames is *)
(* indexed within its bounds, depth_ does not go below zero, and neither       *)
(* counter passes its limit, so kMaxFlatKeyBytes - keyTotal_ never wraps       *)
(* (json-flatten.cpp:54-66, 93-109).                                           *)
THEOREM ScanStaysInBounds == Spec => []TypeOK
<1>1. IInv => TypeOK  BY DEF IInv
<1> QED BY <1>1, InitIInv, StepIInv, PTL DEF Spec

(* For every text: LimitCheckingSax, which keeps one number per open container *)
(* and no path, has in prefixBytes the length of the JSON Pointer to that      *)
(* container, escapes and array indexes included, and knows an empty container *)
(* when it closes it (json-flatten.cpp:29-41, 78-109).                         *)
THEOREM FramesAreExact == Spec => []FramesDescribeOpenContainers
<1>1. FlattenInv => FramesDescribeOpenContainers  BY FramesFollow DEF FlattenInv
<1> QED BY <1>1, InitFlatten, StepFlatten, PTL DEF Spec

(* For every text and every choice of the limits: CountEntry and AddKeyBytes   *)
(* refuse the text at the first leaf that goes past a limit, for the entries   *)
(* if it goes past both, and refuse no text that stays within them             *)
(* (json-flatten.cpp:53-67, 87-109).                                           *)
THEOREM RefusedAtTheLimit == Spec => []LimitsAreExact
<1>1. FlattenInv => LimitsAreExact  BY LimitsFollow DEF FlattenInv
<1> QED BY <1>1, InitFlatten, StepFlatten, PTL DEF Spec

(* For every text: the loop of FlattenDocument, with one path that its frames  *)
(* cut back to their own prefix, lists each leaf of the document once, under   *)
(* its own path, with its value, in document order                             *)
(* (json-flatten.cpp:177-213).                                                 *)
THEOREM ListIsTheLeaves == Spec => []EntriesAreTheLeavesInOrder
<1>1. FlattenInv => EntriesAreTheLeavesInOrder
  BY EntriesFollow DEF FlattenInv, ScanInv
<1> QED BY <1>1, InitFlatten, StepFlatten, PTL DEF Spec

(* For every text: the list built from the document is no longer, in entries   *)
(* and in key text, than the counting pass allowed for before there was a      *)
(* document, and is exactly what it counted unless an object repeats a key     *)
(* (json-flatten.cpp:12-13, 247-276).                                          *)
THEOREM CountedBeforeBuilt == Spec => []CountsCoverEntries
<1>1. FlattenInv => CountsCoverEntries
  BY CountsFollow DEF FlattenInv, ScanInv
<1> QED BY <1>1, InitFlatten, StepFlatten, PTL DEF Spec
==============================================================================
