---------------------------- MODULE JsonPathProofs ----------------------------
(* What a script reads at a path, whatever the documents, the alphabet and the    *)
(* widths of the numbers involved.  No double is nearer to a number than what     *)
(* reaches it, if anything does (PathInv).  Paths lead to the node they are the key of, and nowhere else       *)
(* (WalkInv): the texts that FlattenDocument writes and those that ParsePath and  *)
(* ParseIndex read are shown to be each other's inverse character by character,   *)
(* and the nodes of a document to form a tree that the walk goes down.            *)
EXTENDS JsonPath, SequenceTheorems, WellFoundedInduction, TLAPS

-----------------------------------------------------------------------------
(* Arithmetic of the grid. *)

\* A set of numbers has a least one.
LEMMA LeastNumber ==
    ASSUME NEW K \in SUBSET Nat, K # {}
    PROVE  \E k \in K : \A j \in K : k <= j
<1>1. IsWellFoundedOn(OpToRel(<, Nat), Nat)
  BY NatLessThanWellFounded
<1>2. PICK k \in K : \A j \in K : ~(<<j, k>> \in OpToRel(<, Nat))
  BY <1>1, WFMin
<1>3. \A j \in K : <<j, k>> \in Nat \X Nat
  OBVIOUS
<1>4. \A j \in K : ~(j < k)
  BY <1>2, <1>3 DEF OpToRel
<1> QED BY <1>4

LEMMA ScaleParts ==
    ASSUME NEW x \in Int
    PROVE  /\ Scale \in Nat \ {0}
           /\ x % Scale \in 0..(Scale - 1) /\ x \div Scale \in Int
           /\ x = Scale * (x \div Scale) + (x % Scale)
<1>1. Scale \in Nat \ {0}
  BY DoublesAssumption
<1>2. \A S \in Nat \ {0} : /\ x % S \in 0..(S - 1) /\ x \div S \in Int
                           /\ x = S * (x \div S) + (x % S)
  BY SMT
<1> QED BY <1>1, <1>2

LEMMA ScaleGrows ==
    ASSUME NEW m \in Int, NEW n \in Int, m < n
    PROVE  Scale * m \in Int /\ Scale * n \in Int /\ Scale * m + Scale <= Scale * n
<1>1. Scale \in Nat \ {0}
  BY DoublesAssumption
<1>2. n - m \in Int /\ n - m >= 1
  OBVIOUS
<1>3. Scale * (n - m) >= Scale
  BY <1>1, <1>2, SMT
<1>4. Scale * (n - m) = Scale * n - Scale * m
  BY <1>1, SMT
<1> QED BY <1>1, <1>3, <1>4

LEMMA WholeOrder ==
    ASSUME NEW m \in Int, NEW n \in Int
    PROVE  /\ Whole(m) \in Int /\ Whole(n) \in Int
           /\ Whole(m) <= Whole(n) <=> m <= n
           /\ Whole(m) = Whole(n) => m = n
<1>1. Whole(m) \in Int /\ Whole(n) \in Int /\ Scale \in Nat \ {0}
  BY DoublesAssumption DEF Whole
<1>2. ASSUME NEW i \in Int, NEW j \in Int, i < j
      PROVE  Whole(i) < Whole(j)
  BY <1>1, <1>2, ScaleGrows DEF Whole
<1> QED BY <1>1, <1>2

LEMMA WholeIsWhole ==
    ASSUME NEW x \in Int, x % Scale = 0
    PROVE  x \div Scale \in Int /\ x = Whole(x \div Scale)
<1> DEFINE q == x \div Scale
<1>1. q \in Int /\ x = Scale * q + 0 /\ Scale \in Int
  BY ScaleParts
<1> HIDE DEF q
<1>2. x = Whole(q)
  BY <1>1 DEF Whole
<1> QED BY <1>1, <1>2 DEF q

-----------------------------------------------------------------------------
(* The nearest doubles. *)

LEMMA DistanceParts ==
    ASSUME NEW x \in Int, NEW y \in Int
    PROVE  /\ Distance(x, y) \in Nat
           /\ x <= y => Distance(x, y) = y - x
           /\ y <= x => Distance(x, y) = x - y
BY DEF Distance

LEMMA NearestExists ==
    ASSUME NEW x \in Int
    PROVE  Nearest(x) # {}
<1> DEFINE K == {Distance(x, d) : d \in Doubles}
<1>1. Doubles \subseteq Int
  BY DoublesAssumption
<1>2. K \in SUBSET Nat
  BY <1>1, DistanceParts
<1>3. Doubles # {}
  <2>1. 1 \in (-LongMax - 2)..(LongMax + 1)
    BY WidthsAssumption
  <2> QED BY <2>1, DoublesAssumption
<1>4. K # {}
  BY <1>3
<1> HIDE DEF K
<1>5. PICK k \in K : \A j \in K : k <= j
  BY <1>2, <1>4, LeastNumber
<1>6. PICK d \in Doubles : k = Distance(x, d)
  BY <1>5 DEF K
<1>7. \A e \in Doubles : Distance(x, d) <= Distance(x, e)
  BY <1>5, <1>6 DEF K
<1> QED BY <1>6, <1>7 DEF Nearest

\* Of two nearest doubles, which are neighbours on either side, one is even.
LEMMA TieIsDecided ==
    ASSUME NEW x \in Int, NEW a \in Nearest(x), NEW b \in Nearest(x), a < b
    PROVE  /\ Nearest(x) = {a, b}
           /\ a % (2 * (b - a)) = 0 \/ b % (2 * (b - a)) = 0
<1>1. /\ Doubles \subseteq Int /\ a \in Doubles /\ b \in Doubles
      /\ \A c \in Doubles : Distance(x, a) <= Distance(x, c) /\ Distance(x, b) <= Distance(x, c)
  BY DoublesAssumption DEF Nearest
<1>2. Distance(x, a) = x - a /\ Distance(x, b) = b - x /\ x - a = b - x
  BY <1>1 DEF Distance
<1>3. \A c \in Doubles : c <= a \/ b <= c
  BY <1>1, <1>2 DEF Distance
<1>4. \A c \in Nearest(x) : c = a \/ c = b
  <2> TAKE c \in Nearest(x)
  <2>1. c \in Doubles /\ c \in Int /\ Distance(x, c) <= Distance(x, a)
    BY <1>1 DEF Nearest
  <2> QED BY <1>1, <1>2, <1>3, <2>1 DEF Distance
<1>5. a % (2 * (b - a)) = 0 \/ b % (2 * (b - a)) = 0
  BY <1>1, <1>3, DoublesAssumption
<1> QED BY <1>4, <1>5

LEMMA RoundedIsNearest ==
    ASSUME NEW x \in Int
    PROVE  Rounded(x) \in Nearest(x) /\ Rounded(x) \in Doubles /\ Rounded(x) \in Int
<1> DEFINE Chosen(d) == \A e \in Nearest(x) \ {d} : d % (2 * Distance(d, e)) = 0
<1>1. Nearest(x) \subseteq Doubles /\ Doubles \subseteq Int
  BY DoublesAssumption DEF Nearest
<1>2. PICK d \in Nearest(x) : TRUE
  BY NearestExists
<1>3. \E c \in Nearest(x) : Chosen(c)
  <2>1. CASE Nearest(x) = {d}
    BY <1>2, <2>1
  <2>2. CASE Nearest(x) # {d}
    <3>1. PICK e \in Nearest(x) : e # d
      BY <1>2, <2>2
    <3>2. PICK a, b \in Nearest(x) : a < b
      <4>1. d \in Int /\ e \in Int
        BY <1>1, <1>2, <3>1
      <4>2. CASE d < e
        BY <1>2, <3>1, <4>2
      <4>3. CASE e < d
        BY <1>2, <3>1, <4>3
      <4> QED BY <3>1, <4>1, <4>2, <4>3
    <3>3. Distance(a, b) = b - a /\ Distance(b, a) = b - a
      <4>1. a \in Int /\ b \in Int
        BY <1>1, <3>2
      <4> QED BY <3>2, <4>1, DistanceParts
    <3> DEFINE gap == b - a
    <3>4. /\ Nearest(x) = {a, b}
          /\ a % (2 * gap) = 0 \/ b % (2 * gap) = 0
      BY <3>2, TieIsDecided
    <3> HIDE DEF gap
    <3>5. Distance(a, b) = gap /\ Distance(b, a) = gap
      BY <3>3 DEF gap
    <3>6. CASE a % (2 * gap) = 0
      BY <3>2, <3>4, <3>5, <3>6
    <3>7. CASE b % (2 * gap) = 0
      BY <3>2, <3>4, <3>5, <3>7
    <3> QED BY <3>4, <3>6, <3>7
  <2> QED BY <2>1, <2>2
<1>4. Rounded(x) = CHOOSE c \in Nearest(x) : Chosen(c)
  BY DEF Rounded
<1> HIDE DEF Chosen
<1>5. Rounded(x) \in Nearest(x)
  BY <1>3, <1>4
<1> QED BY <1>1, <1>5

\* Rounding passes over no double ...
LEMMA RoundedStays ==
    ASSUME NEW x \in Int, NEW a \in Doubles
    PROVE  /\ a <= x => a <= Rounded(x)
           /\ x <= a => Rounded(x) <= a
           /\ x = a => Rounded(x) = x
<1>1. Rounded(x) \in Int /\ a \in Int
  BY RoundedIsNearest, DoublesAssumption
<1>2. Distance(x, Rounded(x)) <= Distance(x, a)
  BY RoundedIsNearest DEF Nearest
<1> HIDE DEF Rounded
<1> QED BY <1>1, <1>2 DEF Distance

\* ... so it makes no whole number a fraction.
LEMMA RoundedWhole ==
    ASSUME NEW x \in Int, x % Scale = 0
    PROVE  Rounded(x) % Scale = 0
<1> DEFINE r == Rounded(x)
           m == x \div Scale
           q == r \div Scale
<1>1. r \in Int /\ r \in Doubles
  BY RoundedIsNearest
<1>2. m \in Int /\ x = Whole(m)
  BY WholeIsWhole
<1> HIDE DEF r, m
<1> SUFFICES ASSUME r % Scale # 0 PROVE FALSE
  BY DEF r
<1>3. /\ q \in Int /\ r % Scale \in 0..(Scale - 1) /\ r = Scale * q + (r % Scale)
      /\ Scale \in Nat \ {0}
  BY <1>1, ScaleParts
<1>4. Whole(q) \in Doubles /\ Whole(q + 1) \in Doubles
  BY <1>1, DoublesAssumption
<1> HIDE DEF q
<1>5. Whole(q) = Scale * q /\ Whole(q + 1) = Scale * q + Scale /\ Scale * q \in Int
  BY <1>3, SMT DEF Whole
<1>6. Whole(q) < r /\ r < Whole(q + 1) /\ Whole(q) \in Int /\ Whole(q + 1) \in Int
  BY <1>1, <1>3, <1>5
<1>7. CASE m <= q
  <2>1. x <= Whole(q)
    BY <1>2, <1>3, <1>7, WholeOrder
  <2>2. r <= Whole(q)
    BY <1>4, <2>1, RoundedStays DEF r
  <2> QED BY <1>1, <1>6, <2>2
<1>8. CASE q + 1 <= m
  <2>1. q + 1 \in Int
    BY <1>3
  <2>2. Whole(q + 1) <= x
    BY <1>2, <1>8, <2>1, WholeOrder
  <2>3. Whole(q + 1) <= r
    BY <1>4, <2>2, RoundedStays DEF r
  <2> QED BY <1>1, <1>6, <2>3
<1> QED BY <1>2, <1>3, <1>7, <1>8

-----------------------------------------------------------------------------
(* Numbers. *)

Number(v) == v.scaled \in Int /\ (v.form = "integer" => v.scaled % Scale = 0)
Longs == (-LongMax - 1)..LongMax

\* What a script may be told of a number it reads as a long.
LongAnswer(node, answer) ==
    LET x == node.scaled
    IN  \/ /\ answer.status = "Ok" /\ answer.value \in Longs
           /\ Whole(answer.value) \in Nearest(x)
           /\ node.form = "integer" => Whole(answer.value) = x
        \/ answer.status = "NotIntegral" /\ x % Scale # 0
        \/ answer.status = "NumericOverflow" /\ x \notin Whole(-LongMax - 1)..Whole(LongMax)

\* Where the walk is, it is at a value; and what a call that came to a value returned
\* is the conversion of that value.
PathInv ==
    /\ document \in Documents
    /\ current \in Values \cup {Nowhere}
    /\ phase = "walking" => current \in Values /\ export \in Exports
    /\ Resolved => LET answer == Converted(export, current)
                   IN  /\ export \in Exports
                       /\ status = answer.status
                       /\ out = IF answer.status = "Ok" THEN <<"set", answer.value>> ELSE Zero

\* Near the longs every whole number is a double.
LEMMA LongIsDouble ==
    ASSUME NEW n \in (-LongMax - 2)..(LongMax + 1)
    PROVE  Whole(n) \in Doubles /\ Whole(n) \in Nearest(Whole(n))
<1>1. Whole(n) \in Doubles /\ Doubles \subseteq Int
  BY DoublesAssumption
<1> DEFINE x == Whole(n)
<1> HIDE DEF x
<1>2. x \in Int /\ x \in Doubles
  BY <1>1 DEF x
<1>3. \A e \in Doubles : Distance(x, x) <= Distance(x, e)
  BY <1>1, <1>2 DEF Distance
<1>4. x \in Nearest(x)
  BY <1>2, <1>3 DEF Nearest
<1> QED BY <1>1, <1>4 DEF x

\* Whether n is a long is whether its place is between those of the first and the last.
LEMMA LongByPlace ==
    ASSUME NEW n \in Int
    PROVE  /\ LongMax \in Nat
           /\ n \in Longs <=> Whole(n) \in Whole(-LongMax - 1)..Whole(LongMax)
<1>1. LongMax \in Nat /\ LongMax \in Int /\ -LongMax - 1 \in Int
  BY WidthsAssumption
<1>2. /\ Whole(-LongMax - 1) <= Whole(n) <=> -LongMax - 1 <= n
      /\ Whole(n) <= Whole(LongMax) <=> n <= LongMax
      /\ Whole(n) \in Int /\ Whole(-LongMax - 1) \in Int /\ Whole(LongMax) \in Int
  BY <1>1, WholeOrder
<1> QED BY <1>1, <1>2 DEF Longs

\* An integer n that is narrowed or refused.
LEMMA NarrowedIsExact ==
    ASSUME NEW node, NEW n \in Int, node.scaled = Whole(n)
    PROVE  LongAnswer(node, Narrowed(n))
<1>1. CASE n \in Longs
  <2>1. Narrowed(n).status = "Ok" /\ Narrowed(n).value = n
    BY <1>1 DEF Narrowed, Answer, Longs
  <2>2. n \in (-LongMax - 2)..(LongMax + 1)
    BY <1>1, LongByPlace DEF Longs
  <2>3. Whole(n) \in Nearest(Whole(n))
    BY <2>2, LongIsDouble
  <2> QED BY <1>1, <2>1, <2>3 DEF LongAnswer
<1>2. CASE n \notin Longs
  <2>1. Narrowed(n).status = "NumericOverflow"
    BY <1>2 DEF Narrowed, Refusal, Longs
  <2>2. node.scaled \notin Whole(-LongMax - 1)..Whole(LongMax)
    BY <1>2, LongByPlace
  <2> QED BY <2>1, <2>2 DEF LongAnswer
<1> QED BY <1>1, <1>2

\* Rounding brings no number into the longs, and takes none out of them.
LEMMA RoundedRange ==
    ASSUME NEW x \in Int, NEW n \in Int, Rounded(x) = Whole(n)
    PROVE  /\ n \in Longs => Whole(-LongMax - 2) < x /\ x < Whole(LongMax + 1)
           /\ x \in Whole(-LongMax - 1)..Whole(LongMax) => n \in Longs
<1>1. /\ LongMax \in Nat /\ -LongMax - 2 \in Int /\ -LongMax - 1 \in Int
      /\ LongMax + 1 \in Int /\ LongMax \in Int
  BY LongByPlace
<1>2. /\ Whole(-LongMax - 2) \in Doubles /\ Whole(-LongMax - 1) \in Doubles
      /\ Whole(LongMax) \in Doubles /\ Whole(LongMax + 1) \in Doubles
  <2>1. /\ -LongMax - 2 \in (-LongMax - 2)..(LongMax + 1)
        /\ -LongMax - 1 \in (-LongMax - 2)..(LongMax + 1)
        /\ LongMax \in (-LongMax - 2)..(LongMax + 1)
        /\ LongMax + 1 \in (-LongMax - 2)..(LongMax + 1)
    BY <1>1
  <2> QED BY <2>1, LongIsDouble
<1>3. /\ Whole(n) \in Int /\ Whole(-LongMax - 2) \in Int /\ Whole(-LongMax - 1) \in Int
      /\ Whole(LongMax) \in Int /\ Whole(LongMax + 1) \in Int
      /\ Whole(n) <= Whole(-LongMax - 2) => n <= -LongMax - 2
      /\ Whole(LongMax + 1) <= Whole(n) => LongMax + 1 <= n
  BY <1>1, WholeOrder
<1>4. ASSUME n \in Longs
      PROVE  Whole(-LongMax - 2) < x /\ x < Whole(LongMax + 1)
  <2>1. ~(n <= -LongMax - 2) /\ ~(LongMax + 1 <= n)
    BY <1>1, <1>4 DEF Longs
  <2>2. /\ x <= Whole(-LongMax - 2) => Whole(n) <= Whole(-LongMax - 2)
        /\ Whole(LongMax + 1) <= x => Whole(LongMax + 1) <= Whole(n)
    BY <1>2, RoundedStays
  <2> QED BY <1>3, <2>1, <2>2
<1>5. ASSUME x \in Whole(-LongMax - 1)..Whole(LongMax)
      PROVE  n \in Longs
  <2>1. Whole(-LongMax - 1) <= x /\ x <= Whole(LongMax)
    BY <1>3, <1>5
  <2>2. Whole(-LongMax - 1) <= Whole(n) /\ Whole(n) <= Whole(LongMax)
    BY <1>2, <2>1, RoundedStays
  <2> QED BY <1>3, <2>2, LongByPlace
<1> QED BY <1>4, <1>5

\* A double that is a whole number n, and is narrowed or refused.
LEMMA NarrowedIsNearest ==
    ASSUME NEW node, Number(node), NEW n \in Int, Rounded(node.scaled) = Whole(n)
    PROVE  LongAnswer(node, Narrowed(n))
<1> DEFINE x == node.scaled
<1>1. x \in Int /\ Rounded(x) = Whole(n) /\ Whole(n) \in Nearest(x)
  BY RoundedIsNearest DEF Number
<1>2. node.form = "integer" => x % Scale = 0
  BY DEF Number
<1>3. CASE n \in Longs
  <2>1. Narrowed(n).status = "Ok" /\ Narrowed(n).value = n
    BY <1>3 DEF Narrowed, Answer, Longs
  <2>2. ASSUME x % Scale = 0 PROVE Whole(n) = x
    <3> DEFINE m == x \div Scale
    <3> HIDE DEF x
    <3>1. m \in Int /\ x = Whole(m)
      BY <1>1, <2>2, WholeIsWhole
    <3> HIDE DEF m
    <3>2. Whole(-LongMax - 2) < Whole(m) /\ Whole(m) < Whole(LongMax + 1)
      BY <1>1, <1>3, <3>1, RoundedRange
    <3>3. LongMax \in Nat /\ -LongMax - 2 \in Int /\ LongMax + 1 \in Int
      BY LongByPlace
    <3>4. ~(m <= -LongMax - 2) /\ ~(LongMax + 1 <= m)
      BY <3>1, <3>2, <3>3, WholeOrder
    <3>5. m \in (-LongMax - 2)..(LongMax + 1)
      BY <3>1, <3>3, <3>4
    <3>6. x \in Doubles
      BY <3>1, <3>5, LongIsDouble
    <3> QED BY <1>1, <3>6, RoundedStays
  <2> HIDE DEF x
  <2> QED BY <1>1, <1>2, <1>3, <2>1, <2>2 DEF LongAnswer, x
<1>4. CASE n \notin Longs
  <2>1. Narrowed(n).status = "NumericOverflow"
    BY <1>4 DEF Narrowed, Refusal, Longs
  <2>2. x \notin Whole(-LongMax - 1)..Whole(LongMax)
    BY <1>1, <1>4, RoundedRange
  <2> QED BY <2>1, <2>2 DEF LongAnswer
<1> QED BY <1>3, <1>4

LEMMA ToLongIsNearest ==
    ASSUME NEW node, Number(node)
    PROVE  LongAnswer(node, ToLong(node))
<1> DEFINE number == Stored(node)
           x == node.scaled
           n == x \div Scale
<1>1. x \in Int /\ n \in Int /\ (x % Scale = 0 => x = Whole(n))
  BY ScaleParts, WholeIsWhole DEF Number
<1>2. CASE node.form = "integer" /\ x \in 0..Whole(UInt64Max)
  <2>1. number.storage = "unsigned" /\ number.scaled = x
    BY <1>2 DEF Stored
  <2>2. x = Whole(n)
    BY <1>1, <1>2 DEF Number
  <2>3. 0 <= n
    <3>1. Whole(0) = 0 /\ 0 <= x
      BY <1>1, <1>2, DoublesAssumption DEF Whole
    <3> HIDE DEF n, x
    <3> QED BY <1>1, <2>2, <3>1, WholeOrder
  <2> HIDE DEF number
  <2>4. ToLong(node) = IF n > LongMax THEN Refusal("NumericOverflow") ELSE Answer(n)
    BY <2>1 DEF ToLong, number
  <2> HIDE DEF n
  <2>5. ToLong(node) = Narrowed(n)
    BY <1>1, <2>3, <2>4, LongByPlace DEF Narrowed
  <2> QED BY <1>1, <2>2, <2>5, NarrowedIsExact
<1>3. CASE /\ node.form = "integer" /\ x \in Whole(-Int64Max - 1)..0
           /\ x \notin 0..Whole(UInt64Max)
  <2>1. number.storage = "signed" /\ number.scaled = x
    BY <1>3 DEF Stored
  <2> HIDE DEF number
  <2>2. ToLong(node) = Narrowed(n)
    BY <2>1 DEF ToLong, number
  <2>3. x = Whole(n)
    BY <1>1, <1>3 DEF Number
  <2> HIDE DEF n
  <2> QED BY <1>1, <2>2, <2>3, NarrowedIsExact
<1>4. CASE /\ ~(node.form = "integer" /\ x \in 0..Whole(UInt64Max))
           /\ ~(node.form = "integer" /\ x \in Whole(-Int64Max - 1)..0)
  <2> DEFINE r == Rounded(x)
             k == r \div Scale
  <2>1. number.storage = "float" /\ number.scaled = r
    BY <1>4 DEF Stored
  <2> HIDE DEF number
  <2>2. ToLong(node) = IF r % Scale # 0 THEN Refusal("NotIntegral") ELSE Narrowed(k)
    BY <2>1 DEF ToLong, number
  <2>3. r \in Int
    BY <1>1, RoundedIsNearest
  <2> HIDE DEF r
  <2>4. k \in Int /\ (r % Scale = 0 => r = Whole(k))
    BY <2>3, ScaleParts, WholeIsWhole
  <2> HIDE DEF k
  <2>5. CASE r % Scale = 0
    <3>1. Rounded(node.scaled) = Whole(k)
      BY <2>4, <2>5 DEF r
    <3> QED BY <2>2, <2>4, <2>5, <3>1, NarrowedIsNearest
  <2>6. CASE r % Scale # 0
    <3>1. x % Scale # 0
      BY <1>1, <2>6, RoundedWhole DEF r
    <3> QED BY <2>2, <2>6, <3>1 DEF Refusal, LongAnswer
  <2> QED BY <2>5, <2>6
<1> QED BY <1>2, <1>3, <1>4

\* As a double, a number is delivered as one that is nearest to it.
LEMMA ToDoubleIsNearest ==
    ASSUME NEW node, Number(node)
    PROVE  Rounded(Stored(node).scaled) \in Nearest(node.scaled)
<1>1. Stored(node).scaled \in {node.scaled, Rounded(node.scaled)}
  BY DEF Stored
<1>2. node.scaled \in Int /\ Rounded(node.scaled) \in Doubles /\ Rounded(node.scaled) \in Int
  BY RoundedIsNearest DEF Number
<1>3. Rounded(Rounded(node.scaled)) = Rounded(node.scaled)
  BY <1>2, RoundedStays
<1> QED BY <1>1, <1>2, <1>3, RoundedIsNearest

LEMMA FollowedIsValue ==
    ASSUME NEW node \in Values, NEW token
    PROVE  LET next == Follow(node, token)
           IN  IF next.status = "Ok" THEN next.node \in Values ELSE next.node = Nowhere
<1>1. /\ node.kind = "object" => \A k \in DOMAIN node.members : node.members[k] \in Values
      /\ node.kind = "array" => node.elements \in Seq(Values)
  BY ValuesAssumption
<1>2. CASE node.kind = "object"
  BY <1>1, <1>2 DEF Follow, Found, Lost
<1>3. CASE node.kind = "array" /\ IndexStatus(token) # "Ok"
  BY <1>3 DEF Follow, Lost
<1>4. CASE node.kind = "array" /\ IndexStatus(token) = "Ok"
  <2>1. \A k \in DOMAIN node.elements : node.elements[k] \in Values
    BY <1>1, <1>4
  <2> QED BY <1>4, <2>1 DEF Follow, Found, Lost
<1>5. CASE node.kind \notin {"object", "array"}
  BY <1>5 DEF Follow, Lost
<1> QED BY <1>2, <1>3, <1>4, <1>5

LEMMA PathInvHolds == Spec => []PathInv
<1>1. Init => PathInv
  BY DEF Init, PathInv, Resolved
<1>2. PathInv /\ [Next]_vars => PathInv'
  <2> SUFFICES ASSUME PathInv, [Next]_vars PROVE PathInv'
    OBVIOUS
  <2>1. ASSUME NEW c \in Characters, Type(c) PROVE PathInv'
    BY <2>1 DEF Type, PathInv, Resolved
  <2>2. CASE TakeKey
    BY <2>2 DEF TakeKey, PathInv, Resolved
  <2>3. ASSUME NEW e \in Exports, Refuse(e) PROVE PathInv'
    BY <2>3 DEF Refuse, Returns, PathInv, Resolved
  <2>4. ASSUME NEW e \in Exports, Call(e) PROVE PathInv'
    <3>1. document \in Values
      BY ValuesAssumption DEF PathInv
    <3>2. phase' # "walking" => current' = Nowhere /\ phase' = "returned"
      BY <2>4 DEF Call, Returns
    <3>3. phase' = "walking" => current' = document /\ export' = e
      BY <2>4 DEF Call, Returns
    <3>4. document' = document
      BY <2>4 DEF Call, Returns
    <3> QED BY <3>1, <3>2, <3>3, <3>4 DEF PathInv, Resolved
  <2>5. CASE Walk
    <3> DEFINE next == Follow(current, Head(tokens))
    <3>1. current \in Values /\ export' \in Exports
      BY <2>5 DEF Walk, PathInv
    <3>2. IF next.status = "Ok" THEN next.node \in Values ELSE next.node = Nowhere
      BY <3>1, FollowedIsValue
    <3>3. /\ document' = document /\ current' = next.node
          /\ IF next.status = "Ok" THEN phase' = "walking" ELSE phase' = "returned"
      BY <2>5 DEF Walk, Returns
    <3> HIDE DEF next
    <3> QED BY <3>1, <3>2, <3>3 DEF PathInv, Resolved
  <2>6. CASE Convert
    <3>1. phase = "walking" /\ UNCHANGED <<export, current>>
      BY <2>6 DEF Convert
    <3>2. current \in Values /\ export \in Exports
      BY <3>1 DEF PathInv
    <3>3. LET answer == Converted(export, current)
          IN  /\ document' = document /\ phase' = "returned" /\ status' = answer.status
              /\ out' = IF answer.status = "Ok" THEN <<"set", answer.value>> ELSE Zero
      BY <2>6 DEF Convert, Returns
    <3> QED BY <3>1, <3>2, <3>3 DEF PathInv, Resolved
  <2>7. CASE Throws
    BY <2>7 DEF Throws, Returns, PathInv, Resolved
  <2>8. CASE UNCHANGED vars
    BY <2>8 DEF vars, PathInv, Resolved
  <2> QED BY <2>1, <2>2, <2>3, <2>4, <2>5, <2>6, <2>7, <2>8 DEF Next
<1> QED BY <1>1, <1>2, PTL DEF Spec

\* For all documents, doubles and widths of the integers: no double is nearer to a number
\* than what a script reads of it, an integer literal is read exactly, and a refusal to
\* read a long is for what is true of the number.
THEOREM NumbersReachScripts == Spec => []NumbersAreNearest
<1>1. PathInv => NumbersAreNearest
  <2> SUFFICES ASSUME PathInv, Resolved, current.kind = "number"
               PROVE  NumbersAreNearest
    BY DEF NumbersAreNearest
  <2> DEFINE answer == Converted(export, current)
  <2>1. current \in Values /\ Number(current)
    BY ValuesAssumption DEF PathInv, Resolved, Number
  <2>2. /\ status = answer.status
        /\ out = IF answer.status = "Ok" THEN <<"set", answer.value>> ELSE Zero
    BY DEF PathInv
  <2>3. CASE export = "double"
    <3>1. answer.status = "Ok" /\ answer.value = Rounded(Stored(current).scaled)
      BY <2>3 DEF Converted, Wanted, Answer
    <3>2. answer.value \in Nearest(current.scaled)
      BY <2>1, <3>1, ToDoubleIsNearest
    <3> HIDE DEF answer
    <3> QED BY <2>2, <2>3, <3>1, <3>2 DEF NumbersAreNearest
  <2>4. CASE export = "long"
    <3>1. answer = ToLong(current)
      BY <2>4 DEF Converted, Wanted
    <3>2. LongAnswer(current, answer)
      BY <2>1, <3>1, ToLongIsNearest
    <3> HIDE DEF answer
    <3> QED BY <2>2, <2>4, <3>2 DEF NumbersAreNearest, LongAnswer, Longs
  <2>5. CASE export \notin {"double", "long"}
    BY <2>5 DEF NumbersAreNearest
  <2> QED BY <2>3, <2>4, <2>5
<1> QED BY <1>1, PathInvHolds, PTL

-----------------------------------------------------------------------------
(* Induction and recursion along a sequence. *)

\* A set of numbers that has 0, and the next number with every number, has all up to m.
LEMMA NumberInduction ==
    ASSUME NEW m \in Nat, NEW G, 0 \in G, \A k \in 0..m : k < m /\ k \in G => k + 1 \in G
    PROVE  \A k \in 0..m : k \in G
<1> DEFINE missing == {k \in 0..m : k \notin G}
<1> SUFFICES ASSUME missing # {} PROVE FALSE
  OBVIOUS
<1>1. missing \in SUBSET Nat
  OBVIOUS
<1>2. PICK k \in missing : \A j \in missing : k <= j
  <2> HIDE DEF missing
  <2> QED BY <1>1, LeastNumber
<1>3. k \in 0..m /\ k # 0 /\ k - 1 \in 0..m /\ k - 1 < m /\ (k - 1) + 1 = k /\ k \notin G
  BY <1>2
<1>4. k - 1 \in G
  BY <1>2, <1>3
<1> QED BY <1>3, <1>4

LEMMA AppendShape ==
    ASSUME NEW S, NEW s \in Seq(S), NEW x \in S
    PROVE  /\ Append(s, x) \in Seq(S) /\ Append(s, x) # <<>> /\ Len(s) \in Nat
           /\ Len(Append(s, x)) = Len(s) + 1
           /\ \A i \in 1..Len(s) : Append(s, x)[i] = s[i]
           /\ Append(s, x)[Len(s) + 1] = x
           /\ Last(Append(s, x)) = x /\ Front(Append(s, x)) = s
<1> DEFINE t == Append(s, x)
<1>1. /\ t \in Seq(S) /\ t # <<>> /\ Len(t) = Len(s) + 1 /\ Len(s) \in Nat
      /\ \A i \in 1..Len(s) : t[i] = s[i]
      /\ t[Len(s) + 1] = x
  BY AppendProperties, LenProperties
<1> HIDE DEF t
<1>2. Last(t) = x
  BY <1>1 DEF Last
<1>3. Front(t) = s
  <2> DEFINE f == SubSeq(t, 1, Len(s))
  <2>1. Front(t) = f
    BY <1>1 DEF Front
  <2>2. \A i \in 1..Len(s) : t[i] \in S
    BY <1>1, LenProperties
  <2>3. f \in Seq(S) /\ Len(f) = Len(s) /\ \A i \in 1..Len(s) : f[i] = t[i]
    <3>1. /\ f \in Seq(S) /\ Len(f) = IF 1 <= Len(s) THEN Len(s) - 1 + 1 ELSE 0
          /\ \A i \in 1..(Len(s) - 1 + 1) : f[i] = t[1 + i - 1]
      BY <1>1, <2>2, SubSeqProperties
    <3>2. Len(s) - 1 + 1 = Len(s) /\ \A i \in 1..Len(s) : 1 + i - 1 = i
      BY <1>1
    <3> QED BY <1>1, <3>1, <3>2
  <2> HIDE DEF f
  <2>4. f = s
    BY <1>1, <2>3, SeqEqual
  <2> QED BY <2>1, <2>4
<1> QED BY <1>1, <1>2, <1>3 DEF t

\* A set of sequences that has the empty one and can be extended by any element of S.
LEMMA SequenceInduction ==
    ASSUME NEW S, NEW G, <<>> \in G,
           \A s \in Seq(S), x \in S : s \in G => Append(s, x) \in G
    PROVE  Seq(S) \subseteq G
<1> SUFFICES ASSUME NEW t \in Seq(S) PROVE t \in G
  OBVIOUS
<1> DEFINE H == {k \in 0..Len(t) : \A s \in Seq(S) : Len(s) = k => s \in G}
<1>1. Len(t) \in Nat
  BY LenProperties
<1>2. 0 \in H
  <2>1. \A s \in Seq(S) : Len(s) = 0 => s = <<>>
    BY EmptySeq
  <2> QED BY <1>1, <2>1
<1>3. ASSUME NEW k \in 0..Len(t), k < Len(t), k \in H PROVE k + 1 \in H
  <2>1. k + 1 \in 0..Len(t)
    BY <1>1, <1>3
  <2>2. ASSUME NEW s \in Seq(S), Len(s) = k + 1 PROVE s \in G
    <3>1. s # <<>>
      <4>1. Len(<<>>) = 0
        BY EmptySeq
      <4> QED BY <1>1, <2>2, <4>1
    <3>2. PICK r \in Seq(S), x \in S : s = Append(r, x)
      BY <3>1, SequenceEmptyOrAppend
    <3>3. Len(r) = k
      <4>1. Len(r) \in Nat /\ Len(s) = Len(r) + 1
        BY <3>2, AppendShape
      <4> QED BY <1>1, <2>2, <4>1
    <3>4. r \in G
      BY <1>3, <3>3
    <3> QED BY <3>2, <3>4
  <2> QED BY <2>1, <2>2
<1>4. Len(t) \in H
  <2>1. \A k \in 0..Len(t) : k < Len(t) /\ k \in H => k + 1 \in H
    BY <1>3
  <2>2. Len(t) \in 0..Len(t)
    BY <1>1
  <2> HIDE DEF H
  <2> QED BY <1>1, <1>2, <2>1, <2>2, NumberInduction
<1> QED BY <1>4

\* f starts at first and goes on by next, up to m.
Runs(f, first, next, m) == f[0] = first /\ \A n \in 1..m : f[n] = next[n][f[n - 1]]

LEMMA RunsAgree ==
    ASSUME NEW m \in Nat, NEW first, NEW next, NEW f, NEW g,
           Runs(f, first, next, m), Runs(g, first, next, m)
    PROVE  \A n \in 0..m : f[n] = g[n]
<1> DEFINE same == {n \in 0..m : f[n] = g[n]}
<1>1. 0 \in same
  BY DEF Runs
<1>2. ASSUME NEW n \in 0..m, n < m, n \in same PROVE n + 1 \in same
  <2>1. n + 1 \in 1..m /\ (n + 1) - 1 = n
    BY <1>2
  <2>2. f[n + 1] = next[n + 1][f[n]] /\ g[n + 1] = next[n + 1][g[n]]
    BY <2>1 DEF Runs
  <2> QED BY <1>2, <2>1, <2>2
<1>3. \A n \in 0..m : n < m /\ n \in same => n + 1 \in same
  BY <1>2
<1>4. \A n \in 0..m : n \in same
  <2> HIDE DEF same
  <2> QED BY <1>1, <1>3, NumberInduction
<1> QED BY <1>4

LEMMA RunsExist ==
    ASSUME NEW m \in Nat, NEW S, NEW first \in S, NEW next \in [1..m -> [S -> S]]
    PROVE  \E f \in [0..m -> S] : Runs(f, first, next, m)
<1> DEFINE some == {k \in 0..m : \E f \in [0..k -> S] : Runs(f, first, next, k)}
<1>1. 0 \in some
  <2>1. [n \in 0..0 |-> first] \in [0..0 -> S] /\ Runs([n \in 0..0 |-> first], first, next, 0)
    BY DEF Runs
  <2> QED BY <2>1
<1>2. ASSUME NEW k \in 0..m, k < m, k \in some PROVE k + 1 \in some
  <2>1. PICK f \in [0..k -> S] : Runs(f, first, next, k)
    BY <1>2
  <2> DEFINE x == next[k + 1][f[k]]
             g == [n \in 0..(k + 1) |-> IF n = k + 1 THEN x ELSE f[n]]
  <2>2. k + 1 \in 1..m /\ k \in 0..k /\ f[k] \in S
    BY <1>2
  <2>3. x \in S
    BY <2>2
  <2> HIDE DEF x
  <2>4. g \in [0..(k + 1) -> S] /\ g[k + 1] = x /\ \A n \in 0..k : g[n] = f[n]
    BY <1>2, <2>3
  <2> HIDE DEF g
  <2>5. g[0] = first
    <3>1. 0 \in 0..k
      BY <1>2
    <3> QED BY <2>1, <2>4, <3>1 DEF Runs
  <2>6. ASSUME NEW n \in 1..(k + 1) PROVE g[n] = next[n][g[n - 1]]
    <3>1. n - 1 \in 0..k /\ (n = k + 1 \/ n \in 1..k)
      BY <1>2
    <3>2. g[n - 1] = f[n - 1]
      BY <2>4, <3>1
    <3>3. CASE n = k + 1
      <4>1. n - 1 = k
        BY <1>2, <3>3
      <4> QED BY <2>4, <3>2, <3>3, <4>1 DEF x
    <3>4. CASE n \in 1..k
      <4>1. g[n] = f[n]
        BY <2>4, <3>4
      <4>2. f[n] = next[n][f[n - 1]]
        BY <2>1, <3>4 DEF Runs
      <4> QED BY <3>2, <4>1, <4>2
    <3> QED BY <3>1, <3>3, <3>4
  <2>7. Runs(g, first, next, k + 1)
    BY <2>5, <2>6 DEF Runs
  <2>8. k + 1 \in 0..m
    BY <2>2
  <2> QED BY <2>4, <2>7, <2>8
<1>3. \A k \in 0..m : k < m /\ k \in some => k + 1 \in some
  BY <1>2
<1>4. m \in some
  <2>1. m \in 0..m
    OBVIOUS
  <2> HIDE DEF some
  <2> QED BY <1>1, <1>3, <2>1, NumberInduction
<1> QED BY <1>4

LEMMA IsAppend ==
    ASSUME NEW S, NEW s \in Seq(S), NEW x \in S, NEW t \in Seq(S), Len(t) = Len(s) + 1,
           \A i \in 1..Len(s) : t[i] = s[i], t[Len(s) + 1] = x
    PROVE  t = Append(s, x)
<1> DEFINE u == Append(s, x)
<1>1. /\ u \in Seq(S) /\ Len(s) \in Nat /\ Len(u) = Len(s) + 1
      /\ \A i \in 1..Len(s) : u[i] = s[i]
      /\ u[Len(s) + 1] = x
  BY AppendShape
<1> HIDE DEF u
<1>2. \A i \in 1..(Len(s) + 1) : i = Len(s) + 1 \/ i \in 1..Len(s)
  BY <1>1
<1>3. \A i \in 1..Len(t) : t[i] = u[i]
  BY <1>1, <1>2
<1>4. t = u
  BY <1>1, <1>3, SeqEqual
<1> QED BY <1>4 DEF u

\* A sequence given element by element.
LEMMA MapIsSeq ==
    ASSUME NEW T, NEW m \in Nat, NEW s, s \in [1..m -> T]
    PROVE  s \in Seq(T) /\ Len(s) = m
<1>1. s \in Seq(T)
  BY SeqDef
<1>2. DOMAIN s = 1..m /\ DOMAIN s = 1..Len(s) /\ Len(s) \in Nat
  BY <1>1, LenProperties
<1> QED BY <1>1, <1>2

LEMMA ShortSeqs ==
    ASSUME NEW S, NEW a \in S, NEW b \in S
    PROVE  <<a>> \in Seq(S) /\ <<a, b>> \in Seq(S) /\ <<a, b>> = Append(<<a>>, b)
<1>1. <<a>> \in Seq(S)
  OBVIOUS
<1>2. <<a, b>> = Append(<<a>>, b)
  OBVIOUS
<1>3. Append(<<a>>, b) \in Seq(S)
  BY <1>1, AppendProperties
<1> QED BY <1>1, <1>2, <1>3

-----------------------------------------------------------------------------
(* FlattenSeq *)

Flattens(f, s) ==
    f[0] = <<>> /\ \A n \in 1..Len(s) : f[n] = f[n - 1] \o s[n]

LEMMA FlattenDefined ==
    ASSUME NEW C, NEW s \in Seq(Seq(C))
    PROVE  \E f \in [0..Len(s) -> Seq(C)] : Flattens(f, s) /\ FlattenSeq(s) = f[Len(s)]
<1> DEFINE m == Len(s)
           next == [n \in 1..m |-> [x \in Seq(C) |-> x \o s[n]]]
           Is(f) == f = [i \in 1..m |-> IF i = 1 THEN s[i] ELSE f[i - 1] \o s[i]]
           c == CHOOSE f : Is(f)
<1>1. m \in Nat /\ \A n \in 1..m : s[n] \in Seq(C)
  BY LenProperties
<1>2. next \in [1..m -> [Seq(C) -> Seq(C)]]
  <2>1. \A n \in 1..m : \A x \in Seq(C) : x \o s[n] \in Seq(C)
    BY <1>1, ConcatProperties
  <2> QED BY <2>1
<1>3. <<>> \in Seq(C)
  BY EmptySeq
<1>4. PICK f \in [0..m -> Seq(C)] : Runs(f, <<>>, next, m)
  <2> HIDE DEF m, next
  <2> QED BY <1>1, <1>2, <1>3, RunsExist
<1>5. f[0] = <<>> /\ \A n \in 1..m : f[n] = f[n - 1] \o s[n]
  <2>1. \A n \in 1..m : next[n][f[n - 1]] = f[n - 1] \o s[n]
    <3> SUFFICES ASSUME NEW n \in 1..m PROVE next[n][f[n - 1]] = f[n - 1] \o s[n]
      OBVIOUS
    <3>1. n - 1 \in 0..m
      BY <1>1
    <3>2. f[n - 1] \in Seq(C)
      BY <1>4, <3>1
    <3> QED BY <3>2
  <2> HIDE DEF m, next
  <2> QED BY <1>4, <2>1 DEF Runs
<1>6. CASE m = 0
  <2>1. s = <<>>
    BY <1>6, EmptySeq
  <2>2. FlattenSeq(s) = s
    BY <1>6 DEF FlattenSeq
  <2> QED BY <1>4, <1>5, <1>6, <2>1, <2>2 DEF Flattens
<1>7. CASE m # 0
  <2> DEFINE g == [i \in 1..m |-> f[i]]
  <2>1. Is(g)
    <3>1. f[1] = s[1]
      <4>1. 1 \in 1..m /\ 1 - 1 = 0
        BY <1>1, <1>7
      <4>2. f[1] = <<>> \o s[1] /\ s[1] \in Seq(C)
        BY <1>1, <1>5, <4>1
      <4> QED BY <4>2, ConcatEmptySeq
    <3>2. \A i \in 1..m : i # 1 => i - 1 \in 1..m
      BY <1>1
    <3>3. \A i \in 1..m : g[i] = IF i = 1 THEN s[i] ELSE g[i - 1] \o s[i]
      BY <1>5, <3>1, <3>2
    <3> HIDE DEF m
    <3> QED BY <3>3
  <2>2. Is(c)
    BY <2>1
  <2>3. \A i \in 1..m : c[i] = IF i = 1 THEN s[i] ELSE c[i - 1] \o s[i]
    <3> HIDE DEF c, m
    <3> QED BY <2>2
  <2>4. FlattenSeq(s) = c[m]
    BY <1>7 DEF FlattenSeq
  <2> HIDE DEF c, m
  <2> DEFINE d == [n \in 0..m |-> IF n = 0 THEN <<>> ELSE c[n]]
  <2>5. d[0] = <<>> /\ \A n \in 1..m : d[n] = d[n - 1] \o s[n]
    <3>1. d[0] = <<>>
      BY <1>1
    <3>2. ASSUME NEW n \in 1..m PROVE d[n] = d[n - 1] \o s[n]
      <4>1. n \in 0..m /\ n - 1 \in 0..m /\ n # 0
        BY <1>1
      <4>2. CASE n = 1
        <5>1. d[n] = s[1] /\ d[n - 1] = <<>> /\ s[1] \in Seq(C)
          BY <1>1, <2>3, <4>1, <4>2
        <5> QED BY <4>2, <5>1, ConcatEmptySeq
      <4>3. CASE n # 1
        <5>1. n - 1 # 0
          BY <4>1, <4>3
        <5> QED BY <2>3, <4>1, <4>3, <5>1
      <4> QED BY <4>2, <4>3
    <3> QED BY <3>1, <3>2
  <2> HIDE DEF d
  <2>6. Runs(d, <<>>, next, m)
    <3> DEFINE ok == {n \in 0..m : d[n] \in Seq(C)}
    <3>1. 0 \in ok
      <4>1. 0 \in 0..m
        BY <1>1
      <4>2. d[0] \in Seq(C)
        BY <1>3, <2>5
      <4> QED BY <4>1, <4>2
    <3>2. \A n \in 0..m : n < m /\ n \in ok => n + 1 \in ok
      <4> SUFFICES ASSUME NEW n \in 0..m, n < m, n \in ok PROVE n + 1 \in ok
        OBVIOUS
      <4>1. n + 1 \in 1..m /\ (n + 1) - 1 = n
        BY <1>1
      <4>2. d[n + 1] = d[n] \o s[n + 1] /\ d[n] \in Seq(C) /\ s[n + 1] \in Seq(C)
        BY <1>1, <2>5, <4>1
      <4>3. d[n + 1] \in Seq(C)
        BY <4>2, ConcatProperties
      <4> QED BY <4>1, <4>3
    <3>3. \A n \in 0..m : n \in ok
      <4> HIDE DEF ok
      <4> QED BY <1>1, <3>1, <3>2, NumberInduction
    <3>4. \A n \in 1..m : next[n][d[n - 1]] = d[n - 1] \o s[n]
      <4> SUFFICES ASSUME NEW n \in 1..m PROVE next[n][d[n - 1]] = d[n - 1] \o s[n]
        OBVIOUS
      <4>1. n - 1 \in 0..m
        BY <1>1
      <4>2. d[n - 1] \in Seq(C)
        BY <3>3, <4>1
      <4> QED BY <4>2
    <3> HIDE DEF next
    <3> QED BY <2>5, <3>4 DEF Runs
  <2>7. m \in 0..m
    BY <1>1
  <2>8. d[m] = f[m]
    <3> HIDE DEF next
    <3> QED BY <1>1, <1>4, <2>6, <2>7, RunsAgree
  <2>9. d[m] = c[m]
    BY <1>7, <2>7 DEF d
  <2>10. FlattenSeq(s) = f[m]
    BY <2>4, <2>8, <2>9
  <2> QED BY <1>4, <1>5, <2>10 DEF Flattens, m
<1> QED BY <1>6, <1>7

LEMMA FlattenNone == FlattenSeq(<<>>) = <<>>
<1>1. Len(<<>>) = 0
  BY EmptySeq
<1> QED BY <1>1 DEF FlattenSeq

LEMMA FlattenIsSeq ==
    ASSUME NEW C, NEW s \in Seq(Seq(C))
    PROVE  FlattenSeq(s) \in Seq(C)
<1>1. Len(s) \in Nat
  BY LenProperties
<1>2. Len(s) \in 0..Len(s)
  BY <1>1
<1> QED BY <1>2, FlattenDefined

LEMMA FlattenAppend ==
    ASSUME NEW C, NEW s \in Seq(Seq(C)), NEW x \in Seq(C)
    PROVE  FlattenSeq(Append(s, x)) = FlattenSeq(s) \o x
<1> DEFINE t == Append(s, x)
<1>1. /\ t \in Seq(Seq(C)) /\ Len(s) \in Nat /\ Len(t) = Len(s) + 1
      /\ \A i \in 1..Len(s) : t[i] = s[i]
      /\ t[Len(s) + 1] = x
  BY AppendShape
<1> HIDE DEF t
<1>2. PICK f \in [0..Len(s) -> Seq(C)] : Flattens(f, s) /\ FlattenSeq(s) = f[Len(s)]
  BY FlattenDefined
<1>3. PICK g \in [0..Len(t) -> Seq(C)] : Flattens(g, t) /\ FlattenSeq(t) = g[Len(t)]
  BY <1>1, FlattenDefined
<1> DEFINE same == {n \in 0..Len(s) : f[n] = g[n]}
<1>4. 0 \in same
  BY <1>1, <1>2, <1>3 DEF Flattens
<1>5. \A n \in 0..Len(s) : n < Len(s) /\ n \in same => n + 1 \in same
  <2> SUFFICES ASSUME NEW n \in 0..Len(s), n < Len(s), n \in same PROVE n + 1 \in same
    OBVIOUS
  <2>1. n + 1 \in 1..Len(s) /\ n + 1 \in 1..Len(t) /\ (n + 1) - 1 = n
    BY <1>1
  <2>2. f[n + 1] = f[n] \o s[n + 1] /\ g[n + 1] = g[n] \o t[n + 1]
    BY <1>2, <1>3, <2>1 DEF Flattens
  <2>3. t[n + 1] = s[n + 1] /\ f[n] = g[n]
    BY <1>1, <2>1
  <2>4. f[n + 1] = g[n + 1]
    BY <2>2, <2>3
  <2>5. n + 1 \in 0..Len(s)
    BY <2>1
  <2> QED BY <2>4, <2>5
<1>6. \A n \in 0..Len(s) : n \in same
  <2> HIDE DEF same
  <2> QED BY <1>1, <1>4, <1>5, NumberInduction
<1>7. f[Len(s)] = g[Len(s)]
  <2>1. Len(s) \in 0..Len(s)
    BY <1>1
  <2> QED BY <1>6, <2>1
<1>8. Len(t) \in 1..Len(t) /\ Len(t) - 1 = Len(s)
  BY <1>1
<1>9. g[Len(t)] = g[Len(s)] \o x
  BY <1>1, <1>3, <1>8 DEF Flattens
<1> QED BY <1>2, <1>3, <1>7, <1>9 DEF t

-----------------------------------------------------------------------------
(* Pieces *)

PieceLists(C) == Seq(Seq(C)) \ {<<>>}
\* What one more character makes of the pieces before it.
WithCharacter(x, c) ==
    IF c = "/" THEN Append(x, <<>>) ELSE Append(Front(x), Append(Last(x), c))
Splits(f, p) ==
    f[1] = << <<>> >> /\ \A k \in 2..Len(p) : f[k] = WithCharacter(f[k - 1], p[k])

LEMMA FrontAndLast ==
    ASSUME NEW S, NEW s \in Seq(S), s # <<>>
    PROVE  Front(s) \in Seq(S) /\ Last(s) \in S /\ s = Append(Front(s), Last(s))
<1>1. PICK r \in Seq(S), x \in S : s = Append(r, x)
  BY SequenceEmptyOrAppend
<1>2. Front(s) = r /\ Last(s) = x
  BY <1>1, AppendShape
<1> QED BY <1>1, <1>2

LEMMA WithCharacterIsList ==
    ASSUME NEW C, NEW x \in PieceLists(C), NEW c \in C
    PROVE  WithCharacter(x, c) \in PieceLists(C)
<1>1. x \in Seq(Seq(C)) /\ x # <<>> /\ <<>> \in Seq(C)
  BY EmptySeq DEF PieceLists
<1>2. Front(x) \in Seq(Seq(C)) /\ Last(x) \in Seq(C)
  BY <1>1, FrontAndLast
<1>3. Append(Last(x), c) \in Seq(C)
  BY <1>2, AppendShape
<1>4. CASE c = "/"
  <2>1. Append(x, <<>>) \in Seq(Seq(C)) /\ Append(x, <<>>) # <<>>
    BY <1>1, AppendShape
  <2> QED BY <1>4, <2>1 DEF WithCharacter, PieceLists
<1>5. CASE c # "/"
  <2>1. /\ Append(Front(x), Append(Last(x), c)) \in Seq(Seq(C))
        /\ Append(Front(x), Append(Last(x), c)) # <<>>
    BY <1>2, <1>3, AppendShape
  <2> QED BY <1>5, <2>1 DEF WithCharacter, PieceLists
<1> QED BY <1>4, <1>5

\* Two ways to split the same characters agree.
LEMMA SplitsAgree ==
    ASSUME NEW m \in Nat \ {0}, NEW p, NEW q, Len(p) \in Nat, Len(q) \in Nat,
           m <= Len(p), m <= Len(q), \A k \in 1..m : p[k] = q[k],
           NEW f, NEW g, Splits(f, p), Splits(g, q)
    PROVE  \A k \in 1..m : f[k] = g[k]
<1> DEFINE same == {n \in 0..(m - 1) : f[n + 1] = g[n + 1]}
<1>1. 0 \in same
  <2>1. f[1] = g[1] /\ 0 + 1 = 1 /\ 0 \in 0..(m - 1)
    BY DEF Splits
  <2> QED BY <2>1
<1>2. \A n \in 0..(m - 1) : n < m - 1 /\ n \in same => n + 1 \in same
  <2> SUFFICES ASSUME NEW n \in 0..(m - 1), n < m - 1, n \in same PROVE n + 1 \in same
    OBVIOUS
  <2>1. /\ (n + 1) + 1 \in 2..Len(p) /\ (n + 1) + 1 \in 2..Len(q) /\ (n + 1) + 1 \in 1..m
        /\ ((n + 1) + 1) - 1 = n + 1 /\ n + 1 \in 0..(m - 1)
    OBVIOUS
  <2>2. /\ f[(n + 1) + 1] = WithCharacter(f[n + 1], p[(n + 1) + 1])
        /\ g[(n + 1) + 1] = WithCharacter(g[n + 1], q[(n + 1) + 1])
    BY <2>1 DEF Splits
  <2>3. f[n + 1] = g[n + 1] /\ p[(n + 1) + 1] = q[(n + 1) + 1]
    BY <2>1
  <2>4. f[(n + 1) + 1] = g[(n + 1) + 1]
    BY <2>2, <2>3
  <2> QED BY <2>1, <2>4
<1>3. \A n \in 0..(m - 1) : n \in same
  <2> HIDE DEF same
  <2>1. m - 1 \in Nat
    OBVIOUS
  <2> QED BY <1>1, <1>2, <2>1, NumberInduction
<1>4. \A k \in 1..m : k - 1 \in 0..(m - 1) /\ (k - 1) + 1 = k
  OBVIOUS
<1> QED BY <1>3, <1>4

LEMMA PiecesDefined ==
    ASSUME NEW C, NEW p \in Seq(C), p # <<>>
    PROVE  \E f \in [1..Len(p) -> PieceLists(C)] : Splits(f, p) /\ Pieces(p) = f[Len(p)]
<1> DEFINE m == Len(p)
           next == [n \in 1..(m - 1) |-> [x \in PieceLists(C) |-> WithCharacter(x, p[n + 1])]]
           Is(f) == f = [k \in 1..m |->
                            IF k = 1 THEN << <<>> >>
                            ELSE IF p[k] = "/" THEN Append(f[k - 1], <<>>)
                            ELSE Append(Front(f[k - 1]), Append(Last(f[k - 1]), p[k]))]
           c == CHOOSE f : Is(f)
<1>1. m \in Nat /\ m # 0 /\ m - 1 \in Nat /\ \A n \in 1..m : p[n] \in C
  BY EmptySeq, LenProperties
<1>2. next \in [1..(m - 1) -> [PieceLists(C) -> PieceLists(C)]]
  <2>1. \A n \in 1..(m - 1) : n + 1 \in 1..m
    BY <1>1
  <2>2. \A n \in 1..(m - 1) : \A x \in PieceLists(C) : WithCharacter(x, p[n + 1]) \in PieceLists(C)
    BY <1>1, <2>1, WithCharacterIsList
  <2> QED BY <2>2
<1>3. << <<>> >> \in PieceLists(C)
  <2>1. <<>> \in Seq(C)
    BY EmptySeq
  <2> QED BY <2>1 DEF PieceLists
<1>4. PICK h \in [0..(m - 1) -> PieceLists(C)] : Runs(h, << <<>> >>, next, m - 1)
  <2> HIDE DEF m, next
  <2> QED BY <1>1, <1>2, <1>3, RunsExist
<1> DEFINE f == [k \in 1..m |-> h[k - 1]]
<1>5. f \in [1..m -> PieceLists(C)]
  <2>1. \A k \in 1..m : k - 1 \in 0..(m - 1)
    BY <1>1
  <2> HIDE DEF m
  <2> QED BY <1>4, <2>1
<1>6. f[1] = << <<>> >>
  <2>1. 1 \in 1..m /\ 1 - 1 = 0
    BY <1>1
  <2> HIDE DEF m
  <2> QED BY <1>4, <2>1 DEF Runs
<1>7. \A k \in 2..m : f[k] = WithCharacter(f[k - 1], p[k])
  <2> SUFFICES ASSUME NEW k \in 2..m PROVE f[k] = WithCharacter(f[k - 1], p[k])
    OBVIOUS
  <2>1. /\ k - 1 \in 1..(m - 1) /\ k - 1 \in 1..m /\ k \in 1..m /\ (k - 1) + 1 = k
        /\ (k - 1) - 1 \in 0..(m - 1)
    BY <1>1
  <2>2. f[k] = h[k - 1] /\ f[k - 1] = h[(k - 1) - 1]
    BY <2>1
  <2>3. h[k - 1] = next[k - 1][h[(k - 1) - 1]]
    <3> HIDE DEF m, next
    <3> QED BY <1>4, <2>1 DEF Runs
  <2>4. h[(k - 1) - 1] \in PieceLists(C)
    BY <1>4, <2>1
  <2>5. next[k - 1][h[(k - 1) - 1]] = WithCharacter(h[(k - 1) - 1], p[k])
    BY <2>1, <2>4
  <2> HIDE DEF f, next
  <2> QED BY <2>2, <2>3, <2>5
<1> HIDE DEF f
<1>8. Is(f)
  <2>1. \A k \in 1..m : k = 1 \/ k \in 2..m
    BY <1>1
  <2>2. \A k \in 1..m : f[k] = IF k = 1 THEN << <<>> >>
                               ELSE IF p[k] = "/" THEN Append(f[k - 1], <<>>)
                               ELSE Append(Front(f[k - 1]), Append(Last(f[k - 1]), p[k]))
    BY <1>6, <1>7, <2>1 DEF WithCharacter
  <2> HIDE DEF m
  <2> QED BY <1>5, <2>2
<1>9. Is(c)
  BY <1>8
<1>10. Pieces(p) = c[m]
  BY DEF Pieces
<1>11. Splits(c, p)
  <2> HIDE DEF c
  <2>1. \A k \in 1..m : c[k] = IF k = 1 THEN << <<>> >>
                               ELSE IF p[k] = "/" THEN Append(c[k - 1], <<>>)
                               ELSE Append(Front(c[k - 1]), Append(Last(c[k - 1]), p[k]))
    <3> HIDE DEF m
    <3> QED BY <1>9
  <2>2. 1 \in 1..m /\ \A k \in 2..m : k \in 1..m /\ k # 1
    BY <1>1
  <2> QED BY <2>1, <2>2 DEF Splits, WithCharacter
<1>12. Splits(f, p)
  BY <1>6, <1>7 DEF Splits
<1>13. c[m] = f[m]
  <2>1. m \in 1..m
    BY <1>1
  <2> HIDE DEF c
  <2> QED BY <1>1, <1>11, <1>12, <2>1, SplitsAgree
<1> HIDE DEF c
<1> QED BY <1>5, <1>10, <1>12, <1>13

LEMMA PiecesOfNothing == Pieces(<<>>) = <<>>
BY DEF Pieces

LEMMA PiecesOfOne ==
    ASSUME NEW C, NEW c \in C
    PROVE  Pieces(<<c>>) = << <<>> >>
<1>1. <<c>> \in Seq(C) /\ <<c>> # <<>> /\ Len(<<c>>) = 1
  OBVIOUS
<1> QED BY <1>1, PiecesDefined DEF Splits

LEMMA PiecesAppend ==
    ASSUME NEW C, NEW p \in Seq(C), p # <<>>, NEW c \in C
    PROVE  /\ Pieces(p) \in PieceLists(C)
           /\ Pieces(Append(p, c)) = WithCharacter(Pieces(p), c)
<1> DEFINE q == Append(p, c)
           m == Len(p)
<1>1. /\ q \in Seq(C) /\ q # <<>> /\ m \in Nat /\ Len(q) = m + 1 /\ q[m + 1] = c
      /\ \A i \in 1..m : q[i] = p[i]
  BY AppendShape
<1>2. m # 0
  BY EmptySeq
<1> HIDE DEF q
<1>3. PICK f \in [1..m -> PieceLists(C)] : Splits(f, p) /\ Pieces(p) = f[m]
  BY PiecesDefined
<1>4. PICK g \in [1..Len(q) -> PieceLists(C)] : Splits(g, q) /\ Pieces(q) = g[Len(q)]
  BY <1>1, PiecesDefined
<1>5. m \in 1..m /\ m + 1 \in 2..Len(q) /\ (m + 1) - 1 = m
  BY <1>1, <1>2
<1>6. f[m] = g[m]
  <2>1. \A k \in 1..m : p[k] = q[k]
    BY <1>1
  <2>2. m \in Nat \ {0} /\ m <= Len(p) /\ m <= Len(q) /\ Len(p) \in Nat /\ Len(q) \in Nat
    BY <1>1, <1>2
  <2>3. \A k \in 1..m : f[k] = g[k]
    <3> HIDE DEF m
    <3> QED BY <1>3, <1>4, <2>1, <2>2, SplitsAgree
  <2> QED BY <1>5, <2>3
<1>7. g[m + 1] = WithCharacter(g[m], c)
  BY <1>1, <1>4, <1>5 DEF Splits
<1> QED BY <1>1, <1>3, <1>4, <1>5, <1>6, <1>7 DEF q

-----------------------------------------------------------------------------
(* Escapes: Decoded and Escaped undo one another. *)

EscapedCharacter(c) ==
    IF c = "~" THEN <<"~", "0">> ELSE IF c = "/" THEN <<"~", "1">> ELSE <<c>>
\* What DecodeToken emits at c, the character after raw.
Emitted(raw, c) ==
    IF raw # <<>> /\ Last(raw) = "~" THEN IF c = "1" THEN <<"/">> ELSE <<"~">>
    ELSE IF c = "~" THEN <<>> ELSE <<c>>

SlashFree(s) == \A i \in 1..Len(s) : s[i] # "/"
EndsInTilde(s) == s # <<>> /\ Last(s) = "~"
\* Well escaped, but for an escape that the last character may begin.
NearlyEscaped(s) ==
    \A i \in 1..Len(s) : s[i] = "~" /\ i # Len(s) => s[i + 1] \in {"0", "1"}

LEMMA InAlphabet ==
    /\ "~" \in Alphabet /\ "/" \in Alphabet /\ "0" \in Alphabet /\ "1" \in Alphabet
    /\ \A d \in 0..9 : Digits[d + 1] \in Alphabet
<1>1. DOMAIN Digits = 1..10
  BY DEF Digits
<1>2. \A d \in 1..10 : Digits[d] \in ToSet(Digits)
  BY <1>1 DEF ToSet
<1>3. \A d \in 1..10 : Digits[d] \in Alphabet
  BY <1>2, AlphabetAssumption
<1>4. Digits[1] = "0" /\ Digits[2] = "1"
  BY DEF Digits
<1>5. "0" \in Alphabet /\ "1" \in Alphabet
  BY <1>3, <1>4
<1>6. \A d \in 0..9 : d + 1 \in 1..10
  OBVIOUS
<1> QED BY <1>3, <1>5, <1>6, AlphabetAssumption

LEMMA EscapedCharacterIsSeq ==
    ASSUME NEW c \in Alphabet
    PROVE  EscapedCharacter(c) \in Seq(Alphabet)
<1>1. "~" \in Alphabet /\ "0" \in Alphabet /\ "1" \in Alphabet
  BY InAlphabet
<1>2. <<"~", "0">> \in Seq(Alphabet) /\ <<"~", "1">> \in Seq(Alphabet) /\ <<c>> \in Seq(Alphabet)
  BY <1>1, ShortSeqs
<1> QED BY <1>2 DEF EscapedCharacter

LEMMA EscapedOfNothing == Escaped(<<>>) = <<>>
<1>1. [k \in DOMAIN <<>> |->
          IF <<>>[k] = "~" THEN <<"~", "0">>
          ELSE IF <<>>[k] = "/" THEN <<"~", "1">> ELSE <<(<<>>[k])>>] = <<>>
  OBVIOUS
<1> QED BY <1>1, FlattenNone DEF Escaped

LEMMA EscapedPieces ==
    ASSUME NEW t \in Seq(Alphabet), NEW e, e = [k \in DOMAIN t |-> EscapedCharacter(t[k])]
    PROVE  /\ e \in Seq(Seq(Alphabet)) /\ Len(e) = Len(t)
           /\ \A i \in 1..Len(t) : e[i] = EscapedCharacter(t[i])
           /\ Escaped(t) = FlattenSeq(e) /\ Escaped(t) \in Seq(Alphabet)
<1>1. Len(t) \in Nat /\ DOMAIN t = 1..Len(t) /\ \A k \in 1..Len(t) : t[k] \in Alphabet
  BY LenProperties
<1>2. e \in [1..Len(t) -> Seq(Alphabet)]
  <2>1. \A k \in 1..Len(t) : EscapedCharacter(t[k]) \in Seq(Alphabet)
    BY <1>1, EscapedCharacterIsSeq
  <2> QED BY <1>1, <2>1
<1>3. e \in Seq(Seq(Alphabet)) /\ Len(e) = Len(t)
  BY <1>1, <1>2, MapIsSeq
<1>4. Escaped(t) = FlattenSeq(e)
  BY DEF Escaped, EscapedCharacter
<1>5. Escaped(t) \in Seq(Alphabet)
  BY <1>3, <1>4, FlattenIsSeq
<1>6. \A i \in 1..Len(t) : e[i] = EscapedCharacter(t[i])
  BY <1>1
<1> QED BY <1>3, <1>4, <1>5, <1>6

LEMMA EscapedAppend ==
    ASSUME NEW t \in Seq(Alphabet), NEW c \in Alphabet
    PROVE  /\ Escaped(t) \in Seq(Alphabet)
           /\ Escaped(Append(t, c)) = Escaped(t) \o EscapedCharacter(c)
<1> DEFINE u == Append(t, c)
           x == EscapedCharacter(c)
<1>1. /\ u \in Seq(Alphabet) /\ Len(t) \in Nat /\ Len(u) = Len(t) + 1 /\ u[Len(t) + 1] = c
      /\ \A i \in 1..Len(t) : u[i] = t[i]
  BY AppendShape
<1> HIDE DEF u
<1>2. PICK e : e = [k \in DOMAIN t |-> EscapedCharacter(t[k])]
  OBVIOUS
<1>3. PICK f : f = [k \in DOMAIN u |-> EscapedCharacter(u[k])]
  OBVIOUS
<1>4. /\ e \in Seq(Seq(Alphabet)) /\ Len(e) = Len(t)
      /\ \A i \in 1..Len(t) : e[i] = EscapedCharacter(t[i])
      /\ Escaped(t) = FlattenSeq(e) /\ Escaped(t) \in Seq(Alphabet)
  BY <1>2, EscapedPieces
<1>5. /\ f \in Seq(Seq(Alphabet)) /\ Len(f) = Len(u)
      /\ \A i \in 1..Len(u) : f[i] = EscapedCharacter(u[i])
      /\ Escaped(u) = FlattenSeq(f)
  BY <1>1, <1>3, EscapedPieces
<1>6. x \in Seq(Alphabet)
  BY EscapedCharacterIsSeq
<1>7. f[Len(t) + 1] = x
  <2>1. Len(t) + 1 \in 1..Len(u)
    BY <1>1
  <2> QED BY <1>1, <1>5, <2>1
<1>8. \A i \in 1..Len(t) : f[i] = e[i]
  <2>1. \A i \in 1..Len(t) : i \in 1..Len(u)
    BY <1>1
  <2> QED BY <1>1, <1>4, <1>5, <2>1
<1> HIDE DEF x
<1>9. f = Append(e, x)
  BY <1>1, <1>4, <1>5, <1>6, <1>7, <1>8, IsAppend
<1>10. FlattenSeq(Append(e, x)) = FlattenSeq(e) \o x
  BY <1>4, <1>6, FlattenAppend
<1> QED BY <1>4, <1>5, <1>9, <1>10 DEF u, x

\* What DecodeToken emits at the k-th character.
EmittedAt(raw, k) ==
    IF k > 1 /\ raw[k - 1] = "~" THEN IF raw[k] = "1" THEN <<"/">> ELSE <<"~">>
    ELSE IF raw[k] = "~" THEN <<>> ELSE <<raw[k]>>

LEMMA EmittedIsSeq ==
    ASSUME NEW raw \in Seq(Alphabet), NEW k \in 1..Len(raw)
    PROVE  EmittedAt(raw, k) \in Seq(Alphabet)
<1>1. <<>> \in Seq(Alphabet) /\ raw[k] \in Alphabet
  BY EmptySeq, LenProperties
<1>2. <<"/">> \in Seq(Alphabet) /\ <<"~">> \in Seq(Alphabet) /\ <<raw[k]>> \in Seq(Alphabet)
  BY <1>1, InAlphabet, ShortSeqs
<1> QED BY <1>1, <1>2 DEF EmittedAt

LEMMA DecodedPieces ==
    ASSUME NEW t \in Seq(Alphabet), NEW e, e = [k \in DOMAIN t |-> EmittedAt(t, k)]
    PROVE  /\ e \in Seq(Seq(Alphabet)) /\ Len(e) = Len(t)
           /\ \A i \in 1..Len(t) : e[i] = EmittedAt(t, i)
           /\ Decoded(t) = FlattenSeq(e) /\ Decoded(t) \in Seq(Alphabet)
<1>1. Len(t) \in Nat /\ DOMAIN t = 1..Len(t)
  BY LenProperties
<1>2. e \in [1..Len(t) -> Seq(Alphabet)]
  <2>1. \A k \in 1..Len(t) : EmittedAt(t, k) \in Seq(Alphabet)
    BY EmittedIsSeq
  <2> QED BY <1>1, <2>1
<1>3. e \in Seq(Seq(Alphabet)) /\ Len(e) = Len(t)
  BY <1>1, <1>2, MapIsSeq
<1>4. Decoded(t) = FlattenSeq(e)
  BY DEF Decoded, EmittedAt
<1>5. Decoded(t) \in Seq(Alphabet)
  BY <1>3, <1>4, FlattenIsSeq
<1>6. \A i \in 1..Len(t) : e[i] = EmittedAt(t, i)
  BY <1>1
<1> QED BY <1>3, <1>4, <1>5, <1>6

LEMMA DecodedOfNothing == Decoded(<<>>) = <<>>
<1>1. [k \in DOMAIN <<>> |-> EmittedAt(<<>>, k)] = <<>>
  OBVIOUS
<1>2. Decoded(<<>>) = FlattenSeq([k \in DOMAIN <<>> |-> EmittedAt(<<>>, k)])
  BY DEF Decoded, EmittedAt
<1> QED BY <1>1, <1>2, FlattenNone

LEMMA DecodedAppend ==
    ASSUME NEW t \in Seq(Alphabet), NEW c \in Alphabet
    PROVE  /\ Decoded(t) \in Seq(Alphabet)
           /\ Decoded(Append(t, c)) = Decoded(t) \o Emitted(t, c)
<1> DEFINE u == Append(t, c)
           x == Emitted(t, c)
<1>1. /\ u \in Seq(Alphabet) /\ Len(t) \in Nat /\ Len(u) = Len(t) + 1 /\ u[Len(t) + 1] = c
      /\ \A i \in 1..Len(t) : u[i] = t[i]
  BY AppendShape
<1> HIDE DEF u
<1>2. PICK e : e = [k \in DOMAIN t |-> EmittedAt(t, k)]
  OBVIOUS
<1>3. PICK f : f = [k \in DOMAIN u |-> EmittedAt(u, k)]
  OBVIOUS
<1>4. /\ e \in Seq(Seq(Alphabet)) /\ Len(e) = Len(t)
      /\ \A i \in 1..Len(t) : e[i] = EmittedAt(t, i)
      /\ Decoded(t) = FlattenSeq(e) /\ Decoded(t) \in Seq(Alphabet)
  BY <1>2, DecodedPieces
<1>5. /\ f \in Seq(Seq(Alphabet)) /\ Len(f) = Len(u)
      /\ \A i \in 1..Len(u) : f[i] = EmittedAt(u, i)
      /\ Decoded(u) = FlattenSeq(f)
  BY <1>1, <1>3, DecodedPieces
<1>6. EmittedAt(u, Len(t) + 1) = x
  <2>1. (Len(t) + 1) - 1 = Len(t) /\ (Len(t) + 1 > 1 <=> Len(t) # 0)
    BY <1>1
  <2>2. t # <<>> <=> Len(t) # 0
    BY EmptySeq
  <2>3. Len(t) # 0 => u[Len(t)] = t[Len(t)] /\ Last(t) = t[Len(t)]
    <3>1. Len(t) # 0 => Len(t) \in 1..Len(t)
      BY <1>1
    <3> QED BY <1>1, <3>1 DEF Last
  <2> QED BY <1>1, <2>1, <2>2, <2>3 DEF EmittedAt, Emitted
<1>7. Len(t) + 1 \in 1..Len(u)
  BY <1>1
<1>8. f[Len(t) + 1] = x
  BY <1>5, <1>6, <1>7
<1>9. \A i \in 1..Len(t) : f[i] = e[i]
  <2> SUFFICES ASSUME NEW i \in 1..Len(t) PROVE f[i] = e[i]
    OBVIOUS
  <2>1. i \in 1..Len(u) /\ u[i] = t[i]
    BY <1>1
  <2>2. i > 1 => u[i - 1] = t[i - 1]
    <3>1. i > 1 => i - 1 \in 1..Len(t)
      BY <1>1
    <3> QED BY <1>1, <3>1
  <2>3. EmittedAt(u, i) = EmittedAt(t, i)
    BY <2>1, <2>2 DEF EmittedAt
  <2> QED BY <1>4, <1>5, <2>1, <2>3
<1>10. x \in Seq(Alphabet)
  <2>1. EmittedAt(u, Len(t) + 1) \in Seq(Alphabet)
    BY <1>1, <1>7, EmittedIsSeq
  <2> QED BY <1>6, <2>1
<1> HIDE DEF x
<1>11. f = Append(e, x)
  BY <1>1, <1>4, <1>5, <1>8, <1>9, <1>10, IsAppend
<1>12. FlattenSeq(Append(e, x)) = FlattenSeq(e) \o x
  BY <1>4, <1>10, FlattenAppend
<1> QED BY <1>4, <1>5, <1>11, <1>12 DEF u, x

\* Escaped writes a token without slashes that DecodeToken accepts and reads back.
Writes(raw, t) ==
    raw \in Seq(Alphabet) /\ SlashFree(raw) /\ WellEscaped(raw) /\ Decoded(raw) = t

LEMMA EscapeIsInside ==
    ASSUME NEW raw \in Seq(Alphabet), WellEscaped(raw), NEW i \in 1..Len(raw), raw[i] = "~"
    PROVE  i + 1 \in 1..Len(raw) /\ raw[i + 1] \in {"0", "1"}
<1>1. Len(raw) \in Nat /\ DOMAIN raw = 1..Len(raw)
  BY LenProperties
<1>2. i < Len(raw) /\ raw[i + 1] \in {"0", "1"}
  BY <1>1 DEF WellEscaped
<1> QED BY <1>1, <1>2

LEMMA WritesPlain ==
    ASSUME NEW raw, NEW t \in Seq(Alphabet), Writes(raw, t), NEW c \in Alphabet,
           c # "/", c # "~"
    PROVE  Writes(Append(raw, c), Append(t, c))
<1> DEFINE u == Append(raw, c)
<1>1. /\ raw \in Seq(Alphabet) /\ u \in Seq(Alphabet) /\ Len(raw) \in Nat
      /\ Len(u) = Len(raw) + 1 /\ u[Len(raw) + 1] = c
      /\ \A i \in 1..Len(raw) : u[i] = raw[i]
  BY AppendShape DEF Writes
<1>2. DOMAIN raw = 1..Len(raw) /\ DOMAIN u = 1..Len(u)
  <2> HIDE DEF u
  <2> QED BY <1>1, LenProperties
<1>3. Decoded(u) = Decoded(raw) \o Emitted(raw, c)
  BY <1>1, DecodedAppend
<1> HIDE DEF u
<1>4. \A i \in 1..Len(u) : i = Len(raw) + 1 \/ i \in 1..Len(raw)
  BY <1>1
<1>5. SlashFree(u)
  BY <1>1, <1>4 DEF SlashFree, Writes
<1>6. \A i \in 1..Len(raw) : raw[i] = "~" => i + 1 \in 1..Len(raw) /\ raw[i + 1] \in {"0", "1"}
  BY <1>1, EscapeIsInside DEF Writes
<1>7. WellEscaped(u)
  <2> SUFFICES ASSUME NEW i \in 1..Len(u), u[i] = "~"
               PROVE  i < Len(u) /\ u[i + 1] \in {"0", "1"}
    BY <1>2 DEF WellEscaped
  <2>1. i \in 1..Len(raw) /\ raw[i] = "~"
    BY <1>1, <1>4
  <2>2. i + 1 \in 1..Len(raw) /\ raw[i + 1] \in {"0", "1"}
    BY <1>6, <2>1
  <2> QED BY <1>1, <2>1, <2>2
<1>8. ~EndsInTilde(raw)
  <2> SUFFICES ASSUME raw # <<>>, Last(raw) = "~" PROVE FALSE
    BY DEF EndsInTilde
  <2>1. Len(raw) \in 1..Len(raw) /\ raw[Len(raw)] = "~"
    BY <1>1, EmptySeq DEF Last
  <2>2. Len(raw) + 1 \in 1..Len(raw)
    BY <1>6, <2>1
  <2> QED BY <1>1, <2>2
<1>9. Emitted(raw, c) = <<c>>
  BY <1>8 DEF EndsInTilde, Emitted
<1>10. Decoded(u) = Append(t, c)
  BY <1>3, <1>9, AppendIsConcat DEF Writes
<1> QED BY <1>1, <1>5, <1>7, <1>10 DEF Writes, u

LEMMA WritesEscape ==
    ASSUME NEW raw, NEW t \in Seq(Alphabet), Writes(raw, t), NEW c \in Alphabet,
           NEW d, (c = "~" /\ d = "0") \/ (c = "/" /\ d = "1")
    PROVE  Writes(Append(Append(raw, "~"), d), Append(t, c))
<1> DEFINE u == Append(raw, "~")
           v == Append(u, d)
<1>1. /\ raw \in Seq(Alphabet) /\ u \in Seq(Alphabet) /\ Len(raw) \in Nat /\ u # <<>>
      /\ Len(u) = Len(raw) + 1 /\ u[Len(raw) + 1] = "~" /\ Last(u) = "~"
      /\ \A i \in 1..Len(raw) : u[i] = raw[i]
  BY AppendShape, InAlphabet DEF Writes
<1>2. d \in Alphabet
  BY InAlphabet
<1> HIDE DEF u
<1>3. /\ v \in Seq(Alphabet) /\ Len(v) = Len(raw) + 2 /\ v[Len(raw) + 2] = d
      /\ v[Len(raw) + 1] = "~"
      /\ \A i \in 1..Len(raw) : v[i] = raw[i]
  <2>1. /\ v \in Seq(Alphabet) /\ Len(v) = Len(u) + 1 /\ v[Len(u) + 1] = d
        /\ \A i \in 1..Len(u) : v[i] = u[i]
    BY <1>1, <1>2, AppendShape
  <2> HIDE DEF v
  <2>2. Len(u) + 1 = Len(raw) + 2 /\ Len(raw) + 1 \in 1..Len(u)
        /\ \A i \in 1..Len(raw) : i \in 1..Len(u)
    BY <1>1
  <2> QED BY <1>1, <2>1, <2>2
<1>4. DOMAIN raw = 1..Len(raw) /\ DOMAIN v = 1..Len(v)
  <2> HIDE DEF v
  <2> QED BY <1>1, <1>3, LenProperties
<1>5. Decoded(v) = Decoded(u) \o Emitted(u, d) /\ Decoded(u) = Decoded(raw) \o Emitted(raw, "~")
  <2>1. Decoded(v) = Decoded(u) \o Emitted(u, d)
    BY <1>1, <1>2, DecodedAppend
  <2>2. Decoded(Append(raw, "~")) = Decoded(raw) \o Emitted(raw, "~")
    BY <1>1, InAlphabet, DecodedAppend
  <2> QED BY <2>1, <2>2 DEF u
<1> HIDE DEF v
<1>6. \A i \in 1..Len(v) : i = Len(raw) + 1 \/ i = Len(raw) + 2 \/ i \in 1..Len(raw)
  BY <1>1, <1>3
<1>7. SlashFree(v)
  BY <1>1, <1>3, <1>6 DEF SlashFree, Writes
<1>8. \A i \in 1..Len(raw) : raw[i] = "~" => i + 1 \in 1..Len(raw) /\ raw[i + 1] \in {"0", "1"}
  BY <1>1, EscapeIsInside DEF Writes
<1>9. WellEscaped(v)
  <2> SUFFICES ASSUME NEW i \in 1..Len(v), v[i] = "~"
               PROVE  i < Len(v) /\ v[i + 1] \in {"0", "1"}
    BY <1>4 DEF WellEscaped
  <2>1. CASE i = Len(raw) + 1
    <3>1. i + 1 = Len(raw) + 2 /\ i < Len(v)
      BY <1>1, <1>3, <2>1
    <3> QED BY <1>3, <3>1
  <2>2. CASE i \in 1..Len(raw)
    <3>1. raw[i] = "~"
      BY <1>3, <2>2
    <3>2. i + 1 \in 1..Len(raw) /\ raw[i + 1] \in {"0", "1"}
      BY <1>8, <2>2, <3>1
    <3> QED BY <1>1, <1>3, <2>2, <3>2
  <2>3. i # Len(raw) + 2
    BY <1>3
  <2> QED BY <1>6, <2>1, <2>2, <2>3
<1>10. ~EndsInTilde(raw)
  <2> SUFFICES ASSUME raw # <<>>, Last(raw) = "~" PROVE FALSE
    BY DEF EndsInTilde
  <2>1. Len(raw) \in 1..Len(raw) /\ raw[Len(raw)] = "~"
    BY <1>1, EmptySeq DEF Last
  <2>2. Len(raw) + 1 \in 1..Len(raw)
    BY <1>8, <2>1
  <2> QED BY <1>1, <2>2
<1>11. Emitted(raw, "~") = <<>> /\ Emitted(u, d) = <<c>>
  BY <1>1, <1>10 DEF EndsInTilde, Emitted
<1>12. Decoded(u) = t
  BY <1>5, <1>11, ConcatEmptySeq DEF Writes
<1>13. Decoded(v) = Append(t, c)
  BY <1>5, <1>11, <1>12, AppendIsConcat
<1> QED BY <1>3, <1>7, <1>9, <1>13 DEF Writes, u, v

LEMMA EscapedWrites ==
    ASSUME NEW t \in Seq(Alphabet)
    PROVE  Writes(Escaped(t), t)
<1> DEFINE G == {s \in Seq(Alphabet) : Writes(Escaped(s), s)}
<1>1. <<>> \in G
  <2>1. <<>> \in Seq(Alphabet) /\ Len(<<>>) = 0 /\ DOMAIN <<>> = 1..0
    BY EmptySeq
  <2>2. Escaped(<<>>) = <<>> /\ Decoded(<<>>) = <<>>
    BY EscapedOfNothing, DecodedOfNothing
  <2>3. SlashFree(<<>>) /\ WellEscaped(<<>>)
    BY <2>1 DEF SlashFree, WellEscaped
  <2> QED BY <2>1, <2>2, <2>3 DEF Writes
<1>2. ASSUME NEW s \in Seq(Alphabet), NEW c \in Alphabet, s \in G
      PROVE  Append(s, c) \in G
  <2> DEFINE raw == Escaped(s)
  <2>1. Writes(raw, s) /\ raw \in Seq(Alphabet)
    BY <1>2 DEF Writes
  <2>2. Escaped(Append(s, c)) = raw \o EscapedCharacter(c)
    BY EscapedAppend
  <2>3. Append(s, c) \in Seq(Alphabet)
    BY AppendShape
  <2> HIDE DEF raw
  <2>4. CASE c # "/" /\ c # "~"
    <3>1. raw \o EscapedCharacter(c) = Append(raw, c)
      BY <2>1, <2>4, AppendIsConcat DEF EscapedCharacter
    <3>2. Writes(Append(raw, c), Append(s, c))
      BY <2>1, <2>4, WritesPlain
    <3> QED BY <2>2, <2>3, <3>1, <3>2
  <2>5. CASE c = "/" \/ c = "~"
    <3>1. PICK d \in {"0", "1"} : (c = "~" /\ d = "0") \/ (c = "/" /\ d = "1")
      BY <2>5
    <3>2. EscapedCharacter(c) = <<"~", d>> /\ d \in Alphabet
      BY <3>1, InAlphabet DEF EscapedCharacter
    <3>3. raw \o <<"~", d>> = Append(Append(raw, "~"), d)
      <4>1. <<"~">> \in Seq(Alphabet) /\ <<d>> \in Seq(Alphabet)
        BY <3>2, InAlphabet, ShortSeqs
      <4>2. <<"~", d>> = <<"~">> \o <<d>>
        BY <3>2, <4>1, InAlphabet, ShortSeqs, AppendIsConcat
      <4>3. (raw \o <<"~">>) \o <<d>> = raw \o (<<"~">> \o <<d>>)
        BY <2>1, <4>1, ConcatAssociative
      <4>4. Append(raw, "~") = raw \o <<"~">> /\ Append(raw, "~") \in Seq(Alphabet)
        BY <2>1, InAlphabet, AppendIsConcat, AppendProperties
      <4>5. Append(Append(raw, "~"), d) = Append(raw, "~") \o <<d>>
        BY <3>2, <4>4, AppendIsConcat
      <4> QED BY <4>2, <4>3, <4>4, <4>5
    <3>4. Writes(Append(Append(raw, "~"), d), Append(s, c))
      BY <2>1, <3>1, WritesEscape
    <3> QED BY <2>2, <2>3, <3>2, <3>3, <3>4
  <2> QED BY <2>4, <2>5
<1>3. Seq(Alphabet) \subseteq G
  <2>1. \A s \in Seq(Alphabet), c \in Alphabet : s \in G => Append(s, c) \in G
    BY <1>2
  <2> HIDE DEF G
  <2> QED BY <1>1, <2>1, SequenceInduction
<1> QED BY <1>3

\* What Decoded has not read yet.
Unread(raw) == IF EndsInTilde(raw) THEN <<"~">> ELSE <<>>

LEMMA RewrittenStep ==
    ASSUME NEW raw \in Seq(Alphabet), NEW c \in Alphabet, NEW u, u = Append(raw, c),
           SlashFree(u), NearlyEscaped(u),
           SlashFree(raw) /\ NearlyEscaped(raw) => Escaped(Decoded(raw)) \o Unread(raw) = raw
    PROVE  Escaped(Decoded(u)) \o Unread(u) = u
<1>1. /\ u \in Seq(Alphabet) /\ u # <<>> /\ Len(raw) \in Nat /\ Len(u) = Len(raw) + 1
      /\ u[Len(raw) + 1] = c /\ Last(u) = c
      /\ \A i \in 1..Len(raw) : u[i] = raw[i]
  BY AppendShape
<1>2. SlashFree(raw) /\ c # "/"
  <2>1. \A i \in 1..Len(raw) : i \in 1..Len(u)
    BY <1>1
  <2>2. Len(raw) + 1 \in 1..Len(u)
    BY <1>1
  <2> QED BY <1>1, <2>1, <2>2 DEF SlashFree
<1>3. NearlyEscaped(raw)
  <2> SUFFICES ASSUME NEW i \in 1..Len(raw), raw[i] = "~", i # Len(raw)
               PROVE  raw[i + 1] \in {"0", "1"}
    BY DEF NearlyEscaped
  <2>1. i \in 1..Len(u) /\ i # Len(u) /\ i + 1 \in 1..Len(raw) /\ u[i] = "~"
    BY <1>1
  <2> QED BY <1>1, <2>1 DEF NearlyEscaped
<1> DEFINE d == Decoded(raw)
           w == Escaped(d)
<1>4. w \o Unread(raw) = raw
  BY <1>2, <1>3
<1>5. d \in Seq(Alphabet) /\ Decoded(u) = d \o Emitted(raw, c)
  BY DecodedAppend
<1>6. w \in Seq(Alphabet)
  <2> HIDE DEF d
  <2>1. PICK e : e = [k \in DOMAIN d |-> EscapedCharacter(d[k])]
    OBVIOUS
  <2> QED BY <1>5, <2>1, EscapedPieces
<1>7. \A x \in Alphabet : Escaped(Append(d, x)) = w \o EscapedCharacter(x)
  <2> HIDE DEF d
  <2> QED BY <1>5, EscapedAppend
<1>8. u = raw \o <<c>>
  BY AppendIsConcat
<1> HIDE DEF d, w
<1>9. CASE EndsInTilde(raw)
  <2>1. c \in {"0", "1"}
    <3>1. Len(raw) \in 1..Len(raw) /\ Last(raw) = raw[Len(raw)] /\ Last(raw) = "~"
      BY <1>1, <1>9, EmptySeq DEF EndsInTilde, Last
    <3>2. Len(raw) \in 1..Len(u) /\ Len(raw) # Len(u) /\ u[Len(raw)] = "~"
      <4>1. Len(raw) \in 1..Len(u) /\ Len(raw) # Len(u)
        BY <1>1, <3>1
      <4>2. u[Len(raw)] = raw[Len(raw)]
        BY <1>1, <3>1
      <4> QED BY <3>1, <4>1, <4>2
    <3>3. u[Len(raw) + 1] \in {"0", "1"}
      BY <3>2 DEF NearlyEscaped
    <3> QED BY <1>1, <3>3
  <2> DEFINE x == IF c = "1" THEN "/" ELSE "~"
  <2>2. x \in Alphabet /\ Emitted(raw, c) = <<x>> /\ EscapedCharacter(x) = <<"~", c>>
    BY <1>9, <2>1, InAlphabet DEF EndsInTilde, Emitted, EscapedCharacter
  <2> HIDE DEF x
  <2>3. Decoded(u) = Append(d, x)
    BY <1>5, <2>2, AppendIsConcat
  <2>4. Escaped(Decoded(u)) = w \o <<"~", c>>
    BY <1>7, <2>2, <2>3
  <2>5. w \o <<"~", c>> = (w \o <<"~">>) \o <<c>>
    <3>1. <<"~">> \in Seq(Alphabet) /\ <<c>> \in Seq(Alphabet)
      BY InAlphabet, ShortSeqs
    <3>2. <<"~", c>> = <<"~">> \o <<c>>
      BY <3>1, InAlphabet, ShortSeqs, AppendIsConcat
    <3> QED BY <1>6, <3>1, <3>2, ConcatAssociative
  <2>6. Unread(raw) = <<"~">> /\ Unread(u) = <<>>
    BY <1>1, <1>9, <2>1 DEF Unread, EndsInTilde
  <2>7. Escaped(Decoded(u)) = u
    BY <1>4, <1>8, <2>4, <2>5, <2>6
  <2> QED BY <1>1, <2>6, <2>7, ConcatEmptySeq
<1>10. CASE ~EndsInTilde(raw)
  <2>1. w = raw
    BY <1>4, <1>6, <1>10, ConcatEmptySeq DEF Unread
  <2>2. CASE c = "~"
    <3>1. Emitted(raw, c) = <<>> /\ Unread(u) = <<c>>
      BY <1>1, <1>10, <2>2 DEF EndsInTilde, Emitted, Unread
    <3>2. Decoded(u) = d
      BY <1>5, <3>1, ConcatEmptySeq
    <3> QED BY <1>8, <2>1, <3>1, <3>2 DEF w
  <2>3. CASE c # "~"
    <3>1. Emitted(raw, c) = <<c>> /\ Unread(u) = <<>> /\ EscapedCharacter(c) = <<c>>
      BY <1>1, <1>2, <1>10, <2>3 DEF EndsInTilde, Emitted, Unread, EscapedCharacter
    <3>2. Decoded(u) = Append(d, c)
      BY <1>5, <3>1, AppendIsConcat
    <3>3. Escaped(Decoded(u)) = u
      BY <1>7, <1>8, <2>1, <3>1, <3>2
    <3> QED BY <1>1, <3>1, <3>3, ConcatEmptySeq
  <2> QED BY <2>2, <2>3
<1> QED BY <1>9, <1>10

\* What DecodeToken reads is written as it was.
LEMMA DecodedIsRewritten ==
    ASSUME NEW raw \in Seq(Alphabet), SlashFree(raw), WellEscaped(raw)
    PROVE  Decoded(raw) \in Seq(Alphabet) /\ Escaped(Decoded(raw)) = raw
<1> DEFINE G == {s \in Seq(Alphabet) : SlashFree(s) /\ NearlyEscaped(s) =>
                                           Escaped(Decoded(s)) \o Unread(s) = s}
<1>1. <<>> \in G
  <2>1. <<>> \in Seq(Alphabet)
    BY EmptySeq
  <2>2. Escaped(Decoded(<<>>)) = <<>>
    BY EscapedOfNothing, DecodedOfNothing
  <2>3. Unread(<<>>) = <<>>
    BY DEF Unread, EndsInTilde
  <2> QED BY <2>1, <2>2, <2>3, ConcatEmptySeq
<1>2. ASSUME NEW s \in Seq(Alphabet), NEW c \in Alphabet, s \in G
      PROVE  Append(s, c) \in G
  <2>1. PICK u : u = Append(s, c)
    OBVIOUS
  <2>2. u \in Seq(Alphabet)
    BY <2>1, AppendShape
  <2>3. SlashFree(s) /\ NearlyEscaped(s) => Escaped(Decoded(s)) \o Unread(s) = s
    BY <1>2
  <2>4. SlashFree(u) /\ NearlyEscaped(u) => Escaped(Decoded(u)) \o Unread(u) = u
    BY <2>1, <2>3, RewrittenStep
  <2> QED BY <2>1, <2>2, <2>4
<1>3. raw \in G
  <2>1. \A s \in Seq(Alphabet), c \in Alphabet : s \in G => Append(s, c) \in G
    BY <1>2
  <2> HIDE DEF G
  <2> QED BY <1>1, <2>1, SequenceInduction
<1>4. NearlyEscaped(raw)
  BY EscapeIsInside DEF NearlyEscaped
<1>5. Unread(raw) = <<>>
  <2> SUFFICES ASSUME raw # <<>>, Last(raw) = "~" PROVE FALSE
    BY DEF Unread, EndsInTilde
  <2>1. Len(raw) \in 1..Len(raw) /\ raw[Len(raw)] = "~"
    BY EmptySeq DEF Last
  <2>2. Len(raw) + 1 \in 1..Len(raw)
    BY <2>1, EscapeIsInside
  <2> QED BY <2>1, <2>2
<1>6. Decoded(raw) \in Seq(Alphabet)
  <2>1. PICK e : e = [k \in DOMAIN raw |-> EmittedAt(raw, k)]
    OBVIOUS
  <2> QED BY <2>1, DecodedPieces
<1>7. Escaped(Decoded(raw)) \in Seq(Alphabet)
  <2>1. PICK d : d = Decoded(raw)
    OBVIOUS
  <2>2. PICK e : e = [k \in DOMAIN d |-> EscapedCharacter(d[k])]
    OBVIOUS
  <2>3. d \in Seq(Alphabet)
    BY <1>6, <2>1
  <2>4. Escaped(d) \in Seq(Alphabet)
    BY <2>2, <2>3, EscapedPieces
  <2> QED BY <2>1, <2>4
<1> QED BY <1>3, <1>4, <1>5, <1>6, <1>7, ConcatEmptySeq

-----------------------------------------------------------------------------
(* Pieces: splitting at slashes undoes joining with them. *)

Joined(T) == FlattenSeq([n \in DOMAIN T |-> <<"/">> \o T[n]])
AllSlashFree(T) == \A n \in 1..Len(T) : SlashFree(T[n])

LEMMA SlashAndPiece ==
    ASSUME NEW x \in Seq(Alphabet)
    PROVE  <<"/">> \in Seq(Alphabet) /\ <<"/">> \o x \in Seq(Alphabet)
<1>1. <<"/">> \in Seq(Alphabet)
  BY InAlphabet, ShortSeqs
<1> QED BY <1>1, ConcatProperties

LEMMA JoinedPieces ==
    ASSUME NEW T \in Seq(Seq(Alphabet)), NEW e, e = [n \in DOMAIN T |-> <<"/">> \o T[n]]
    PROVE  /\ e \in Seq(Seq(Alphabet)) /\ Len(e) = Len(T)
           /\ \A i \in 1..Len(T) : e[i] = <<"/">> \o T[i]
           /\ Joined(T) = FlattenSeq(e) /\ Joined(T) \in Seq(Alphabet)
<1>1. Len(T) \in Nat /\ DOMAIN T = 1..Len(T) /\ \A n \in 1..Len(T) : T[n] \in Seq(Alphabet)
  BY LenProperties
<1>2. e \in [1..Len(T) -> Seq(Alphabet)]
  <2>1. \A n \in 1..Len(T) : <<"/">> \o T[n] \in Seq(Alphabet)
    BY <1>1, SlashAndPiece
  <2> QED BY <1>1, <2>1
<1>3. e \in Seq(Seq(Alphabet)) /\ Len(e) = Len(T)
  BY <1>1, <1>2, MapIsSeq
<1>4. Joined(T) = FlattenSeq(e)
  BY DEF Joined
<1>5. Joined(T) \in Seq(Alphabet)
  BY <1>3, <1>4, FlattenIsSeq
<1>6. \A i \in 1..Len(T) : e[i] = <<"/">> \o T[i]
  BY <1>1
<1> QED BY <1>3, <1>4, <1>5, <1>6

LEMMA JoinedNone == Joined(<<>>) = <<>>
<1>1. [n \in DOMAIN <<>> |-> <<"/">> \o <<>>[n]] = <<>>
  OBVIOUS
<1> QED BY <1>1, FlattenNone DEF Joined

LEMMA JoinedAppend ==
    ASSUME NEW T \in Seq(Seq(Alphabet)), NEW x \in Seq(Alphabet)
    PROVE  /\ Joined(T) \in Seq(Alphabet)
           /\ Joined(Append(T, x)) = Joined(T) \o (<<"/">> \o x)
<1> DEFINE U == Append(T, x)
           y == <<"/">> \o x
<1>1. /\ U \in Seq(Seq(Alphabet)) /\ Len(T) \in Nat /\ Len(U) = Len(T) + 1
      /\ U[Len(T) + 1] = x
      /\ \A i \in 1..Len(T) : U[i] = T[i]
  BY AppendShape
<1> HIDE DEF U
<1>2. PICK e : e = [n \in DOMAIN T |-> <<"/">> \o T[n]]
  OBVIOUS
<1>3. PICK f : f = [n \in DOMAIN U |-> <<"/">> \o U[n]]
  OBVIOUS
<1>4. /\ e \in Seq(Seq(Alphabet)) /\ Len(e) = Len(T)
      /\ \A i \in 1..Len(T) : e[i] = <<"/">> \o T[i]
      /\ Joined(T) = FlattenSeq(e) /\ Joined(T) \in Seq(Alphabet)
  BY <1>2, JoinedPieces
<1>5. /\ f \in Seq(Seq(Alphabet)) /\ Len(f) = Len(U)
      /\ \A i \in 1..Len(U) : f[i] = <<"/">> \o U[i]
      /\ Joined(U) = FlattenSeq(f)
  BY <1>1, <1>3, JoinedPieces
<1>6. y \in Seq(Alphabet)
  BY SlashAndPiece
<1>7. f[Len(T) + 1] = y
  <2>1. Len(T) + 1 \in 1..Len(U)
    BY <1>1
  <2> QED BY <1>1, <1>5, <2>1
<1>8. \A i \in 1..Len(T) : f[i] = e[i]
  <2>1. \A i \in 1..Len(T) : i \in 1..Len(U)
    BY <1>1
  <2> QED BY <1>1, <1>4, <1>5, <2>1
<1> HIDE DEF y
<1>9. f = Append(e, y)
  <2>1. /\ e \in Seq(Seq(Alphabet)) /\ f \in Seq(Seq(Alphabet)) /\ Len(f) = Len(e) + 1
        /\ f[Len(e) + 1] = y /\ \A i \in 1..Len(e) : f[i] = e[i]
    BY <1>1, <1>4, <1>5, <1>7, <1>8
  <2> QED BY <1>6, <2>1, IsAppend
<1>10. FlattenSeq(Append(e, y)) = FlattenSeq(e) \o y
  BY <1>4, <1>6, FlattenAppend
<1> QED BY <1>4, <1>5, <1>9, <1>10 DEF U, y

LEMMA PiecesIsList ==
    ASSUME NEW p \in Seq(Alphabet)
    PROVE  Pieces(p) \in Seq(Seq(Alphabet)) /\ (p # <<>> => Pieces(p) # <<>>)
<1>1. CASE p = <<>>
  BY <1>1, PiecesOfNothing, EmptySeq
<1>2. CASE p # <<>>
  <2>1. Pieces(p) \in PieceLists(Alphabet)
    BY <1>2, InAlphabet, PiecesAppend
  <2> QED BY <2>1 DEF PieceLists
<1> QED BY <1>1, <1>2

\* One more piece, character by character.
LEMMA PiecesOfJoin ==
    ASSUME NEW p \in Seq(Alphabet), NEW x \in Seq(Alphabet), SlashFree(x)
    PROVE  Pieces(p \o (<<"/">> \o x)) = Append(Pieces(p), x)
<1> DEFINE G == {s \in Seq(Alphabet) :
                    SlashFree(s) => Pieces(p \o (<<"/">> \o s)) = Append(Pieces(p), s)}
<1>1. <<>> \in G
  <2>1. <<>> \in Seq(Alphabet) /\ <<"/">> \in Seq(Alphabet)
    BY EmptySeq, SlashAndPiece
  <2>2. <<"/">> \o <<>> = <<"/">>
    BY <2>1, ConcatEmptySeq
  <2>3. p \o <<"/">> = Append(p, "/")
    BY InAlphabet, AppendIsConcat
  <2>4. Pieces(Append(p, "/")) = Append(Pieces(p), <<>>)
    <3>1. CASE p = <<>>
      <4>1. Append(p, "/") = <<"/">> /\ Append(<<>>, <<>>) = << <<>> >>
        BY <3>1
      <4>2. Pieces(<<"/">>) = << <<>> >>
        BY InAlphabet, PiecesOfOne
      <4> QED BY <3>1, <4>1, <4>2, PiecesOfNothing
    <3>2. CASE p # <<>>
      <4>1. Pieces(Append(p, "/")) = WithCharacter(Pieces(p), "/")
        BY <3>2, InAlphabet, PiecesAppend
      <4> QED BY <4>1 DEF WithCharacter
    <3> QED BY <3>1, <3>2
  <2> QED BY <2>1, <2>2, <2>3, <2>4
<1>2. ASSUME NEW s \in Seq(Alphabet), NEW c \in Alphabet, s \in G
      PROVE  Append(s, c) \in G
  <2> DEFINE q == p \o (<<"/">> \o s)
  <2>1. Append(s, c) \in Seq(Alphabet)
    BY AppendShape
  <2> SUFFICES ASSUME SlashFree(Append(s, c))
               PROVE  Pieces(p \o (<<"/">> \o Append(s, c))) = Append(Pieces(p), Append(s, c))
    BY <2>1
  <2>2. SlashFree(s) /\ c # "/"
    <3>1. /\ Len(s) \in Nat /\ Len(Append(s, c)) = Len(s) + 1 /\ Append(s, c)[Len(s) + 1] = c
          /\ \A i \in 1..Len(s) : Append(s, c)[i] = s[i]
      BY AppendShape
    <3>2. Len(s) + 1 \in 1..Len(Append(s, c))
          /\ \A i \in 1..Len(s) : i \in 1..Len(Append(s, c))
      BY <3>1
    <3> QED BY <3>1, <3>2 DEF SlashFree
  <2>3. Pieces(q) = Append(Pieces(p), s)
    BY <1>2, <2>2
  <2>4. <<"/">> \o s \in Seq(Alphabet) /\ <<"/">> \in Seq(Alphabet) /\ <<c>> \in Seq(Alphabet)
    BY SlashAndPiece, ShortSeqs
  <2>5. q \in Seq(Alphabet) /\ q # <<>>
    <3>1. q \in Seq(Alphabet)
      BY <2>4, ConcatProperties
    <3>2. Append(Pieces(p), s) # <<>>
      BY PiecesIsList, AppendShape
    <3> HIDE DEF q
    <3> QED BY <2>3, <3>1, <3>2, PiecesOfNothing
  <2>6. p \o (<<"/">> \o Append(s, c)) = Append(q, c)
    <3>1. Append(s, c) = s \o <<c>>
      BY AppendIsConcat
    <3>2. <<"/">> \o (s \o <<c>>) = (<<"/">> \o s) \o <<c>>
      BY <2>4, ConcatAssociative
    <3>3. p \o ((<<"/">> \o s) \o <<c>>) = q \o <<c>>
      BY <2>4, ConcatAssociative
    <3>4. q \o <<c>> = Append(q, c)
      <4> HIDE DEF q
      <4> QED BY <2>5, AppendIsConcat
    <3> QED BY <3>1, <3>2, <3>3, <3>4
  <2> HIDE DEF q
  <2>7. Pieces(Append(q, c)) = WithCharacter(Append(Pieces(p), s), c)
    BY <2>3, <2>5, PiecesAppend
  <2>8. Front(Append(Pieces(p), s)) = Pieces(p) /\ Last(Append(Pieces(p), s)) = s
    BY PiecesIsList, AppendShape
  <2> QED BY <2>2, <2>6, <2>7, <2>8 DEF WithCharacter
<1>3. x \in G
  <2>1. \A s \in Seq(Alphabet), c \in Alphabet : s \in G => Append(s, c) \in G
    BY <1>2
  <2> HIDE DEF G
  <2> QED BY <1>1, <2>1, SequenceInduction
<1> QED BY <1>3

LEMMA JoinedIsSplit ==
    ASSUME NEW T \in Seq(Seq(Alphabet)), AllSlashFree(T)
    PROVE  Pieces(Joined(T)) = T
<1> DEFINE G == {U \in Seq(Seq(Alphabet)) : AllSlashFree(U) => Pieces(Joined(U)) = U}
<1>1. <<>> \in G
  BY EmptySeq, JoinedNone, PiecesOfNothing
<1>2. ASSUME NEW U \in Seq(Seq(Alphabet)), NEW x \in Seq(Alphabet), U \in G
      PROVE  Append(U, x) \in G
  <2>1. /\ Append(U, x) \in Seq(Seq(Alphabet)) /\ Len(U) \in Nat
        /\ Len(Append(U, x)) = Len(U) + 1 /\ Append(U, x)[Len(U) + 1] = x
        /\ \A i \in 1..Len(U) : Append(U, x)[i] = U[i]
    BY AppendShape
  <2> SUFFICES ASSUME AllSlashFree(Append(U, x))
               PROVE  Pieces(Joined(Append(U, x))) = Append(U, x)
    BY <2>1
  <2>2. AllSlashFree(U) /\ SlashFree(x)
    <3>1. Len(U) + 1 \in 1..Len(Append(U, x))
          /\ \A i \in 1..Len(U) : i \in 1..Len(Append(U, x))
      BY <2>1
    <3> QED BY <2>1, <3>1 DEF AllSlashFree
  <2>3. Joined(Append(U, x)) = Joined(U) \o (<<"/">> \o x) /\ Joined(U) \in Seq(Alphabet)
    BY JoinedAppend
  <2>4. Pieces(Joined(U) \o (<<"/">> \o x)) = Append(Pieces(Joined(U)), x)
    BY <2>2, <2>3, PiecesOfJoin
  <2> QED BY <1>2, <2>2, <2>3, <2>4
<1>3. T \in G
  <2>1. \A U \in Seq(Seq(Alphabet)), x \in Seq(Alphabet) : U \in G => Append(U, x) \in G
    BY <1>2
  <2> HIDE DEF G
  <2> QED BY <1>1, <2>1, SequenceInduction
<1> QED BY <1>3

\* The pieces that some path has.
SplitsBack(p) ==
    p # <<>> /\ p[1] = "/" => AllSlashFree(Pieces(p)) /\ Joined(Pieces(p)) = p

LEMMA SplitsBackStep ==
    ASSUME NEW p \in Seq(Alphabet), NEW c \in Alphabet, SplitsBack(p)
    PROVE  SplitsBack(Append(p, c))
<1> DEFINE u == Append(p, c)
<1>1. /\ u \in Seq(Alphabet) /\ u # <<>> /\ Len(p) \in Nat /\ Len(u) = Len(p) + 1
      /\ u[Len(p) + 1] = c
      /\ \A i \in 1..Len(p) : u[i] = p[i]
  BY AppendShape
<1>2. u = p \o <<c>> /\ <<c>> \in Seq(Alphabet)
  BY AppendIsConcat, ShortSeqs
<1>3. SlashFree(<<>>) /\ <<>> \in Seq(Alphabet)
  BY EmptySeq DEF SlashFree
<1> SUFFICES ASSUME u[1] = "/" PROVE AllSlashFree(Pieces(u)) /\ Joined(Pieces(u)) = u
  BY DEF SplitsBack
<1>4. CASE p = <<>>
  <2>1. u = <<c>> /\ c = "/"
    BY <1>4
  <2>2. Pieces(u) = << <<>> >>
    BY <2>1, InAlphabet, PiecesOfOne
  <2>3. AllSlashFree(<< <<>> >>)
    BY <1>3 DEF AllSlashFree
  <2>4. Joined(<< <<>> >>) = <<"/">>
    <3>1. << <<>> >> = Append(<<>>, <<>>) /\ <<>> \in Seq(Seq(Alphabet))
      BY EmptySeq
    <3>2. Joined(Append(<<>>, <<>>)) = Joined(<<>>) \o (<<"/">> \o <<>>)
      BY <1>3, <3>1, JoinedAppend
    <3>3. <<"/">> \in Seq(Alphabet)
      BY <1>3, SlashAndPiece
    <3> QED BY <3>1, <3>2, <3>3, JoinedNone, ConcatEmptySeq
  <2> QED BY <2>1, <2>2, <2>3, <2>4
<1>5. CASE p # <<>>
  <2> DEFINE P == Pieces(p)
  <2>1. p[1] = "/"
    <3>1. 1 \in 1..Len(p)
      BY <1>1, <1>5, EmptySeq
    <3> QED BY <1>1, <3>1
  <2>2. AllSlashFree(P) /\ Joined(P) = p
    BY <1>5, <2>1 DEF SplitsBack
  <2>3. P \in Seq(Seq(Alphabet)) /\ P # <<>>
    BY <1>5, PiecesIsList
  <2>4. Pieces(u) = WithCharacter(P, c)
    BY <1>5, PiecesAppend
  <2> HIDE DEF u, P
  <2>5. Len(P) \in Nat
    BY <2>3, LenProperties
  <2>6. CASE c = "/"
    <3>1. Pieces(u) = Append(P, <<>>)
      BY <2>4, <2>6 DEF WithCharacter
    <3> DEFINE Q == Append(P, <<>>)
    <3>2. /\ Len(Q) = Len(P) + 1 /\ Q[Len(P) + 1] = <<>>
          /\ \A i \in 1..Len(P) : Q[i] = P[i]
      BY <1>3, <2>3, AppendShape
    <3>3. Joined(Q) = Joined(P) \o (<<"/">> \o <<>>)
      BY <1>3, <2>3, JoinedAppend
    <3> HIDE DEF Q
    <3>4. AllSlashFree(Q)
      <4>1. \A i \in 1..Len(Q) : i = Len(P) + 1 \/ i \in 1..Len(P)
        BY <2>5, <3>2
      <4> QED BY <1>3, <2>2, <3>2, <4>1 DEF AllSlashFree
    <3>5. <<"/">> \in Seq(Alphabet)
      BY <1>3, SlashAndPiece
    <3>6. Joined(Q) = p \o <<c>>
      BY <2>2, <2>6, <3>3, <3>5, ConcatEmptySeq
    <3> QED BY <1>2, <3>1, <3>4, <3>6 DEF Q, u
  <2>7. CASE c # "/"
    <3> DEFINE F == Front(P)
               L == Last(P)
               M == Append(L, c)
               Q == Append(F, M)
    <3>1. F \in Seq(Seq(Alphabet)) /\ L \in Seq(Alphabet) /\ P = Append(F, L)
      BY <2>3, FrontAndLast
    <3>2. Pieces(u) = Q
      BY <2>4, <2>7 DEF WithCharacter
    <3> HIDE DEF F, L
    <3>3. /\ Len(F) \in Nat /\ Len(P) = Len(F) + 1 /\ P[Len(F) + 1] = L
          /\ \A i \in 1..Len(F) : P[i] = F[i]
      BY <3>1, AppendShape
    <3>4. /\ M \in Seq(Alphabet) /\ Len(L) \in Nat /\ Len(M) = Len(L) + 1 /\ M[Len(L) + 1] = c
          /\ \A i \in 1..Len(L) : M[i] = L[i]
      BY <3>1, AppendShape
    <3>5. M = L \o <<c>>
      BY <3>1, AppendIsConcat
    <3> HIDE DEF M
    <3>6. /\ Len(Q) = Len(F) + 1 /\ Q[Len(F) + 1] = M
          /\ \A i \in 1..Len(F) : Q[i] = F[i]
      BY <3>1, <3>4, AppendShape
    <3>7. /\ Joined(Q) = Joined(F) \o (<<"/">> \o M) /\ Joined(F) \in Seq(Alphabet)
          /\ Joined(P) = Joined(F) \o (<<"/">> \o L)
      BY <3>1, <3>4, JoinedAppend
    <3> HIDE DEF Q
    <3>8. SlashFree(M)
      <4>1. Len(F) + 1 \in 1..Len(P)
        BY <3>3
      <4>2. SlashFree(L)
        BY <2>2, <3>3, <4>1 DEF AllSlashFree
      <4>3. \A i \in 1..Len(M) : i = Len(L) + 1 \/ i \in 1..Len(L)
        BY <3>4
      <4> QED BY <2>7, <3>4, <4>2, <4>3 DEF SlashFree
    <3>9. AllSlashFree(Q)
      <4>1. \A i \in 1..Len(Q) : i = Len(F) + 1 \/ (i \in 1..Len(F) /\ i \in 1..Len(P))
        BY <3>3, <3>6
      <4>2. \A i \in 1..Len(F) : i \in 1..Len(P)
        BY <3>3
      <4> QED BY <2>2, <3>3, <3>6, <3>8, <4>1, <4>2 DEF AllSlashFree
    <3>10. Joined(Q) = p \o <<c>>
      <4>1. <<"/">> \in Seq(Alphabet) /\ <<"/">> \o L \in Seq(Alphabet)
        BY <3>1, SlashAndPiece
      <4>2. <<"/">> \o (L \o <<c>>) = (<<"/">> \o L) \o <<c>>
        BY <1>2, <3>1, <4>1, ConcatAssociative
      <4>3. Joined(F) \o ((<<"/">> \o L) \o <<c>>) = (Joined(F) \o (<<"/">> \o L)) \o <<c>>
        BY <1>2, <3>7, <4>1, ConcatAssociative
      <4> QED BY <2>2, <3>5, <3>7, <4>2, <4>3
    <3> QED BY <1>2, <3>2, <3>9, <3>10 DEF u
  <2> QED BY <2>6, <2>7 DEF u
<1> QED BY <1>4, <1>5

LEMMA SplitIsJoined ==
    ASSUME NEW p \in Seq(Alphabet), p = <<>> \/ p[1] = "/"
    PROVE  AllSlashFree(Pieces(p)) /\ Joined(Pieces(p)) = p
<1> DEFINE G == {s \in Seq(Alphabet) : SplitsBack(s)}
<1>1. <<>> \in G
  BY EmptySeq DEF SplitsBack
<1>2. \A s \in Seq(Alphabet), c \in Alphabet : s \in G => Append(s, c) \in G
  BY SplitsBackStep, AppendShape
<1>3. p \in G
  <2> HIDE DEF G
  <2> QED BY <1>1, <1>2, SequenceInduction
<1>4. CASE p = <<>>
  <2>1. AllSlashFree(<<>>)
    BY EmptySeq DEF AllSlashFree
  <2> QED BY <1>4, <2>1, PiecesOfNothing, JoinedNone
<1>5. CASE p # <<>>
  BY <1>3, <1>5 DEF SplitsBack
<1> QED BY <1>4, <1>5

-----------------------------------------------------------------------------
(* The digits of an index, and ParseIndex of them. *)

LEMMA DigitsAreDistinct ==
    ASSUME NEW d \in 1..10, NEW e \in 1..10, Digits[d] = Digits[e]
    PROVE  d = e
BY DEF Digits

LEMMA DigitOfDigit ==
    ASSUME NEW d \in 0..9
    PROVE  DigitOf(Digits[d + 1]) = d /\ IsDigit(Digits[d + 1])
<1> DEFINE c == Digits[d + 1]
           x == CHOOSE k \in 1..10 : Digits[k] = c
<1>1. d + 1 \in 1..10
  OBVIOUS
<1>2. x \in 1..10 /\ Digits[x] = c
  BY <1>1
<1>3. x = d + 1
  <2> HIDE DEF x
  <2> QED BY <1>1, <1>2, DigitsAreDistinct
<1>4. DigitOf(c) = x - 1
  BY DEF DigitOf
<1>5. IsDigit(c)
  <2>1. DOMAIN Digits = 1..10
    BY DEF Digits
  <2> QED BY <1>1, <2>1 DEF IsDigit, ToSet
<1> HIDE DEF x
<1> QED BY <1>3, <1>4, <1>5

LEMMA DigitIsOne ==
    ASSUME NEW c, IsDigit(c)
    PROVE  /\ DigitOf(c) \in 0..9 /\ c = Digits[DigitOf(c) + 1] /\ c \in Alphabet
           /\ c # "~" /\ c # "/" /\ c # "-" /\ (DigitOf(c) = 0 <=> c = "0")
<1>1. DOMAIN Digits = 1..10
  BY DEF Digits
<1>2. PICK k \in 1..10 : c = Digits[k]
  BY <1>1 DEF IsDigit, ToSet
<1>3. k - 1 \in 0..9 /\ (k - 1) + 1 = k
  OBVIOUS
<1>4. DigitOf(c) = k - 1
  <2>1. DigitOf(Digits[(k - 1) + 1]) = k - 1
    BY <1>3, DigitOfDigit
  <2> QED BY <1>2, <1>3, <2>1
<1>5. c \in Alphabet
  BY <1>2, <1>3, InAlphabet
<1>6. c # "~" /\ c # "/" /\ c # "-"
  BY <1>2 DEF Digits
<1>7. Digits[1] = "0"
  BY DEF Digits
<1>8. k = 1 <=> c = "0"
  <2>1. k = 1 => c = "0"
    BY <1>2, <1>7
  <2>2. ASSUME c = "0" PROVE k = 1
    <3>1. Digits[k] = Digits[1] /\ 1 \in 1..10
      BY <1>2, <1>7, <2>2
    <3> QED BY <1>2, <3>1, DigitsAreDistinct
  <2> QED BY <2>1, <2>2
<1> QED BY <1>2, <1>3, <1>4, <1>5, <1>6, <1>8

-----------------------------------------------------------------------------
(* IndexOf *)

Numerals == {c \in Alphabet : IsDigit(c)}
Evaluates(f, t) == f[0] = 0 /\ \A k \in 1..Len(t) : f[k] = 10 * f[k - 1] + DigitOf(t[k])

LEMMA IndexDefined ==
    ASSUME NEW t \in Seq(Numerals)
    PROVE  \E f \in [0..Len(t) -> Nat] : Evaluates(f, t) /\ IndexOf(t) = f[Len(t)]
<1> DEFINE m == Len(t)
           next == [n \in 1..m |-> [x \in Nat |-> 10 * x + DigitOf(t[n])]]
           Is(f) == f = [k \in 0..m |-> IF k = 0 THEN 0 ELSE 10 * f[k - 1] + DigitOf(t[k])]
           c == CHOOSE f : Is(f)
<1>1. m \in Nat /\ \A n \in 1..m : DigitOf(t[n]) \in Nat
  <2>1. \A n \in 1..m : t[n] \in Numerals
    BY LenProperties
  <2>2. \A n \in 1..m : DigitOf(t[n]) \in 0..9
    BY <2>1, DigitIsOne DEF Numerals
  <2> QED BY <2>2, LenProperties
<1>2. next \in [1..m -> [Nat -> Nat]]
  <2>1. \A n \in 1..m : \A x \in Nat : 10 * x + DigitOf(t[n]) \in Nat
    BY <1>1
  <2> QED BY <2>1
<1>3. PICK f \in [0..m -> Nat] : Runs(f, 0, next, m)
  <2> HIDE DEF m, next
  <2> QED BY <1>1, <1>2, RunsExist
<1>4. Evaluates(f, t)
  <2>1. ASSUME NEW n \in 1..m PROVE next[n][f[n - 1]] = 10 * f[n - 1] + DigitOf(t[n])
    <3>1. n - 1 \in 0..m
      BY <1>1
    <3>2. f[n - 1] \in Nat
      BY <1>3, <3>1
    <3> QED BY <3>2
  <2> HIDE DEF next
  <2> QED BY <1>3, <2>1 DEF Runs, Evaluates
<1>5. Is(f)
  <2>1. \A k \in 0..m : k = 0 \/ k \in 1..m
    BY <1>1
  <2>2. \A k \in 0..m : f[k] = IF k = 0 THEN 0 ELSE 10 * f[k - 1] + DigitOf(t[k])
    BY <1>4, <2>1 DEF Evaluates
  <2> HIDE DEF m
  <2> QED BY <1>3, <2>2
<1>6. Is(c)
  BY <1>5
<1>7. IndexOf(t) = c[m]
  BY DEF IndexOf
<1>8. \A k \in 0..m : c[k] = IF k = 0 THEN 0 ELSE 10 * c[k - 1] + DigitOf(t[k])
  <2> HIDE DEF c, m
  <2> QED BY <1>6
<1> HIDE DEF c
<1> DEFINE same == {k \in 0..m : c[k] = f[k]}
<1>9. 0 \in same
  BY <1>1, <1>4, <1>8 DEF Evaluates
<1>10. \A k \in 0..m : k < m /\ k \in same => k + 1 \in same
  <2> SUFFICES ASSUME NEW k \in 0..m, k < m, k \in same PROVE k + 1 \in same
    OBVIOUS
  <2>1. k + 1 \in 1..m /\ k + 1 \in 0..m /\ (k + 1) - 1 = k /\ k + 1 # 0
    BY <1>1
  <2>2. c[k + 1] = 10 * c[k] + DigitOf(t[k + 1])
    BY <1>8, <2>1
  <2>3. f[k + 1] = 10 * f[k] + DigitOf(t[k + 1])
    BY <1>4, <2>1 DEF Evaluates
  <2>4. c[k] = f[k]
    OBVIOUS
  <2> QED BY <2>1, <2>2, <2>3, <2>4
<1>11. c[m] = f[m]
  <2>1. m \in 0..m
    BY <1>1
  <2>2. m \in same
    <3> HIDE DEF same, m
    <3> QED BY <1>1, <1>9, <1>10, <2>1, NumberInduction
  <2> QED BY <2>2
<1> QED BY <1>3, <1>4, <1>7, <1>11

LEMMA IndexOfNothing == IndexOf(<<>>) = 0
<1>1. <<>> \in Seq(Numerals) /\ Len(<<>>) = 0
  BY EmptySeq
<1> QED BY <1>1, IndexDefined DEF Evaluates

LEMMA IndexOfAppend ==
    ASSUME NEW t \in Seq(Numerals), NEW c \in Numerals
    PROVE  IndexOf(t) \in Nat /\ IndexOf(Append(t, c)) = 10 * IndexOf(t) + DigitOf(c)
<1> DEFINE u == Append(t, c)
           m == Len(t)
<1>1. /\ u \in Seq(Numerals) /\ m \in Nat /\ Len(u) = m + 1 /\ u[m + 1] = c
      /\ \A i \in 1..m : u[i] = t[i]
  BY AppendShape
<1> HIDE DEF u
<1>2. PICK f \in [0..m -> Nat] : Evaluates(f, t) /\ IndexOf(t) = f[m]
  BY IndexDefined
<1>3. PICK g \in [0..Len(u) -> Nat] : Evaluates(g, u) /\ IndexOf(u) = g[Len(u)]
  BY <1>1, IndexDefined
<1> DEFINE same == {k \in 0..m : f[k] = g[k]}
<1>4. 0 \in same
  BY <1>1, <1>2, <1>3 DEF Evaluates
<1>5. \A k \in 0..m : k < m /\ k \in same => k + 1 \in same
  <2> SUFFICES ASSUME NEW k \in 0..m, k < m, k \in same PROVE k + 1 \in same
    OBVIOUS
  <2>1. k + 1 \in 1..m /\ k + 1 \in 1..Len(u) /\ (k + 1) - 1 = k
    BY <1>1
  <2>2. /\ f[k + 1] = 10 * f[k] + DigitOf(t[k + 1])
        /\ g[k + 1] = 10 * g[k] + DigitOf(u[k + 1])
    BY <1>2, <1>3, <2>1 DEF Evaluates
  <2>3. f[k] = g[k] /\ u[k + 1] = t[k + 1]
    BY <1>1, <2>1
  <2>4. f[k + 1] = g[k + 1]
    BY <2>2, <2>3
  <2> QED BY <2>1, <2>4
<1>6. f[m] = g[m]
  <2>1. m \in 0..m
    BY <1>1
  <2>2. m \in same
    <3> HIDE DEF same, m
    <3> QED BY <1>1, <1>4, <1>5, <2>1, NumberInduction
  <2> QED BY <2>2
<1>7. m + 1 \in 1..Len(u) /\ (m + 1) - 1 = m
  BY <1>1
<1>8. g[m + 1] = 10 * g[m] + DigitOf(c)
  BY <1>1, <1>3, <1>7 DEF Evaluates
<1>9. f[m] \in Nat
  BY <1>1, <1>2
<1> QED BY <1>1, <1>2, <1>3, <1>6, <1>8, <1>9 DEF u

-----------------------------------------------------------------------------
(* DecimalText: what to_string writes is what ParseIndex reads. *)

\* One step of the text of n, from the texts of smaller numbers.
TextFrom(f, n) ==
    IF n < 10 THEN <<Digits[n + 1]>> ELSE Append(f[n \div 10], Digits[(n % 10) + 1])
TextsUpTo(f, m) == f \in [0..m -> Seq(Numerals)] /\ \A n \in 0..m : f[n] = TextFrom(f, n)

LEMMA DividedByTen ==
    ASSUME NEW n \in Nat
    PROVE  /\ n \div 10 \in 0..n /\ n % 10 \in 0..9 /\ n = 10 * (n \div 10) + (n % 10)
           /\ n >= 10 => n \div 10 < n /\ n \div 10 >= 1
OBVIOUS

LEMMA DigitIsNumeral ==
    ASSUME NEW d \in 0..9
    PROVE  Digits[d + 1] \in Numerals
BY DigitOfDigit, InAlphabet DEF Numerals

LEMMA TextsAgree ==
    ASSUME NEW m \in Nat, NEW k \in Nat, NEW f, NEW g, TextsUpTo(f, m), TextsUpTo(g, k),
           NEW n \in Nat, n <= m, n <= k
    PROVE  f[n] = g[n]
<1> DEFINE apart == {i \in Nat : i <= m /\ i <= k /\ f[i] # g[i]}
<1> SUFFICES ASSUME apart # {} PROVE FALSE
  OBVIOUS
<1>1. PICK i \in apart : \A j \in apart : i <= j
  <2>1. apart \in SUBSET Nat
    OBVIOUS
  <2> HIDE DEF apart
  <2> QED BY <2>1, LeastNumber
<1>2. i \in 0..m /\ i \in 0..k /\ f[i] # g[i] /\ i \in Nat
  OBVIOUS
<1>3. f[i] = TextFrom(f, i) /\ g[i] = TextFrom(g, i)
  BY <1>2 DEF TextsUpTo
<1>4. CASE i < 10
  BY <1>2, <1>3, <1>4 DEF TextFrom
<1>5. CASE i >= 10
  <2>1. i \div 10 \in Nat /\ i \div 10 < i
    BY <1>2, <1>5, DividedByTen
  <2>2. i \div 10 \notin apart
    BY <1>1, <1>2, <2>1
  <2>3. i \div 10 <= m /\ i \div 10 <= k
    BY <1>2, <2>1
  <2>4. f[i \div 10] = g[i \div 10]
    BY <2>1, <2>2, <2>3
  <2>5. ~(i < 10)
    BY <1>2, <1>5
  <2> HIDE DEF apart
  <2> QED BY <1>2, <1>3, <2>4, <2>5 DEF TextFrom
<1> QED BY <1>2, <1>4, <1>5

LEMMA TextsExist ==
    ASSUME NEW m \in Nat
    PROVE  \E f \in [0..m -> Seq(Numerals)] : TextsUpTo(f, m)
<1> DEFINE some == {k \in 0..m : \E f \in [0..k -> Seq(Numerals)] : TextsUpTo(f, k)}
<1>1. 0 \in some
  <2> DEFINE f == [n \in 0..0 |-> <<Digits[0 + 1]>>]
  <2>1. <<Digits[0 + 1]>> \in Seq(Numerals)
    <3>1. Digits[0 + 1] \in Numerals
      BY DigitIsNumeral
    <3> QED BY <3>1, ShortSeqs
  <2>2. f \in [0..0 -> Seq(Numerals)] /\ \A n \in 0..0 : f[n] = TextFrom(f, n)
    BY <2>1 DEF TextFrom
  <2>3. TextsUpTo(f, 0)
    BY <2>2 DEF TextsUpTo
  <2> HIDE DEF f
  <2>4. 0 \in 0..m
    OBVIOUS
  <2> QED BY <2>2, <2>3, <2>4
<1>2. ASSUME NEW k \in 0..m, k < m, k \in some PROVE k + 1 \in some
  <2>1. PICK f \in [0..k -> Seq(Numerals)] : TextsUpTo(f, k)
    BY <1>2
  <2> DEFINE x == TextFrom(f, k + 1)
             g == [n \in 0..(k + 1) |-> IF n = k + 1 THEN x ELSE f[n]]
  <2>2. x \in Seq(Numerals)
    <3>1. CASE k + 1 < 10
      <4>1. k + 1 \in 0..9
        BY <3>1
      <4>2. Digits[(k + 1) + 1] \in Numerals
        BY <4>1, DigitIsNumeral
      <4>3. <<Digits[(k + 1) + 1]>> \in Seq(Numerals)
        BY <4>2, ShortSeqs
      <4> QED BY <3>1, <4>3 DEF TextFrom
    <3>2. CASE ~(k + 1 < 10)
      <4>1. (k + 1) \div 10 \in 0..k /\ (k + 1) % 10 \in 0..9
        BY <3>2, DividedByTen
      <4>2. f[(k + 1) \div 10] \in Seq(Numerals) /\ Digits[((k + 1) % 10) + 1] \in Numerals
        BY <4>1, DigitIsNumeral
      <4>3. Append(f[(k + 1) \div 10], Digits[((k + 1) % 10) + 1]) \in Seq(Numerals)
        BY <4>2, AppendProperties
      <4> QED BY <3>2, <4>3 DEF TextFrom
    <3> QED BY <3>1, <3>2
  <2> HIDE DEF x
  <2>3. g \in [0..(k + 1) -> Seq(Numerals)] /\ g[k + 1] = x /\ \A n \in 0..k : g[n] = f[n]
    BY <1>2, <2>2
  <2> HIDE DEF g
  <2>4. ASSUME NEW n \in 0..(k + 1) PROVE g[n] = TextFrom(g, n)
    <3>1. TextFrom(g, n) = TextFrom(f, n)
      <4>1. CASE n < 10
        BY <4>1 DEF TextFrom
      <4>2. CASE ~(n < 10)
        <5>1. n \div 10 \in 0..k
          BY <1>2, <4>2, DividedByTen
        <5>2. g[n \div 10] = f[n \div 10]
          BY <2>3, <5>1
        <5> QED BY <4>2, <5>2 DEF TextFrom
      <4> QED BY <4>1, <4>2
    <3>2. CASE n = k + 1
      BY <2>3, <3>1, <3>2 DEF x
    <3>3. CASE n # k + 1
      <4>1. n \in 0..k
        BY <1>2, <3>3
      <4>2. f[n] = TextFrom(f, n)
        BY <2>1, <4>1 DEF TextsUpTo
      <4> QED BY <2>3, <3>1, <4>1, <4>2
    <3> QED BY <3>2, <3>3
  <2>5. TextsUpTo(g, k + 1)
    BY <2>3, <2>4 DEF TextsUpTo
  <2>6. k + 1 \in 0..m
    BY <1>2
  <2> QED BY <2>3, <2>5, <2>6
<1>3. m \in some
  <2>1. m \in 0..m
    OBVIOUS
  <2>2. \A k \in 0..m : k < m /\ k \in some => k + 1 \in some
    BY <1>2
  <2> HIDE DEF some
  <2> QED BY <1>1, <2>1, <2>2, NumberInduction
<1> QED BY <1>3

LEMMA DecimalTextDefined ==
    ASSUME NEW n \in Nat
    PROVE  DecimalText[n] = TextFrom(DecimalText, n) /\ DecimalText[n] \in Seq(Numerals)
<1> DEFINE up(m) == CHOOSE f \in [0..m -> Seq(Numerals)] : TextsUpTo(f, m)
           F == [m \in Nat |-> up(m)[m]]
           Is(f) == f = [m \in Nat |-> IF m < 10 THEN <<Digits[m + 1]>>
                                       ELSE Append(f[m \div 10], Digits[(m % 10) + 1])]
<1>1. \A m \in Nat : TextsUpTo(up(m), m) /\ up(m) \in [0..m -> Seq(Numerals)]
  BY TextsExist
<1> HIDE DEF up
<1>2. ASSUME NEW m \in Nat PROVE F[m] = TextFrom(F, m) /\ F[m] \in Seq(Numerals)
  <2>1. m \in 0..m /\ F[m] = up(m)[m]
    OBVIOUS
  <2>2. up(m)[m] = TextFrom(up(m), m) /\ up(m)[m] \in Seq(Numerals)
    BY <1>1, <2>1 DEF TextsUpTo
  <2>3. TextFrom(up(m), m) = TextFrom(F, m)
    <3>1. CASE m < 10
      BY <3>1 DEF TextFrom
    <3>2. CASE ~(m < 10)
      <4> DEFINE k == m \div 10
      <4>1. k \in Nat /\ k <= m /\ k <= k
        BY <3>2, DividedByTen
      <4> HIDE DEF k, F
      <4>2. up(m)[k] = up(k)[k]
        BY <1>1, <4>1, TextsAgree
      <4>3. F[k] = up(k)[k]
        BY <4>1 DEF F
      <4> QED BY <3>2, <4>2, <4>3 DEF TextFrom, k
    <3> QED BY <3>1, <3>2
  <2> QED BY <2>1, <2>2, <2>3
<1>3. DOMAIN F = Nat /\ F = [m \in Nat |-> F[m]]
  OBVIOUS
<1> HIDE DEF F
<1>4. Is(F)
  <2>1. \A m \in Nat : F[m] = IF m < 10 THEN <<Digits[m + 1]>>
                              ELSE Append(F[m \div 10], Digits[(m % 10) + 1])
    BY <1>2 DEF TextFrom
  <2> QED BY <1>3, <2>1
<1>5. Is(DecimalText)
  <2>1. DecimalText = CHOOSE f : Is(f)
    BY DEF DecimalText
  <2> HIDE DEF Is
  <2> QED BY <1>4, <2>1
<1>6. \A m \in Nat : DecimalText[m] = TextFrom(DecimalText, m)
  BY <1>5 DEF TextFrom
<1> DEFINE apart == {i \in Nat : DecimalText[i] # F[i]}
<1>7. apart = {}
  <2> SUFFICES ASSUME apart # {} PROVE FALSE
    OBVIOUS
  <2>1. PICK i \in apart : \A j \in apart : i <= j
    <3>1. apart \in SUBSET Nat
      OBVIOUS
    <3> HIDE DEF apart
    <3> QED BY <3>1, LeastNumber
  <2>2. i \in Nat /\ DecimalText[i] # F[i]
    OBVIOUS
  <2>3. DecimalText[i] = TextFrom(DecimalText, i) /\ F[i] = TextFrom(F, i)
    BY <1>2, <1>6, <2>2
  <2>4. ~(i < 10)
    BY <2>2, <2>3 DEF TextFrom
  <2>5. i \div 10 \in Nat /\ i \div 10 < i
    BY <2>2, <2>4, DividedByTen
  <2>6. DecimalText[i \div 10] = F[i \div 10]
    BY <2>1, <2>2, <2>5
  <2> HIDE DEF apart
  <2> QED BY <2>2, <2>3, <2>4, <2>6 DEF TextFrom
<1>8. DecimalText[n] = F[n]
  BY <1>7
<1> QED BY <1>2, <1>6, <1>8

\* The text of a number is a number's: digits, and no zero before another digit.
Canonical(s) == s \in Seq(Numerals) /\ s # <<>> /\ (s[1] # "0" \/ Len(s) = 1)

LEMMA DecimalTextIsRead ==
    ASSUME NEW n \in Nat
    PROVE  Canonical(DecimalText[n]) /\ IndexOf(DecimalText[n]) = n
<1> DEFINE Good(i) == /\ Canonical(DecimalText[i]) /\ IndexOf(DecimalText[i]) = i
                      /\ i # 0 => DecimalText[i][1] # "0"
           bad == {i \in Nat : ~Good(i)}
<1> SUFFICES ASSUME bad # {} PROVE FALSE
  OBVIOUS
<1>1. PICK i \in bad : \A j \in bad : i <= j
  <2>1. bad \in SUBSET Nat
    OBVIOUS
  <2> HIDE DEF bad
  <2> QED BY <2>1, LeastNumber
<1>2. i \in Nat /\ ~Good(i)
  OBVIOUS
<1>3. DecimalText[i] = TextFrom(DecimalText, i) /\ DecimalText[i] \in Seq(Numerals)
  BY <1>2, DecimalTextDefined
<1>4. CASE i < 10
  <2> DEFINE c == Digits[i + 1]
  <2>1. i \in 0..9
    BY <1>2, <1>4
  <2>2. c \in Numerals /\ DigitOf(c) = i /\ IsDigit(c)
    BY <2>1, DigitIsNumeral, DigitOfDigit
  <2>3. DecimalText[i] = <<c>>
    BY <1>3, <1>4 DEF TextFrom
  <2> HIDE DEF c
  <2>4. <<c>> = Append(<<>>, c) /\ <<>> \in Seq(Numerals) /\ Len(<<c>>) = 1 /\ <<c>>[1] = c
    BY EmptySeq
  <2>5. IndexOf(Append(<<>>, c)) = 10 * IndexOf(<<>>) + DigitOf(c)
    BY <2>2, <2>4, IndexOfAppend
  <2>6. IndexOf(<<c>>) = i
    BY <1>2, <2>2, <2>4, <2>5, IndexOfNothing
  <2>7. i # 0 => c # "0"
    BY <2>2, DigitIsOne
  <2>8. Canonical(<<c>>)
    BY <1>3, <2>3, <2>4 DEF Canonical
  <2> QED BY <1>2, <2>3, <2>4, <2>6, <2>7, <2>8
<1>5. CASE ~(i < 10)
  <2> DEFINE k == i \div 10
             t == DecimalText[k]
             c == Digits[(i % 10) + 1]
  <2>1. k \in Nat /\ k < i /\ k # 0 /\ i % 10 \in 0..9 /\ i = 10 * k + (i % 10)
    BY <1>2, <1>5, DividedByTen
  <2>2. c \in Numerals /\ DigitOf(c) = i % 10
    BY <2>1, DigitIsNumeral, DigitOfDigit
  <2>3. DecimalText[i] = Append(t, c)
    BY <1>3, <1>5 DEF TextFrom
  <2> HIDE DEF k
  <2>4. Good(k)
    BY <1>1, <1>2, <2>1
  <2>5. t \in Seq(Numerals) /\ t # <<>> /\ IndexOf(t) = k /\ t[1] # "0"
    BY <2>1, <2>4 DEF Canonical
  <2> HIDE DEF t, c
  <2>6. IndexOf(Append(t, c)) = i
    <3>1. IndexOf(Append(t, c)) = 10 * IndexOf(t) + DigitOf(c)
      BY <2>2, <2>5, IndexOfAppend
    <3> QED BY <2>1, <2>2, <2>5, <3>1
  <2>7. Append(t, c) \in Seq(Numerals) /\ Append(t, c) # <<>> /\ Append(t, c)[1] = t[1]
    <3>1. 1 \in 1..Len(t)
      BY <2>5, EmptySeq, LenProperties
    <3> QED BY <2>2, <2>5, <3>1, AppendShape
  <2>8. Canonical(Append(t, c))
    BY <2>5, <2>7 DEF Canonical
  <2> QED BY <1>2, <2>3, <2>5, <2>6, <2>7, <2>8
<1> QED BY <1>4, <1>5

LEMMA ReadIsDecimalText ==
    ASSUME NEW s, Canonical(s)
    PROVE  IndexOf(s) \in Nat /\ DecimalText[IndexOf(s)] = s
<1> DEFINE Good(t) == t # <<>> /\ t[1] # "0" =>
                        IndexOf(t) \in Nat /\ IndexOf(t) # 0 /\ DecimalText[IndexOf(t)] = t
           G == {t \in Seq(Numerals) : Good(t)}
<1>1. <<>> \in G
  BY EmptySeq
<1>2. ASSUME NEW c \in Numerals
      PROVE  /\ <<c>> = Append(<<>>, c) /\ <<>> \in Seq(Numerals) /\ <<c>>[1] = c
             /\ DigitOf(c) \in 0..9 /\ c = Digits[DigitOf(c) + 1] /\ (DigitOf(c) = 0 <=> c = "0")
             /\ IndexOf(<<c>>) = DigitOf(c) /\ DecimalText[IndexOf(<<c>>)] = <<c>>
  <2>1. <<c>> = Append(<<>>, c) /\ <<>> \in Seq(Numerals) /\ <<c>>[1] = c
    BY EmptySeq
  <2>2. DigitOf(c) \in 0..9 /\ c = Digits[DigitOf(c) + 1] /\ (DigitOf(c) = 0 <=> c = "0")
    BY DigitIsOne DEF Numerals
  <2>3. IndexOf(Append(<<>>, c)) = 10 * IndexOf(<<>>) + DigitOf(c)
    BY <2>1, IndexOfAppend
  <2>4. IndexOf(<<c>>) = DigitOf(c)
    BY <2>1, <2>2, <2>3, IndexOfNothing
  <2>5. DecimalText[DigitOf(c)] = <<Digits[DigitOf(c) + 1]>>
    <3>1. DigitOf(c) \in Nat /\ DigitOf(c) < 10
      BY <2>2
    <3> QED BY <3>1, DecimalTextDefined DEF TextFrom
  <2> QED BY <2>1, <2>2, <2>4, <2>5
<1>3. ASSUME NEW t \in Seq(Numerals), NEW c \in Numerals, t \in G
      PROVE  Append(t, c) \in G
  <2> DEFINE u == Append(t, c)
  <2>1. u \in Seq(Numerals) /\ u # <<>>
    BY AppendShape
  <2> SUFFICES ASSUME u[1] # "0"
               PROVE  IndexOf(u) \in Nat /\ IndexOf(u) # 0 /\ DecimalText[IndexOf(u)] = u
    BY <2>1
  <2>2. CASE t = <<>>
    <3>1. u = <<c>> /\ c # "0"
      BY <1>2, <2>2
    <3>2. IndexOf(u) = DigitOf(c) /\ DecimalText[IndexOf(u)] = <<c>> /\ DigitOf(c) \in 0..9
          /\ DigitOf(c) # 0
      BY <1>2, <3>1
    <3> HIDE DEF u
    <3> QED BY <3>1, <3>2
  <2>3. CASE t # <<>>
    <3> DEFINE n == IndexOf(t)
               d == DigitOf(c)
    <3>1. u[1] = t[1]
      <4>1. 1 \in 1..Len(t)
        BY <2>3, EmptySeq, LenProperties
      <4> QED BY <4>1, AppendShape
    <3>2. n \in Nat /\ n # 0 /\ DecimalText[n] = t
      BY <1>3, <2>3, <3>1
    <3>3. d \in 0..9 /\ c = Digits[d + 1]
      BY <1>2
    <3>4. IndexOf(u) = 10 * n + d
      BY IndexOfAppend
    <3> HIDE DEF n, d, u
    <3> DEFINE i == 10 * n + d
    <3>5. i \in Nat /\ ~(i < 10) /\ i # 0 /\ i \div 10 = n /\ i % 10 = d
      BY <3>2, <3>3
    <3> HIDE DEF i
    <3>6. DecimalText[i] = Append(DecimalText[n], Digits[d + 1])
      BY <3>5, DecimalTextDefined DEF TextFrom
    <3>7. DecimalText[i] = u
      BY <3>2, <3>3, <3>6 DEF u
    <3> QED BY <3>4, <3>5, <3>7 DEF i
  <2> QED BY <2>2, <2>3
<1>4. s \in G
  <2>1. \A t \in Seq(Numerals), c \in Numerals : t \in G => Append(t, c) \in G
    BY <1>3
  <2>2. s \in Seq(Numerals)
    BY DEF Canonical
  <2> HIDE DEF G
  <2> QED BY <1>1, <2>1, <2>2, SequenceInduction
<1>5. CASE s[1] # "0"
  BY <1>4, <1>5 DEF Canonical
<1>6. CASE Len(s) = 1
  <2>1. s = <<s[1]>> /\ s[1] \in Numerals
    BY <1>6, LenProperties DEF Canonical
  <2>2. IndexOf(s) = DigitOf(s[1]) /\ DecimalText[IndexOf(s)] = s /\ DigitOf(s[1]) \in 0..9
    BY <1>2, <2>1
  <2> QED BY <2>2
<1> QED BY <1>5, <1>6 DEF Canonical

-----------------------------------------------------------------------------
(* Places in a document, and the paths to them. *)

Steps == {[key |-> k] : k \in Seq(Alphabet)} \cup {[index |-> i] : i \in Nat}
\* The token that leads one step, and how it is written in a path.
Spelling(step) == IF "key" \in DOMAIN step THEN step.key ELSE DecimalText[step.index]
Written(step) == IF "key" \in DOMAIN step THEN Escaped(step.key) ELSE DecimalText[step.index]
TokensOf(place) == [n \in DOMAIN place |-> Spelling(place[n])]
PiecesOf(place) == [n \in DOMAIN place |-> Written(place[n])]

LEMMA NumeralsArePlain ==
    ASSUME NEW t \in Seq(Numerals)
    PROVE  t \in Seq(Alphabet) /\ Escaped(t) = t
<1> DEFINE G == {s \in Seq(Alphabet) : Escaped(s) = s}
<1>1. <<>> \in G
  BY EmptySeq, EscapedOfNothing
<1>2. ASSUME NEW s \in Seq(Numerals), NEW c \in Numerals, s \in G PROVE Append(s, c) \in G
  <2>1. c \in Alphabet /\ c # "~" /\ c # "/"
    BY DigitIsOne DEF Numerals
  <2>2. Escaped(Append(s, c)) = s \o <<c>> /\ s \in Seq(Alphabet)
    <3>1. Escaped(Append(s, c)) = Escaped(s) \o EscapedCharacter(c)
      BY <1>2, <2>1, EscapedAppend
    <3> QED BY <1>2, <2>1, <3>1 DEF EscapedCharacter
  <2>3. Append(s, c) = s \o <<c>> /\ Append(s, c) \in Seq(Alphabet)
    BY <2>1, <2>2, AppendIsConcat, AppendProperties
  <2> QED BY <2>2, <2>3
<1>3. t \in G
  <2>1. \A s \in Seq(Numerals), c \in Numerals : s \in G => Append(s, c) \in G
    BY <1>2
  <2> HIDE DEF G
  <2> QED BY <1>1, <2>1, SequenceInduction
<1> QED BY <1>3

LEMMA StepIsWritten ==
    ASSUME NEW step \in Steps
    PROVE  /\ Spelling(step) \in Seq(Alphabet) /\ Written(step) \in Seq(Alphabet)
           /\ Written(step) = Escaped(Spelling(step)) /\ Writes(Written(step), Spelling(step))
<1>1. /\ Spelling(step) \in Seq(Alphabet) /\ Written(step) = Escaped(Spelling(step))
  <2>1. CASE \E k \in Seq(Alphabet) : step = [key |-> k]
    <3>1. PICK k \in Seq(Alphabet) : step = [key |-> k]
      BY <2>1
    <3>2. "key" \in DOMAIN step /\ step.key = k
      BY <3>1
    <3> QED BY <3>2 DEF Spelling, Written
  <2>2. CASE \E i \in Nat : step = [index |-> i]
    <3>1. PICK i \in Nat : step = [index |-> i]
      BY <2>2
    <3>2. "key" \notin DOMAIN step /\ step.index = i
      BY <3>1
    <3>3. DecimalText[i] \in Seq(Alphabet) /\ Escaped(DecimalText[i]) = DecimalText[i]
      BY DecimalTextDefined, NumeralsArePlain
    <3> QED BY <3>2, <3>3 DEF Spelling, Written
  <2> QED BY <2>1, <2>2 DEF Steps
<1>2. Writes(Written(step), Spelling(step))
  BY <1>1, EscapedWrites
<1> QED BY <1>1, <1>2 DEF Writes

LEMMA PathIsJoined ==
    ASSUME NEW place \in Seq(Steps)
    PROVE  /\ TokensOf(place) \in Seq(Seq(Alphabet)) /\ Len(TokensOf(place)) = Len(place)
           /\ PiecesOf(place) \in Seq(Seq(Alphabet)) /\ Len(PiecesOf(place)) = Len(place)
           /\ \A n \in 1..Len(place) : /\ TokensOf(place)[n] = Spelling(place[n])
                                       /\ PiecesOf(place)[n] = Written(place[n])
                                       /\ place[n] \in Steps
           /\ PathOf(place) = Joined(PiecesOf(place)) /\ PathOf(place) \in Seq(Alphabet)
<1>1. Len(place) \in Nat /\ DOMAIN place = 1..Len(place) /\ \A n \in 1..Len(place) : place[n] \in Steps
  BY LenProperties
<1>2. TokensOf(place) \in [1..Len(place) -> Seq(Alphabet)]
  <2>1. \A n \in 1..Len(place) : Spelling(place[n]) \in Seq(Alphabet)
    BY <1>1, StepIsWritten
  <2> QED BY <1>1, <2>1 DEF TokensOf
<1>3. PiecesOf(place) \in [1..Len(place) -> Seq(Alphabet)]
  <2>1. \A n \in 1..Len(place) : Written(place[n]) \in Seq(Alphabet)
    BY <1>1, StepIsWritten
  <2> QED BY <1>1, <2>1 DEF PiecesOf
<1>4. TokensOf(place) \in Seq(Seq(Alphabet)) /\ Len(TokensOf(place)) = Len(place)
  BY <1>1, <1>2, MapIsSeq
<1>5. PiecesOf(place) \in Seq(Seq(Alphabet)) /\ Len(PiecesOf(place)) = Len(place)
  BY <1>1, <1>3, MapIsSeq
<1>6. \A n \in 1..Len(place) : /\ TokensOf(place)[n] = Spelling(place[n])
                               /\ PiecesOf(place)[n] = Written(place[n])
  BY <1>1 DEF TokensOf, PiecesOf
<1>7. PathOf(place) = Joined(PiecesOf(place))
  <2>1. DOMAIN PiecesOf(place) = DOMAIN place
    BY <1>1, <1>3
  <2>2. [n \in DOMAIN PiecesOf(place) |-> <<"/">> \o PiecesOf(place)[n]] =
        [n \in DOMAIN place |-> <<"/">> \o Written(place[n])]
    BY <1>1, <1>6, <2>1
  <2>3. PathOf(place) = FlattenSeq([n \in DOMAIN place |-> <<"/">> \o Written(place[n])])
    BY DEF PathOf, Written
  <2> QED BY <2>2, <2>3 DEF Joined
<1>8. PathOf(place) \in Seq(Alphabet)
  <2>1. PICK e : e = [n \in DOMAIN PiecesOf(place) |-> <<"/">> \o PiecesOf(place)[n]]
    OBVIOUS
  <2> QED BY <1>5, <1>7, <2>1, JoinedPieces
<1> QED BY <1>1, <1>4, <1>5, <1>6, <1>7, <1>8

LEMMA JoinedBegins ==
    ASSUME NEW T \in Seq(Seq(Alphabet))
    PROVE  Joined(T) = <<>> \/ Joined(T)[1] = "/"
<1> DEFINE Begins(p) == p = <<>> \/ p[1] = "/"
           G == {U \in Seq(Seq(Alphabet)) : Begins(Joined(U))}
<1>1. <<>> \in G
  BY EmptySeq, JoinedNone
<1>2. ASSUME NEW U \in Seq(Seq(Alphabet)), NEW x \in Seq(Alphabet), U \in G
      PROVE  Append(U, x) \in G
  <2> DEFINE p == Joined(U)
  <2>1. Append(U, x) \in Seq(Seq(Alphabet))
    BY AppendProperties
  <2>2. Joined(Append(U, x)) = p \o (<<"/">> \o x) /\ p \in Seq(Alphabet)
    BY JoinedAppend
  <2>3. <<"/">> \in Seq(Alphabet) /\ Len(<<"/">>) = 1 /\ <<"/">>[1] = "/"
        /\ <<"/">> \o x \in Seq(Alphabet)
    BY SlashAndPiece
  <2>4. (<<"/">> \o x)[1] = "/"
    BY <2>3, ConcatProperties
  <2>5. Begins(p)
    BY <1>2
  <2> HIDE DEF p
  <2>6. CASE p = <<>>
    <3>1. p \o (<<"/">> \o x) = <<"/">> \o x
      BY <2>3, <2>6, ConcatEmptySeq
    <3> QED BY <2>1, <2>2, <2>4, <3>1
  <2>7. CASE p # <<>>
    <3>1. Len(p) \in Nat /\ Len(p) # 0 /\ 1 \in 1..Len(p)
      BY <2>2, <2>7, EmptySeq, LenProperties
    <3>2. Len(<<"/">> \o x) \in Nat
      BY <2>3, LenProperties
    <3>3. /\ Len(p \o (<<"/">> \o x)) = Len(p) + Len(<<"/">> \o x)
          /\ \A i \in 1..(Len(p) + Len(<<"/">> \o x)) :
                (p \o (<<"/">> \o x))[i] = IF i <= Len(p) THEN p[i]
                                          ELSE (<<"/">> \o x)[i - Len(p)]
      BY <2>2, <2>3, ConcatProperties
    <3>4. 1 \in 1..(Len(p) + Len(<<"/">> \o x)) /\ 1 <= Len(p)
      BY <3>1, <3>2
    <3>5. (p \o (<<"/">> \o x))[1] = p[1]
      BY <3>3, <3>4
    <3> QED BY <2>1, <2>2, <2>5, <2>7, <3>5
  <2> QED BY <2>6, <2>7
<1>3. T \in G
  <2>1. \A U \in Seq(Seq(Alphabet)), x \in Seq(Alphabet) : U \in G => Append(U, x) \in G
    BY <1>2
  <2> HIDE DEF G
  <2> QED BY <1>1, <2>1, SequenceInduction
<1> QED BY <1>3

\* Where a place's path leads ...
LEMMA PathIsParsed ==
    ASSUME NEW place \in Seq(Steps)
    PROVE  WellFormed(PathOf(place)) /\ ParsePath(PathOf(place)) = TokensOf(place)
<1> DEFINE p == PathOf(place)
           W == PiecesOf(place)
<1>1. /\ W \in Seq(Seq(Alphabet)) /\ Len(W) = Len(place) /\ p = Joined(W) /\ p \in Seq(Alphabet)
      /\ \A n \in 1..Len(place) : W[n] = Written(place[n]) /\ place[n] \in Steps
      /\ TokensOf(place) \in Seq(Seq(Alphabet)) /\ Len(TokensOf(place)) = Len(place)
      /\ \A n \in 1..Len(place) : TokensOf(place)[n] = Spelling(place[n])
  BY PathIsJoined
<1>2. \A n \in 1..Len(place) : Writes(W[n], Spelling(place[n]))
  BY <1>1, StepIsWritten
<1> HIDE DEF W, p
<1>3. AllSlashFree(W)
  BY <1>1, <1>2 DEF AllSlashFree, Writes
<1>4. Pieces(p) = W
  BY <1>1, <1>3, JoinedIsSplit
<1>5. p = <<>> \/ p[1] = "/"
  BY <1>1, JoinedBegins
<1>6. DOMAIN W = 1..Len(place) /\ DOMAIN TokensOf(place) = 1..Len(place)
  BY <1>1, LenProperties
<1>7. WellFormed(p)
  BY <1>2, <1>4, <1>5, <1>6 DEF WellFormed, Writes
<1>8. ParsePath(p) = TokensOf(place)
  <2>1. \A n \in 1..Len(place) : Decoded(W[n]) = TokensOf(place)[n]
    BY <1>1, <1>2 DEF Writes
  <2>2. ParsePath(p) = [n \in 1..Len(place) |-> Decoded(W[n])]
    BY <1>4, <1>6 DEF ParsePath
  <2>3. TokensOf(place) = [n \in 1..Len(place) |-> TokensOf(place)[n]]
    BY <1>1, <1>6, LenProperties DEF TokensOf
  <2> QED BY <2>1, <2>2, <2>3
<1> QED BY <1>7, <1>8 DEF p

LEMMA ParsedIsTokens ==
    ASSUME NEW p \in Seq(Alphabet), WellFormed(p)
    PROVE  /\ ParsePath(p) \in Seq(Seq(Alphabet)) /\ Len(ParsePath(p)) = Len(Pieces(p))
           /\ Pieces(p) \in Seq(Seq(Alphabet))
           /\ \A n \in 1..Len(Pieces(p)) : ParsePath(p)[n] = Decoded(Pieces(p)[n])
<1>1. Pieces(p) \in Seq(Seq(Alphabet))
  BY PiecesIsList
<1>2. /\ Len(Pieces(p)) \in Nat /\ DOMAIN Pieces(p) = 1..Len(Pieces(p))
      /\ \A n \in 1..Len(Pieces(p)) : Pieces(p)[n] \in Seq(Alphabet)
  BY <1>1, LenProperties
<1>3. ParsePath(p) \in [1..Len(Pieces(p)) -> Seq(Alphabet)]
  <2>1. \A n \in 1..Len(Pieces(p)) : Decoded(Pieces(p)[n]) \in Seq(Alphabet)
    <3> SUFFICES ASSUME NEW n \in 1..Len(Pieces(p)) PROVE Decoded(Pieces(p)[n]) \in Seq(Alphabet)
      OBVIOUS
    <3>1. Pieces(p)[n] \in Seq(Alphabet)
      BY <1>2
    <3> QED BY <3>1, InAlphabet, DecodedAppend
  <2> QED BY <1>2, <2>1 DEF ParsePath
<1>4. ParsePath(p) \in Seq(Seq(Alphabet)) /\ Len(ParsePath(p)) = Len(Pieces(p))
  BY <1>2, <1>3, MapIsSeq
<1>5. \A n \in 1..Len(Pieces(p)) : ParsePath(p)[n] = Decoded(Pieces(p)[n])
  BY <1>2 DEF ParsePath
<1> QED BY <1>1, <1>4, <1>5

\* ... and no other path leads there.
LEMMA PathIsTheOnlyOne ==
    ASSUME NEW place \in Seq(Steps), NEW p \in Seq(Alphabet), WellFormed(p),
           ParsePath(p) = TokensOf(place)
    PROVE  PathOf(place) = p
<1> DEFINE W == PiecesOf(place)
           P == Pieces(p)
<1>1. /\ W \in Seq(Seq(Alphabet)) /\ Len(W) = Len(place) /\ PathOf(place) = Joined(W)
      /\ \A n \in 1..Len(place) : /\ W[n] = Written(place[n]) /\ place[n] \in Steps
                                  /\ TokensOf(place)[n] = Spelling(place[n])
      /\ Len(TokensOf(place)) = Len(place)
  BY PathIsJoined
<1>2. /\ P \in Seq(Seq(Alphabet)) /\ Len(P) = Len(place)
      /\ \A n \in 1..Len(P) : Decoded(P[n]) = Spelling(place[n])
  BY <1>1, ParsedIsTokens
<1>3. p = <<>> \/ p[1] = "/"
  BY DEF WellFormed
<1>4. AllSlashFree(P) /\ Joined(P) = p
  BY <1>3, SplitIsJoined
<1>5. /\ DOMAIN P = 1..Len(P) /\ \A n \in 1..Len(P) : P[n] \in Seq(Alphabet)
  BY <1>2, LenProperties
<1>6. p = <<>> => P = <<>>
  BY PiecesOfNothing
<1> HIDE DEF W
<1>7. ASSUME NEW n \in 1..Len(P) PROVE P[n] = W[n]
  <2>1. p # <<>>
    <3> SUFFICES ASSUME P = <<>> PROVE FALSE
      BY <1>6
    <3> HIDE DEF P
    <3>1. Len(P) = 0
      BY EmptySeq
    <3> QED BY <3>1
  <2>2. WellEscaped(P[n])
    BY <1>5, <2>1 DEF WellFormed
  <2>3. SlashFree(P[n])
    BY <1>4 DEF AllSlashFree
  <2>4. Escaped(Decoded(P[n])) = P[n]
    BY <1>5, <2>2, <2>3, DecodedIsRewritten
  <2>5. W[n] = Escaped(Spelling(place[n]))
    BY <1>1, <1>2, StepIsWritten
  <2> QED BY <1>2, <2>4, <2>5
<1> HIDE DEF P
<1>8. P = W
  BY <1>1, <1>2, <1>7, SeqEqual
<1> QED BY <1>1, <1>4, <1>8

-----------------------------------------------------------------------------
(* The nodes of a document, and where a token leads from one. *)

Located == [place : Seq(Steps), node : Values]

LEMMA IndexIsCanonical ==
    ASSUME NEW t \in Seq(Alphabet)
    PROVE  IndexStatus(t) = "Ok" <=> Canonical(t) /\ IndexOf(t) < IndexModulus
<1>1. Len(t) \in Nat /\ DOMAIN t = 1..Len(t) /\ \A n \in 1..Len(t) : t[n] \in Alphabet
  BY LenProperties
<1>2. IndexModulus \in Nat
  BY BoundsAssumption
<1>3. t = <<>> <=> Len(t) = 0
  BY EmptySeq
<1>4. CASE \E n \in 1..Len(t) : ~IsDigit(t[n])
  <2>1. IndexStatus(t) # "Ok"
    BY <1>1, <1>4 DEF IndexStatus
  <2>2. ~Canonical(t)
    <3> SUFFICES ASSUME t \in Seq(Numerals) PROVE FALSE
      BY DEF Canonical
    <3>1. \A n \in 1..Len(t) : t[n] \in Numerals
      BY LenProperties
    <3> QED BY <1>4, <3>1 DEF Numerals
  <2> QED BY <2>1, <2>2
<1>5. CASE \A n \in 1..Len(t) : IsDigit(t[n])
  <2>1. t \in Seq(Numerals)
    <3>1. \A n \in 1..Len(t) : t[n] \in Numerals
      BY <1>1, <1>5 DEF Numerals
    <3>2. t \in [1..Len(t) -> Numerals]
      BY <1>1, <3>1, LenProperties
    <3> QED BY <1>1, <3>2, MapIsSeq
  <2>2. t # <<"-">>
    <3> SUFFICES ASSUME t = <<"-">> PROVE FALSE
      OBVIOUS
    <3>1. 1 \in 1..Len(t) /\ t[1] = "-"
      OBVIOUS
    <3> QED BY <1>5, <3>1, DigitIsOne
  <2>3. ~\E n \in DOMAIN t : ~IsDigit(t[n])
    BY <1>1, <1>5
  <2>4. IndexOf(t) \in Nat
    <3>1. PICK f \in [0..Len(t) -> Nat] : IndexOf(t) = f[Len(t)]
      BY <2>1, IndexDefined
    <3>2. Len(t) \in 0..Len(t)
      BY <1>1
    <3> QED BY <3>1, <3>2
  <2>5. t # <<>> => (Len(t) > 1 <=> Len(t) # 1)
    BY <1>1, <1>3
  <2>6. IndexStatus(t) = "Ok" <=>
            t # <<>> /\ ~(Len(t) > 1 /\ t[1] = "0") /\ ~(IndexOf(t) >= IndexModulus)
    BY <2>2, <2>3 DEF IndexStatus
  <2>7. ~(IndexOf(t) >= IndexModulus) <=> IndexOf(t) < IndexModulus
    BY <1>2, <2>4
  <2> QED BY <2>1, <2>5, <2>6, <2>7 DEF Canonical
<1> QED BY <1>4, <1>5

\* The step from a node to its child at key or index k.
StepTo(node, k) == IF node.kind = "object" THEN [key |-> k] ELSE [index |-> k - 1]
ChildOf(n, k) ==
    [place |-> Append(n.place, StepTo(n.node, k)),
     node |-> IF n.node.kind = "object" THEN n.node.members[k] ELSE n.node.elements[k]]
Inner(node) ==
    CASE node.kind = "object" -> DOMAIN node.members
      [] node.kind = "array" -> DOMAIN node.elements
      [] OTHER -> {}

LEMMA ChildrenAreInner ==
    ASSUME NEW n, NEW c
    PROVE  c \in Children(n) <=> \E k \in Inner(n.node) : c = ChildOf(n, k)
<1>1. CASE n.node.kind = "object"
  BY <1>1 DEF Children, Inner, ChildOf, StepTo
<1>2. CASE n.node.kind = "array"
  <2>1. n.node.kind # "object"
    BY <1>2
  <2> QED BY <1>2, <2>1 DEF Children, Inner, ChildOf, StepTo
<1>3. CASE n.node.kind \notin {"object", "array"}
  BY <1>3 DEF Children, Inner
<1> QED BY <1>1, <1>2, <1>3

\* The token that is written for a child leads to it.
LEMMA ChildIsFollowed ==
    ASSUME NEW v \in Values, NEW k \in Inner(v)
    PROVE  LET step == StepTo(v, k)
               child == IF v.kind = "object" THEN v.members[k] ELSE v.elements[k]
           IN  /\ step \in Steps /\ child \in Values
               /\ Follow(v, Spelling(step)) = Found(child)
<1> DEFINE step == StepTo(v, k)
<1>1. CASE v.kind = "object"
  <2>1. k \in DOMAIN v.members /\ k \in Seq(Alphabet) /\ v.members[k] \in Values
    BY <1>1, ValuesAssumption DEF Inner
  <2>2. step = [key |-> k]
    BY <1>1 DEF StepTo
  <2>3. step \in Steps
    BY <2>1, <2>2 DEF Steps
  <2>4. Spelling(step) = k
    BY <2>2 DEF Spelling
  <2>5. Follow(v, k) = Found(v.members[k])
    BY <1>1, <2>1 DEF Follow
  <2> HIDE DEF step
  <2> QED BY <1>1, <2>1, <2>3, <2>4, <2>5 DEF step
<1>2. CASE v.kind = "array"
  <2>1. v.kind # "object"
    BY <1>2
  <2>2. /\ v.elements \in Seq(Values) /\ Len(v.elements) <= IndexModulus
        /\ k \in DOMAIN v.elements
    BY <1>2, <2>1, ValuesAssumption DEF Inner
  <2>3. /\ Len(v.elements) \in Nat /\ DOMAIN v.elements = 1..Len(v.elements)
        /\ v.elements[k] \in Values
    BY <2>2, LenProperties
  <2>4. k \in 1..Len(v.elements)
    BY <2>2, <2>3
  <2> DEFINE i == k - 1
             t == DecimalText[i]
  <2>5. i \in Nat /\ i < IndexModulus /\ i + 1 = k
    BY <2>2, <2>3, <2>4, BoundsAssumption
  <2>6. step = [index |-> i]
    BY <2>1 DEF StepTo
  <2> HIDE DEF i
  <2>7. step \in Steps
    BY <2>5, <2>6 DEF Steps
  <2>8. Spelling(step) = t
    <3>1. "key" \notin DOMAIN step /\ step.index = i
      BY <2>6
    <3> QED BY <3>1 DEF Spelling
  <2>9. Canonical(t) /\ IndexOf(t) = i /\ t \in Seq(Alphabet)
    BY <2>5, DecimalTextIsRead, DecimalTextDefined, NumeralsArePlain
  <2> HIDE DEF t, step
  <2>10. IndexStatus(t) = "Ok"
    BY <2>5, <2>9, IndexIsCanonical
  <2>11. IndexOf(t) + 1 = k
    BY <2>5, <2>9
  <2>12. Follow(v, t) = Found(v.elements[k])
    BY <1>2, <2>1, <2>2, <2>10, <2>11 DEF Follow
  <2> QED BY <2>1, <2>3, <2>7, <2>8, <2>12 DEF step
<1>3. v.kind \in {"object", "array"}
  BY DEF Inner
<1> QED BY <1>1, <1>2, <1>3

\* A token that leads anywhere is written for a child, and leads to it.
LEMMA FollowedIsChild ==
    ASSUME NEW v \in Values, NEW t \in Seq(Alphabet), Follow(v, t).status = "Ok"
    PROVE  \E k \in Inner(v) : Spelling(StepTo(v, k)) = t
<1>1. CASE v.kind = "object"
  <2>1. t \in DOMAIN v.members
    BY <1>1 DEF Follow, Lost
  <2>2. t \in Inner(v)
    BY <1>1, <2>1 DEF Inner
  <2>3. StepTo(v, t) = [key |-> t]
    BY <1>1 DEF StepTo
  <2>4. Spelling([key |-> t]) = t
    BY DEF Spelling
  <2> QED BY <2>2, <2>3, <2>4
<1>2. CASE v.kind = "array"
  <2>1. v.kind # "object"
    BY <1>2
  <2>2. IndexStatus(t) = "Ok" /\ IndexOf(t) + 1 \in DOMAIN v.elements
    <3>1. IndexStatus(t) = "Ok"
      BY <1>2, <2>1 DEF Follow, Lost
    <3>2. IndexOf(t) + 1 \in DOMAIN v.elements
      BY <1>2, <2>1, <3>1 DEF Follow, Lost
    <3> QED BY <3>1, <3>2
  <2> DEFINE i == IndexOf(t)
  <2>3. Canonical(t)
    BY <2>2, IndexIsCanonical
  <2>4. i \in Nat /\ DecimalText[i] = t
    BY <2>3, ReadIsDecimalText
  <2>5. i + 1 \in Inner(v)
    BY <1>2, <2>1, <2>2 DEF Inner
  <2> HIDE DEF i
  <2>6. StepTo(v, i + 1) = [index |-> i]
    <3>1. (i + 1) - 1 = i
      BY <2>4
    <3> QED BY <2>1, <3>1 DEF StepTo
  <2>7. Spelling([index |-> i]) = t
    <3>1. "key" \notin DOMAIN [index |-> i] /\ [index |-> i].index = i
      OBVIOUS
    <3> QED BY <2>4, <3>1 DEF Spelling
  <2> QED BY <2>5, <2>6, <2>7
<1>3. CASE v.kind \notin {"object", "array"}
  BY <1>3 DEF Follow, Lost
<1> QED BY <1>1, <1>2, <1>3

\* Different children have different tokens.
LEMMA ChildrenAreTold ==
    ASSUME NEW v \in Values, NEW j \in Inner(v), NEW k \in Inner(v),
           Spelling(StepTo(v, j)) = Spelling(StepTo(v, k))
    PROVE  j = k
<1>1. CASE v.kind = "object"
  <2>1. StepTo(v, j) = [key |-> j] /\ StepTo(v, k) = [key |-> k]
    BY <1>1 DEF StepTo
  <2>2. Spelling([key |-> j]) = j /\ Spelling([key |-> k]) = k
    BY DEF Spelling
  <2> QED BY <2>1, <2>2
<1>2. CASE v.kind = "array"
  <2>1. v.kind # "object" /\ v.elements \in Seq(Values)
    BY <1>2, ValuesAssumption
  <2>2. j \in 1..Len(v.elements) /\ k \in 1..Len(v.elements) /\ Len(v.elements) \in Nat
    BY <1>2, <2>1, LenProperties DEF Inner
  <2> DEFINE x == j - 1
             y == k - 1
  <2>3. x \in Nat /\ y \in Nat /\ (x = y => j = k)
    BY <2>2
  <2>4. StepTo(v, j) = [index |-> x] /\ StepTo(v, k) = [index |-> y]
    BY <2>1 DEF StepTo
  <2> HIDE DEF x, y
  <2>5. Spelling([index |-> x]) = DecimalText[x] /\ Spelling([index |-> y]) = DecimalText[y]
    <3>1. "key" \notin DOMAIN [index |-> x] /\ [index |-> x].index = x
      OBVIOUS
    <3>2. "key" \notin DOMAIN [index |-> y] /\ [index |-> y].index = y
      OBVIOUS
    <3> QED BY <3>1, <3>2 DEF Spelling
  <2>6. IndexOf(DecimalText[x]) = x /\ IndexOf(DecimalText[y]) = y
    BY <2>3, DecimalTextIsRead
  <2> QED BY <2>3, <2>4, <2>5, <2>6
<1>3. v.kind \in {"object", "array"}
  BY DEF Inner
<1> QED BY <1>1, <1>2, <1>3

-----------------------------------------------------------------------------
(* The nodes of a document, level by level. *)

Leveled(at, root) ==
    /\ at[0] = {[place |-> <<>>, node |-> root]}
    /\ \A d \in 1..MaxDepth : at[d] = UNION {Children(n) : n \in at[d - 1]}

LEMMA TokensAppend ==
    ASSUME NEW place \in Seq(Steps), NEW step \in Steps
    PROVE  /\ Append(place, step) \in Seq(Steps) /\ Len(Append(place, step)) = Len(place) + 1
           /\ Len(place) \in Nat
           /\ TokensOf(place) \in Seq(Seq(Alphabet)) /\ Len(TokensOf(place)) = Len(place)
           /\ TokensOf(Append(place, step)) = Append(TokensOf(place), Spelling(step))
<1> DEFINE u == Append(place, step)
           T == TokensOf(place)
           U == TokensOf(u)
<1>1. /\ u \in Seq(Steps) /\ Len(u) = Len(place) + 1 /\ Len(place) \in Nat
      /\ u[Len(place) + 1] = step
      /\ \A i \in 1..Len(place) : u[i] = place[i]
  BY AppendShape
<1> HIDE DEF u
<1>2. /\ T \in Seq(Seq(Alphabet)) /\ Len(T) = Len(place)
      /\ \A n \in 1..Len(place) : T[n] = Spelling(place[n])
  BY PathIsJoined
<1>3. /\ U \in Seq(Seq(Alphabet)) /\ Len(U) = Len(u)
      /\ \A n \in 1..Len(u) : U[n] = Spelling(u[n])
  BY <1>1, PathIsJoined
<1> HIDE DEF T, U
<1>4. Spelling(step) \in Seq(Alphabet)
  BY StepIsWritten
<1>5. \A i \in 1..Len(place) : U[i] = T[i]
  <2>1. \A i \in 1..Len(place) : i \in 1..Len(u)
    BY <1>1
  <2> QED BY <1>1, <1>2, <1>3, <2>1
<1>6. U[Len(place) + 1] = Spelling(step)
  <2>1. Len(place) + 1 \in 1..Len(u)
    BY <1>1
  <2> QED BY <1>1, <1>3, <2>1
<1>7. U = Append(T, Spelling(step))
  <2>1. Len(U) = Len(T) + 1 /\ (\A i \in 1..Len(T) : U[i] = T[i])
        /\ U[Len(T) + 1] = Spelling(step)
    BY <1>1, <1>2, <1>3, <1>5, <1>6
  <2> QED BY <1>2, <1>3, <1>4, <2>1, IsAppend
<1> QED BY <1>1, <1>2, <1>7 DEF u, T, U

LEMMA ChildIsLocated ==
    ASSUME NEW n \in Located, NEW k \in Inner(n.node)
    PROVE  LET c == ChildOf(n, k)
               step == StepTo(n.node, k)
           IN  /\ c \in Located /\ c \in Children(n) /\ Len(c.place) = Len(n.place) + 1
               /\ step \in Steps
               /\ Spelling(step) \in Seq(Alphabet)
               /\ TokensOf(c.place) = Append(TokensOf(n.place), Spelling(step))
               /\ Follow(n.node, Spelling(step)) = Found(c.node)
<1> DEFINE c == ChildOf(n, k)
           step == StepTo(n.node, k)
           v == IF n.node.kind = "object" THEN n.node.members[k] ELSE n.node.elements[k]
<1>1. n.place \in Seq(Steps) /\ n.node \in Values
  BY DEF Located
<1>2. step \in Steps /\ v \in Values /\ Follow(n.node, Spelling(step)) = Found(v)
  BY <1>1, ChildIsFollowed
<1>3. c = [place |-> Append(n.place, step), node |-> v]
  BY DEF ChildOf
<1>4. c \in Children(n)
  BY ChildrenAreInner
<1> HIDE DEF c, step, v
<1>5. /\ Append(n.place, step) \in Seq(Steps)
      /\ Len(Append(n.place, step)) = Len(n.place) + 1
      /\ TokensOf(Append(n.place, step)) = Append(TokensOf(n.place), Spelling(step))
  BY <1>1, <1>2, TokensAppend
<1>6. c.place = Append(n.place, step) /\ c.node = v
  BY <1>3
<1>7. c \in Located
  BY <1>2, <1>3, <1>5 DEF Located
<1>8. Spelling(step) \in Seq(Alphabet)
  BY <1>2, StepIsWritten
<1> QED BY <1>2, <1>4, <1>5, <1>6, <1>7, <1>8 DEF c, step

LEMMA NodesByLevel ==
    ASSUME NEW root \in Values
    PROVE  \E at \in [0..MaxDepth -> SUBSET Located] :
              Leveled(at, root) /\ Nodes(root) = UNION {at[d] : d \in 0..MaxDepth}
<1> DEFINE first == {[place |-> <<>>, node |-> root]}
           next == [d \in 1..MaxDepth |->
                       [X \in SUBSET Located |-> UNION {Children(n) : n \in X}]]
           Is(f) == f = [depth \in 0..MaxDepth |->
                            IF depth = 0 THEN {[place |-> <<>>, node |-> root]}
                            ELSE UNION {Children(n) : n \in f[depth - 1]}]
           c == CHOOSE f : Is(f)
<1>1. MaxDepth \in Nat
  BY BoundsAssumption
<1>2. first \in SUBSET Located
  <2>1. <<>> \in Seq(Steps)
    BY EmptySeq
  <2> QED BY <2>1 DEF Located
<1>3. \A X \in SUBSET Located : UNION {Children(n) : n \in X} \in SUBSET Located
  <2> SUFFICES ASSUME NEW X \in SUBSET Located, NEW n \in X, NEW e \in Children(n)
               PROVE  e \in Located
    OBVIOUS
  <2>1. n \in Located
    OBVIOUS
  <2>2. PICK k \in Inner(n.node) : e = ChildOf(n, k)
    BY ChildrenAreInner
  <2> QED BY <2>1, <2>2, ChildIsLocated
<1>4. next \in [1..MaxDepth -> [SUBSET Located -> SUBSET Located]]
  BY <1>3
<1>5. PICK f \in [0..MaxDepth -> SUBSET Located] : Runs(f, first, next, MaxDepth)
  <2> HIDE DEF first, next
  <2> QED BY <1>1, <1>2, <1>4, RunsExist
<1>6. Leveled(f, root)
  <2>1. ASSUME NEW d \in 1..MaxDepth PROVE next[d][f[d - 1]] = UNION {Children(n) : n \in f[d - 1]}
    <3>1. d - 1 \in 0..MaxDepth
      BY <1>1
    <3>2. f[d - 1] \in SUBSET Located
      BY <1>5, <3>1
    <3> QED BY <3>2
  <2> HIDE DEF next
  <2> QED BY <1>5, <2>1 DEF Runs, Leveled
<1>7. Is(f)
  <2>1. \A d \in 0..MaxDepth : d = 0 \/ (d # 0 /\ d \in 1..MaxDepth)
    BY <1>1
  <2>2. \A d \in 0..MaxDepth : f[d] = IF d = 0 THEN {[place |-> <<>>, node |-> root]}
                                      ELSE UNION {Children(n) : n \in f[d - 1]}
    BY <1>6, <2>1 DEF Leveled
  <2> QED BY <1>5, <2>2
<1>8. Is(c)
  BY <1>7
<1>9. Nodes(root) = UNION {c[d] : d \in 0..MaxDepth}
  BY DEF Nodes
<1>10. \A d \in 0..MaxDepth : c[d] = IF d = 0 THEN {[place |-> <<>>, node |-> root]}
                                     ELSE UNION {Children(n) : n \in c[d - 1]}
  <2> HIDE DEF c
  <2> QED BY <1>8
<1> HIDE DEF c
<1>11. \A d \in 0..MaxDepth : c[d] = f[d]
  <2> DEFINE same == {d \in 0..MaxDepth : c[d] = f[d]}
  <2>1. 0 \in same
    <3>1. 0 \in 0..MaxDepth
      BY <1>1
    <3>2. c[0] = {[place |-> <<>>, node |-> root]}
      BY <1>10, <3>1
    <3>3. f[0] = {[place |-> <<>>, node |-> root]}
      BY <1>6 DEF Leveled
    <3> QED BY <3>1, <3>2, <3>3
  <2>2. \A d \in 0..MaxDepth : d < MaxDepth /\ d \in same => d + 1 \in same
    <3> SUFFICES ASSUME NEW d \in 0..MaxDepth, d < MaxDepth, d \in same PROVE d + 1 \in same
      OBVIOUS
    <3>1. d + 1 \in 1..MaxDepth /\ d + 1 \in 0..MaxDepth /\ (d + 1) - 1 = d /\ d + 1 # 0
      BY <1>1
    <3>2. c[d + 1] = UNION {Children(n) : n \in c[d]}
      BY <1>10, <3>1
    <3>3. f[d + 1] = UNION {Children(n) : n \in f[d]}
      BY <1>6, <3>1 DEF Leveled
    <3>4. c[d] = f[d]
      OBVIOUS
    <3> QED BY <3>1, <3>2, <3>3, <3>4
  <2>3. \A d \in 0..MaxDepth : d \in same
    <3> HIDE DEF same
    <3> QED BY <1>1, <2>1, <2>2, NumberInduction
  <2> QED BY <2>3
<1>12. Nodes(root) = UNION {f[d] : d \in 0..MaxDepth}
  BY <1>9, <1>11
<1> QED BY <1>6, <1>12

\* What the nodes of a document are to one another: they are its root and, of each
\* node, the children; a node is as many steps down as its place is long.
LEMMA NodesAreATree ==
    ASSUME NEW root \in Documents
    PROVE  /\ [place |-> <<>>, node |-> root] \in Nodes(root)
           /\ Nodes(root) \subseteq Located
           /\ \A n \in Nodes(root) : \A k \in Inner(n.node) : ChildOf(n, k) \in Nodes(root)
           /\ \A n \in Nodes(root) :
                \/ n = [place |-> <<>>, node |-> root]
                \/ \E m \in Nodes(root) : \E k \in Inner(m.node) : n = ChildOf(m, k)
<1>1. root \in Values /\ MaxDepth \in Nat
  BY ValuesAssumption, BoundsAssumption
<1>2. PICK at \in [0..MaxDepth -> SUBSET Located] :
          Leveled(at, root) /\ Nodes(root) = UNION {at[d] : d \in 0..MaxDepth}
  BY <1>1, NodesByLevel
<1>3. Nodes(root) \subseteq Located
  BY <1>2
<1>4. [place |-> <<>>, node |-> root] \in Nodes(root)
  <2>1. 0 \in 0..MaxDepth
    BY <1>1
  <2> QED BY <1>2, <2>1 DEF Leveled
<1>5. \A d \in 0..MaxDepth : \A n \in at[d] : Len(n.place) = d
  <2> DEFINE good == {d \in 0..MaxDepth : \A n \in at[d] : Len(n.place) = d}
  <2>1. 0 \in good
    <3>1. Len(<<>>) = 0
      BY EmptySeq
    <3> QED BY <1>1, <1>2, <3>1 DEF Leveled
  <2>2. \A d \in 0..MaxDepth : d < MaxDepth /\ d \in good => d + 1 \in good
    <3> SUFFICES ASSUME NEW d \in 0..MaxDepth, d < MaxDepth, d \in good PROVE d + 1 \in good
      OBVIOUS
    <3>1. d + 1 \in 1..MaxDepth /\ d + 1 \in 0..MaxDepth /\ (d + 1) - 1 = d
      BY <1>1
    <3>2. ASSUME NEW e \in at[d + 1] PROVE Len(e.place) = d + 1
      <4>1. PICK n \in at[d] : e \in Children(n)
        BY <1>2, <3>1 DEF Leveled
      <4>2. n \in Located /\ Len(n.place) = d
        BY <1>2
      <4>3. PICK k \in Inner(n.node) : e = ChildOf(n, k)
        BY <4>1, ChildrenAreInner
      <4> QED BY <4>2, <4>3, ChildIsLocated
    <3> QED BY <3>1, <3>2
  <2>3. \A d \in 0..MaxDepth : d \in good
    <3> HIDE DEF good
    <3> QED BY <1>1, <2>1, <2>2, NumberInduction
  <2> QED BY <2>3
<1>6. ASSUME NEW n \in Nodes(root), NEW k \in Inner(n.node) PROVE ChildOf(n, k) \in Nodes(root)
  <2>1. PICK d \in 0..MaxDepth : n \in at[d]
    BY <1>2
  <2>2. n \in Located /\ ChildOf(n, k) \in Children(n)
    BY <1>3, ChildIsLocated
  <2>3. d < MaxDepth
    <3>1. IsNonEmptyContainer(n.node)
      BY DEF Inner, IsNonEmptyContainer
    <3>2. Len(n.place) # MaxDepth
      BY <3>1, DepthAssumption
    <3> QED BY <1>1, <1>5, <2>1, <3>2
  <2>4. d + 1 \in 1..MaxDepth /\ d + 1 \in 0..MaxDepth /\ (d + 1) - 1 = d
    BY <1>1, <2>3
  <2>5. at[d + 1] = UNION {Children(m) : m \in at[d]}
    BY <1>2, <2>4 DEF Leveled
  <2> QED BY <1>2, <2>1, <2>2, <2>4, <2>5
<1>7. ASSUME NEW n \in Nodes(root), n # [place |-> <<>>, node |-> root]
      PROVE  \E m \in Nodes(root) : \E k \in Inner(m.node) : n = ChildOf(m, k)
  <2>1. PICK d \in 0..MaxDepth : n \in at[d]
    BY <1>2
  <2>2. d # 0
    BY <1>2, <1>7, <2>1 DEF Leveled
  <2>3. d \in 1..MaxDepth /\ d - 1 \in 0..MaxDepth
    BY <1>1, <2>2
  <2>4. PICK m \in at[d - 1] : n \in Children(m)
    BY <1>2, <2>1, <2>3 DEF Leveled
  <2>5. m \in Nodes(root)
    BY <1>2, <2>3
  <2> QED BY <2>4, <2>5, ChildrenAreInner
<1> QED BY <1>3, <1>4, <1>6, <1>7

-----------------------------------------------------------------------------
(* A walk down the tree. *)

Root(root) == [place |-> <<>>, node |-> root]

\* Different nodes of a document have different tokens.
LEMMA NodesAreTold ==
    ASSUME NEW root \in Documents
    PROVE  \A m, n \in Nodes(root) : TokensOf(m.place) = TokensOf(n.place) => m = n
<1> DEFINE N == Nodes(root)
           bad == {l \in Nat : \E m, n \in N :
                      Len(m.place) = l /\ TokensOf(m.place) = TokensOf(n.place) /\ m # n}
<1>1. /\ N \subseteq Located
      /\ \A n \in N : n = Root(root) \/ \E m \in N : \E k \in Inner(m.node) : n = ChildOf(m, k)
  BY NodesAreATree DEF Root
<1> HIDE DEF N
<1>2. \A n \in N : /\ n.place \in Seq(Steps) /\ n.node \in Values /\ Len(n.place) \in Nat
                   /\ TokensOf(n.place) \in Seq(Seq(Alphabet))
                   /\ Len(TokensOf(n.place)) = Len(n.place)
  <2> SUFFICES ASSUME NEW n \in N
               PROVE  /\ n.place \in Seq(Steps) /\ n.node \in Values /\ Len(n.place) \in Nat
                      /\ TokensOf(n.place) \in Seq(Seq(Alphabet))
                      /\ Len(TokensOf(n.place)) = Len(n.place)
    OBVIOUS
  <2>1. n.place \in Seq(Steps) /\ n.node \in Values
    BY <1>1 DEF Located
  <2> QED BY <2>1, LenProperties, PathIsJoined
<1>3. ASSUME NEW m \in N, NEW k \in Inner(m.node), NEW c, c = ChildOf(m, k)
      PROVE  /\ Len(c.place) = Len(m.place) + 1
             /\ Spelling(StepTo(m.node, k)) \in Seq(Alphabet)
             /\ TokensOf(c.place) = Append(TokensOf(m.place), Spelling(StepTo(m.node, k)))
  BY <1>1, <1>3, ChildIsLocated
<1>4. bad = {}
  <2> SUFFICES ASSUME bad # {} PROVE FALSE
    OBVIOUS
  <2>1. PICK l \in bad : \A j \in bad : l <= j
    <3>1. bad \in SUBSET Nat
      OBVIOUS
    <3> HIDE DEF bad
    <3> QED BY <3>1, LeastNumber
  <2>2. PICK m \in N, n \in N :
            Len(m.place) = l /\ TokensOf(m.place) = TokensOf(n.place) /\ m # n
    OBVIOUS
  <2>3. Len(n.place) = l
    BY <1>2, <2>2
  <2>4. Len(Root(root).place) = 0
    BY EmptySeq DEF Root
  <2>5. m # Root(root)
    <3> SUFFICES ASSUME m = Root(root), n # Root(root) PROVE FALSE
      BY <2>2
    <3>1. PICK p, k : p \in N /\ k \in Inner(p.node) /\ n = ChildOf(p, k)
      BY <1>1
    <3>2. Len(n.place) = Len(p.place) + 1
      BY <1>3, <3>1
    <3> QED BY <1>2, <2>2, <2>3, <2>4, <3>2
  <2>6. n # Root(root)
    <3> SUFFICES ASSUME n = Root(root), m # Root(root) PROVE FALSE
      BY <2>2
    <3>1. PICK p, k : p \in N /\ k \in Inner(p.node) /\ m = ChildOf(p, k)
      BY <1>1
    <3>2. Len(m.place) = Len(p.place) + 1
      BY <1>3, <3>1
    <3> QED BY <1>2, <2>2, <2>3, <2>4, <3>2
  <2>7. PICK p, j : p \in N /\ j \in Inner(p.node) /\ m = ChildOf(p, j)
    BY <1>1, <2>5
  <2>8. PICK q, k : q \in N /\ k \in Inner(q.node) /\ n = ChildOf(q, k)
    BY <1>1, <2>6
  <2>9. /\ Len(m.place) = Len(p.place) + 1 /\ Spelling(StepTo(p.node, j)) \in Seq(Alphabet)
        /\ TokensOf(m.place) = Append(TokensOf(p.place), Spelling(StepTo(p.node, j)))
    BY <1>3, <2>7
  <2>10. /\ Spelling(StepTo(q.node, k)) \in Seq(Alphabet)
         /\ TokensOf(n.place) = Append(TokensOf(q.place), Spelling(StepTo(q.node, k)))
    BY <1>3, <2>8
  <2>11. /\ TokensOf(p.place) = TokensOf(q.place)
         /\ Spelling(StepTo(p.node, j)) = Spelling(StepTo(q.node, k))
    <3> DEFINE P == TokensOf(p.place)
               Q == TokensOf(q.place)
               x == Spelling(StepTo(p.node, j))
               y == Spelling(StepTo(q.node, k))
    <3>1. P \in Seq(Seq(Alphabet)) /\ Q \in Seq(Seq(Alphabet))
      BY <1>2, <2>7, <2>8
    <3>2. x \in Seq(Alphabet) /\ y \in Seq(Alphabet) /\ Append(P, x) = Append(Q, y)
      BY <2>2, <2>9, <2>10
    <3> HIDE DEF P, Q, x, y
    <3>3. P = Q /\ x = y
      BY <3>1, <3>2, AppendInjective
    <3> QED BY <3>3 DEF P, Q, x, y
  <2>12. p = q
    <3>1. Len(p.place) \in Nat /\ Len(p.place) < l
      BY <1>2, <2>2, <2>7, <2>9
    <3>2. Len(p.place) \notin bad
      BY <2>1, <3>1
    <3> QED BY <2>7, <2>8, <2>11, <3>1, <3>2
  <2>13. j = k
    BY <1>2, <2>7, <2>8, <2>11, <2>12, ChildrenAreTold
  <2> QED BY <2>2, <2>7, <2>8, <2>12, <2>13
<1> QED BY <1>2, <1>4 DEF N

\* The node n is where the first i of the tokens T lead.
LeadTo(T, i, n) == Len(n.place) = i /\ \A j \in 1..i : TokensOf(n.place)[j] = T[j]

LEMMA NodesHaveAncestors ==
    ASSUME NEW root \in Documents, NEW T, NEW i \in Nat,
           NEW n \in Nodes(root), i <= Len(n.place), LeadTo(T, Len(n.place), n)
    PROVE  \E m \in Nodes(root) : LeadTo(T, i, m)
<1> DEFINE N == Nodes(root)
           good == {l \in Nat : \E m \in N : i <= l /\ LeadTo(T, l, m)}
<1>1. /\ N \subseteq Located
      /\ \A m \in N : m = Root(root) \/ \E p \in N : \E k \in Inner(p.node) : m = ChildOf(p, k)
  BY NodesAreATree DEF Root
<1>2. Len(n.place) \in good
  <2>1. Len(n.place) \in Nat
    <3>1. n.place \in Seq(Steps)
      BY <1>1 DEF Located
    <3> QED BY <3>1, LenProperties
  <2> QED BY <2>1
<1> HIDE DEF N
<1>3. PICK l \in good : \A j \in good : l <= j
  <2>1. good \in SUBSET Nat /\ good # {}
    BY <1>2
  <2> HIDE DEF good
  <2> QED BY <2>1, LeastNumber
<1>4. PICK m \in N : i <= l /\ LeadTo(T, l, m)
  OBVIOUS
<1>5. l = i
  <2> SUFFICES ASSUME l # i PROVE FALSE
    OBVIOUS
  <2>1. l \in Nat /\ i < l /\ l - 1 \in Nat /\ i <= l - 1 /\ l # 0 /\ (l - 1) + 1 = l
    BY <1>4
  <2>2. m # Root(root)
    <3>1. Len(Root(root).place) = 0
      BY EmptySeq DEF Root
    <3> QED BY <1>4, <2>1, <3>1 DEF LeadTo
  <2>3. PICK p, k : p \in N /\ k \in Inner(p.node) /\ m = ChildOf(p, k)
    BY <1>1, <2>2
  <2>4. /\ Len(m.place) = Len(p.place) + 1 /\ Spelling(StepTo(p.node, k)) \in Seq(Alphabet)
        /\ TokensOf(m.place) = Append(TokensOf(p.place), Spelling(StepTo(p.node, k)))
    BY <1>1, <2>3, ChildIsLocated
  <2>5. /\ TokensOf(p.place) \in Seq(Seq(Alphabet)) /\ Len(TokensOf(p.place)) = Len(p.place)
        /\ Len(p.place) \in Nat
    <3>1. p.place \in Seq(Steps)
      BY <1>1, <2>3 DEF Located
    <3> QED BY <3>1, PathIsJoined, LenProperties
  <2>6. Len(p.place) = l - 1
    BY <1>4, <2>1, <2>4, <2>5 DEF LeadTo
  <2>7. \A j \in 1..(l - 1) : TokensOf(m.place)[j] = TokensOf(p.place)[j]
    BY <2>4, <2>5, <2>6, AppendShape
  <2>8. \A j \in 1..(l - 1) : j \in 1..l
    BY <2>1
  <2>9. LeadTo(T, l - 1, p)
    BY <1>4, <2>6, <2>7, <2>8 DEF LeadTo
  <2>10. l - 1 \in good
    BY <2>1, <2>3, <2>9
  <2>11. l <= l - 1
    <3> HIDE DEF good
    <3> QED BY <1>3, <2>10
  <2> QED BY <2>1, <2>11
<1> QED BY <1>4, <1>5 DEF N

\* Where tokens lead is where they are the node's own.
LEMMA LeadToItsTokens ==
    ASSUME NEW root \in Documents, NEW n \in Nodes(root), NEW T \in Seq(Seq(Alphabet))
    PROVE  LeadTo(T, Len(T), n) <=> TokensOf(n.place) = T
<1>1. n.place \in Seq(Steps)
  BY NodesAreATree DEF Located
<1>2. TokensOf(n.place) \in Seq(Seq(Alphabet)) /\ Len(TokensOf(n.place)) = Len(n.place)
  BY <1>1, PathIsJoined
<1>3. LeadTo(T, Len(T), n) => TokensOf(n.place) = T
  <2> SUFFICES ASSUME LeadTo(T, Len(T), n) PROVE TokensOf(n.place) = T
    OBVIOUS
  <2>1. Len(TokensOf(n.place)) = Len(T)
        /\ \A j \in 1..Len(T) : TokensOf(n.place)[j] = T[j]
    BY <1>2 DEF LeadTo
  <2> QED BY <1>2, <2>1, SeqEqual
<1>4. TokensOf(n.place) = T => LeadTo(T, Len(T), n)
  BY <1>2 DEF LeadTo
<1> QED BY <1>3, <1>4

\* One turn of ResolvePath's loop: on to the one node that the next token leads to, or
\* to nothing, and then no node of the document has the tokens.
LEMMA OneTurn ==
    ASSUME NEW root \in Documents, NEW n \in Nodes(root), NEW T \in Seq(Seq(Alphabet)),
           NEW i \in Nat, i < Len(T), LeadTo(T, i, n)
    PROVE  IF Follow(n.node, T[i + 1]).status = "Ok"
           THEN \E m \in Nodes(root) :
                    LeadTo(T, i + 1, m) /\ m.node = Follow(n.node, T[i + 1]).node
           ELSE \A m \in Nodes(root) : TokensOf(m.place) # T
<1> DEFINE N == Nodes(root)
           t == T[i + 1]
<1>1. /\ N \subseteq Located
      /\ \A m \in N : m = Root(root) \/ \E p \in N : \E k \in Inner(p.node) : m = ChildOf(p, k)
      /\ \A m \in N : \A k \in Inner(m.node) : ChildOf(m, k) \in N
  BY NodesAreATree DEF Root
<1> HIDE DEF N
<1>2. Len(T) \in Nat /\ i + 1 \in 1..Len(T) /\ i + 1 \in Nat /\ i + 1 <= Len(T) /\ t \in Seq(Alphabet)
  BY LenProperties
<1> HIDE DEF t
<1>3. n \in N /\ n \in Located /\ n.node \in Values
  BY <1>1 DEF N, Located
<1>4. ASSUME NEW m \in N
      PROVE  /\ TokensOf(m.place) \in Seq(Seq(Alphabet)) /\ Len(TokensOf(m.place)) = Len(m.place)
             /\ Len(m.place) \in Nat
  <2>1. m.place \in Seq(Steps)
    BY <1>1 DEF Located
  <2> QED BY <2>1, PathIsJoined, LenProperties
<1>5. ASSUME NEW p \in N, NEW k \in Inner(p.node), NEW m, m = ChildOf(p, k)
      PROVE  /\ Len(m.place) = Len(p.place) + 1
             /\ \A j \in 1..Len(p.place) : TokensOf(m.place)[j] = TokensOf(p.place)[j]
             /\ TokensOf(m.place)[Len(p.place) + 1] = Spelling(StepTo(p.node, k))
             /\ Follow(p.node, Spelling(StepTo(p.node, k))) = Found(m.node)
  <2>1. /\ Len(m.place) = Len(p.place) + 1 /\ Spelling(StepTo(p.node, k)) \in Seq(Alphabet)
        /\ TokensOf(m.place) = Append(TokensOf(p.place), Spelling(StepTo(p.node, k)))
        /\ Follow(p.node, Spelling(StepTo(p.node, k))) = Found(m.node)
    BY <1>1, <1>5, ChildIsLocated
  <2> QED BY <1>4, <2>1, AppendShape
<1>6. CASE Follow(n.node, t).status = "Ok"
  <2>1. PICK k \in Inner(n.node) : Spelling(StepTo(n.node, k)) = t
    BY <1>2, <1>3, <1>6, FollowedIsChild
  <2>2. PICK m : m = ChildOf(n, k)
    OBVIOUS
  <2>3. m \in N
    BY <1>1, <1>3, <2>2
  <2>4. /\ Len(m.place) = Len(n.place) + 1
        /\ \A j \in 1..Len(n.place) : TokensOf(m.place)[j] = TokensOf(n.place)[j]
        /\ TokensOf(m.place)[Len(n.place) + 1] = t
        /\ Follow(n.node, t) = Found(m.node)
    BY <1>3, <1>5, <2>1, <2>2
  <2>5. Len(n.place) = i /\ \A j \in 1..i : TokensOf(n.place)[j] = T[j]
    BY DEF LeadTo
  <2>6. \A j \in 1..(i + 1) : j = i + 1 \/ j \in 1..i
    OBVIOUS
  <2>7. LeadTo(T, i + 1, m)
    BY <2>4, <2>5, <2>6 DEF LeadTo, t
  <2>8. m.node = Follow(n.node, t).node
    BY <2>4 DEF Found
  <2> QED BY <1>6, <2>3, <2>7, <2>8 DEF t, N
<1>7. ASSUME Follow(n.node, t).status # "Ok", NEW m \in N, TokensOf(m.place) = T PROVE FALSE
  <2>1. LeadTo(T, Len(m.place), m) /\ i + 1 <= Len(m.place)
    BY <1>2, <1>4, <1>7 DEF LeadTo
  <2>2. PICK a \in N : LeadTo(T, i + 1, a)
    BY <1>2, <2>1, NodesHaveAncestors DEF N
  <2>3. a # Root(root)
    <3>1. Len(Root(root).place) = 0
      BY EmptySeq DEF Root
    <3> QED BY <2>2, <3>1 DEF LeadTo
  <2>4. PICK p, k : p \in N /\ k \in Inner(p.node) /\ a = ChildOf(p, k)
    BY <1>1, <2>3
  <2>5. /\ Len(a.place) = Len(p.place) + 1
        /\ \A j \in 1..Len(p.place) : TokensOf(a.place)[j] = TokensOf(p.place)[j]
        /\ TokensOf(a.place)[Len(p.place) + 1] = Spelling(StepTo(p.node, k))
        /\ Follow(p.node, Spelling(StepTo(p.node, k))) = Found(a.node)
    BY <1>5, <2>4
  <2>6. Len(p.place) = i
    BY <1>4, <2>2, <2>4, <2>5 DEF LeadTo
  <2>7. TokensOf(p.place) = TokensOf(n.place)
    <3>1. \A j \in 1..i : j \in 1..(i + 1)
      OBVIOUS
    <3>2. \A j \in 1..i : TokensOf(p.place)[j] = TokensOf(n.place)[j]
      BY <2>2, <2>5, <2>6, <3>1 DEF LeadTo
    <3>3. Len(TokensOf(p.place)) = i /\ Len(TokensOf(n.place)) = i
      BY <1>3, <1>4, <2>4, <2>6 DEF LeadTo
    <3> QED BY <1>3, <1>4, <2>4, <3>2, <3>3, SeqEqual
  <2>8. p = n
    BY <1>3, <2>4, <2>7, NodesAreTold DEF N
  <2>9. i + 1 \in 1..(i + 1)
    OBVIOUS
  <2>10. Spelling(StepTo(p.node, k)) = t
    BY <2>2, <2>5, <2>6, <2>9 DEF LeadTo, t
  <2> QED BY <1>7, <2>5, <2>8, <2>10 DEF Found
<1> QED BY <1>6, <1>7 DEF t, N

-----------------------------------------------------------------------------
(* What a call finds at its path. *)

\* The walk is at n, the i tokens that lead there behind it and the others ahead.
Reached(n, i) ==
    /\ current = n.node
    /\ LeadTo(ParsePath(path), i, n)
    /\ tokens \in Seq(Seq(Alphabet))
    /\ i + Len(tokens) = Len(ParsePath(path))
    /\ \A j \in 1..Len(tokens) : tokens[j] = ParsePath(path)[i + j]

\* The walk has come to a node of the document by the tokens it has taken off, and what
\* it returned it found there.
WalkInv ==
    /\ path \in Seq(Alphabet)
    /\ phase = "walking" =>
        WellFormed(path) /\ \E n \in Nodes(document), i \in Nat : Reached(n, i)
    /\ ResolvesExactly

\* A path is some node's exactly if its tokens are that node's.
LEMMA PathOfNode ==
    ASSUME NEW root \in Documents, NEW n \in Nodes(root), NEW p \in Seq(Alphabet), WellFormed(p)
    PROVE  PathOf(n.place) = p <=> TokensOf(n.place) = ParsePath(p)
<1>1. n.place \in Seq(Steps)
  BY NodesAreATree DEF Located
<1> QED BY <1>1, PathIsParsed, PathIsTheOnlyOne

LEMMA WalkInvStarts == Init => WalkInv
<1>1. <<>> \in Seq(Alphabet)
  BY EmptySeq
<1> QED BY <1>1 DEF Init, WalkInv, ResolvesExactly, Searched

LEMMA CallKeepsWalk ==
    ASSUME PathInv, WalkInv, NEW e \in Exports, Call(e)
    PROVE  WalkInv'
<1>1. document \in Documents /\ path \in Seq(Alphabet) /\ document' = document /\ path' = path
  BY DEF Call, Returns, PathInv, WalkInv
<1>2. CASE WellFormed(path)
  <2> DEFINE T == ParsePath(path)
  <2>1. phase' = "walking" /\ tokens' = T /\ current' = document
    BY <1>2 DEF Call
  <2>2. PICK n \in Nodes(document) : n.node = document /\ Len(n.place) = 0
    <3>1. Root(document) \in Nodes(document)
      BY <1>1, NodesAreATree DEF Root
    <3>2. Root(document).node = document /\ Len(Root(document).place) = 0
      BY EmptySeq DEF Root
    <3> QED BY <3>1, <3>2
  <2>3. T \in Seq(Seq(Alphabet)) /\ Len(T) \in Nat
    <3>1. T \in Seq(Seq(Alphabet))
      BY <1>1, <1>2, ParsedIsTokens
    <3> QED BY <3>1, LenProperties
  <2>4. Reached(n, 0)'
    <3>1. LeadTo(T, 0, n)
      BY <2>2 DEF LeadTo
    <3>2. ParsePath(path') = T /\ 0 + Len(tokens') = Len(T)
          /\ \A j \in 1..Len(tokens') : tokens'[j] = T[0 + j]
      BY <1>1, <2>1, <2>3
    <3> HIDE DEF T
    <3> QED BY <2>1, <2>2, <2>3, <3>1, <3>2 DEF Reached
  <2>5. WellFormed(path') /\ \E m \in Nodes(document'), i \in Nat : Reached(m, i)'
    <3>1. 0 \in Nat
      OBVIOUS
    <3> QED BY <1>1, <1>2, <2>4, <3>1
  <2>6. ResolvesExactly'
    BY <2>1 DEF ResolvesExactly, Searched
  <2> QED BY <1>1, <2>5, <2>6 DEF WalkInv
<1>3. CASE ~WellFormed(path)
  <2>1. phase' = "returned" /\ current' = Nowhere
    BY <1>3 DEF Call, Returns
  <2>2. \A n \in Nodes(document) : PathOf(n.place) # path
    <3> SUFFICES ASSUME NEW n \in Nodes(document) PROVE WellFormed(PathOf(n.place))
      BY <1>3
    <3>1. n.place \in Seq(Steps)
      BY <1>1, NodesAreATree DEF Located
    <3> QED BY <3>1, PathIsParsed
  <2>3. ResolvesExactly'
    BY <1>1, <2>1, <2>2 DEF ResolvesExactly, Resolved
  <2> QED BY <1>1, <2>1, <2>3 DEF WalkInv
<1> QED BY <1>2, <1>3

LEMMA WalkKeepsWalk ==
    ASSUME PathInv, WalkInv, Walk
    PROVE  WalkInv'
<1> DEFINE T == ParsePath(path)
           next == Follow(current, Head(tokens))
<1>1. /\ document \in Documents /\ path \in Seq(Alphabet) /\ WellFormed(path)
      /\ document' = document /\ path' = path /\ current' = next.node /\ tokens # <<>>
  BY DEF Walk, Returns, PathInv, WalkInv
<1>2. PICK n \in Nodes(document), i \in Nat : Reached(n, i)
  BY DEF Walk, WalkInv
<1>3. T \in Seq(Seq(Alphabet)) /\ tokens \in Seq(Seq(Alphabet)) /\ Len(T) \in Nat
  <2>1. T \in Seq(Seq(Alphabet))
    BY <1>1, ParsedIsTokens
  <2> QED BY <1>2, <2>1, LenProperties DEF Reached
<1>4. /\ Len(tokens) \in Nat /\ Len(tokens) # 0 /\ i + Len(tokens) = Len(T) /\ i < Len(T)
      /\ Head(tokens) = T[i + 1]
  <2>1. Len(tokens) \in Nat /\ Len(tokens) # 0
    BY <1>1, <1>3, EmptySeq, LenProperties
  <2>2. 1 \in 1..Len(tokens) /\ Head(tokens) = tokens[1]
    BY <1>1, <1>3, <2>1
  <2> QED BY <1>2, <2>1, <2>2 DEF Reached
<1>5. current = n.node /\ LeadTo(T, i, n)
  BY <1>2 DEF Reached
<1> HIDE DEF T
<1>6. IF next.status = "Ok"
      THEN \E m \in Nodes(document) : LeadTo(T, i + 1, m) /\ m.node = next.node
      ELSE \A m \in Nodes(document) : TokensOf(m.place) # T
  <2>1. next = Follow(n.node, T[i + 1])
    BY <1>4, <1>5
  <2>2. IF Follow(n.node, T[i + 1]).status = "Ok"
        THEN \E m \in Nodes(document) :
                LeadTo(T, i + 1, m) /\ m.node = Follow(n.node, T[i + 1]).node
        ELSE \A m \in Nodes(document) : TokensOf(m.place) # T
    <3>1. /\ document \in Documents /\ n \in Nodes(document) /\ T \in Seq(Seq(Alphabet))
          /\ i \in Nat /\ i < Len(T) /\ LeadTo(T, i, n)
      BY <1>1, <1>2, <1>3, <1>4, <1>5
    <3> QED BY ONLY <3>1, OneTurn
  <2> HIDE DEF next
  <2> QED BY <2>1, <2>2
<1>7. CASE next.status = "Ok"
  <2>1. tokens' = Tail(tokens) /\ phase' = "walking"
    BY <1>7 DEF Walk
  <2>2. PICK m \in Nodes(document) : LeadTo(T, i + 1, m) /\ m.node = next.node
    BY <1>6, <1>7
  <2>3. /\ tokens' \in Seq(Seq(Alphabet)) /\ Len(tokens') = Len(tokens) - 1
        /\ \A j \in 1..Len(tokens') : tokens'[j] = tokens[j + 1]
    BY <1>1, <1>3, <2>1, HeadTailProperties
  <2>4. (i + 1) + Len(tokens') = Len(T)
    BY <1>4, <2>3
  <2>5. \A j \in 1..Len(tokens') : tokens'[j] = T[(i + 1) + j]
    <3> SUFFICES ASSUME NEW j \in 1..Len(tokens') PROVE tokens'[j] = T[(i + 1) + j]
      OBVIOUS
    <3>1. j + 1 \in 1..Len(tokens) /\ i + (j + 1) = (i + 1) + j
      BY <1>4, <2>3
    <3>2. tokens[j + 1] = T[i + (j + 1)]
      BY <1>2, <3>1 DEF Reached, T
    <3> QED BY <2>3, <3>1, <3>2
  <2>6. ParsePath(path') = T
    BY <1>1 DEF T
  <2> HIDE DEF next
  <2>7. Reached(m, i + 1)'
    BY <1>1, <2>2, <2>3, <2>4, <2>5, <2>6 DEF Reached
  <2>8. ResolvesExactly'
    BY <2>1 DEF ResolvesExactly, Searched
  <2>9. WellFormed(path') /\ \E k \in Nodes(document'), j \in Nat : Reached(k, j)'
    <3>1. i + 1 \in Nat
      OBVIOUS
    <3> QED BY <1>1, <2>2, <2>7, <3>1
  <2> QED BY <1>1, <2>8, <2>9 DEF WalkInv
<1>8. CASE next.status # "Ok"
  <2>1. phase' = "returned" /\ current' = Nowhere
    <3>1. next.node = Nowhere
      <4>1. current \in Values
        BY DEF PathInv, Walk
      <4> QED BY <1>8, <4>1, FollowedIsValue
    <3> QED BY <1>1, <1>8, <3>1 DEF Walk, Returns
  <2>2. \A m \in Nodes(document) : PathOf(m.place) # path
    BY <1>1, <1>6, <1>8, PathOfNode DEF T
  <2>3. ResolvesExactly'
    BY <1>1, <2>1, <2>2 DEF ResolvesExactly, Resolved
  <2> QED BY <1>1, <2>1, <2>3 DEF WalkInv
<1> QED BY <1>7, <1>8

LEMMA ConvertKeepsWalk ==
    ASSUME PathInv, WalkInv, Convert
    PROVE  WalkInv'
<1> DEFINE T == ParsePath(path)
<1>1. /\ document \in Documents /\ path \in Seq(Alphabet) /\ WellFormed(path)
      /\ document' = document /\ path' = path /\ current' = current /\ tokens = <<>>
      /\ phase' = "returned" /\ current \in Values
  BY DEF Convert, Returns, PathInv, WalkInv
<1>2. PICK n \in Nodes(document), i \in Nat : Reached(n, i)
  BY DEF Convert, WalkInv
<1>3. T \in Seq(Seq(Alphabet))
  BY <1>1, ParsedIsTokens
<1>4. LeadTo(T, Len(T), n) /\ current = n.node
  <2>1. i = Len(T)
    <3>1. Len(tokens) = 0
      BY <1>1, EmptySeq
    <3> QED BY <1>2, <3>1 DEF Reached
  <2> QED BY <1>2, <2>1 DEF Reached
<1>5. TokensOf(n.place) = T
  BY <1>1, <1>3, <1>4, LeadToItsTokens
<1>6. PathOf(n.place) = path
  BY <1>1, <1>5, PathOfNode
<1>7. \A m \in Nodes(document) : PathOf(m.place) = path => m = n
  <2> SUFFICES ASSUME NEW m \in Nodes(document), PathOf(m.place) = path PROVE m = n
    OBVIOUS
  <2>1. TokensOf(m.place) = T
    BY <1>1, PathOfNode
  <2> QED BY <1>1, <1>5, <2>1, NodesAreTold
<1>8. Resolved'
  BY <1>1, ValuesAssumption DEF Resolved
<1>9. ResolvesExactly'
  BY <1>1, <1>4, <1>6, <1>7, <1>8 DEF ResolvesExactly
<1> QED BY <1>1, <1>9 DEF WalkInv

LEMMA WalkInvHolds == Spec => []WalkInv
<1>1. PathInv /\ WalkInv /\ [Next]_vars => WalkInv'
  <2> SUFFICES ASSUME PathInv, WalkInv, [Next]_vars PROVE WalkInv'
    OBVIOUS
  <2>1. ASSUME NEW c \in Characters, Type(c) PROVE WalkInv'
    <3>1. path' = Append(path, c) /\ phase' = "writing"
      BY <2>1 DEF Type
    <3>2. path' \in Seq(Alphabet)
      BY <3>1, AlphabetAssumption, AppendProperties DEF WalkInv
    <3> QED BY <3>1, <3>2 DEF WalkInv, ResolvesExactly, Searched
  <2>2. CASE TakeKey
    <3>1. PICK n \in Nodes(document) : path' = PathOf(n.place)
      BY <2>2 DEF TakeKey
    <3>2. n.place \in Seq(Steps)
      BY <3>1, NodesAreATree DEF Located, PathInv
    <3>3. path' \in Seq(Alphabet) /\ phase' = "writing"
      BY <2>2, <3>1, <3>2, PathIsJoined DEF TakeKey
    <3> QED BY <3>3 DEF WalkInv, ResolvesExactly, Searched
  <2>3. ASSUME NEW e \in Exports, Refuse(e) PROVE WalkInv'
    <3>1. phase' = "returned" /\ status' \in {"InvalidArgument", "UnterminatedInputText"}
          /\ path' = path
      BY <2>3 DEF Refuse, Returns
    <3> QED BY <3>1 DEF WalkInv, ResolvesExactly, Searched
  <2>4. ASSUME NEW e \in Exports, Call(e) PROVE WalkInv'
    BY <2>4, CallKeepsWalk
  <2>5. CASE Walk
    BY <2>5, WalkKeepsWalk
  <2>6. CASE Convert
    BY <2>6, ConvertKeepsWalk
  <2>7. CASE Throws
    <3>1. phase' = "returned" /\ status' = "InternalError" /\ path' = path
      BY <2>7 DEF Throws, Returns
    <3> QED BY <3>1 DEF WalkInv, ResolvesExactly, Searched
  <2>8. CASE UNCHANGED vars
    BY <2>8 DEF vars, WalkInv, Reached, ResolvesExactly, Searched, Resolved
  <2> QED BY <2>1, <2>2, <2>3, <2>4, <2>5, <2>6, <2>7, <2>8 DEF Next
<1> QED BY <1>1, WalkInvStarts, PathInvHolds, PTL DEF Spec

\* For every set of documents whose depth and array lengths the code bounds, and over
\* every alphabet: the key of an entry leads a call back to that entry and to no other,
\* and a path that is not exactly some node's key leads nowhere, so that what
\* AppendEscapedToken and to_string write (json-flatten.cpp) is what DecodeToken and
\* ParseIndex accept and read (json-path.cpp), no more and no less.
THEOREM KeysLeadToEntries == Spec => []ResolvesExactly
<1>1. WalkInv => ResolvesExactly
  BY DEF WalkInv
<1> QED BY <1>1, WalkInvHolds, PTL
=============================================================================
