----------------------------- MODULE SequenceFacts -----------------------------
(***************************************************************************)
(* What the proofs about the components use of numbers, of Head, Tail,     *)
(* Append and the community operators on sequences, and of induction: the  *)
(* library's theorem on well-founded relations takes a set, not an         *)
(* operator, and Induct follows from it.                                   *)
(***************************************************************************)
EXTENDS Integers, SequencesExt, SequenceTheorems, FiniteSetTheorems, WellFoundedInduction, TLAPS

LEMMA TailFacts ==
    ASSUME NEW S, NEW s \in Seq(S), s # <<>>
    PROVE  /\ Len(s) \in Nat \ {0} /\ DOMAIN s = 1 .. Len(s)
           /\ Head(s) = s[1] /\ s[1] \in S
           /\ Tail(s) \in Seq(S) /\ Len(Tail(s)) = Len(s) - 1
           /\ DOMAIN Tail(s) = 1 .. Len(s) - 1
           /\ \A i \in 1 .. Len(s) - 1 : Tail(s)[i] = s[i + 1]
<1>1. Len(s) \in Nat \ {0} /\ DOMAIN s = 1 .. Len(s)
  BY EmptySeq, LenProperties
<1>2. Head(s) = s[1] /\ s[1] \in S
  BY <1>1, ElementOfSeq
<1>3. /\ Tail(s) \in Seq(S) /\ Len(Tail(s)) = Len(s) - 1
      /\ \A i \in 1 .. Len(Tail(s)) : Tail(s)[i] = s[i + 1]
  BY HeadTailProperties
<1>4. DOMAIN Tail(s) = 1 .. Len(s) - 1
  BY <1>3, LenProperties
<1> QED BY <1>1, <1>2, <1>3, <1>4

LEMMA AppendFacts ==
    ASSUME NEW S, NEW s \in Seq(S), NEW e \in S
    PROVE  /\ Len(s) \in Nat /\ DOMAIN s = 1 .. Len(s)
           /\ Append(s, e) \in Seq(S) /\ Append(s, e) # <<>>
           /\ Len(Append(s, e)) = Len(s) + 1
           /\ DOMAIN Append(s, e) = 1 .. Len(s) + 1
           /\ \A i \in 1 .. Len(s) : Append(s, e)[i] = s[i]
           /\ Append(s, e)[Len(s) + 1] = e
<1>1. /\ Append(s, e) \in Seq(S) /\ Append(s, e) # <<>>
      /\ Len(Append(s, e)) = Len(s) + 1
      /\ \A i \in 1 .. Len(s) : Append(s, e)[i] = s[i]
      /\ Append(s, e)[Len(s) + 1] = e
  BY AppendProperties
<1>2. Len(s) \in Nat /\ DOMAIN s = 1 .. Len(s) /\ DOMAIN Append(s, e) = 1 .. Len(Append(s, e))
  BY <1>1, LenProperties
<1> QED BY <1>1, <1>2

LEMMA IntervalSize ==
    ASSUME NEW k \in Nat
    PROVE  Cardinality(1 .. k) = k
<1>1. 1 \in Int /\ k \in Int
  OBVIOUS
<1>2. Cardinality(1 .. k) = IF 1 > k THEN 0 ELSE k - 1 + 1
  BY <1>1, FS_Interval, Zenon
<1> QED BY <1>2

\* A sequence of at most n elements
LEMMA SeqOfMeans ==
    ASSUME NEW S, NEW n \in Nat, NEW s
    PROVE  s \in SeqOf(S, n) <=> s \in Seq(S) /\ Len(s) <= n
<1>1. ASSUME s \in SeqOf(S, n) PROVE s \in Seq(S) /\ Len(s) <= n
  <2>1. PICK m \in 0 .. n : s \in [1 .. m -> S]
    BY <1>1 DEF SeqOf
  <2>2. s \in Seq(S)
    BY <2>1, SeqDef
  <2>3. Len(s) \in Nat /\ DOMAIN s = 1 .. Len(s) /\ DOMAIN s = 1 .. m
    BY <2>1, <2>2, LenProperties
  <2>4. Len(s) = m
    <3>1. m \in Nat /\ Len(s) \in Nat
      BY <2>1, <2>3
    <3>2. Cardinality(1 .. m) = m /\ Cardinality(1 .. Len(s)) = Len(s)
      BY <3>1, IntervalSize
    <3> QED BY <2>3, <3>2
  <2> QED BY <2>2, <2>4
<1>2. ASSUME s \in Seq(S), Len(s) <= n PROVE s \in SeqOf(S, n)
  <2>1. Len(s) \in 0 .. n /\ s \in [1 .. Len(s) -> S]
    BY <1>2, LenProperties
  <2> QED BY <2>1 DEF SeqOf
<1> QED BY <1>1, <1>2

\* One element is taken out.
LEMMA RemoveAtProperties ==
    ASSUME NEW S, NEW s \in Seq(S), NEW i \in 1 .. Len(s)
    PROVE  /\ RemoveAt(s, i) \in Seq(S)
           /\ Len(RemoveAt(s, i)) = Len(s) - 1
           /\ \A j \in 1 .. (Len(s) - 1) :
                 RemoveAt(s, i)[j] = IF j < i THEN s[j] ELSE s[j + 1]
<1> DEFINE left == SubSeq(s, 1, i - 1)
           right == SubSeq(s, i + 1, Len(s))
<1>1. left \in Seq(S) /\ Len(left) = i - 1 /\ \A j \in 1 .. (i - 1) : left[j] = s[j]
  BY SubSeqProperties
<1>2. /\ right \in Seq(S)
      /\ Len(right) = Len(s) - i
      /\ \A j \in 1 .. (Len(s) - i) : right[j] = s[i + j]
  BY SubSeqProperties
<1> HIDE DEF left, right
<1>3. Len(s) \in Nat
  BY LenProperties
<1>4. /\ left \o right \in Seq(S)
      /\ Len(left \o right) = Len(s) - 1
      /\ \A j \in 1 .. (Len(s) - 1) :
            (left \o right)[j] = IF j < i THEN left[j] ELSE right[j - (i - 1)]
  <2>1. /\ left \o right \in Seq(S)
        /\ Len(left \o right) = Len(left) + Len(right)
        /\ \A j \in 1 .. Len(left) + Len(right) :
              (left \o right)[j] = IF j <= Len(left) THEN left[j] ELSE right[j - Len(left)]
    BY <1>1, <1>2, ConcatProperties
  <2>2. Len(left) + Len(right) = Len(s) - 1
    BY <1>1, <1>2, <1>3
  <2> QED BY <1>1, <1>3, <2>1, <2>2
<1>5. ASSUME NEW j \in 1 .. (Len(s) - 1)
      PROVE  (left \o right)[j] = IF j < i THEN s[j] ELSE s[j + 1]
  <2>1. CASE j < i
    BY <2>1, <1>1, <1>3, <1>4
  <2>2. CASE ~(j < i)
    <3>1. j - (i - 1) \in 1 .. (Len(s) - i) /\ i + (j - (i - 1)) = j + 1
      BY <2>2, <1>3
    <3> QED BY <2>2, <3>1, <1>2, <1>4
  <2> QED BY <2>1, <2>2
<1> QED BY <1>4, <1>5 DEF RemoveAt, left, right

\* One element is put in.
LEMMA InsertAtProperties ==
    ASSUME NEW S, NEW s \in Seq(S), NEW i \in 1 .. (Len(s) + 1), NEW e \in S
    PROVE  /\ InsertAt(s, i, e) \in Seq(S)
           /\ Len(InsertAt(s, i, e)) = Len(s) + 1
           /\ \A j \in 1 .. (Len(s) + 1) :
                 InsertAt(s, i, e)[j] = IF j < i THEN s[j] ELSE IF j = i THEN e ELSE s[j - 1]
<1> DEFINE left == SubSeq(s, 1, i - 1)
           right == SubSeq(s, i, Len(s))
<1>1. left \in Seq(S) /\ Len(left) = i - 1 /\ \A j \in 1 .. (i - 1) : left[j] = s[j]
  BY SubSeqProperties
<1>2. /\ right \in Seq(S)
      /\ Len(right) = Len(s) + 1 - i
      /\ \A j \in 1 .. (Len(s) + 1 - i) : right[j] = s[i + j - 1]
  BY SubSeqProperties
<1> HIDE DEF left, right
<1>3. <<e>> \in Seq(S) /\ Len(<<e>>) = 1 /\ <<e>>[1] = e /\ Len(s) \in Nat
  BY LenProperties
<1> DEFINE upTo == left \o <<e>>
<1>4. /\ upTo \in Seq(S)
      /\ Len(upTo) = i
      /\ \A j \in 1 .. i : upTo[j] = IF j < i THEN s[j] ELSE e
  BY <1>1, <1>3, ConcatProperties
<1> HIDE DEF upTo
<1>5. /\ upTo \o right \in Seq(S)
      /\ Len(upTo \o right) = Len(upTo) + Len(right)
      /\ \A j \in 1 .. Len(upTo) + Len(right) :
            (upTo \o right)[j] = IF j <= Len(upTo) THEN upTo[j] ELSE right[j - Len(upTo)]
  BY <1>2, <1>4, ConcatProperties
<1>6. Len(upTo) + Len(right) = Len(s) + 1
  BY <1>2, <1>3, <1>4
<1>7. ASSUME NEW j \in 1 .. (Len(s) + 1)
      PROVE  (upTo \o right)[j] = IF j < i THEN s[j] ELSE IF j = i THEN e ELSE s[j - 1]
  <2>1. CASE j <= i
    BY <2>1, <1>3, <1>4, <1>5, <1>6
  <2>2. CASE ~(j <= i)
    <3>1. j - i \in 1 .. (Len(s) + 1 - i) /\ i + (j - i) - 1 = j - 1
      BY <2>2, <1>3
    <3>2. right[j - i] = s[j - 1]
      BY <3>1, <1>2
    <3> QED BY <2>2, <3>2, <1>3, <1>4, <1>5, <1>6
  <2> QED BY <2>1, <2>2
<1> QED BY <1>5, <1>6, <1>7 DEF InsertAt, upTo, left, right

\* Taking out the element at i loses that element and no other.
LEMMA RemoveAtKeeps ==
    ASSUME NEW S, NEW s \in Seq(S), NEW i \in DOMAIN s
    PROVE  /\ RemoveAt(s, i) \in Seq(S)
           /\ Len(RemoveAt(s, i)) = Len(s) - 1
           /\ DOMAIN RemoveAt(s, i) = 1 .. Len(s) - 1
           /\ \A j \in DOMAIN RemoveAt(s, i) :
                 \E k \in DOMAIN s : k # i /\ RemoveAt(s, i)[j] = s[k]
           /\ \A k \in DOMAIN s : k # i =>
                 \E j \in DOMAIN RemoveAt(s, i) : RemoveAt(s, i)[j] = s[k]
<1> DEFINE r == RemoveAt(s, i)
<1>1. Len(s) \in Nat /\ DOMAIN s = 1 .. Len(s) /\ i \in 1 .. Len(s)
  BY LenProperties
<1>2. /\ r \in Seq(S) /\ Len(r) = Len(s) - 1
      /\ \A j \in 1 .. (Len(s) - 1) : r[j] = IF j < i THEN s[j] ELSE s[j + 1]
  BY <1>1, RemoveAtProperties
<1>3. DOMAIN r = 1 .. Len(s) - 1
  BY <1>2, LenProperties
<1> HIDE DEF r
<1>4. ASSUME NEW j \in DOMAIN r PROVE \E k \in DOMAIN s : k # i /\ r[j] = s[k]
  <2>1. CASE j < i
    <3>1. j \in DOMAIN s /\ j # i /\ r[j] = s[j]
      BY <1>1, <1>2, <1>3, <2>1
    <3> QED BY <3>1
  <2>2. CASE ~(j < i)
    <3>1. j + 1 \in DOMAIN s /\ j + 1 # i /\ r[j] = s[j + 1]
      BY <1>1, <1>2, <1>3, <2>2
    <3> QED BY <3>1
  <2> QED BY <2>1, <2>2
<1>5. ASSUME NEW k \in DOMAIN s, k # i PROVE \E j \in DOMAIN r : r[j] = s[k]
  <2>1. CASE k < i
    <3>1. k \in DOMAIN r /\ r[k] = s[k]
      BY <1>1, <1>2, <1>3, <2>1
    <3> QED BY <3>1
  <2>2. CASE ~(k < i)
    <3>1. k - 1 \in DOMAIN r /\ ~(k - 1 < i) /\ (k - 1) + 1 = k
      BY <1>1, <1>3, <1>5, <2>2
    <3>2. r[k - 1] = s[k]
      BY <1>2, <1>3, <3>1
    <3> QED BY <3>1, <3>2
  <2> QED BY <2>1, <2>2
<1> QED BY <1>2, <1>3, <1>4, <1>5 DEF r

\* Whatever the order in which a finite set is listed, all its elements are.
LEMMA SetToSeqsLists ==
    ASSUME NEW S, IsFiniteSet(S), NEW s \in SetToSeqs(S)
    PROVE  /\ s \in Seq(S) /\ Len(s) = Cardinality(S) /\ DOMAIN s = 1 .. Cardinality(S)
           /\ \A x \in S : \E i \in DOMAIN s : s[i] = x
<1> DEFINE n == Cardinality(S)
           D == 1 .. n
<1>1. n \in Nat
  BY FS_CardinalityType
<1>2. s \in [D -> S] /\ \A i, j \in D : i # j => s[i] # s[j]
  BY DEF SetToSeqs
<1>3. s \in Seq(S)
  BY <1>1, <1>2, SeqDef
<1>4. Len(s) = n
  <2>1. Len(s) \in Nat /\ DOMAIN s = 1 .. Len(s)
    BY <1>3, LenProperties
  <2>2. 1 .. Len(s) = 1 .. n
    BY <1>2, <2>1
  <2>3. Cardinality(1 .. Len(s)) = Len(s) /\ Cardinality(1 .. n) = n
    BY <1>1, <2>1, IntervalSize
  <2> QED BY <2>2, <2>3
<1>5. s \in Injection(D, S)
  BY <1>2 DEF Injection, IsInjective
<1>6. Cardinality(D) = Cardinality(S)
  BY <1>1, IntervalSize
<1>7. s \in Surjection(D, S)
  BY <1>5, <1>6, FS_Injection
<1>8. \A x \in S : \E i \in D : s[i] = x
  BY <1>7 DEF Surjection
<1> QED BY <1>2, <1>3, <1>4, <1>8

-----------------------------------------------------------------------------
(* Numbers *)

\* A set of natural numbers has a least element.
LEMMA LeastNat ==
    ASSUME NEW T, T \subseteq Nat, T # {}
    PROVE  \E x \in T : \A y \in T : x <= y
<1> DEFINE R == OpToRel(<, Nat)
<1>1. IsWellFoundedOn(R, Nat)
  BY NatLessThanWellFounded
<1>2. \A x, y \in Nat : <<x, y>> \in R <=> x < y
  BY DEF OpToRel
<1> HIDE DEF R
<1>3. PICK x \in T : \A y \in T : ~(<<y, x>> \in R)
  BY <1>1, WFMin
<1>4. ASSUME NEW y \in T PROVE x <= y
  <2>1. x \in Nat /\ y \in Nat /\ ~(y < x)
    BY <1>2, <1>3
  <2> QED BY <2>1
<1> QED BY <1>4

\* Induction
LEMMA Induct ==
    ASSUME NEW S, 0 \in S, \A n \in Nat : n \in S => n + 1 \in S
    PROVE  Nat \subseteq S
<1> SUFFICES ASSUME Nat \ S # {} PROVE FALSE
  OBVIOUS
<1> PICK m \in Nat \ S : \A y \in Nat \ S : m <= y
  BY LeastNat
<1>1. m # 0 /\ m - 1 \in Nat /\ (m - 1) + 1 = m /\ ~(m <= m - 1)
  OBVIOUS
<1>2. m - 1 \in S
  BY <1>1
<1> QED BY <1>1, <1>2

\* A bounded set of numbers has a greatest element
LEMMA GreatestInt ==
    ASSUME NEW T, T \subseteq Int, T # {}, NEW b \in Int, \A x \in T : x <= b
    PROVE  Max(T) \in T /\ \A y \in T : y <= Max(T)
<1> DEFINE D == {b - x : x \in T}
<1>1. D \subseteq Nat /\ D # {}
  <2>1. ASSUME NEW x \in T PROVE b - x \in Nat
    <3>1. x \in Int /\ b \in Int
      OBVIOUS
    <3> QED BY <3>1
  <2> QED BY <2>1
<1>2. PICK d \in D : \A e \in D : d <= e
  BY <1>1, LeastNat
<1>3. PICK x \in T : d = b - x
  BY <1>2
<1>4. ASSUME NEW y \in T PROVE x >= y
  <2>1. b - y \in D /\ x \in Int /\ y \in Int
    OBVIOUS
  <2>2. b - x <= b - y
    BY <1>2, <1>3, <2>1
  <2> QED BY <2>1, <2>2
<1>5. Max(T) \in T /\ \A y \in T : Max(T) >= y
  BY <1>4 DEF Max
<1>6. ASSUME NEW y \in T PROVE y <= Max(T)
  <2>1. y \in Int /\ Max(T) \in Int /\ Max(T) >= y
    BY <1>5
  <2> QED BY <2>1
<1> QED BY <1>5, <1>6

\* A bounded set of numbers has a least element.
LEMMA LeastInt ==
    ASSUME NEW T, T \subseteq Int, T # {}, NEW b \in Int, \A x \in T : b <= x
    PROVE  Min(T) \in T /\ \A y \in T : Min(T) <= y
<1> DEFINE D == {x - b : x \in T}
<1>1. D \subseteq Nat /\ D # {}
  <2>1. ASSUME NEW x \in T PROVE x - b \in Nat
    <3>1. x \in Int /\ b \in Int
      OBVIOUS
    <3> QED BY <3>1
  <2> QED BY <2>1
<1>2. PICK d \in D : \A e \in D : d <= e
  BY <1>1, LeastNat
<1>3. PICK x \in T : d = x - b
  BY <1>2
<1>4. ASSUME NEW y \in T PROVE x <= y
  <2>1. y - b \in D /\ x \in Int /\ y \in Int
    OBVIOUS
  <2>2. x - b <= y - b
    BY <1>2, <1>3, <2>1
  <2> QED BY <2>1, <2>2
<1> QED BY <1>4 DEF Min

\* The image of an interval has a greatest element.
LEMMA GreatestImage ==
    ASSUME NEW f, NEW a \in Int, NEW b \in Int, a <= b, \A t \in a .. b : f[t] \in Int
    PROVE  \E t \in a .. b : \A u \in a .. b : f[u] <= f[t]
<1> DEFINE S == {k \in Nat : a + k <= b => \E t \in a .. a + k : \A u \in a .. a + k : f[u] <= f[t]}
<1>1. 0 \in S
  <2>1. a .. a + 0 = {a}
    OBVIOUS
  <2> QED BY <2>1
<1>2. ASSUME NEW k \in Nat, k \in S PROVE k + 1 \in S
  <2> SUFFICES ASSUME a + (k + 1) <= b
               PROVE  \E t \in a .. a + (k + 1) : \A u \in a .. a + (k + 1) : f[u] <= f[t]
    OBVIOUS
  <2>1. PICK t \in a .. a + k : \A u \in a .. a + k : f[u] <= f[t]
    BY <1>2
  <2> DEFINE n == a + (k + 1)
  <2>2. n \in Int /\ n \in a .. n /\ a .. a + k = (a .. n) \ {n} /\ n <= b
    OBVIOUS
  <2> HIDE DEF n
  <2>3. f[n] \in Int /\ f[t] \in Int /\ t \in a .. n
    BY <2>1, <2>2
  <2>4. CASE f[n] <= f[t]
    BY <2>1, <2>2, <2>3, <2>4 DEF n
  <2>5. CASE f[t] <= f[n]
    <3>1. ASSUME NEW u \in a .. n PROVE f[u] <= f[n]
      <4>1. CASE u = n
        BY <2>3, <4>1
      <4>2. CASE u # n
        <5>1. u \in a .. a + k /\ f[u] \in Int
          BY <2>2, <4>2
        <5>2. f[u] <= f[t]
          BY <2>1, <5>1
        <5> QED BY <2>3, <2>5, <5>1, <5>2
      <4> QED BY <4>1, <4>2
    <3> QED BY <2>2, <3>1 DEF n
  <2> QED BY <2>3, <2>4, <2>5
<1> HIDE DEF S
<1>3. b - a \in Nat
  OBVIOUS
<1>4. b - a \in S
  BY <1>1, <1>2, <1>3, Induct
<1> QED BY <1>4 DEF S

\* The greatest of two numbers
LEMMA MaxOfTwo ==
    ASSUME NEW a \in Int, NEW b \in Int
    PROVE  Max({a, b}) \in {a, b} /\ a <= Max({a, b}) /\ b <= Max({a, b})
<1>1. CASE a <= b
  <2>1. Max({a, b}) \in {a, b} /\ \A y \in {a, b} : y <= Max({a, b})
    BY <1>1, GreatestInt
  <2> QED BY <2>1
<1>2. CASE b <= a
  <2>1. Max({a, b}) \in {a, b} /\ \A y \in {a, b} : y <= Max({a, b})
    BY <1>2, GreatestInt
  <2> QED BY <2>1
<1> QED BY <1>1, <1>2

\* The greatest of three numbers
LEMMA MaxOfThree ==
    ASSUME NEW a \in Int, NEW b \in Int, NEW c \in Int
    PROVE  /\ Max({a, b, c}) \in {a, b, c}
           /\ a <= Max({a, b, c}) /\ b <= Max({a, b, c}) /\ c <= Max({a, b, c})
<1>1. PICK m \in {a, b, c} : a <= m /\ b <= m /\ c <= m
  OBVIOUS
<1>2. m \in Int /\ \A x \in {a, b, c} : x <= m /\ x \in Int
  BY <1>1
<1>3. Max({a, b, c}) \in {a, b, c} /\ \A y \in {a, b, c} : y <= Max({a, b, c})
  BY <1>2, GreatestInt
<1> QED BY <1>3

\* The greatest of a set of the first numbers that holds the last of them.
LEMMA MaxIsLast ==
    ASSUME NEW n \in Nat, NEW s \in SUBSET (1 .. n), n \in s
    PROVE  Max(s) = n
<1>1. s \subseteq Int /\ \A x \in s : x <= n
  OBVIOUS
<1>2. Max(s) \in s /\ n <= Max(s)
  BY <1>1, GreatestInt
<1>3. Max(s) \in 1 .. n
  BY <1>2
<1> QED BY <1>2, <1>3

\* The first of the first numbers.
LEMMA FirstNumbers ==
    ASSUME NEW n \in Nat, NEW i \in 1 .. n
    PROVE  /\ 1 .. i \in SUBSET (1 .. n) /\ 1 .. i # {} /\ (1 .. i) \ {i} = 1 .. (i - 1)
           /\ Max(1 .. i) = i /\ i \in 0 .. n /\ i - 1 \in 0 .. n
<1>1. 1 .. i \in SUBSET (1 .. n) /\ 1 .. i # {}
  OBVIOUS
<1>2. (1 .. i) \ {i} = 1 .. (i - 1)
  OBVIOUS
<1>3. Max(1 .. i) = i
  <2>1. i \in Nat /\ i \in 1 .. i /\ 1 .. i \in SUBSET (1 .. i)
    OBVIOUS
  <2> QED BY <2>1, MaxIsLast
<1>4. i \in 0 .. n /\ i - 1 \in 0 .. n
  OBVIOUS
<1> QED BY <1>1, <1>2, <1>3, <1>4

\* The lesser of two numbers
LEMMA LesserOfTwo ==
    ASSUME NEW a \in Nat, NEW b \in Nat
    PROVE  Min({a, b}) = IF a <= b THEN a ELSE b
BY DEF Min

\* A multiple of more is more.
LEMMA ProductGrows ==
    ASSUME NEW a \in Nat, NEW b \in Nat, a <= b, NEW c \in Nat
    PROVE  a * c <= b * c
OBVIOUS

-----------------------------------------------------------------------------
(* Lists *)

\* A sequence, of whatever it holds.
IsList(x) == x \in Seq(ToSet(x))

LEMMA ListFacts ==
    ASSUME NEW x, IsList(x)
    PROVE  Len(x) \in Nat /\ DOMAIN x = 1 .. Len(x)
BY LenProperties DEF IsList

LEMMA SeqIsList ==
    ASSUME NEW S, NEW x \in Seq(S)
    PROVE  IsList(x)
<1>1. Len(x) \in Nat /\ x \in [1 .. Len(x) -> S] /\ DOMAIN x = 1 .. Len(x)
  BY LenProperties
<1>2. x \in [1 .. Len(x) -> ToSet(x)]
  BY <1>1 DEF ToSet
<1> QED BY <1>1, <1>2, SeqDef DEF IsList

LEMMA ListAppend ==
    ASSUME NEW x, IsList(x), NEW e
    PROVE  /\ IsList(Append(x, e)) /\ Len(Append(x, e)) = Len(x) + 1
           /\ Append(x, e)[Len(x) + 1] = e
           /\ \A i \in 1 .. Len(x) : Append(x, e)[i] = x[i]
<1> DEFINE S == ToSet(x) \cup {e}
<1>1. x \in Seq(S) /\ e \in S
  <2>1. Len(x) \in Nat /\ x \in [1 .. Len(x) -> ToSet(x)]
    BY LenProperties DEF IsList
  <2>2. x \in [1 .. Len(x) -> S]
    BY <2>1
  <2> QED BY <2>1, <2>2, SeqDef
<1> HIDE DEF S
<1>2. Append(x, e) \in Seq(S) /\ Len(Append(x, e)) = Len(x) + 1
  BY <1>1, AppendFacts
<1>3. Append(x, e)[Len(x) + 1] = e /\ \A i \in 1 .. Len(x) : Append(x, e)[i] = x[i]
  BY <1>1, AppendFacts
<1> QED BY <1>2, <1>3, SeqIsList

\* A list of which elements are replaced is a list.
LEMMA ListExcept ==
    ASSUME NEW x, IsList(x), NEW y, y = [i \in DOMAIN x |-> y[i]]
    PROVE  IsList(y) /\ Len(y) = Len(x)
<1>1. Len(x) \in Nat /\ DOMAIN x = 1 .. Len(x)
  BY ListFacts
<1> DEFINE n == Len(x)
           S == {y[i] : i \in 1 .. n}
<1> HIDE DEF n
<1>2. n \in Nat /\ y = [i \in 1 .. n |-> y[i]]
  BY <1>1 DEF n
<1>3. y \in [1 .. n -> S] /\ DOMAIN y = 1 .. n
  BY <1>2
<1> HIDE DEF S
<1>4. y \in Seq(S)
  BY <1>2, <1>3, SeqDef
<1>5. Len(y) = n
  BY <1>2, <1>3, <1>4, LenProperties, IntervalSize
<1> QED BY <1>4, <1>5, SeqIsList DEF n

LEMMA EmptyList == IsList(<<>>) /\ Len(<<>>) = 0
<1>1. <<>> \in Seq({}) /\ Len(<<>>) = 0
  BY EmptySeq
<1> QED BY <1>1, SeqIsList

\* A list of which nothing is left is empty.
LEMMA NotEmpty ==
    ASSUME NEW x, IsList(x)
    PROVE  x # <<>> <=> Len(x) # 0
BY EmptySeq DEF IsList

\* What is in a list has a place there.
LEMMA InList ==
    ASSUME NEW x, IsList(x), NEW e
    PROVE  e \in ToSet(x) <=> \E i \in 1 .. Len(x) : e = x[i]
BY ListFacts DEF ToSet

\* A slice of a list
LEMMA SliceFacts ==
    ASSUME NEW text, IsList(text), NEW lo \in 1 .. Len(text), NEW hi \in lo .. Len(text)
    PROVE  /\ IsList(SubSeq(text, lo, hi)) /\ Len(SubSeq(text, lo, hi)) = hi - lo + 1
           /\ \A i \in 1 .. hi - lo + 1 : SubSeq(text, lo, hi)[i] = text[lo + i - 1]
<1>1. Len(text) \in Nat /\ text \in Seq(ToSet(text))
  BY ListFacts DEF IsList
<1>2. lo \in 1 .. (Len(text) + 1) /\ hi \in (lo - 1) .. Len(text)
  BY <1>1
<1>3. /\ SubSeq(text, lo, hi) \in Seq(ToSet(text))
      /\ Len(SubSeq(text, lo, hi)) = (hi - lo) + 1
      /\ \A i \in 1 .. ((hi - lo) + 1) : SubSeq(text, lo, hi)[i] = text[lo + i - 1]
  BY <1>1, <1>2, SubSeqProperties
<1> QED BY <1>3, SeqIsList

\* What a list holds after an append
LEMMA AppendSet ==
    ASSUME NEW x, IsList(x), NEW new, NEW e
    PROVE  e \in ToSet(Append(x, new)) <=> e \in ToSet(x) \/ e = new
<1>1. PICK longer, n : longer = Append(x, new) /\ n = Len(x) /\ n \in Nat
  BY ListFacts
<1>2. /\ IsList(longer) /\ Len(longer) = n + 1 /\ longer[n + 1] = new
      /\ \A i \in 1 .. n : longer[i] = x[i]
  BY <1>1, ListAppend
<1>3. \A i : i \in 1 .. n + 1 <=> i \in 1 .. n \/ i = n + 1
  BY <1>1
<1>4. e \in ToSet(longer) <=> \E i \in 1 .. n + 1 : e = longer[i]
  BY <1>2, InList
<1>5. e \in ToSet(x) <=> \E i \in 1 .. n : e = x[i]
  BY <1>1, InList
<1> QED BY <1>1, <1>2, <1>3, <1>4, <1>5

\* A list after a list
LEMMA ListConcat ==
    ASSUME NEW a, IsList(a), NEW b, IsList(b)
    PROVE  /\ IsList(a \o b) /\ Len(a \o b) = Len(a) + Len(b)
           /\ \A i \in 1 .. Len(a) + Len(b) :
                (a \o b)[i] = IF i <= Len(a) THEN a[i] ELSE b[i - Len(a)]
<1>1. PICK S : S = ToSet(a) \cup ToSet(b)
  OBVIOUS
<1>2. Len(a) \in Nat /\ a \in [1 .. Len(a) -> ToSet(a)] /\ Len(b) \in Nat /\ b \in [1 .. Len(b) -> ToSet(b)]
  BY LenProperties DEF IsList
<1>3. a \in [1 .. Len(a) -> S] /\ b \in [1 .. Len(b) -> S]
  BY <1>1, <1>2
<1>4. a \in Seq(S) /\ b \in Seq(S)
  BY <1>2, <1>3, SeqDef
<1>5. /\ a \o b \in Seq(S) /\ Len(a \o b) = Len(a) + Len(b)
      /\ \A i \in 1 .. Len(a) + Len(b) : (a \o b)[i] = IF i <= Len(a) THEN a[i] ELSE b[i - Len(a)]
  BY <1>4, ConcatProperties
<1> QED BY <1>5, SeqIsList

\* What two lists hold one after the other
LEMMA ConcatSet ==
    ASSUME NEW a, IsList(a), NEW b, IsList(b), NEW e
    PROVE  e \in ToSet(a \o b) <=> e \in ToSet(a) \/ e \in ToSet(b)
<1>1. PICK c, n, m : c = a \o b /\ n = Len(a) /\ m = Len(b) /\ n \in Nat /\ m \in Nat
  BY ListFacts
<1>2. /\ IsList(c) /\ Len(c) = n + m
      /\ \A i \in 1 .. Len(c) : c[i] = IF i <= n THEN a[i] ELSE b[i - n]
  <2>1. /\ IsList(a \o b) /\ Len(a \o b) = Len(a) + Len(b)
        /\ \A i \in 1 .. Len(a) + Len(b) :
             (a \o b)[i] = IF i <= Len(a) THEN a[i] ELSE b[i - Len(a)]
    BY ListConcat
  <2> QED BY <1>1, <2>1
<1>3. ASSUME e \in ToSet(c) PROVE e \in ToSet(a) \/ e \in ToSet(b)
  <2>1. PICK i \in 1 .. n + m : e = c[i]
    BY <1>2, <1>3, InList
  <2>2. CASE i <= n
    <3>1. i \in 1 .. Len(a) /\ e = a[i]
      BY <1>1, <1>2, <2>1, <2>2
    <3> QED BY <3>1, InList
  <2>3. CASE ~(i <= n)
    <3>1. i - n \in 1 .. Len(b) /\ e = b[i - n]
      BY <1>1, <1>2, <2>1, <2>3
    <3> QED BY <3>1, InList
  <2> QED BY <2>2, <2>3
<1>4. ASSUME e \in ToSet(a) PROVE e \in ToSet(c)
  <2>1. PICK i \in 1 .. n : e = a[i]
    BY <1>1, <1>4, InList
  <2>2. i \in 1 .. Len(c) /\ c[i] = e
    BY <1>1, <1>2, <2>1
  <2> QED BY <1>2, <2>2, InList
<1>5. ASSUME e \in ToSet(b) PROVE e \in ToSet(c)
  <2>1. PICK i \in 1 .. m : e = b[i]
    BY <1>1, <1>5, InList
  <2>2. n + i \in 1 .. Len(c) /\ ~(n + i <= n) /\ (n + i) - n = i
    BY <1>1, <1>2, <2>1
  <2>3. c[n + i] = e
    BY <1>2, <2>1, <2>2
  <2> QED BY <1>2, <2>2, <2>3, InList
<1> QED BY <1>1, <1>3, <1>4, <1>5

\* The lists are appended one after the other.
LEMMA FlattenHasSteps ==
    ASSUME NEW seqs, NEW n \in Nat, n = Len(seqs), n # 0
    PROVE  \E f : /\ f = [i \in 1 .. n |-> IF i = 1 THEN seqs[i] ELSE f[i - 1] \o seqs[i]]
                  /\ FlattenSeq(seqs) = f[n]
<1> DEFINE flat == CHOOSE f : f = [i \in 1 .. n |-> IF i = 1 THEN seqs[i] ELSE f[i - 1] \o seqs[i]]
           S == {k \in Nat : \E f : f = [i \in 1 .. k |-> IF i = 1 THEN seqs[i] ELSE f[i - 1] \o seqs[i]]}
<1>1. FlattenSeq(seqs) = flat[n]
  BY Zenon DEF FlattenSeq
<1>2. 0 \in S
  <2> DEFINE f == [i \in 1 .. 0 |-> seqs]
  <2>1. f = [i \in 1 .. 0 |-> IF i = 1 THEN seqs[i] ELSE f[i - 1] \o seqs[i]]
    OBVIOUS
  <2> QED BY <2>1
<1>3. ASSUME NEW k \in Nat, k \in S PROVE k + 1 \in S
  <2>1. PICK f : f = [i \in 1 .. k |-> IF i = 1 THEN seqs[i] ELSE f[i - 1] \o seqs[i]]
    BY <1>3
  <2>2. PICK m \in Nat : m = k + 1
    OBVIOUS
  <2>3. PICK last : last = IF m = 1 THEN seqs[m] ELSE f[k] \o seqs[m]
    OBVIOUS
  <2>4. PICK g : g = [i \in 1 .. m |-> IF i = m THEN last ELSE f[i]]
    OBVIOUS
  <2>5. ASSUME NEW i \in 1 .. m
        PROVE  g[i] = IF i = 1 THEN seqs[i] ELSE g[i - 1] \o seqs[i]
    <3>1. CASE i = m
      <4>1. i # 1 => g[i - 1] = f[k]
        BY <2>2, <2>4, <3>1
      <4> QED BY <2>3, <2>4, <3>1, <4>1
    <3>2. CASE i # m
      <4>1. i \in 1 .. k /\ g[i] = f[i] /\ (i # 1 => i - 1 \in 1 .. m /\ i - 1 # m)
        BY <2>2, <2>4, <3>2
      <4>2. i # 1 => g[i - 1] = f[i - 1]
        BY <2>4, <4>1
      <4> QED BY <2>1, <4>1, <4>2
    <3> QED BY <3>1, <3>2
  <2>6. g = [i \in 1 .. m |-> IF i = 1 THEN seqs[i] ELSE g[i - 1] \o seqs[i]]
    BY <2>4, <2>5
  <2>7. \E h : h = [i \in 1 .. (k + 1) |-> IF i = 1 THEN seqs[i] ELSE h[i - 1] \o seqs[i]]
    BY <2>2, <2>6
  <2>8. k + 1 \in Nat
    OBVIOUS
  <2> QED BY <2>7, <2>8, Zenon
<1>4. n \in S
  <2> HIDE DEF S
  <2> QED BY <1>2, <1>3, Induct
<1>5. \E f : f = [i \in 1 .. n |-> IF i = 1 THEN seqs[i] ELSE f[i - 1] \o seqs[i]]
  BY <1>4
<1> QED BY <1>1, <1>5, Zenon

\* What a list of lists holds when it is flattened
LEMMA FlattenFacts ==
    ASSUME NEW seqs, IsList(seqs), \A i \in 1 .. Len(seqs) : IsList(seqs[i])
    PROVE  /\ IsList(FlattenSeq(seqs))
           /\ \A e : e \in ToSet(FlattenSeq(seqs)) <=> \E i \in 1 .. Len(seqs) : e \in ToSet(seqs[i])
<1>1. PICK n \in Nat : n = Len(seqs)
  BY ListFacts
<1>2. CASE n = 0
  <2>1. FlattenSeq(seqs) = seqs
    BY <1>1, <1>2, Zenon DEF FlattenSeq
  <2>2. ASSUME NEW e \in ToSet(seqs) PROVE FALSE
    <3>1. \E i \in 1 .. Len(seqs) : e = seqs[i]
      BY <2>2, InList
    <3> QED BY <1>1, <1>2, <3>1
  <2> QED BY <1>1, <1>2, <2>1, <2>2
<1>3. CASE n # 0
  <2>1. PICK f : /\ f = [i \in 1 .. n |-> IF i = 1 THEN seqs[i] ELSE f[i - 1] \o seqs[i]]
                 /\ FlattenSeq(seqs) = f[n]
    BY <1>1, <1>3, FlattenHasSteps
  <2> DEFINE Good(k) == /\ IsList(f[k])
                        /\ \A e : e \in ToSet(f[k]) <=> \E i \in 1 .. k : e \in ToSet(seqs[i])
             S == {k \in Nat : k \in 1 .. n => Good(k)}
  <2>2. 0 \in S
    OBVIOUS
  <2>3. ASSUME NEW k \in Nat, k \in S PROVE k + 1 \in S
    <3> SUFFICES ASSUME k + 1 \in 1 .. n PROVE Good(k + 1)
      OBVIOUS
    <3>1. CASE k = 0
      <4>1. f[1] = seqs[1] /\ 1 \in 1 .. n /\ k + 1 = 1 /\ 1 .. 1 = {1}
        BY <1>1, <1>3, <2>1, <3>1
      <4> QED BY <1>1, <4>1
    <3>2. CASE k # 0
      <4>1. PICK m : m = k + 1 /\ m \in 1 .. n /\ m # 1 /\ m - 1 = k /\ k \in 1 .. n
        BY <1>1, <3>2
      <4>2. PICK a, b : a = f[k] /\ b = seqs[m]
        OBVIOUS
      <4>3. f[m] = a \o b
        BY <2>1, <4>1, <4>2
      <4>4. IsList(a) /\ IsList(b) /\ \A e : e \in ToSet(a) <=> \E i \in 1 .. k : e \in ToSet(seqs[i])
        BY <1>1, <2>3, <4>1, <4>2
      <4>5. IsList(f[m])
        BY <4>3, <4>4, ListConcat
      <4>6. ASSUME NEW e PROVE e \in ToSet(f[m]) <=> \E i \in 1 .. m : e \in ToSet(seqs[i])
        <5>1. e \in ToSet(f[m]) <=> e \in ToSet(a) \/ e \in ToSet(b)
          BY <4>3, <4>4, ConcatSet
        <5>2. \A i : i \in 1 .. m <=> i \in 1 .. k \/ i = m
          BY <4>1
        <5> QED BY <4>2, <4>4, <5>1, <5>2
      <4> QED BY <4>1, <4>5, <4>6
    <3> QED BY <3>1, <3>2
  <2>4. Nat \subseteq S
    <3> HIDE DEF S
    <3> QED BY <2>2, <2>3, Induct
  <2>5. n \in S /\ n \in 1 .. n
    BY <1>1, <1>3, <2>4
  <2> QED BY <1>1, <2>1, <2>5
<1> QED BY <1>2, <1>3

\* A prefix, character by character.
LEMMA PrefixFacts ==
    ASSUME NEW q, IsList(q), NEW p, IsList(p)
    PROVE  IsPrefix(q, p) <=> Len(q) <= Len(p) /\ \A i \in 1 .. Len(q) : q[i] = p[i]
<1>1. PICK n, m : n = Len(q) /\ m = Len(p)
  OBVIOUS
<1>2. n \in Nat /\ m \in Nat /\ q \in Seq(ToSet(q)) /\ p \in Seq(ToSet(p))
  BY <1>1, ListFacts DEF IsList
<1>3. CASE n <= m
  <2>1. 1 \in 1 .. (n + 1) /\ n \in (1 - 1) .. n /\ 1 \in 1 .. (m + 1) /\ n \in (1 - 1) .. m
    BY <1>2, <1>3
  <2>2. PICK a, b : a = SubSeq(q, 1, n) /\ b = SubSeq(p, 1, n)
    OBVIOUS
  <2>3. /\ a \in Seq(ToSet(q)) /\ Len(a) = n - 1 + 1 /\ \A i \in 1 .. (n - 1 + 1) : a[i] = q[1 + i - 1]
    BY <1>1, <1>2, <2>1, <2>2, SubSeqProperties
  <2>4. /\ b \in Seq(ToSet(p)) /\ Len(b) = n - 1 + 1 /\ \A i \in 1 .. (n - 1 + 1) : b[i] = p[1 + i - 1]
    BY <1>1, <1>2, <2>1, <2>2, SubSeqProperties
  <2>5. n - 1 + 1 = n /\ \A i \in 1 .. n : 1 + i - 1 = i
    BY <1>2
  <2>6. /\ a \in [1 .. n -> ToSet(q)] /\ b \in [1 .. n -> ToSet(p)]
        /\ \A i \in 1 .. n : a[i] = q[i] /\ b[i] = p[i]
    BY <2>3, <2>4, <2>5, LenProperties
  <2>7. a = b <=> \A i \in 1 .. n : q[i] = p[i]
    <3>1. ASSUME a = b PROVE \A i \in 1 .. n : q[i] = p[i]
      BY <2>6, <3>1
    <3>2. ASSUME \A i \in 1 .. n : q[i] = p[i] PROVE a = b
      <4>1. DOMAIN a = 1 .. n /\ DOMAIN b = 1 .. n /\ \A i \in 1 .. n : a[i] = b[i]
        BY <2>6, <3>2
      <4>2. a = [i \in 1 .. n |-> a[i]] /\ b = [i \in 1 .. n |-> b[i]]
        BY <2>6
      <4> QED BY <4>1, <4>2
    <3> QED BY <3>1, <3>2
  <2>8. IsPrefix(q, p) <=> a = b
    BY <1>1, <1>3, <2>2 DEF IsPrefix
  <2> QED BY <1>1, <1>3, <2>7, <2>8
<1>4. CASE ~(n <= m)
  BY <1>1, <1>4 DEF IsPrefix
<1> QED BY <1>3, <1>4

\* A list is a prefix of itself.
LEMMA SelfPrefix ==
    ASSUME NEW p, IsList(p)
    PROVE  IsPrefix(p, p)
<1>1. Len(p) \in Nat
  BY ListFacts
<1>2. Len(p) <= Len(p)
  BY <1>1
<1> QED BY <1>2, PrefixFacts

\* A prefix of a prefix is a prefix.
LEMMA PrefixOfPrefix ==
    ASSUME NEW r, IsList(r), NEW q, IsList(q), NEW p, IsList(p), IsPrefix(r, q), IsPrefix(q, p)
    PROVE  IsPrefix(r, p)
<1>1. Len(r) \in Nat /\ Len(q) \in Nat /\ Len(p) \in Nat
  BY ListFacts
<1>2. Len(r) <= Len(q) /\ \A i \in 1 .. Len(r) : r[i] = q[i]
  BY PrefixFacts
<1>3. Len(q) <= Len(p) /\ \A i \in 1 .. Len(q) : q[i] = p[i]
  BY PrefixFacts
<1>4. Len(r) <= Len(p) /\ \A i \in 1 .. Len(r) : i \in 1 .. Len(q)
  BY <1>1, <1>2, <1>3
<1>5. \A i \in 1 .. Len(r) : r[i] = p[i]
  BY <1>2, <1>3, <1>4
<1> QED BY <1>4, <1>5, PrefixFacts
=============================================================================
