----------------------------- MODULE BitSet_proofs -----------------------------
(***************************************************************************)
(* Proofs about BitSet, for words and counters of any size: the cached     *)
(* count is that of the members modulo 2^64 until a reset counts wrongly,  *)
(* and the packed words implement NatSet, operation by operation.          *)
(*                                                                         *)
(* CountExact is inductive only modulo CountMod, as the code computes it:  *)
(* CountModulo is the invariant, and the count is exact while the capacity *)
(* is below 2^64.                                                          *)
(*                                                                         *)
(* An iterator is described by what it has still to yield (Left): the      *)
(* members in what is left of the word it holds and in the words after it  *)
(* (IterOK).  A call yields the least of them and leaves the others, or    *)
(* says that there is none.                                                *)
(***************************************************************************)
EXTENDS BitSet, SequenceFacts, FiniteSetTheorems, TLAPS

BlockSeq == Seq(SUBSET (0 .. W - 1))

\* The count is kept modulo CountMod, whatever the operations have done to it.
CountModulo == ~miscounted => active_count = CountOnes(bit_blocks)

IInv == TypeOK /\ CountModulo

-----------------------------------------------------------------------------
(* Arithmetic *)

LEMMA LeastIsMin ==
    ASSUME NEW T \in SUBSET Nat, T # {}
    PROVE  Min(T) \in T /\ \A y \in T : Min(T) <= y
<1>1. \E x \in T : \A y \in T : x <= y
  BY LeastNat
<1> QED BY <1>1 DEF Min

LEMMA DivMod ==
    ASSUME NEW w \in Nat \ {0}, NEW i \in Nat
    PROVE  i \div w \in Nat /\ i % w \in 0 .. w - 1 /\ i = w * (i \div w) + (i % w)
OBVIOUS

LEMMA DivUnique ==
    ASSUME NEW w \in Nat \ {0}, NEW q \in Nat, NEW r \in 0 .. w - 1
    PROVE  (w * q + r) \div w = q /\ (w * q + r) % w = r
OBVIOUS

LEMMA DivBound ==
    ASSUME NEW w \in Nat \ {0}, NEW i \in Nat, NEW n \in Nat
    PROVE  i < w * n <=> i \div w < n
OBVIOUS

LEMMA Ceiling ==
    ASSUME NEW w \in Nat \ {0}, NEW n \in Nat, NEW k, k = (n + w - 1) \div w
    PROVE  k \in Nat /\ n <= w * k /\ w * k < n + w
OBVIOUS

LEMMA CeilingUnique ==
    ASSUME NEW w \in Nat \ {0}, NEW n \in Nat, NEW k \in Nat, n <= w * k, w * k < n + w
    PROVE  k = (n + w - 1) \div w
OBVIOUS

\* Whole turns of the counter change nothing.
LEMMA ModTurns ==
    ASSUME NEW m \in Nat \ {0}, NEW x \in Nat, NEW k \in Nat
    PROVE  (m * k + x) % m = x % m
<1> DEFINE q == x \div m
           r == x % m
<1>1. q \in Nat /\ r \in 0 .. m - 1 /\ x = m * q + r
  BY DivMod
<1> HIDE DEF q, r
<1>2. k + q \in Nat /\ m * k + x = m * (k + q) + r
  BY <1>1
<1>3. (m * (k + q) + r) % m = r
  BY <1>1, <1>2, DivUnique
<1> QED BY <1>2, <1>3 DEF r

LEMMA ModAdd ==
    ASSUME NEW m \in Nat \ {0}, NEW c \in Nat, NEW k \in Nat
    PROVE  ((c % m) + k) % m = (c + k) % m
<1> DEFINE q == c \div m
           r == c % m
<1>1. q \in Nat /\ r \in 0 .. m - 1 /\ c = m * q + r
  BY DivMod
<1> HIDE DEF q, r
<1>2. r + k \in Nat /\ c + k = m * q + (r + k)
  BY <1>1
<1>3. (m * q + (r + k)) % m = (r + k) % m
  BY <1>1, <1>2, ModTurns
<1> QED BY <1>2, <1>3 DEF r

LEMMA ModLess ==
    ASSUME NEW m \in Nat \ {0}, NEW c \in Nat \ {0}
    PROVE  ((c % m) + m - 1) % m = (c - 1) % m
<1>1. ((c % m) + (m - 1)) % m = (c + (m - 1)) % m
  <2>1. m - 1 \in Nat
    OBVIOUS
  <2> QED BY <2>1, ModAdd
<1>2. c + (m - 1) = m * 1 + (c - 1) /\ c - 1 \in Nat
  OBVIOUS
<1>3. (m * 1 + (c - 1)) % m = (c - 1) % m
  BY <1>2, ModTurns
<1>4. c % m \in Int
  BY DivMod
<1>5. (c % m) + m - 1 = (c % m) + (m - 1)
  BY <1>4
<1> QED BY <1>1, <1>2, <1>3, <1>5

LEMMA ModRest ==
    ASSUME NEW m \in Nat \ {0}, NEW c \in Nat, NEW p \in Nat, c <= p
    PROVE  (p + m - (c % m)) % m = (p - c) % m
<1> DEFINE q == c \div m
           r == c % m
<1>1. q \in Nat /\ r \in 0 .. m - 1 /\ c = m * q + r
  BY DivMod
<1> HIDE DEF q, r
<1>2. p - c \in Nat /\ q + 1 \in Nat /\ p + m - r = m * (q + 1) + (p - c)
  BY <1>1
<1>3. (m * (q + 1) + (p - c)) % m = (p - c) % m
  BY <1>2, ModTurns
<1> QED BY <1>2, <1>3 DEF r

-----------------------------------------------------------------------------
(* Doubling *)

LEMMA OddDivides ==
    ASSUME NEW p \in Nat \ {0}, NEW d \in Nat \ {0}, d % 2 = 1, (2 * p) % d = 0
    PROVE  p % d = 0
<1> DEFINE q == (2 * p) \div d
           e == d \div 2
           h == q \div 2
           b == q % 2
<1>1. q \in Nat /\ 2 * p = d * q
  BY DivMod
<1>2. e \in Nat /\ d = 2 * e + 1
  BY DivMod
<1> HIDE DEF q, e
<1>3. h \in Nat /\ b \in 0 .. 1 /\ q = 2 * h + b
  BY <1>1, DivMod
<1> HIDE DEF h, b
<1>4. b = 0
  <2> SUFFICES ASSUME b = 1 PROVE FALSE
    BY <1>3
  <2>1. d * q = 2 * (2 * e * h + e + h) + 1
    BY <1>2, <1>3
  <2>2. 2 * p = 2 * (2 * e * h + e + h) + 1 /\ 2 * e * h + e + h \in Nat
    BY <1>1, <1>2, <1>3, <2>1
  <2> QED BY <2>2
<1>5. p = d * h + 0
  BY <1>1, <1>3, <1>4
<1> QED BY <1>3, <1>5, DivUnique

LEMMA PowerMeans ==
    ASSUME NEW n \in Nat, NEW p
    PROVE  p \in PowersOfTwo(n) <=>
             /\ p \in Nat \ {0} /\ p <= n
             /\ \A d \in 1 .. p : p % d = 0 /\ d % 2 = 1 => d = 1
BY DEF PowersOfTwo

\* Twice a power of two is one.
LEMMA PowerDoubles ==
    ASSUME NEW n \in Nat, NEW p \in PowersOfTwo(n), NEW m \in Nat, 2 * p <= m
    PROVE  2 * p \in PowersOfTwo(m)
<1>1. p \in Nat \ {0} /\ \A d \in 1 .. p : p % d = 0 /\ d % 2 = 1 => d = 1
  BY PowerMeans
<1>2. ASSUME NEW d \in 1 .. 2 * p, (2 * p) % d = 0, d % 2 = 1 PROVE d = 1
  <2>1. d \in Nat \ {0}
    BY <1>1
  <2>2. p % d = 0
    BY <1>1, <1>2, <2>1, OddDivides
  <2>3. d <= p
    <3> DEFINE q == p \div d
    <3>1. q \in Nat /\ p = d * q + 0
      BY <1>1, <2>1, <2>2, DivMod
    <3> HIDE DEF q
    <3> QED BY ONLY <3>1, <2>1, p \in Nat \ {0}
  <2> QED BY <1>1, <1>2, <2>1, <2>2, <2>3
<1>3. 2 * p \in Nat \ {0} /\ 2 * p <= m
  BY <1>1
<1> DEFINE t == 2 * p
<1>4. t \in Nat \ {0} /\ t <= m /\ \A d \in 1 .. t : t % d = 0 /\ d % 2 = 1 => d = 1
  BY <1>2, <1>3
<1> HIDE DEF t
<1>5. t \in PowersOfTwo(m)
  BY <1>4, PowerMeans
<1> QED BY <1>5 DEF t

\* Half a power of two is one, unless it is 1.
LEMMA PowerHalves ==
    ASSUME NEW n \in Nat, NEW p \in PowersOfTwo(n), p # 1
    PROVE  \E h \in PowersOfTwo(n) : p = 2 * h
<1>1. p \in Nat \ {0} /\ p <= n /\ \A d \in 1 .. p : p % d = 0 /\ d % 2 = 1 => d = 1
  BY PowerMeans
<1> DEFINE h == p \div 2
<1>2. p % 2 = 0
  <2> SUFFICES ASSUME p % 2 = 1 PROVE FALSE
    BY <1>1, DivMod
  <2>1. p = p * 1 + 0 /\ p % p = 0
    BY <1>1
  <2> QED BY <1>1, <2>1
<1>3. h \in Nat \ {0} /\ p = 2 * h
  BY <1>1, <1>2
<1> HIDE DEF h
<1>4. ASSUME NEW d \in 1 .. h, h % d = 0, d % 2 = 1 PROVE d = 1
  <2> DEFINE q == h \div d
  <2>0. d \in Nat \ {0}
    BY <1>3
  <2>1. q \in Nat /\ h = d * q + 0
    BY <1>3, <1>4, <2>0, DivMod
  <2> HIDE DEF q
  <2>2. 2 * q \in Nat /\ p = d * (2 * q) + 0 /\ 0 \in 0 .. d - 1
    BY <1>3, <2>0, <2>1
  <2>3. p % d = 0
    BY <2>0, <2>2, DivUnique
  <2>4. d \in 1 .. p
    BY <1>3, <2>0
  <2> QED BY <1>1, <1>4, <2>3, <2>4
<1>5. h <= n
  BY <1>1, <1>3
<1>6. h \in PowersOfTwo(n)
  BY <1>3, <1>4, <1>5, PowerMeans
<1> QED BY <1>3, <1>6

\* There is a power of two above every number, at most twice as large.
LEMMA PowerAbove ==
    ASSUME NEW b \in Nat
    PROVE  \E p \in PowersOfTwo(2 * b + 1) : p > b
<1>1. 1 \in PowersOfTwo(2 * b + 1)
  <2>1. \A d \in 1 .. 1 : d = 1
    OBVIOUS
  <2> QED BY <2>1, PowerMeans
<1>2. CASE b = 0
  BY <1>1, <1>2
<1>3. CASE b # 0
  <2> DEFINE T == {b - p : p \in PowersOfTwo(b)}
  <2>1. 1 \in PowersOfTwo(b)
    <3>1. \A d \in 1 .. 1 : d = 1
      OBVIOUS
    <3> QED BY <3>1, <1>3, PowerMeans
  <2>2. \A p \in PowersOfTwo(b) : p \in Nat \ {0} /\ p <= b
    BY PowerMeans
  <2>3. T \in SUBSET Nat /\ T # {}
    BY <2>1, <2>2
  <2>4. PICK x \in T : \A y \in T : x <= y
    BY <2>3, LeastNat
  <2>5. PICK p \in PowersOfTwo(b) : x = b - p
    BY <2>4
  <2>6. 2 * p > b
    <3> SUFFICES ASSUME 2 * p <= b PROVE FALSE
      BY <2>2, <2>5
    <3>1. 2 * p \in PowersOfTwo(b)
      BY PowerDoubles
    <3>2. b - 2 * p \in T
      BY <3>1
    <3> HIDE DEF T
    <3>3. b - p <= b - 2 * p /\ p \in Nat \ {0}
      BY <2>2, <2>4, <2>5, <3>2
    <3> QED BY ONLY <3>3, b \in Nat
  <2>7. 2 * p <= 2 * b + 1 /\ p \in Nat
    BY <2>2, <2>5
  <2>8. 2 * p \in PowersOfTwo(2 * b + 1)
    BY <2>7, PowerDoubles
  <2> QED BY <2>6, <2>8
<1> QED BY <1>2, <1>3

-----------------------------------------------------------------------------
(* The words and their members *)

LEMMA BlockFacts ==
    ASSUME NEW blocks \in BlockSeq
    PROVE  /\ Len(blocks) \in Nat /\ DOMAIN blocks = 1 .. Len(blocks)
           /\ \A k \in 1 .. Len(blocks) : blocks[k] \subseteq 0 .. W - 1
           /\ Capacity(blocks) = W * Len(blocks) /\ Capacity(blocks) \in Nat
<1>1. Len(blocks) \in Nat /\ DOMAIN blocks = 1 .. Len(blocks)
  BY LenProperties DEF BlockSeq
<1>2. \A k \in 1 .. Len(blocks) : blocks[k] \in SUBSET (0 .. W - 1)
  BY ElementOfSeq DEF BlockSeq
<1>3. Capacity(blocks) \in Nat
  BY <1>1, WAssumption DEF Capacity
<1> QED BY <1>1, <1>2, <1>3 DEF Capacity

LEMMA MadeBlocks ==
    ASSUME NEW n \in Nat, NEW f, f = [k \in 1 .. n |-> f[k]],
           \A k \in 1 .. n : f[k] \subseteq 0 .. W - 1
    PROVE  f \in BlockSeq /\ Len(f) = n
<1>1. f \in [1 .. n -> SUBSET (0 .. W - 1)]
  OBVIOUS
<1>2. f \in Seq(SUBSET (0 .. W - 1))
  BY <1>1, SeqDef
<1>3. Len(f) = n
  BY <1>1, <1>2, LenProperties
<1> QED BY <1>2, <1>3 DEF BlockSeq

\* Every number below the capacity has its bit.
LEMMA BelowCapacity ==
    ASSUME NEW blocks \in BlockSeq
    PROVE  \A i : i \in 0 .. Capacity(blocks) - 1 <=>
                    i \in Nat /\ i \div W + 1 \in 1 .. Len(blocks)
<1> SUFFICES ASSUME NEW i
             PROVE  i \in 0 .. Capacity(blocks) - 1 <=>
                      i \in Nat /\ i \div W + 1 \in 1 .. Len(blocks)
  OBVIOUS
<1> DEFINE n == Len(blocks)
           q == i \div W
<1>1. W \in Nat \ {0} /\ n \in Nat /\ Capacity(blocks) = W * n /\ W * n \in Nat
  BY BlockFacts, WAssumption
<1> HIDE DEF n
<1>2. i \in 0 .. W * n - 1 <=> i \in Nat /\ i < W * n
  BY <1>1
<1>3. i \in Nat => (i < W * n <=> q + 1 \in 1 .. n)
  <2> SUFFICES ASSUME i \in Nat PROVE i < W * n <=> q + 1 \in 1 .. n
    OBVIOUS
  <2>1. q \in Nat /\ (i < W * n <=> q < n)
    BY <1>1, DivMod, DivBound
  <2> HIDE DEF q
  <2>2. q + 1 \in 1 .. n <=> q < n
    BY ONLY <2>1, <1>1
  <2> QED BY <2>1, <2>2
<1> QED BY <1>1, <1>2, <1>3 DEF n

\* A number is a member if the bit of its word is 1.
LEMMA MembersMean ==
    ASSUME NEW blocks \in BlockSeq, NEW i
    PROVE  i \in Members(blocks) <=>
             /\ i \in Nat /\ i \div W + 1 \in 1 .. Len(blocks)
             /\ (i % W) \in blocks[i \div W + 1]
<1>1. Capacity(blocks) \in Nat
  BY BlockFacts
<1>2. i \in 0 .. Capacity(blocks) - 1 => i < Capacity(blocks)
  BY <1>1
<1>3. i \in 0 .. Capacity(blocks) - 1 <=> i \in Nat /\ i \div W + 1 \in 1 .. Len(blocks)
  BY BelowCapacity
<1> QED BY <1>2, <1>3 DEF Members, Test

LEMMA Interval ==
    ASSUME NEW n \in Nat
    PROVE  IsFiniteSet(0 .. n - 1) /\ Cardinality(0 .. n - 1) = n
<1>1. 0 \in Int /\ n - 1 \in Int
  OBVIOUS
<1>2. IsFiniteSet(0 .. n - 1)
  BY <1>1, FS_Interval
<1>3. Cardinality(0 .. n - 1) = IF 0 > n - 1 THEN 0 ELSE (n - 1) - 0 + 1
  BY <1>1, FS_Interval, Zenon
<1> QED BY <1>2, <1>3

LEMMA MembersFinite ==
    ASSUME NEW blocks \in BlockSeq
    PROVE  /\ Members(blocks) \subseteq 0 .. Capacity(blocks) - 1
           /\ IsFiniteSet(Members(blocks)) /\ Cardinality(Members(blocks)) \in Nat
           /\ Cardinality(Members(blocks)) <= Capacity(blocks)
<1> DEFINE c == Capacity(blocks)
<1>1. c \in Nat
  BY BlockFacts
<1>2. Members(blocks) \subseteq 0 .. c - 1
  BY DEF Members
<1> HIDE DEF c
<1>3. IsFiniteSet(0 .. c - 1) /\ Cardinality(0 .. c - 1) = c
  BY <1>1, Interval
<1> QED BY <1>1, <1>2, <1>3, FS_Subset, FS_CardinalityType DEF c

\* Where the words agree so do the members.
LEMMA SameMembers ==
    ASSUME NEW a \in BlockSeq, NEW b \in BlockSeq,
           \A k \in Nat \ {0} : \A r \in 0 .. W - 1 :
             (k \in 1 .. Len(a) /\ r \in a[k]) <=> (k \in 1 .. Len(b) /\ r \in b[k])
    PROVE  Members(a) = Members(b)
<1> SUFFICES ASSUME NEW i PROVE i \in Members(a) <=> i \in Members(b)
  OBVIOUS
<1> SUFFICES ASSUME i \in Nat PROVE i \in Members(a) <=> i \in Members(b)
  BY MembersMean
<1> DEFINE k == i \div W + 1
           r == i % W
<1>1. k \in Nat \ {0} /\ r \in 0 .. W - 1
  <2>1. i \div W \in Nat /\ r \in 0 .. W - 1
    BY DivMod, WAssumption
  <2> QED BY <2>1
<1>2. (k \in 1 .. Len(a) /\ r \in a[k]) <=> (k \in 1 .. Len(b) /\ r \in b[k])
  BY <1>1
<1> QED BY <1>2, MembersMean

\* The position of a number is its alone.
LEMMA PositionUnique ==
    ASSUME NEW i \in Nat, NEW j \in Nat, i \div W = j \div W, i % W = j % W
    PROVE  i = j
BY DivMod, WAssumption

-----------------------------------------------------------------------------
(* Growth *)

\* There is a word for the index, the words there were are kept, and the new
\* ones are empty; the set at most doubles (bitset.rs:315-328).
LEMMA EnsuredFacts ==
    ASSUME bit_blocks \in BlockSeq, NEW i \in Nat
    PROVE  /\ Ensured(i) \in BlockSeq
           /\ i \div W + 1 \in 1 .. Len(Ensured(i))
           /\ Members(Ensured(i)) = Members(bit_blocks)
           /\ IF i < Capacity(bit_blocks)
              THEN Capacity(Ensured(i)) = Capacity(bit_blocks)
              ELSE /\ Capacity(Ensured(i)) \in
                        (i + 1) .. (IF W < 2 * i THEN 2 * i ELSE W)
                   /\ Capacity(Ensured(i)) % W = 0
<1> DEFINE old == Len(bit_blocks)
           b == i \div W
           len == IF bit_blocks = <<>> THEN 1 ELSE Len(bit_blocks)
           doubled == {len * p : p \in PowersOfTwo(2 * b + 1)}
           T == {n \in doubled : n > b}
           new == Min(T)
           e == Ensured(i)
<1>1. W \in Nat \ {0} /\ old \in Nat /\ Capacity(bit_blocks) = W * old
  BY BlockFacts, WAssumption
<1>2. b \in Nat /\ (i < W * old <=> b < old) /\ W * b <= i /\ i < W * (b + 1)
  <2>1. b \in Nat /\ i % W \in 0 .. W - 1 /\ i = W * b + (i % W) /\ (i < W * old <=> b < old)
    BY <1>1, DivMod, DivBound
  <2> QED BY <1>1, <2>1
<1>3. CASE i < Capacity(bit_blocks)
  <2>1. e = bit_blocks
    BY <1>3 DEF Ensured
  <2>2. b + 1 \in 1 .. old
    <3>1. b < old
      BY <1>1, <1>2, <1>3
    <3> HIDE DEF b, old
    <3> QED BY <3>1, <1>1, <1>2
  <2> QED BY <2>1, <2>2, <1>3
<1>4. CASE ~(i < Capacity(bit_blocks))
  <2>1. e = bit_blocks \o Zeros(new - old)
    BY <1>4 DEF Ensured
  <2>2. old <= b
    BY <1>1, <1>2, <1>4
  <2>3. len \in Nat \ {0} /\ (len = old \/ (len = 1 /\ old = 0))
    <3>1. bit_blocks # <<>> => old # 0
      BY EmptySeq DEF BlockSeq
    <3>2. bit_blocks = <<>> => old = 0
      BY EmptySeq
    <3> QED BY <1>1, <3>1, <3>2
  <2> DEFINE P == PowersOfTwo(2 * b + 1)
  <2>4. /\ \A p \in P : p \in Nat \ {0}
        /\ \A p \in P : p # 1 => \E h \in P : p = 2 * h
        /\ \E p \in P : p > b
    <3>1. 2 * b + 1 \in Nat
      BY <1>2
    <3> QED BY <1>2, <3>1, PowerMeans, PowerHalves, PowerAbove
  <2>5. doubled = {len * p : p \in P}
    OBVIOUS
  <2>6. T = {n \in doubled : n > b} /\ new = Min(T)
    OBVIOUS
  <2> HIDE DEF P, doubled, T, new, len, old, b, e
  <2>7. T \subseteq Nat /\ T # {}
    <3>1. \A p \in P : len * p \in Nat
      BY <2>3, <2>4
    <3>2. PICK p \in P : p > b
      BY <2>4
    <3>3. len * p > b
      BY <2>3, <2>4, <3>2, <1>2
    <3> QED BY <2>5, <2>6, <3>1, <3>3
  <2>8. new \in T /\ \A n \in T : new <= n
    BY <2>6, <2>7, LeastIsMin
  <2>9. PICK p \in P : new = len * p
    BY <2>5, <2>6, <2>8
  <2>10. new \in Nat /\ new > b
    BY <2>6, <2>7, <2>8
  <2>11. new = 1 \/ new <= 2 * b
    <3>1. CASE p = 1
      <4>1. new = len
        BY <2>3, <2>9, <3>1
      <4> QED BY <4>1, <2>2, <2>3, <2>10, <1>1, <1>2
    <3>2. CASE p # 1
      <4>1. PICK h \in P : p = 2 * h
        BY <2>4, <3>2
      <4>2. h \in Nat \ {0} /\ len * h \in Nat \ {0} /\ new = 2 * (len * h)
        BY <2>3, <2>4, <2>9, <4>1
      <4>3. len * h <= b
        <5> SUFFICES ASSUME len * h > b PROVE FALSE
          BY <4>2, <1>2
        <5>1. len * h \in T
          BY <2>5, <2>6
        <5>2. new <= len * h
          BY <5>1, <2>8
        <5> DEFINE x == len * h
        <5>3. x \in Nat \ {0} /\ new = 2 * x /\ new <= x
          BY <4>2, <5>2
        <5> HIDE DEF x
        <5> QED BY ONLY <5>3
      <4> DEFINE x == len * h
      <4>4. x \in Nat /\ new = 2 * x /\ x <= b
        BY <4>2, <4>3
      <4> HIDE DEF x
      <4> QED BY ONLY <4>4, <1>2
    <3> QED BY <3>1, <3>2
  <2>12. new - old \in Nat
    BY <2>2, <2>10, <1>1, <1>2
  <2> DEFINE z == Zeros(new - old)
  <2>13. z \in BlockSeq /\ Len(z) = new - old /\ \A k \in 1 .. new - old : z[k] = {}
    <3>1. z = [k \in 1 .. new - old |-> {}]
      BY DEF Zeros
    <3> HIDE DEF z
    <3>2. z = [k \in 1 .. new - old |-> z[k]] /\ \A k \in 1 .. new - old : z[k] = {}
      BY <3>1
    <3> QED BY <3>2, <2>12, MadeBlocks
  <2>14. /\ e \in BlockSeq /\ Len(e) = new
         /\ \A k \in 1 .. new : e[k] = IF k <= old THEN bit_blocks[k] ELSE {}
    <3>0. old = Len(bit_blocks)
      BY DEF old
    <3> HIDE DEF z
    <3>1. /\ bit_blocks \o z \in BlockSeq
          /\ Len(bit_blocks \o z) = Len(bit_blocks) + Len(z)
          /\ \A k \in 1 .. Len(bit_blocks) + Len(z) :
                (bit_blocks \o z)[k] = IF k <= Len(bit_blocks) THEN bit_blocks[k]
                                       ELSE z[k - Len(bit_blocks)]
      BY <2>13, ConcatProperties DEF BlockSeq
    <3>2. old + Len(z) = new
      BY <2>13, <2>10, <1>1
    <3>3. /\ e \in BlockSeq /\ Len(e) = new
          /\ \A k \in 1 .. new : e[k] = IF k <= old THEN bit_blocks[k] ELSE z[k - old]
      BY <2>1, <3>0, <3>1, <3>2 DEF z
    <3>4. \A k \in 1 .. new : ~(k <= old) => k - old \in 1 .. new - old
      BY <2>10, <1>1
    <3> QED BY <2>13, <3>3, <3>4
  <2>15. Members(e) = Members(bit_blocks)
    <3>1. \A k \in Nat \ {0} : \A r \in 0 .. W - 1 :
            (k \in 1 .. new /\ r \in e[k]) <=> (k \in 1 .. old /\ r \in bit_blocks[k])
      <4> SUFFICES ASSUME NEW k \in Nat \ {0}, NEW r \in 0 .. W - 1
                   PROVE (k \in 1 .. new /\ r \in e[k]) <=> (k \in 1 .. old /\ r \in bit_blocks[k])
        OBVIOUS
      <4>1. old <= new
        BY <2>2, <2>10, <1>1, <1>2
      <4>2. CASE k <= old
        <5>1. k \in 1 .. old /\ k \in 1 .. new
          BY <4>1, <4>2, <2>10, <1>1
        <5> QED BY <5>1, <4>2, <2>14
      <4>3. CASE ~(k <= old)
        <5>1. k \notin 1 .. old
          BY <4>3, <1>1
        <5> QED BY <5>1, <4>3, <2>14
      <4> QED BY <4>2, <4>3
    <3>2. old = Len(bit_blocks)
      BY DEF old
    <3> QED BY <3>1, <3>2, <2>14, SameMembers
  <2>16. Capacity(e) = W * new
    BY <2>14 DEF Capacity
  <2>17. b + 1 \in 1 .. new
    BY <2>10, <1>2
  <2>18. W * new % W = 0
    <3>1. 0 \in 0 .. W - 1 /\ W * new + 0 = W * new
      BY <1>1, <2>10
    <3>2. (W * new + 0) % W = 0
      BY <3>1, <1>1, <2>10, DivUnique
    <3> QED BY <3>1, <3>2
  <2>19. W * new \in Nat /\ i + 1 <= W * new
    <3>1. W * (b + 1) <= W * new
      BY ONLY <2>10, <1>1, <1>2
    <3> DEFINE x == W * (b + 1)
               y == W * new
    <3>2. x \in Nat /\ y \in Nat /\ x <= y /\ i < x
      BY <3>1, <2>10, <1>1, <1>2
    <3> HIDE DEF x, y
    <3>3. i + 1 <= y
      BY ONLY <3>2, i \in Nat
    <3> QED BY <3>2, <3>3 DEF y
  <2>20. W * new <= W \/ W * new <= 2 * i
    <3>1. CASE new = 1
      BY <3>1, <1>1
    <3>2. CASE new <= 2 * b
      <4>1. W * new <= 2 * (W * b)
        BY ONLY <3>2, <2>10, <1>1, <1>2
      <4> DEFINE x == W * b
                 y == W * new
      <4>2. x \in Nat /\ y \in Nat /\ y <= 2 * x /\ x <= i
        BY <4>1, <2>10, <1>1, <1>2
      <4> HIDE DEF x, y
      <4>3. y <= 2 * i
        BY ONLY <4>2, i \in Nat
      <4> QED BY <4>3 DEF y
    <3> QED BY <2>11, <3>1, <3>2
  <2> DEFINE y == W * new
  <2>21. y \in (i + 1) .. (IF W < 2 * i THEN 2 * i ELSE W)
    <3>1. y \in Nat /\ i + 1 <= y /\ (y <= W \/ y <= 2 * i) /\ W \in Nat
      BY <2>19, <2>20, <1>1
    <3> HIDE DEF y
    <3> QED BY ONLY <3>1, i \in Nat
  <2> QED BY <2>14, <2>15, <2>16, <2>17, <2>18, <2>21, <1>4 DEF e, b
<1> QED BY <1>3, <1>4

-----------------------------------------------------------------------------
(* Single bits *)

\* One word is replaced.
LEMMA OneWord ==
    ASSUME NEW e \in BlockSeq, NEW i \in Nat, i \div W + 1 \in 1 .. Len(e),
           NEW word \in SUBSET (0 .. W - 1)
    PROVE  /\ [e EXCEPT ![i \div W + 1] = word] \in BlockSeq
           /\ Capacity([e EXCEPT ![i \div W + 1] = word]) = Capacity(e)
           /\ \A j : j \in Members([e EXCEPT ![i \div W + 1] = word]) <=>
                IF j \in Nat /\ j \div W = i \div W THEN (j % W) \in word ELSE j \in Members(e)
<1> PICK k : k = i \div W + 1
  OBVIOUS
<1> DEFINE f == [e EXCEPT ![k] = word]
<1>1. /\ Len(e) \in Nat /\ DOMAIN e = 1 .. Len(e) /\ k \in 1 .. Len(e)
      /\ \A n \in 1 .. Len(e) : e[n] \subseteq 0 .. W - 1
  BY BlockFacts
<1>2. f[k] = word /\ \A n \in 1 .. Len(e) : n # k => f[n] = e[n]
  BY <1>1
<1>3. f \in BlockSeq /\ Len(f) = Len(e)
  <2>1. f = [n \in 1 .. Len(e) |-> f[n]]
    BY <1>1
  <2>2. \A n \in 1 .. Len(e) : f[n] \subseteq 0 .. W - 1
    <3> SUFFICES ASSUME NEW n \in 1 .. Len(e) PROVE f[n] \subseteq 0 .. W - 1
      OBVIOUS
    <3>1. CASE n = k BY <3>1, <1>2
    <3>2. CASE n # k BY <3>2, <1>1, <1>2
    <3> QED BY <3>1, <3>2
  <2> HIDE DEF f
  <2> QED BY <2>1, <2>2, <1>1, MadeBlocks
<1>4. Capacity(f) = Capacity(e)
  BY <1>3 DEF Capacity
<1> HIDE DEF f
<1>5. ASSUME NEW j
      PROVE  j \in Members(f) <=>
               IF j \in Nat /\ j \div W = i \div W THEN (j % W) \in word ELSE j \in Members(e)
  <2>1. CASE j \notin Nat
    BY <2>1, <1>3, MembersMean
  <2>2. CASE j \in Nat /\ j \div W = i \div W
    BY <2>2, <1>1, <1>2, <1>3, MembersMean
  <2>3. CASE j \in Nat /\ j \div W # i \div W
    <3>1. j \div W + 1 # k
      <4>1. j \div W \in Nat /\ i \div W \in Nat
        BY <2>3, WAssumption, DivMod
      <4> QED BY <4>1, <2>3
    <3> QED BY <2>3, <3>1, <1>2, <1>3, MembersMean
  <2> QED BY <2>1, <2>2, <2>3
<1> QED BY <1>3, <1>4, <1>5 DEF f

\* A bit is set to 1, or to 0.
LEMMA OneBit ==
    ASSUME NEW e \in BlockSeq, NEW i \in Nat, NEW bit, bit = i % W,
           NEW k, k = i \div W + 1, k \in 1 .. Len(e)
    PROVE  /\ \A f : f = [e EXCEPT ![k] = @ \cup {bit}] =>
                /\ f \in BlockSeq /\ Capacity(f) = Capacity(e)
                /\ Members(f) = Members(e) \cup {i}
           /\ \A f : f = [e EXCEPT ![k] = @ \ {bit}] =>
                /\ f \in BlockSeq /\ Capacity(f) = Capacity(e)
                /\ Members(f) = Members(e) \ {i}
           /\ i \in Members(e) <=> bit \in e[k]
<1> DEFINE word == e[k]
           on == word \cup {bit}
           off == word \ {bit}
           a == [e EXCEPT ![k] = on]
           z == [e EXCEPT ![k] = off]
<1>1. /\ DOMAIN e = 1 .. Len(e) /\ word \subseteq 0 .. W - 1
  BY BlockFacts
<1>2. bit \in 0 .. W - 1
  BY DivMod, WAssumption
<1>3. on \in SUBSET (0 .. W - 1) /\ off \in SUBSET (0 .. W - 1)
  BY <1>1, <1>2
<1>4. /\ [e EXCEPT ![k] = @ \cup {bit}] = a
      /\ [e EXCEPT ![k] = @ \ {bit}] = z
  BY <1>1
<1>5. /\ a \in BlockSeq /\ Capacity(a) = Capacity(e)
      /\ \A j : j \in Members(a) <=>
           IF j \in Nat /\ j \div W = i \div W THEN (j % W) \in on ELSE j \in Members(e)
  <2> HIDE DEF on
  <2> QED BY <1>1, <1>3, OneWord
<1>6. /\ z \in BlockSeq /\ Capacity(z) = Capacity(e)
      /\ \A j : j \in Members(z) <=>
           IF j \in Nat /\ j \div W = i \div W THEN (j % W) \in off ELSE j \in Members(e)
  <2> HIDE DEF off
  <2> QED BY <1>1, <1>3, OneWord
<1>7. \A j : j \in Nat /\ j \div W = i \div W => (j \in Members(e) <=> (j % W) \in word)
  BY <1>1, MembersMean
<1>8. \A j : j \in Nat /\ j \div W = i \div W => ((j % W) = bit <=> j = i)
  BY PositionUnique
<1>9. i \in Nat /\ i \div W = i \div W
  OBVIOUS
<1> HIDE DEF a, z
<1>10. Members(a) = Members(e) \cup {i}
  <2> SUFFICES ASSUME NEW j PROVE j \in Members(a) <=> j \in Members(e) \/ j = i
    OBVIOUS
  <2>1. CASE j \in Nat /\ j \div W = i \div W
    BY <2>1, <1>5, <1>7, <1>8
  <2>2. CASE ~(j \in Nat /\ j \div W = i \div W)
    BY <2>2, <1>5, <1>9
  <2> QED BY <2>1, <2>2
<1>11. Members(z) = Members(e) \ {i}
  <2> SUFFICES ASSUME NEW j PROVE j \in Members(z) <=> j \in Members(e) /\ j # i
    OBVIOUS
  <2>1. CASE j \in Nat /\ j \div W = i \div W
    BY <2>1, <1>6, <1>7, <1>8
  <2>2. CASE ~(j \in Nat /\ j \div W = i \div W)
    BY <2>2, <1>6, <1>9
  <2> QED BY <2>1, <2>2
<1>12. i \in Members(e) <=> bit \in word
  BY <1>7
<1> QED BY <1>4, <1>5, <1>6, <1>10, <1>11, <1>12

\* The counter follows a member that comes or goes.
LEMMA CountSteps ==
    ASSUME NEW a \in BlockSeq, NEW b \in BlockSeq, NEW i, active_count = CountOnes(a)
    PROVE  /\ i \notin Members(a) /\ Members(b) = Members(a) \cup {i} => More = CountOnes(b)
           /\ i \in Members(a) /\ Members(b) = Members(a) \ {i} => Less = CountOnes(b)
           /\ Members(b) = Members(a) => active_count = CountOnes(b)
<1> DEFINE c == Cardinality(Members(a))
           d == Cardinality(Members(b))
<1>1. IsFiniteSet(Members(a)) /\ c \in Nat /\ d \in Nat /\ CountMod \in Nat \ {0}
  BY MembersFinite, CountAssumption
<1>2. active_count = c % CountMod /\ CountOnes(b) = d % CountMod
  BY DEF CountOnes
<1>3. ASSUME i \notin Members(a), Members(b) = Members(a) \cup {i} PROVE More = CountOnes(b)
  <2>1. d = c + 1
    BY <1>1, <1>3, FS_AddElement
  <2> HIDE DEF c, d
  <2>2. ((c % CountMod) + 1) % CountMod = (c + 1) % CountMod
    BY <1>1, ModAdd
  <2> QED BY <1>2, <2>1, <2>2 DEF More
<1>4. ASSUME i \in Members(a), Members(b) = Members(a) \ {i} PROVE Less = CountOnes(b)
  <2>1. d = c - 1
    BY <1>1, <1>4, FS_RemoveElement
  <2> HIDE DEF c, d
  <2>2. c \in Nat \ {0}
    BY <1>1, <2>1
  <2>3. ((c % CountMod) + CountMod - 1) % CountMod = (c - 1) % CountMod
    BY <1>1, <2>2, ModLess
  <2> QED BY <1>2, <2>1, <2>3 DEF Less
<1> QED BY <1>2, <1>3, <1>4

\* Whatever was counted, a counter stays a usize.
LEMMA CounterType ==
    ASSUME active_count \in 0 .. CountMod - 1
    PROVE  More \in 0 .. CountMod - 1 /\ Less \in 0 .. CountMod - 1
<1>1. CountMod \in Nat \ {0}
  BY CountAssumption
<1>2. active_count + 1 \in Nat /\ active_count + CountMod - 1 \in Nat
  BY <1>1
<1> QED BY <1>1, <1>2, DivMod DEF More, Less

LEMMA CountOnesType ==
    ASSUME NEW a \in BlockSeq
    PROVE  CountOnes(a) \in 0 .. CountMod - 1
<1>1. CountMod \in Nat \ {0} /\ Cardinality(Members(a)) \in Nat
  BY CountAssumption, MembersFinite
<1> QED BY <1>1, DivMod DEF CountOnes

LEMMA SetStep ==
    ASSUME IInv, NEW i \in Indexes, Set(i)
    PROVE  IInv' /\ Numbers!Insert(i)
<1> PICK e, k, bit : e = Ensured(i) /\ k = i \div W + 1 /\ bit = i % W
  OBVIOUS
<1>1. /\ active_count' = (IF bit \in e[k] THEN active_count ELSE More)
      /\ bit_blocks' = [e EXCEPT ![k] = @ \cup {bit}]
      /\ miscounted' = miscounted
  BY DEF Set
<1>2. /\ bit_blocks \in BlockSeq /\ active_count \in 0 .. CountMod - 1 /\ miscounted \in BOOLEAN
      /\ i \in Nat
  BY IndexesAssumption DEF IInv, TypeOK, BlockSeq
<1>3. e \in BlockSeq /\ k \in 1 .. Len(e) /\ Members(e) = Members(bit_blocks)
  BY <1>2, EnsuredFacts
<1>4. IF i < Capacity(bit_blocks)
      THEN Capacity(e) = Capacity(bit_blocks)
      ELSE /\ Capacity(e) \in (i + 1) .. (IF W < 2 * i THEN 2 * i ELSE W)
           /\ Capacity(e) % W = 0
  BY <1>2, EnsuredFacts
<1>5. /\ bit_blocks' \in BlockSeq /\ Capacity(bit_blocks') = Capacity(e)
      /\ Members(bit_blocks') = Members(bit_blocks) \cup {i}
      /\ i \in Members(bit_blocks) <=> bit \in e[k]
  <2>1. /\ \A f : f = [e EXCEPT ![k] = @ \cup {bit}] =>
              /\ f \in BlockSeq /\ Capacity(f) = Capacity(e)
              /\ Members(f) = Members(e) \cup {i}
        /\ i \in Members(e) <=> bit \in e[k]
    BY <1>2, <1>3, OneBit
  <2>2. /\ bit_blocks' \in BlockSeq /\ Capacity(bit_blocks') = Capacity(e)
        /\ Members(bit_blocks') = Members(e) \cup {i}
    BY <1>1, <2>1
  <2> QED BY <2>1, <2>2, <1>3
<1>6. TypeOK'
  BY <1>1, <1>2, <1>5, CounterType DEF TypeOK, BlockSeq
<1>7. CountModulo'
  <2> SUFFICES ASSUME ~miscounted PROVE active_count' = CountOnes(bit_blocks')
    BY <1>1 DEF CountModulo
  <2>1. active_count = CountOnes(bit_blocks)
    BY DEF IInv, CountModulo
  <2>2. CASE bit \in e[k]
    <3>1. Members(bit_blocks') = Members(bit_blocks) /\ active_count' = active_count
      BY <2>2, <1>1, <1>5
    <3> QED BY <3>1, <2>1 DEF CountOnes
  <2>3. CASE bit \notin e[k]
    <3>1. i \notin Members(bit_blocks) /\ active_count' = More
      BY <2>3, <1>1, <1>5
    <3> QED BY <3>1, <2>1, <1>2, <1>5, CountSteps
  <2> QED BY <2>2, <2>3
<1>8. Numbers!Insert(i)
  BY <1>4, <1>5 DEF Numbers!Insert, Numbers!Room, Numbers!Larger
<1> QED BY <1>6, <1>7, <1>8 DEF IInv

LEMMA FlipStep ==
    ASSUME IInv, NEW i \in Indexes, Flip(i)
    PROVE  IInv' /\ Numbers!Toggle(i)
<1> PICK e, k, bit : e = Ensured(i) /\ k = i \div W + 1 /\ bit = i % W
  OBVIOUS
<1>1. /\ active_count' = (IF bit \notin e[k] THEN More ELSE Less)
      /\ bit_blocks' = [e EXCEPT ![k] = IF bit \in @ THEN @ \ {bit} ELSE @ \cup {bit}]
      /\ miscounted' = miscounted
  BY DEF Flip
<1>2. /\ bit_blocks \in BlockSeq /\ active_count \in 0 .. CountMod - 1 /\ miscounted \in BOOLEAN
      /\ i \in Nat
  BY IndexesAssumption DEF IInv, TypeOK, BlockSeq
<1>3. e \in BlockSeq /\ k \in 1 .. Len(e) /\ Members(e) = Members(bit_blocks)
  BY <1>2, EnsuredFacts
<1>4. IF i < Capacity(bit_blocks)
      THEN Capacity(e) = Capacity(bit_blocks)
      ELSE /\ Capacity(e) \in (i + 1) .. (IF W < 2 * i THEN 2 * i ELSE W)
           /\ Capacity(e) % W = 0
  BY <1>2, EnsuredFacts
<1>5. /\ \A f : f = [e EXCEPT ![k] = @ \cup {bit}] =>
            /\ f \in BlockSeq /\ Capacity(f) = Capacity(e)
            /\ Members(f) = Members(e) \cup {i}
      /\ \A f : f = [e EXCEPT ![k] = @ \ {bit}] =>
            /\ f \in BlockSeq /\ Capacity(f) = Capacity(e)
            /\ Members(f) = Members(e) \ {i}
      /\ i \in Members(e) <=> bit \in e[k]
  BY <1>2, <1>3, OneBit
<1>6. /\ bit_blocks' \in BlockSeq /\ Capacity(bit_blocks') = Capacity(e)
      /\ \/ /\ i \in Members(bit_blocks) /\ active_count' = Less
            /\ Members(bit_blocks') = Members(bit_blocks) \ {i}
         \/ /\ i \notin Members(bit_blocks) /\ active_count' = More
            /\ Members(bit_blocks') = Members(bit_blocks) \cup {i}
  <2>1. CASE bit \in e[k]
    <3>1. bit_blocks' = [e EXCEPT ![k] = @ \ {bit}]
      BY <2>1, <1>1
    <3>2. /\ bit_blocks' \in BlockSeq /\ Capacity(bit_blocks') = Capacity(e)
          /\ Members(bit_blocks') = Members(e) \ {i}
      BY <3>1, <1>5
    <3> QED BY <2>1, <3>2, <1>1, <1>3, <1>5
  <2>2. CASE bit \notin e[k]
    <3>1. bit_blocks' = [e EXCEPT ![k] = @ \cup {bit}]
      BY <2>2, <1>1
    <3>2. /\ bit_blocks' \in BlockSeq /\ Capacity(bit_blocks') = Capacity(e)
          /\ Members(bit_blocks') = Members(e) \cup {i}
      BY <3>1, <1>5
    <3> QED BY <2>2, <3>2, <1>1, <1>3, <1>5
  <2> QED BY <2>1, <2>2
<1>7. TypeOK'
  BY <1>1, <1>2, <1>6, CounterType DEF TypeOK, BlockSeq
<1>8. CountModulo'
  <2> SUFFICES ASSUME ~miscounted PROVE active_count' = CountOnes(bit_blocks')
    BY <1>1 DEF CountModulo
  <2>1. active_count = CountOnes(bit_blocks)
    BY DEF IInv, CountModulo
  <2> QED BY <2>1, <1>2, <1>6, CountSteps
<1>9. Numbers!Toggle(i)
  BY <1>4, <1>6 DEF Numbers!Toggle, Numbers!Room, Numbers!Larger
<1> QED BY <1>7, <1>8, <1>9 DEF IInv

\* A reset that finds other bits in the word counts wrongly and says so.
LEMMA ResetStep ==
    ASSUME IInv, NEW i \in Indexes, Reset(i)
    PROVE  IInv' /\ Numbers!Remove(i)
<1> PICK k, bit : k = i \div W + 1 /\ bit = i % W
  OBVIOUS
<1> DEFINE word == bit_blocks[k]
<1>1. /\ i < Capacity(bit_blocks)
      /\ active_count' = (IF WasSet(word, bit) THEN Less ELSE active_count)
      /\ bit_blocks' = [bit_blocks EXCEPT ![k] = @ \ {bit}]
      /\ miscounted' = (miscounted \/ WasSet(word, bit) # (bit \in word))
  BY DEF Reset
<1>2. /\ bit_blocks \in BlockSeq /\ active_count \in 0 .. CountMod - 1 /\ miscounted \in BOOLEAN
      /\ i \in Nat
  BY IndexesAssumption DEF IInv, TypeOK, BlockSeq
<1>3. k \in 1 .. Len(bit_blocks)
  <2> DEFINE q == i \div W
             n == Len(bit_blocks)
  <2>1. W \in Nat \ {0} /\ n \in Nat /\ i < W * n
    BY <1>1, <1>2, BlockFacts, WAssumption
  <2>2. q \in Nat /\ q < n
    BY <1>2, <2>1, DivMod, DivBound
  <2> HIDE DEF q, n
  <2>3. q + 1 \in 1 .. n
    BY ONLY <2>1, <2>2
  <2> QED BY <2>3 DEF q, n
<1>4. /\ \A f : f = [bit_blocks EXCEPT ![k] = @ \ {bit}] =>
            /\ f \in BlockSeq /\ Capacity(f) = Capacity(bit_blocks)
            /\ Members(f) = Members(bit_blocks) \ {i}
      /\ i \in Members(bit_blocks) <=> bit \in word
  BY <1>2, <1>3, OneBit
<1>5. /\ bit_blocks' \in BlockSeq /\ Capacity(bit_blocks') = Capacity(bit_blocks)
      /\ Members(bit_blocks') = Members(bit_blocks) \ {i}
  BY <1>1, <1>4
<1>6. TypeOK'
  <2>1. miscounted' \in BOOLEAN
    BY <1>1
  <2> QED BY <2>1, <1>1, <1>2, <1>5, CounterType DEF TypeOK, BlockSeq
<1>7. CountModulo'
  <2> SUFFICES ASSUME ~miscounted' PROVE active_count' = CountOnes(bit_blocks')
    BY DEF CountModulo
  <2>1. ~miscounted /\ (WasSet(word, bit) <=> bit \in word)
    BY <1>1, <1>2 DEF WasSet
  <2>2. active_count = CountOnes(bit_blocks)
    BY <2>1 DEF IInv, CountModulo
  <2>3. CASE bit \in word
    <3>1. active_count' = Less /\ i \in Members(bit_blocks)
      BY <2>1, <2>3, <1>1, <1>4
    <3> QED BY <3>1, <2>2, <1>2, <1>5, CountSteps
  <2>4. CASE bit \notin word
    <3>1. active_count' = active_count /\ Members(bit_blocks') = Members(bit_blocks)
      BY <2>1, <2>4, <1>1, <1>4, <1>5
    <3> QED BY <3>1, <2>2, <1>2, <1>5, CountSteps
  <2> QED BY <2>3, <2>4
<1>8. Numbers!Remove(i)
  BY <1>5 DEF Numbers!Remove
<1> QED BY <1>6, <1>7, <1>8 DEF IInv

-----------------------------------------------------------------------------
(* The whole set *)

\* The words are replaced by others, and the count is that of their members.
LEMMA Replaced ==
    ASSUME IInv, bit_blocks' \in BlockSeq, active_count' = CountOnes(bit_blocks'),
           miscounted' = FALSE
    PROVE  IInv'
<1>1. active_count' \in 0 .. CountMod - 1
  BY CountOnesType
<1> QED BY <1>1 DEF IInv, TypeOK, CountModulo, BlockSeq

\* Every word is made from the word it was.
LEMMA EveryWord ==
    ASSUME NEW blocks \in BlockSeq, NEW f, f = [k \in DOMAIN blocks |-> f[k]],
           \A k \in DOMAIN blocks : f[k] \subseteq 0 .. W - 1
    PROVE  /\ f \in BlockSeq /\ Len(f) = Len(blocks) /\ Capacity(f) = Capacity(blocks)
           /\ DOMAIN blocks = 1 .. Len(blocks)
<1>1. Len(blocks) \in Nat /\ DOMAIN blocks = 1 .. Len(blocks)
  BY BlockFacts
<1>2. f \in BlockSeq /\ Len(f) = Len(blocks)
  BY <1>1, MadeBlocks
<1> QED BY <1>1, <1>2 DEF Capacity

LEMMA SetAllStep == ASSUME IInv, SetAll PROVE IInv' /\ Numbers!Fill
<1> DEFINE c == Capacity(bit_blocks)
<1>1. /\ bit_blocks' = [k \in DOMAIN bit_blocks |-> 0 .. W - 1]
      /\ active_count' = c % CountMod /\ miscounted' = FALSE
  BY DEF SetAll
<1>2. bit_blocks \in BlockSeq
  BY DEF IInv, TypeOK, BlockSeq
<1>3. /\ bit_blocks' \in BlockSeq /\ Len(bit_blocks') = Len(bit_blocks)
      /\ Capacity(bit_blocks') = c /\ DOMAIN bit_blocks = 1 .. Len(bit_blocks)
  <2>1. /\ bit_blocks' = [k \in DOMAIN bit_blocks |-> bit_blocks'[k]]
        /\ \A k \in DOMAIN bit_blocks : bit_blocks'[k] \subseteq 0 .. W - 1
    BY <1>1
  <2> QED BY <2>1, <1>2, EveryWord
<1>4. Members(bit_blocks') = 0 .. c - 1
  <2> SUFFICES ASSUME NEW i PROVE i \in Members(bit_blocks') <=> i \in 0 .. c - 1
    OBVIOUS
  <2>1. i \in Nat => (i % W) \in 0 .. W - 1
    BY DivMod, WAssumption
  <2>2. i \in Members(bit_blocks') <=>
          i \in Nat /\ i \div W + 1 \in 1 .. Len(bit_blocks) /\ (i % W) \in bit_blocks'[i \div W + 1]
    BY <1>3, MembersMean
  <2>3. i \in 0 .. c - 1 <=> i \in Nat /\ i \div W + 1 \in 1 .. Len(bit_blocks)
    BY <1>2, BelowCapacity
  <2>4. i \div W + 1 \in 1 .. Len(bit_blocks) => bit_blocks'[i \div W + 1] = 0 .. W - 1
    BY <1>1, <1>3
  <2> QED BY <2>1, <2>2, <2>3, <2>4
<1>5. c \in Nat
  BY <1>2, BlockFacts
<1>6. Cardinality(0 .. c - 1) = c
  BY <1>5, Interval
<1>7. active_count' = CountOnes(bit_blocks')
  BY <1>1, <1>4, <1>6 DEF CountOnes
<1> QED BY <1>1, <1>3, <1>4, <1>7, Replaced DEF Numbers!Fill

LEMMA ResetAllStep == ASSUME IInv, ResetAll PROVE IInv' /\ Numbers!Clear
<1>1. /\ bit_blocks' = [k \in DOMAIN bit_blocks |-> {}]
      /\ active_count' = 0 /\ miscounted' = FALSE
  BY DEF ResetAll
<1>2. bit_blocks \in BlockSeq
  BY DEF IInv, TypeOK, BlockSeq
<1>3. /\ bit_blocks' \in BlockSeq /\ Len(bit_blocks') = Len(bit_blocks)
      /\ Capacity(bit_blocks') = Capacity(bit_blocks) /\ DOMAIN bit_blocks = 1 .. Len(bit_blocks)
  <2>1. /\ bit_blocks' = [k \in DOMAIN bit_blocks |-> bit_blocks'[k]]
        /\ \A k \in DOMAIN bit_blocks : bit_blocks'[k] \subseteq 0 .. W - 1
    BY <1>1
  <2> QED BY <2>1, <1>2, EveryWord
<1>4. Members(bit_blocks') = {}
  <2> SUFFICES ASSUME NEW i PROVE i \notin Members(bit_blocks')
    OBVIOUS
  <2>1. i \in Members(bit_blocks') =>
          i \div W + 1 \in 1 .. Len(bit_blocks) /\ (i % W) \in bit_blocks'[i \div W + 1]
    BY <1>3, MembersMean
  <2> QED BY <2>1, <1>1, <1>3
<1>5. CountOnes(bit_blocks') = 0
  <2>1. Cardinality({}) = 0 /\ CountMod \in Nat \ {0}
    BY FS_EmptySet, CountAssumption
  <2>2. 0 % CountMod = 0
    BY <2>1
  <2> QED BY <2>1, <2>2, <1>4 DEF CountOnes
<1> QED BY <1>1, <1>3, <1>4, <1>5, Replaced DEF Numbers!Clear

LEMMA FlipAllStep == ASSUME IInv, FlipAll PROVE IInv' /\ Numbers!Complement
<1> DEFINE c == Capacity(bit_blocks)
           m == Cardinality(Members(bit_blocks))
<1>1. /\ bit_blocks' = [k \in DOMAIN bit_blocks |-> (0 .. W - 1) \ bit_blocks[k]]
      /\ active_count' = (c + CountMod - active_count) % CountMod
      /\ miscounted' = miscounted
  BY DEF FlipAll
<1>2. bit_blocks \in BlockSeq /\ active_count \in 0 .. CountMod - 1 /\ miscounted \in BOOLEAN
  BY DEF IInv, TypeOK, BlockSeq
<1>3. /\ bit_blocks' \in BlockSeq /\ Len(bit_blocks') = Len(bit_blocks)
      /\ Capacity(bit_blocks') = c /\ DOMAIN bit_blocks = 1 .. Len(bit_blocks)
  <2>1. /\ bit_blocks' = [k \in DOMAIN bit_blocks |-> bit_blocks'[k]]
        /\ \A k \in DOMAIN bit_blocks : bit_blocks'[k] \subseteq 0 .. W - 1
    BY <1>1
  <2> QED BY <2>1, <1>2, EveryWord
<1>4. Members(bit_blocks') = (0 .. c - 1) \ Members(bit_blocks)
  <2> SUFFICES ASSUME NEW i
               PROVE  i \in Members(bit_blocks') <=> i \in 0 .. c - 1 /\ i \notin Members(bit_blocks)
    OBVIOUS
  <2> DEFINE k == i \div W + 1
  <2>1. i \in Nat => (i % W) \in 0 .. W - 1
    BY DivMod, WAssumption
  <2>2. i \in Members(bit_blocks') <=>
          i \in Nat /\ k \in 1 .. Len(bit_blocks) /\ (i % W) \in bit_blocks'[k]
    BY <1>3, MembersMean
  <2>3. i \in 0 .. c - 1 <=> i \in Nat /\ k \in 1 .. Len(bit_blocks)
    BY <1>2, BelowCapacity
  <2>4. i \in Members(bit_blocks) <=>
          i \in Nat /\ k \in 1 .. Len(bit_blocks) /\ (i % W) \in bit_blocks[k]
    BY <1>2, MembersMean
  <2>5. k \in 1 .. Len(bit_blocks) => bit_blocks'[k] = (0 .. W - 1) \ bit_blocks[k]
    BY <1>1, <1>3
  <2> HIDE DEF k, c
  <2> QED BY <2>1, <2>2, <2>3, <2>4, <2>5
<1>5. /\ c \in Nat /\ m \in Nat /\ m <= c /\ CountMod \in Nat \ {0}
      /\ Members(bit_blocks) \subseteq 0 .. c - 1
  BY <1>2, BlockFacts, MembersFinite, CountAssumption
<1>6. TypeOK'
  <2> HIDE DEF c
  <2>1. CountMod - active_count \in Nat /\ c + CountMod - active_count \in Nat
    BY <1>2, <1>5
  <2>2. active_count' \in 0 .. CountMod - 1
    BY <2>1, <1>1, <1>5, DivMod
  <2> QED BY <2>2, <1>1, <1>2, <1>3 DEF TypeOK, BlockSeq
<1>7. CountModulo'
  <2> SUFFICES ASSUME ~miscounted PROVE active_count' = CountOnes(bit_blocks')
    BY <1>1 DEF CountModulo
  <2>1. active_count = m % CountMod
    BY DEF IInv, CountModulo, CountOnes
  <2>2. Cardinality((0 .. c - 1) \ Members(bit_blocks)) = c - m
    <3>1. IsFiniteSet(0 .. c - 1) /\ Cardinality(0 .. c - 1) = c
      BY <1>5, Interval
    <3>2. (0 .. c - 1) \cap Members(bit_blocks) = Members(bit_blocks)
      BY <1>5
    <3> QED BY <3>1, <3>2, FS_Difference
  <2> HIDE DEF c, m
  <2>3. (c + CountMod - (m % CountMod)) % CountMod = (c - m) % CountMod
    BY <1>5, ModRest
  <2> QED BY <2>1, <2>2, <2>3, <1>1, <1>4 DEF CountOnes
<1> QED BY <1>3, <1>4, <1>6, <1>7 DEF IInv, Numbers!Complement

-----------------------------------------------------------------------------
(* Two sets *)

\* What a combination of two sets has to know of them.
LEMMA Operated ==
    ASSUME IInv, NEW rhs \in Operands
    PROVE  /\ bit_blocks \in BlockSeq /\ rhs \in BlockSeq
           /\ Len(bit_blocks) \in Nat /\ Len(rhs) \in Nat /\ W \in Nat \ {0}
           /\ DOMAIN bit_blocks = 1 .. Len(bit_blocks) /\ DOMAIN rhs = 1 .. Len(rhs)
           /\ \A k \in 1 .. Len(bit_blocks) : bit_blocks[k] \subseteq 0 .. W - 1
           /\ \A k \in 1 .. Len(rhs) : rhs[k] \subseteq 0 .. W - 1
           /\ Capacity(bit_blocks) = W * Len(bit_blocks) /\ Capacity(rhs) = W * Len(rhs)
           /\ Capacity(bit_blocks) < Capacity(rhs) <=> Len(bit_blocks) < Len(rhs)
           /\ Operand(rhs).members = Members(rhs) /\ Operand(rhs).capacity = Capacity(rhs)
<1>1. bit_blocks \in BlockSeq /\ rhs \in BlockSeq
  BY OperandsAssumption DEF IInv, TypeOK, BlockSeq
<1> DEFINE l == Len(bit_blocks)
           r == Len(rhs)
<1>2. l \in Nat /\ r \in Nat /\ W \in Nat \ {0}
  BY <1>1, BlockFacts, WAssumption
<1>3. Capacity(bit_blocks) = W * l /\ Capacity(rhs) = W * r
  BY <1>1, BlockFacts
<1> HIDE DEF l, r
<1>4. W * l < W * r <=> l < r
  BY ONLY <1>2
<1> QED BY <1>1, <1>2, <1>3, <1>4, BlockFacts DEF Operand, l, r

LEMMA AndStep ==
    ASSUME IInv, NEW rhs \in Operands, And(rhs)
    PROVE  IInv' /\ Numbers!Intersect(Operand(rhs))
<1> DEFINE l == Len(bit_blocks)
           r == Len(rhs)
           n == IF l < r THEN l ELSE r
<1>1. /\ bit_blocks' = [k \in DOMAIN bit_blocks \cap DOMAIN rhs |-> bit_blocks[k] \cap rhs[k]]
      /\ active_count' = CountOnes(bit_blocks') /\ miscounted' = FALSE
  BY DEF And, Recounted
<1>2. /\ bit_blocks \in BlockSeq /\ rhs \in BlockSeq /\ l \in Nat /\ r \in Nat
      /\ DOMAIN bit_blocks = 1 .. l /\ DOMAIN rhs = 1 .. r
      /\ \A k \in 1 .. l : bit_blocks[k] \subseteq 0 .. W - 1
      /\ Capacity(bit_blocks) = W * l /\ Capacity(rhs) = W * r
      /\ Capacity(bit_blocks) < Capacity(rhs) <=> l < r
      /\ Operand(rhs).members = Members(rhs) /\ Operand(rhs).capacity = Capacity(rhs)
  BY Operated
<1>3. (1 .. l) \cap (1 .. r) = 1 .. n /\ n \in Nat
  <2> HIDE DEF l, r
  <2> QED BY <1>2
<1>4. bit_blocks' \in BlockSeq /\ Len(bit_blocks') = n
  <2>1. /\ bit_blocks' = [k \in 1 .. n |-> bit_blocks'[k]]
        /\ \A k \in 1 .. n : bit_blocks'[k] \subseteq 0 .. W - 1
    <3> HIDE DEF l, r, n
    <3> QED BY <1>1, <1>2, <1>3
  <2> HIDE DEF n
  <2> QED BY <2>1, <1>3, MadeBlocks
<1> HIDE DEF n
<1>5. Members(bit_blocks') = Members(bit_blocks) \cap Members(rhs)
  <2> SUFFICES ASSUME NEW i
               PROVE  i \in Members(bit_blocks') <=> i \in Members(bit_blocks) /\ i \in Members(rhs)
    OBVIOUS
  <2> DEFINE k == i \div W + 1
  <2>1. /\ i \in Members(bit_blocks') <=> i \in Nat /\ k \in 1 .. n /\ (i % W) \in bit_blocks'[k]
        /\ i \in Members(bit_blocks) <=> i \in Nat /\ k \in 1 .. l /\ (i % W) \in bit_blocks[k]
        /\ i \in Members(rhs) <=> i \in Nat /\ k \in 1 .. r /\ (i % W) \in rhs[k]
    BY <1>2, <1>4, MembersMean
  <2> HIDE DEF k, l, r
  <2>2. /\ k \in 1 .. n <=> k \in 1 .. l /\ k \in 1 .. r
        /\ k \in 1 .. n => bit_blocks'[k] = bit_blocks[k] \cap rhs[k]
    BY <1>1, <1>2, <1>3
  <2> QED BY <2>1, <2>2
<1>6. Capacity(bit_blocks') = IF Capacity(bit_blocks) < Capacity(rhs)
                              THEN Capacity(bit_blocks) ELSE Capacity(rhs)
  BY <1>2, <1>4 DEF Capacity, n
<1>7. Numbers!Intersect(Operand(rhs))
  BY <1>2, <1>5, <1>6 DEF Numbers!Intersect, Numbers!Smaller
<1> QED BY <1>1, <1>4, <1>7, Replaced

\* The words of a combination that keeps those of the longer set.
LEMMA Merged ==
    ASSUME IInv, NEW rhs \in Operands, NEW f,
           f = [k \in DOMAIN Longer(bit_blocks, rhs) |-> f[k]],
           \A k \in 1 .. Len(f) : f[k] \subseteq 0 .. W - 1
    PROVE  /\ f \in BlockSeq
           /\ Len(f) = Len(Longer(bit_blocks, rhs))
           /\ Capacity(f) = IF Capacity(bit_blocks) < Capacity(rhs)
                            THEN Capacity(rhs) ELSE Capacity(bit_blocks)
<1> DEFINE m == Longer(bit_blocks, rhs)
<1>1. /\ m \in BlockSeq
      /\ Capacity(m) = IF Capacity(bit_blocks) < Capacity(rhs)
                       THEN Capacity(rhs) ELSE Capacity(bit_blocks)
  BY Operated DEF Longer
<1> HIDE DEF m
<1>2. Len(m) \in Nat /\ DOMAIN m = 1 .. Len(m)
  BY <1>1, BlockFacts
<1>3. f = [k \in 1 .. Len(m) |-> f[k]]
  BY <1>2 DEF m
<1>4. Len(f) = Len(m)
  <2>1. f \in [1 .. Len(m) -> {f[k] : k \in 1 .. Len(m)}]
    BY <1>3
  <2>2. f \in Seq({f[k] : k \in 1 .. Len(m)}) /\ DOMAIN f = 1 .. Len(m)
    BY <2>1, <1>2, SeqDef
  <2> QED BY <2>2, <1>2, LenProperties
<1>5. f \in BlockSeq
  BY <1>2, <1>3, <1>4, MadeBlocks
<1>6. Capacity(f) = Capacity(m)
  BY <1>4 DEF Capacity
<1> QED BY <1>1, <1>4, <1>5, <1>6 DEF m

LEMMA OrStep ==
    ASSUME IInv, NEW rhs \in Operands, Or(rhs)
    PROVE  IInv' /\ Numbers!Unite(Operand(rhs))
<1> DEFINE l == Len(bit_blocks)
           r == Len(rhs)
           min == Shorter(bit_blocks, rhs)
           max == Longer(bit_blocks, rhs)
<1>1. /\ bit_blocks' = [k \in DOMAIN max |-> IF k \in DOMAIN min THEN max[k] \cup min[k] ELSE max[k]]
      /\ active_count' = CountOnes(bit_blocks') /\ miscounted' = FALSE
  BY DEF Or, Recounted
<1>2. /\ bit_blocks \in BlockSeq /\ rhs \in BlockSeq /\ l \in Nat /\ r \in Nat
      /\ DOMAIN bit_blocks = 1 .. l /\ DOMAIN rhs = 1 .. r
      /\ \A k \in 1 .. l : bit_blocks[k] \subseteq 0 .. W - 1
      /\ \A k \in 1 .. r : rhs[k] \subseteq 0 .. W - 1
      /\ Operand(rhs).members = Members(rhs) /\ Operand(rhs).capacity = Capacity(rhs)
  BY Operated
<1>3. \/ l < r /\ min = bit_blocks /\ max = rhs
      \/ ~(l < r) /\ min = rhs /\ max = bit_blocks
  BY DEF Shorter, Longer
<1> HIDE DEF min, max, l, r
<1>4. \A k : \A b : (k \in DOMAIN bit_blocks' /\ b \in bit_blocks'[k]) <=>
               (k \in 1 .. l /\ b \in bit_blocks[k]) \/ (k \in 1 .. r /\ b \in rhs[k])
  <2>1. CASE l < r /\ min = bit_blocks /\ max = rhs
    <3>1. \A k \in 1 .. l : k \in 1 .. r
      BY <2>1, <1>2
    <3> QED BY <2>1, <3>1, <1>1, <1>2
  <2>2. CASE ~(l < r) /\ min = rhs /\ max = bit_blocks
    <3>1. \A k \in 1 .. r : k \in 1 .. l
      BY <2>2, <1>2
    <3> QED BY <2>2, <3>1, <1>1, <1>2
  <2> QED BY <1>3, <2>1, <2>2
<1>5. /\ bit_blocks' = [k \in DOMAIN max |-> bit_blocks'[k]]
      /\ \A k \in DOMAIN bit_blocks' : bit_blocks'[k] \subseteq 0 .. W - 1
  <2>1. bit_blocks' = [k \in DOMAIN max |-> bit_blocks'[k]]
    BY <1>1
  <2>2. \A k \in DOMAIN bit_blocks' : bit_blocks'[k] \subseteq 0 .. W - 1
    BY <1>2, <1>4
  <2> QED BY <2>1, <2>2
<1>6. /\ bit_blocks' \in BlockSeq
      /\ Capacity(bit_blocks') = IF Capacity(bit_blocks) < Capacity(rhs)
                                 THEN Capacity(rhs) ELSE Capacity(bit_blocks)
  <2>1. DOMAIN bit_blocks' = DOMAIN max /\ max \in BlockSeq
    BY <1>1, <1>2, <1>3
  <2>2. DOMAIN bit_blocks' = 1 .. Len(max) /\ Len(max) \in Nat
    BY <2>1, BlockFacts
  <2>3. Len(bit_blocks') = Len(max)
    BY <2>1, <2>2, <1>5, MadeBlocks
  <2> QED BY <2>2, <2>3, <1>5, Merged DEF max
<1>7. DOMAIN bit_blocks' = 1 .. Len(bit_blocks')
  BY <1>6, BlockFacts
<1>8. Members(bit_blocks') = Members(bit_blocks) \cup Members(rhs)
  <2> SUFFICES ASSUME NEW i
               PROVE  i \in Members(bit_blocks') <=> i \in Members(bit_blocks) \/ i \in Members(rhs)
    OBVIOUS
  <2> DEFINE k == i \div W + 1
  <2>1. /\ i \in Members(bit_blocks') <=>
             i \in Nat /\ k \in 1 .. Len(bit_blocks') /\ (i % W) \in bit_blocks'[k]
        /\ i \in Members(bit_blocks) <=> i \in Nat /\ k \in 1 .. l /\ (i % W) \in bit_blocks[k]
        /\ i \in Members(rhs) <=> i \in Nat /\ k \in 1 .. r /\ (i % W) \in rhs[k]
    BY <1>2, <1>6, MembersMean DEF l, r
  <2> HIDE DEF k
  <2> QED BY <2>1, <1>4, <1>7
<1>9. Numbers!Unite(Operand(rhs))
  BY <1>2, <1>6, <1>8 DEF Numbers!Unite, Numbers!Larger
<1> QED BY <1>1, <1>6, <1>9, Replaced

LEMMA XorStep ==
    ASSUME IInv, NEW rhs \in Operands, Xor(rhs)
    PROVE  IInv' /\ Numbers!Differ(Operand(rhs))
<1> DEFINE l == Len(bit_blocks)
           r == Len(rhs)
           min == Shorter(bit_blocks, rhs)
           max == Longer(bit_blocks, rhs)
<1>1. /\ bit_blocks' = [k \in DOMAIN max |-> IF k \in DOMAIN min THEN Xored(max[k], min[k]) ELSE max[k]]
      /\ active_count' = CountOnes(bit_blocks') /\ miscounted' = FALSE
  BY DEF Xor, Recounted
<1>2. /\ bit_blocks \in BlockSeq /\ rhs \in BlockSeq /\ l \in Nat /\ r \in Nat
      /\ DOMAIN bit_blocks = 1 .. l /\ DOMAIN rhs = 1 .. r
      /\ \A k \in 1 .. l : bit_blocks[k] \subseteq 0 .. W - 1
      /\ \A k \in 1 .. r : rhs[k] \subseteq 0 .. W - 1
      /\ Operand(rhs).members = Members(rhs) /\ Operand(rhs).capacity = Capacity(rhs)
  BY Operated
<1>3. \/ l < r /\ min = bit_blocks /\ max = rhs
      \/ ~(l < r) /\ min = rhs /\ max = bit_blocks
  BY DEF Shorter, Longer
<1> HIDE DEF min, max, l, r
<1>4. \A k : \A b : (k \in DOMAIN bit_blocks' /\ b \in bit_blocks'[k]) <=>
               ~((k \in 1 .. l /\ b \in bit_blocks[k]) <=> (k \in 1 .. r /\ b \in rhs[k]))
  <2>1. CASE l < r /\ min = bit_blocks /\ max = rhs
    <3>1. \A k \in 1 .. l : k \in 1 .. r
      BY <2>1, <1>2
    <3> QED BY <2>1, <3>1, <1>1, <1>2 DEF Xored
  <2>2. CASE ~(l < r) /\ min = rhs /\ max = bit_blocks
    <3>1. \A k \in 1 .. r : k \in 1 .. l
      BY <2>2, <1>2
    <3> QED BY <2>2, <3>1, <1>1, <1>2 DEF Xored
  <2> QED BY <1>3, <2>1, <2>2
<1>5. /\ bit_blocks' = [k \in DOMAIN max |-> bit_blocks'[k]]
      /\ \A k \in DOMAIN bit_blocks' : bit_blocks'[k] \subseteq 0 .. W - 1
  <2>1. bit_blocks' = [k \in DOMAIN max |-> bit_blocks'[k]]
    BY <1>1
  <2>2. \A k \in DOMAIN bit_blocks' : bit_blocks'[k] \subseteq 0 .. W - 1
    BY <1>2, <1>4
  <2> QED BY <2>1, <2>2
<1>6. /\ bit_blocks' \in BlockSeq
      /\ Capacity(bit_blocks') = IF Capacity(bit_blocks) < Capacity(rhs)
                                 THEN Capacity(rhs) ELSE Capacity(bit_blocks)
  <2>1. DOMAIN bit_blocks' = DOMAIN max /\ max \in BlockSeq
    BY <1>1, <1>2, <1>3
  <2>2. DOMAIN bit_blocks' = 1 .. Len(max) /\ Len(max) \in Nat
    BY <2>1, BlockFacts
  <2>3. Len(bit_blocks') = Len(max)
    BY <2>1, <2>2, <1>5, MadeBlocks
  <2> QED BY <2>2, <2>3, <1>5, Merged DEF max
<1>7. DOMAIN bit_blocks' = 1 .. Len(bit_blocks')
  BY <1>6, BlockFacts
<1>8. Members(bit_blocks') =
        (Members(bit_blocks) \ Members(rhs)) \cup (Members(rhs) \ Members(bit_blocks))
  <2> SUFFICES ASSUME NEW i
               PROVE  i \in Members(bit_blocks') <=>
                        ~(i \in Members(bit_blocks) <=> i \in Members(rhs))
    OBVIOUS
  <2> DEFINE k == i \div W + 1
  <2>1. /\ i \in Members(bit_blocks') <=>
             i \in Nat /\ k \in 1 .. Len(bit_blocks') /\ (i % W) \in bit_blocks'[k]
        /\ i \in Members(bit_blocks) <=> i \in Nat /\ k \in 1 .. l /\ (i % W) \in bit_blocks[k]
        /\ i \in Members(rhs) <=> i \in Nat /\ k \in 1 .. r /\ (i % W) \in rhs[k]
    BY <1>2, <1>6, MembersMean DEF l, r
  <2> HIDE DEF k
  <2> QED BY <2>1, <1>4, <1>7
<1>9. Numbers!Differ(Operand(rhs))
  BY <1>2, <1>6, <1>8 DEF Numbers!Differ, Numbers!Larger
<1> QED BY <1>1, <1>6, <1>9, Replaced

-----------------------------------------------------------------------------
(* Construction *)

\* Byte j of word q is byte q * perWord + j of the slice.
LEMMA BytePosition ==
    ASSUME NEW B \in Nat \ {0}, NEW p \in Nat \ {0},
           NEW q \in Nat, NEW j \in 0 .. p - 1, NEW b \in 0 .. B - 1
    PROVE  /\ B * j + b \in 0 .. B * p - 1
           /\ (B * p) * q + (B * j + b) = (q * p + j) * B + b
<1>1. B * j + b \in Nat
  OBVIOUS
<1>2. j + 1 <= p /\ b < B
  OBVIOUS
<1>3. B * (j + 1) <= B * p
  BY <1>2
<1>4. B * j + b < B * p
  BY <1>2, <1>3
<1>5. (B * p) * q = (q * p) * B /\ B * j = j * B
  OBVIOUS
<1>6. (q * p + j) * B = (q * p) * B + j * B
  OBVIOUS
<1>7. B * p \in Nat /\ (q * p) * B \in Nat
  OBVIOUS
<1> QED BY <1>1, <1>4, <1>5, <1>6, <1>7

\* Whole bytes are rounded up to whole words as their bits are.
LEMMA BytesOfWords ==
    ASSUME NEW B \in Nat \ {0}, NEW p \in Nat \ {0}, NEW n \in Nat
    PROVE  (n + p - 1) \div p = (B * n + B * p - 1) \div (B * p)
<1> PICK k : k = (n + p - 1) \div p
  OBVIOUS
<1>1. k \in Nat /\ n <= p * k /\ p * k < n + p
  BY Ceiling
<1> PICK m : m = p * k
  OBVIOUS
<1>2. m \in Nat /\ n <= m /\ m < n + p
  BY <1>1
<1>3. B * n <= B * m /\ B * m < B * (n + p)
  BY ONLY <1>2, B \in Nat \ {0}, n \in Nat, p \in Nat \ {0}
<1>4. B * (n + p) = B * n + B * p
  OBVIOUS
<1>5. B * m = (B * p) * k
  BY <1>1
<1>6. B * p \in Nat \ {0} /\ B * n \in Nat
  OBVIOUS
<1> QED BY <1>1, <1>3, <1>4, <1>5, <1>6, CeilingUnique

LEMMA ZerosFacts ==
    ASSUME NEW n \in Nat
    PROVE  Zeros(n) \in BlockSeq /\ Capacity(Zeros(n)) = W * n /\ Members(Zeros(n)) = {}
<1> PICK z : z = Zeros(n)
  OBVIOUS
<1>1. z = [k \in 1 .. n |-> z[k]] /\ \A k \in 1 .. n : z[k] = {}
  BY DEF Zeros
<1>2. z \in BlockSeq /\ Len(z) = n
  BY <1>1, MadeBlocks
<1>3. \A i : i \notin Members(z)
  BY <1>1, <1>2, MembersMean
<1> QED BY <1>2, <1>3 DEF Capacity

\* A set read from bytes has the bits of the bytes, in their order
\* (bitset.rs: from_byte_slice).
LEMMA FromBytesFacts ==
    ASSUME NEW bytes \in Slices
    PROVE  /\ FromBytes(bytes) \in BlockSeq
           /\ Capacity(FromBytes(bytes)) = Numbers!Words(ByteBits * Len(bytes))
           /\ Members(FromBytes(bytes)) = Numbers!BitsOf(bytes)
<1> PICK p, n, f : p = W \div ByteBits /\ n = Len(bytes) /\ f = FromBytes(bytes)
  OBVIOUS
<1>1. ByteBits \in Nat \ {0} /\ p \in Nat \ {0} /\ W = ByteBits * p
  <2>1. W \in Nat \ {0} /\ ByteBits \in Nat \ {0} /\ W % ByteBits = 0
    BY WAssumption
  <2>2. p \in Nat /\ W = ByteBits * p + (W % ByteBits)
    BY ONLY <2>1, DivMod, p = W \div ByteBits
  <2>3. ByteBits * p \in Nat
    BY <2>1, <2>2
  <2>4. W = ByteBits * p
    BY ONLY <2>1, <2>2, <2>3
  <2>5. p # 0
    BY ONLY <2>1, <2>4
  <2> QED BY <2>1, <2>2, <2>4, <2>5
<1>2. /\ n \in Nat /\ DOMAIN bytes = 1 .. n
      /\ \A k \in 1 .. n : bytes[k] \subseteq 0 .. ByteBits - 1
  BY SlicesAssumption, LenProperties, ElementOfSeq
<1> PICK len : len = (n + p - 1) \div p
  OBVIOUS
<1>3. len \in Nat /\ n <= p * len
  BY <1>1, <1>2, Ceiling
<1> DEFINE at(k, j) == (k - 1) * p + j
           word(k) == UNION {{ByteBits * j + b : b \in bytes[at(k, j) + 1]} :
                               j \in {j \in 0 .. p - 1 : at(k, j) < n}}
<1>4. f = [k \in 1 .. len |-> word(k)]
  BY DEF FromBytes
<1>5. \A k : \A r : r \in word(k) <=>
        \E j \in 0 .. p - 1 : at(k, j) < n /\ \E b \in bytes[at(k, j) + 1] : r = ByteBits * j + b
  OBVIOUS
<1>6. \A q \in Nat : \A j \in 0 .. p - 1 : \A b \in 0 .. ByteBits - 1 :
        /\ ByteBits * j + b \in 0 .. W - 1
        /\ W * q + (ByteBits * j + b) = (q * p + j) * ByteBits + b
  <2> SUFFICES ASSUME NEW q \in Nat, NEW j \in 0 .. p - 1, NEW b \in 0 .. ByteBits - 1
               PROVE  /\ ByteBits * j + b \in 0 .. W - 1
                      /\ W * q + (ByteBits * j + b) = (q * p + j) * ByteBits + b
    OBVIOUS
  <2>1. /\ ByteBits * j + b \in 0 .. ByteBits * p - 1
        /\ (ByteBits * p) * q + (ByteBits * j + b) = (q * p + j) * ByteBits + b
    BY <1>1, BytePosition
  <2> QED BY ONLY <2>1, <1>1, Zenon
<1> HIDE DEF word, at
<1>7. \A k \in 1 .. len : word(k) \subseteq 0 .. W - 1
  <2> SUFFICES ASSUME NEW k \in 1 .. len, NEW r, r \in word(k) PROVE r \in 0 .. W - 1
    OBVIOUS
  <2>1. PICK j \in 0 .. p - 1 : at(k, j) < n /\ \E b \in bytes[at(k, j) + 1] : r = ByteBits * j + b
    BY <1>5
  <2>2. at(k, j) \in Nat
    <3>1. k - 1 \in Nat /\ j \in Nat /\ p \in Nat
      BY <1>1
    <3>2. (k - 1) * p \in Nat
      BY <3>1
    <3> QED BY <3>1, <3>2 DEF at
  <2>3. at(k, j) + 1 \in 1 .. n
    BY <2>1, <2>2, <1>2
  <2>4. PICK b \in 0 .. ByteBits - 1 : r = ByteBits * j + b
    BY <2>1, <2>3, <1>2
  <2> QED BY <2>4, <1>6
<1>8. f \in BlockSeq /\ Len(f) = len
  <2> HIDE DEF word
  <2>1. f = [k \in 1 .. len |-> f[k]] /\ \A k \in 1 .. len : f[k] \subseteq 0 .. W - 1
    BY <1>4, <1>7
  <2> QED BY <2>1, <1>3, MadeBlocks
<1>9. Capacity(f) = Numbers!Words(ByteBits * n)
  <2>1. len = (ByteBits * n + ByteBits * p - 1) \div (ByteBits * p)
    BY <1>1, <1>2, BytesOfWords
  <2>2. len = (ByteBits * n + W - 1) \div W
    BY ONLY <2>1, <1>1, Zenon
  <2> QED BY <2>2, <1>8 DEF Capacity, Numbers!Words
<1>10. \A k \in Nat \ {0} : \A j \in 0 .. p - 1 : at(k, j) = (k - 1) * p + j /\ at(k, j) \in Nat
  <2> SUFFICES ASSUME NEW k \in Nat \ {0}, NEW j \in 0 .. p - 1
               PROVE  at(k, j) = (k - 1) * p + j /\ at(k, j) \in Nat
    OBVIOUS
  <2>1. k - 1 \in Nat /\ j \in Nat /\ p \in Nat
    BY <1>1
  <2>2. (k - 1) * p \in Nat
    BY <2>1
  <2> QED BY <2>1, <2>2 DEF at
<1>11. \A i : i \in Numbers!BitsOf(bytes) <=>
         \E m \in 1 .. n : \E b \in bytes[m] : i = (m - 1) * ByteBits + b
  BY <1>2 DEF Numbers!BitsOf
<1>12. ASSUME NEW i \in Members(f) PROVE i \in Numbers!BitsOf(bytes)
  <2> PICK q, k : q = i \div W /\ k = q + 1
    OBVIOUS
  <2>1. i \in Nat /\ k \in 1 .. len /\ (i % W) \in f[k]
    BY <1>8, MembersMean
  <2>2. q \in Nat /\ i = W * q + (i % W)
    BY <2>1, DivMod, WAssumption
  <2>3. (i % W) \in word(k)
    BY <2>1, <1>4
  <2>4. PICK j \in 0 .. p - 1 :
          at(k, j) < n /\ \E b \in bytes[at(k, j) + 1] : (i % W) = ByteBits * j + b
    BY <2>3, <1>5
  <2>5. at(k, j) = q * p + j /\ at(k, j) \in Nat
    <3>1. k \in Nat \ {0} /\ k - 1 = q
      BY <2>1, <2>2
    <3> QED BY <3>1, <1>10
  <2>6. at(k, j) + 1 \in 1 .. n
    BY <2>4, <2>5, <1>2
  <2>7. PICK b \in bytes[at(k, j) + 1] : (i % W) = ByteBits * j + b
    BY <2>4
  <2>8. b \in 0 .. ByteBits - 1
    BY <2>6, <2>7, <1>2
  <2>9. i = (q * p + j) * ByteBits + b
    BY ONLY <2>2, <2>7, <2>8, <1>6, q \in Nat, j \in 0 .. p - 1, Zenon
  <2>10. (at(k, j) + 1) - 1 = q * p + j
    BY ONLY <2>5
  <2> QED BY <2>6, <2>7, <2>9, <2>10, <1>11
<1>13. ASSUME NEW i \in Numbers!BitsOf(bytes) PROVE i \in Members(f)
  <2>1. PICK m \in 1 .. n : \E b \in bytes[m] : i = (m - 1) * ByteBits + b
    BY <1>11
  <2>2. PICK b \in bytes[m] : i = (m - 1) * ByteBits + b
    BY <2>1
  <2>3. b \in 0 .. ByteBits - 1
    BY <1>2
  <2> PICK t : t = m - 1
    OBVIOUS
  <2>4. t \in Nat /\ t < n /\ m = t + 1
    BY <1>2
  <2> PICK q, j : q = t \div p /\ j = t % p
    OBVIOUS
  <2>5. q \in Nat /\ j \in 0 .. p - 1 /\ t = p * q + j
    BY ONLY <1>1, <2>4, DivMod, q = t \div p, j = t % p
  <2>6. t = q * p + j
    BY ONLY <2>5, <1>1
  <2>7. i = W * q + (ByteBits * j + b) /\ ByteBits * j + b \in 0 .. W - 1
    <3>1. i = (q * p + j) * ByteBits + b
      BY ONLY <2>2, <2>6, t = m - 1
    <3> QED BY ONLY <3>1, <2>3, <2>5, <1>6, Zenon
  <2>8. i \div W = q /\ i % W = ByteBits * j + b
    BY ONLY <2>5, <2>7, DivUnique, WAssumption
  <2>9. q < len
    <3>1. t < p * len
      <4>1. p * len \in Nat
        BY <1>1, <1>3
      <4> QED BY ONLY <4>1, <2>4, <1>2, <1>3
    <3> QED BY ONLY <3>1, <2>4, <1>1, <1>3, DivBound, q = t \div p
  <2> PICK k : k = q + 1
    OBVIOUS
  <2>10. k \in 1 .. len /\ k \in Nat \ {0} /\ k - 1 = q
    BY ONLY <2>9, <2>5, <1>3, k = q + 1
  <2>11. at(k, j) = t
    BY <2>5, <2>6, <2>10, <1>10
  <2>12. (i % W) \in word(k)
    <3>1. at(k, j) < n /\ at(k, j) + 1 = m
      BY ONLY <2>4, <2>11
    <3>2. \E c \in bytes[at(k, j) + 1] : (i % W) = ByteBits * j + c
      BY ONLY <3>1, <2>2, <2>8, Zenon
    <3>3. j \in 0 .. p - 1
      BY <2>5
    <3> QED BY ONLY <3>1, <3>2, <3>3, <1>5
  <2>13. i \in Nat
    <3>1. W * q \in Nat
      BY ONLY <2>5, WAssumption
    <3>2. 0 .. W - 1 \subseteq Nat
      OBVIOUS
    <3> QED BY ONLY <3>1, <3>2, <2>7
  <2>14. i \div W + 1 = k
    BY <2>8
  <2> QED BY <2>10, <2>12, <2>13, <2>14, <1>4, <1>8, MembersMean
<1> QED BY <1>8, <1>9, <1>12, <1>13

-----------------------------------------------------------------------------
(* The iterators *)

\* The words an iterator has looked at.
Seen(kind, it) == it.idx + (IF kind = "iter" THEN 1 ELSE 0)

Wanted(kind, l, r) == Chosen(kind, Members(l), Members(r))

\* The members an iterator still has to yield: those of the word it holds and of
\* the words after it.
Left(kind, l, r, it) ==
    {x \in Wanted(kind, l, r) : \/ x \div W >= Seen(kind, it)
                                \/ x \div W + 1 = Seen(kind, it) /\ x % W \in it.word}

\* The word it holds is what is left of the last word it has looked at.
IterOK(kind, l, r, it) ==
    /\ it = [word |-> it.word, idx |-> it.idx]
    /\ it.idx \in Nat /\ it.word \subseteq 0 .. W - 1
    /\ it.word # {} =>
         /\ Seen(kind, it) - 1 \in 0 .. StopsAt(kind, l, r) - 1
         /\ it.word \subseteq Combined(kind, l, r, Seen(kind, it) - 1)

LEMMA WordFacts ==
    ASSUME NEW blocks \in BlockSeq, NEW q \in Nat
    PROVE  /\ WordAt(blocks, q) \subseteq 0 .. W - 1
           /\ q >= Len(blocks) => WordAt(blocks, q) = {}
<1>1. Len(blocks) \in Nat /\ \A k \in 1 .. Len(blocks) : blocks[k] \subseteq 0 .. W - 1
  BY BlockFacts
<1>2. q < Len(blocks) => q + 1 \in 1 .. Len(blocks)
  BY <1>1
<1> QED BY <1>1, <1>2 DEF WordAt

LEMMA MembersAt ==
    ASSUME NEW blocks \in BlockSeq, NEW x \in Nat
    PROVE  x \in Members(blocks) <=> (x % W) \in WordAt(blocks, x \div W)
<1> PICK q, b : q = x \div W /\ b = x % W
  OBVIOUS
<1>1. q \in Nat /\ b \in 0 .. W - 1
  BY DivMod, WAssumption
<1>2. Len(blocks) \in Nat
  BY BlockFacts
<1>3. x \in Members(blocks) <=> q + 1 \in 1 .. Len(blocks) /\ b \in blocks[q + 1]
  BY MembersMean
<1>4. q + 1 \in 1 .. Len(blocks) <=> q < Len(blocks)
  BY <1>1, <1>2
<1> QED BY <1>3, <1>4 DEF WordAt

LEMMA StopsAtType ==
    ASSUME NEW kind \in IterKinds, NEW l \in BlockSeq, NEW r \in BlockSeq
    PROVE  StopsAt(kind, l, r) \in Nat
<1>1. Len(l) \in Nat /\ Len(r) \in Nat
  BY BlockFacts
<1> QED BY <1>1 DEF StopsAt, Shorter, Longer, IterKinds

LEMMA CombinedType ==
    ASSUME NEW kind \in IterKinds, NEW l \in BlockSeq, NEW r \in BlockSeq, NEW q \in Nat
    PROVE  /\ Combined(kind, l, r, q) \subseteq 0 .. W - 1
           /\ Combined(kind, l, r, q) # {} => q < StopsAt(kind, l, r)
<1> PICK a, b : a = WordAt(l, q) /\ b = WordAt(r, q)
  OBVIOUS
<1>1. Len(l) \in Nat /\ Len(r) \in Nat
  BY BlockFacts
<1>2. /\ a \subseteq 0 .. W - 1 /\ (q >= Len(l) => a = {})
      /\ b \subseteq 0 .. W - 1 /\ (q >= Len(r) => b = {})
  BY WordFacts
<1>3. CASE kind = "iter"
  BY <1>1, <1>2, <1>3 DEF Combined, StopsAt
<1>4. CASE kind = "and"
  BY <1>1, <1>2, <1>4 DEF Combined, StopsAt, Shorter
<1>5. CASE kind = "or"
  BY <1>1, <1>2, <1>5 DEF Combined, StopsAt, Longer
<1>6. CASE kind = "xor"
  BY <1>1, <1>2, <1>6 DEF Combined, StopsAt, Longer, Xored
<1>7. CASE kind = "without"
  BY <1>1, <1>2, <1>7 DEF Combined, StopsAt
<1> QED BY <1>3, <1>4, <1>5, <1>6, <1>7 DEF IterKinds

\* A number is wanted if its bit is 1 in the word that is combined for it.
LEMMA WantedMean ==
    ASSUME NEW kind \in IterKinds, NEW l \in BlockSeq, NEW r \in BlockSeq, NEW x
    PROVE  x \in Wanted(kind, l, r) <=>
             x \in Nat /\ (x % W) \in Combined(kind, l, r, x \div W)
<1>1. x \in Wanted(kind, l, r) => x \in Members(l) \/ x \in Members(r)
  BY DEF Wanted, Chosen, IterKinds
<1>2. x \in Wanted(kind, l, r) => x \in Nat
  BY <1>1, MembersMean
<1> SUFFICES ASSUME x \in Nat
             PROVE  x \in Wanted(kind, l, r) <=> (x % W) \in Combined(kind, l, r, x \div W)
  BY <1>2
<1> PICK q, b : q = x \div W /\ b = x % W
  OBVIOUS
<1>3. /\ x \in Members(l) <=> b \in WordAt(l, q)
      /\ x \in Members(r) <=> b \in WordAt(r, q)
  BY MembersAt
<1> DEFINE m == Members(l)
           n == Members(r)
<1> HIDE DEF m, n
<1>4. /\ x \in m <=> b \in WordAt(l, q)
      /\ x \in n <=> b \in WordAt(r, q)
      /\ Wanted(kind, l, r) = Chosen(kind, m, n)
  BY <1>3 DEF m, n, Wanted
<1>5. x \in Chosen(kind, m, n) <=> b \in Combined(kind, l, r, q)
  BY <1>4 DEF Chosen, Combined, Xored, IterKinds
<1> QED BY <1>4, <1>5

LEMMA PlaceFacts ==
    ASSUME NEW kind \in IterKinds, NEW l \in BlockSeq, NEW r \in BlockSeq,
           NEW x \in Wanted(kind, l, r)
    PROVE  /\ x \in Nat /\ x \div W \in 0 .. StopsAt(kind, l, r) - 1
           /\ x % W \in 0 .. W - 1 /\ (x % W) \in Combined(kind, l, r, x \div W)
<1> PICK q, b : q = x \div W /\ b = x % W
  OBVIOUS
<1>1. x \in Nat /\ b \in Combined(kind, l, r, q)
  BY WantedMean
<1>2. q \in Nat /\ b \in 0 .. W - 1
  BY <1>1, DivMod, WAssumption
<1>3. StopsAt(kind, l, r) \in Nat /\ q < StopsAt(kind, l, r)
  BY <1>1, <1>2, StopsAtType, CombinedType
<1> QED BY <1>1, <1>2, <1>3

LEMMA SeenType ==
    ASSUME NEW kind, NEW it, it.idx \in Nat
    PROVE  Seen(kind, it) \in Nat
BY DEF Seen

LEMMA StartFacts ==
    ASSUME NEW kind \in IterKinds, NEW l \in BlockSeq, NEW r \in BlockSeq
    PROVE  /\ IterOK(kind, l, r, Start(kind, l))
           /\ Left(kind, l, r, Start(kind, l)) = Wanted(kind, l, r)
<1>1. CASE kind = "iter"
  <2> PICK it : it = Start(kind, l)
    OBVIOUS
  <2>1. it = [word |-> WordAt(l, 0), idx |-> 0] /\ Seen(kind, it) = 1
    BY <1>1 DEF Start, Seen
  <2>2. Combined(kind, l, r, 0) = WordAt(l, 0)
    BY <1>1 DEF Combined
  <2>3. IterOK(kind, l, r, it)
    <3>1. it.word = Combined(kind, l, r, 0) /\ Seen(kind, it) - 1 = 0
      BY <2>1, <2>2
    <3>2. StopsAt(kind, l, r) \in Nat
      BY StopsAtType
    <3>3. /\ it.word \subseteq 0 .. W - 1
          /\ it.word # {} => 0 < StopsAt(kind, l, r)
      BY <3>1, CombinedType
    <3> QED BY <2>1, <3>1, <3>2, <3>3 DEF IterOK
  <2>4. ASSUME NEW x \in Wanted(kind, l, r) PROVE x \in Left(kind, l, r, it)
    <3> PICK q, b : q = x \div W /\ b = x % W
      OBVIOUS
    <3>1. q \in Nat /\ b \in Combined(kind, l, r, q)
      BY PlaceFacts
    <3>2. q >= 1 \/ (q + 1 = 1 /\ b \in it.word)
      BY <2>1, <2>2, <3>1
    <3> QED BY <2>1, <3>2 DEF Left
  <2> QED BY <2>3, <2>4 DEF Left
<1>2. CASE kind # "iter"
  <2> PICK it : it = Start(kind, l)
    OBVIOUS
  <2>1. it = [word |-> {}, idx |-> 0] /\ Seen(kind, it) = 0
    BY <1>2 DEF Start, Seen
  <2>2. IterOK(kind, l, r, it)
    BY <2>1 DEF IterOK
  <2>3. ASSUME NEW x \in Wanted(kind, l, r) PROVE x \in Left(kind, l, r, it)
    <3>1. x \div W >= 0
      BY PlaceFacts
    <3> QED BY <2>1, <3>1 DEF Left
  <2> QED BY <2>2, <2>3 DEF Left
<1> QED BY <1>1, <1>2

\* The loop of next() passes over words without a bit only.
LEMMA LoadedFacts ==
    ASSUME NEW kind \in IterKinds, NEW l \in BlockSeq, NEW r \in BlockSeq,
           NEW it, IterOK(kind, l, r, it), NEW next, next = Loaded(kind, l, r, it)
    PROVE  /\ IterOK(kind, l, r, next)
           /\ Left(kind, l, r, next) = Left(kind, l, r, it)
           /\ next.word = {} => Left(kind, l, r, it) = {}
<1>1. CASE it.word # {}
  BY <1>1 DEF Loaded
<1>2. CASE it.word = {}
  <2> PICK ahead, n, stop : /\ ahead = (IF kind = "iter" THEN 1 ELSE 0)
                            /\ n = it.idx + ahead /\ stop = StopsAt(kind, l, r)
    OBVIOUS
  <2> PICK end : end = Max({stop, n})
    OBVIOUS
  <2>1. ahead \in {0, 1} /\ n \in Nat /\ stop \in Nat /\ Seen(kind, it) = n
    BY StopsAtType DEF IterOK, Seen
  <2>2. end \in {stop, n} /\ stop <= end /\ n <= end
    <3>1. stop \in Int /\ n \in Int
      BY <2>1
    <3> QED BY <3>1, MaxOfTwo, Zenon
  <2> PICK found : found = {k \in n .. end - 1 : Combined(kind, l, r, k) # {}}
    OBVIOUS
  <2>3. next = IF found = {} THEN [word |-> {}, idx |-> end]
               ELSE [word |-> Combined(kind, l, r, Min(found)), idx |-> Min(found) + 1 - ahead]
    BY <1>2 DEF Loaded
  <2>4. ASSUME NEW x \in Wanted(kind, l, r), x \div W >= n PROVE x \div W \in found
    <3> PICK q, b : q = x \div W /\ b = x % W
      OBVIOUS
    <3>1. q \in 0 .. stop - 1 /\ b \in Combined(kind, l, r, q) /\ q >= n
      BY <2>4, PlaceFacts
    <3> QED BY <2>1, <2>2, <3>1
  <2>5. \A x : x \in Left(kind, l, r, it) <=> x \in Wanted(kind, l, r) /\ x \div W >= n
    BY <1>2, <2>1 DEF Left
  <2>6. CASE found = {}
    <3>1. next = [word |-> {}, idx |-> end]
      BY <2>3, <2>6
    <3>2. Seen(kind, next) = end + ahead
      BY <3>1 DEF Seen
    <3>3. Left(kind, l, r, it) = {}
      BY <2>4, <2>5, <2>6
    <3>4. ASSUME NEW x \in Left(kind, l, r, next) PROVE FALSE
      <4>1. x \in Wanted(kind, l, r) /\ x \div W >= end + ahead
        BY <3>1, <3>2 DEF Left
      <4>2. x \div W \in Nat
        BY <4>1, PlaceFacts
      <4>3. x \div W >= n
        BY <2>1, <2>2, <4>1, <4>2
      <4> QED BY <2>4, <2>6, <4>1, <4>3
    <3>5. IterOK(kind, l, r, next)
      BY <2>1, <2>2, <3>1 DEF IterOK
    <3> QED BY <3>3, <3>4, <3>5
  <2>7. CASE found # {}
    <3> PICK m : m = Min(found)
      OBVIOUS
    <3>1. m \in found /\ \A k \in found : m <= k
      <4>1. found \in SUBSET Nat
        BY <2>1
      <4> QED BY <2>7, <4>1, LeastIsMin
    <3>2. m \in Nat /\ m >= n /\ m < stop /\ Combined(kind, l, r, m) # {}
      BY <2>1, <2>2, <3>1
    <3>3. next = [word |-> Combined(kind, l, r, m), idx |-> m + 1 - ahead]
      BY <2>3, <2>7
    <3>4. Seen(kind, next) = m + 1 /\ next.idx \in Nat
      BY <2>1, <3>2, <3>3 DEF Seen
    <3>5. IterOK(kind, l, r, next)
      <4>1. next.word = Combined(kind, l, r, m) /\ Combined(kind, l, r, m) \subseteq 0 .. W - 1
        <5>1. next.word = Combined(kind, l, r, m)
          BY <3>3
        <5> QED BY <3>2, <5>1, CombinedType
      <4>2. Seen(kind, next) - 1 = m /\ m \in 0 .. stop - 1
        BY <2>1, <3>2, <3>4
      <4> QED BY <3>3, <3>4, <4>1, <4>2 DEF IterOK
    <3>6. ASSUME NEW x \in Wanted(kind, l, r)
          PROVE  x \in Left(kind, l, r, next) <=> x \div W >= n
      <4> PICK q, b : q = x \div W /\ b = x % W
        OBVIOUS
      <4>1. q \in Nat /\ b \in Combined(kind, l, r, q) /\ (q >= n => q \in found)
        <5>1. q \in Nat /\ b \in Combined(kind, l, r, q)
          BY PlaceFacts
        <5>2. q >= n => q \in found
          BY <2>4
        <5> QED BY <5>1, <5>2
      <4>2. x \in Left(kind, l, r, next) <=>
              q >= m + 1 \/ (q + 1 = m + 1 /\ b \in Combined(kind, l, r, m))
        BY <3>3, <3>4 DEF Left
      <4>3. (q + 1 = m + 1) <=> q = m
        BY <3>2, <4>1
      <4>4. q >= n => q >= m
        BY <3>1, <3>2, <4>1
      <4>5. q >= n <=> (q >= m + 1 \/ q = m)
        BY <2>1, <3>2, <4>1, <4>4
      <4> QED BY <4>1, <4>2, <4>3, <4>5
    <3>7. Left(kind, l, r, next) \subseteq Wanted(kind, l, r)
      BY DEF Left
    <3>8. Left(kind, l, r, next) = Left(kind, l, r, it)
      BY <2>5, <3>6, <3>7
    <3>9. next.word # {}
      <4>1. next.word = Combined(kind, l, r, m)
        BY <3>3
      <4> QED BY <3>2, <4>1
    <3> QED BY <3>5, <3>8, <3>9
  <2> QED BY <2>6, <2>7
<1> QED BY <1>1, <1>2

\* A call that finds a word yields the least member that is left.
LEMMA TakenFacts ==
    ASSUME NEW kind \in IterKinds, NEW l \in BlockSeq, NEW r \in BlockSeq,
           NEW it, IterOK(kind, l, r, it), it.word # {},
           NEW next, next = [it EXCEPT !.word = @ \ {Min(it.word)}],
           NEW v, v = W * (Seen(kind, it) - 1) + Min(it.word)
    PROVE  /\ IterOK(kind, l, r, next)
           /\ v \in Left(kind, l, r, it) /\ \A x \in Left(kind, l, r, it) : v <= x
           /\ Left(kind, l, r, next) = Left(kind, l, r, it) \ {v}
<1> PICK bit, w : bit = Min(it.word) /\ w = Seen(kind, it) - 1
  OBVIOUS
<1>1. bit \in it.word /\ \A b \in it.word : bit <= b
  <2>1. it.word \in SUBSET Nat
    BY DEF IterOK
  <2> QED BY <2>1, LeastIsMin
<1>2. /\ w \in Nat /\ w < StopsAt(kind, l, r) /\ it.word \subseteq Combined(kind, l, r, w)
      /\ bit \in 0 .. W - 1 /\ Seen(kind, it) = w + 1
  <2>1. w \in 0 .. StopsAt(kind, l, r) - 1 /\ it.word \subseteq Combined(kind, l, r, w)
    BY DEF IterOK
  <2>2. StopsAt(kind, l, r) \in Nat /\ Seen(kind, it) \in Nat
    BY StopsAtType, SeenType DEF IterOK
  <2> QED BY <1>1, <2>1, <2>2 DEF IterOK
<1>3. v = W * w + bit /\ v \in Nat /\ v \div W = w /\ v % W = bit
  <2>1. v = W * w + bit /\ v \in Nat
    BY <1>2, WAssumption
  <2> QED BY <1>2, <2>1, DivUnique, WAssumption
<1>4. /\ next = [word |-> it.word \ {bit}, idx |-> it.idx]
      /\ Seen(kind, next) = w + 1
  <2>1. next = [word |-> it.word \ {bit}, idx |-> it.idx]
    BY DEF IterOK
  <2> QED BY <1>2, <2>1 DEF Seen
<1>5. IterOK(kind, l, r, next)
  <2>1. w \in 0 .. StopsAt(kind, l, r) - 1 /\ (w + 1) - 1 = w
    BY <1>2, StopsAtType
  <2>2. next.word = it.word \ {bit} /\ next.idx = it.idx
    BY <1>4
  <2> QED BY <1>2, <1>4, <2>1, <2>2 DEF IterOK
<1>6. v \in Left(kind, l, r, it)
  <2>1. v \in Wanted(kind, l, r)
    BY <1>1, <1>2, <1>3, WantedMean
  <2> QED BY <1>1, <1>2, <1>3, <2>1 DEF Left
<1>7. ASSUME NEW x \in Wanted(kind, l, r)
      PROVE  /\ x \in Left(kind, l, r, it) => v <= x
             /\ x \in Left(kind, l, r, next) <=> x \in Left(kind, l, r, it) /\ x # v
  <2> PICK q, b : q = x \div W /\ b = x % W
    OBVIOUS
  <2>1. x \in Nat /\ q \in Nat /\ b \in 0 .. W - 1 /\ x = W * q + b
    <3>1. x \in Nat
      BY PlaceFacts
    <3> QED BY <3>1, DivMod, WAssumption
  <2>2. x \in Left(kind, l, r, it) <=> q >= w + 1 \/ (q = w /\ b \in it.word)
    <3>1. x \in Left(kind, l, r, it) <=> q >= w + 1 \/ (q + 1 = w + 1 /\ b \in it.word)
      BY <1>2 DEF Left
    <3>2. q + 1 = w + 1 <=> q = w
      BY <1>2, <2>1
    <3> QED BY <3>1, <3>2
  <2>3. x \in Left(kind, l, r, next) <=> q >= w + 1 \/ (q = w /\ b \in it.word \ {bit})
    <3>1. next.word = it.word \ {bit}
      BY <1>4
    <3>2. x \in Left(kind, l, r, next)
            <=> q >= w + 1 \/ (q + 1 = w + 1 /\ b \in it.word \ {bit})
      BY <1>4, <3>1 DEF Left
    <3>3. q + 1 = w + 1 <=> q = w
      BY <1>2, <2>1
    <3> QED BY <3>2, <3>3
  <2>4. x = v <=> q = w /\ b = bit
    BY <1>3, <2>1
  <2>5. x \in Left(kind, l, r, it) => v <= x
    <3>1. CASE q = w /\ b \in it.word
      <4>1. bit <= b /\ x = W * w + b
        BY <1>1, <2>1, <3>1
      <4>2. W * w \in Nat
        BY <1>2, WAssumption
      <4> QED BY <1>2, <1>3, <2>1, <4>1, <4>2
    <3>2. CASE q >= w + 1
      <4>1. v < W * (w + 1)
        BY <1>2, <1>3, DivBound, WAssumption
      <4>2. ~(x < W * (w + 1))
        <5>1. w + 1 \in Nat /\ ~(q < w + 1)
          BY <1>2, <2>1, <3>2
        <5>2. x < W * (w + 1) <=> x \div W < w + 1
          BY <2>1, <5>1, DivBound, WAssumption
        <5> QED BY <5>1, <5>2
      <4>3. W * (w + 1) \in Nat
        BY <1>2, WAssumption
      <4> QED BY <1>3, <2>1, <4>1, <4>2, <4>3
    <3> QED BY <2>2, <3>1, <3>2
  <2>6. q >= w + 1 => q # w
    BY <1>2, <2>1
  <2> QED BY <2>2, <2>3, <2>4, <2>5, <2>6
<1>8. Left(kind, l, r, it) \subseteq Wanted(kind, l, r)
      /\ Left(kind, l, r, next) \subseteq Wanted(kind, l, r)
  BY DEF Left
<1>9. \A x \in Left(kind, l, r, it) : v <= x
  BY <1>7, <1>8
<1>10. Left(kind, l, r, next) = Left(kind, l, r, it) \ {v}
  BY <1>7, <1>8
<1> QED BY <1>5, <1>6, <1>9, <1>10

\* What n calls have yielded, and what is left, are the members wanted: the ones
\* below the others, in order, and one for each call while there was one.
CallsOK(kind, l, r, n, s) ==
    /\ s = [it |-> s.it, out |-> s.out]
    /\ IterOK(kind, l, r, s.it)
    /\ s.out \in Seq(Nat)
    /\ \A i, j \in 1 .. Len(s.out) : i < j => s.out[i] < s.out[j]
    /\ \A i \in 1 .. Len(s.out) : \A x \in Left(kind, l, r, s.it) : s.out[i] < x
    /\ \A x : x \in Wanted(kind, l, r) <=>
         x \in Left(kind, l, r, s.it) \/ \E i \in 1 .. Len(s.out) : x = s.out[i]
    /\ Left(kind, l, r, s.it) = {} \/ Len(s.out) = n

LEMMA CallStep ==
    ASSUME NEW kind \in IterKinds, NEW l \in BlockSeq, NEW r \in BlockSeq, NEW n \in Nat,
           NEW s, CallsOK(kind, l, r, n, s), NEW t, t = NextCall(kind, l, r, s)
    PROVE  CallsOK(kind, l, r, n + 1, t)
<1> PICK it, m : it = Loaded(kind, l, r, s.it) /\ m = Len(s.out)
  OBVIOUS
<1>1. /\ IterOK(kind, l, r, it)
      /\ Left(kind, l, r, it) = Left(kind, l, r, s.it)
      /\ it.word = {} => Left(kind, l, r, s.it) = {}
  BY LoadedFacts DEF CallsOK
<1>2. CASE it.word = {}
  <2>1. t = [s EXCEPT !.it = it]
    BY <1>2 DEF NextCall
  <2>2. t = [it |-> it, out |-> s.out] /\ t.it = it /\ t.out = s.out
    BY <2>1 DEF CallsOK
  <2>3. Left(kind, l, r, it) = {}
    BY <1>1, <1>2
  <2> QED BY <1>1, <2>2, <2>3 DEF CallsOK
<1>3. CASE it.word # {}
  <2> DEFINE next == [it EXCEPT !.word = @ \ {Min(it.word)}]
             v == W * (Seen(kind, it) - 1) + Min(it.word)
  <2>1. t = [it |-> next, out |-> Append(s.out, v)]
    <3>1. (IF kind = "iter" THEN it.idx ELSE it.idx - 1) = Seen(kind, it) - 1
      <4>1. it.idx \in Nat
        BY <1>1 DEF IterOK
      <4> QED BY <4>1 DEF Seen
    <3> QED BY <1>3, <3>1 DEF NextCall
  <2>2. /\ IterOK(kind, l, r, next)
        /\ v \in Left(kind, l, r, it) /\ \A x \in Left(kind, l, r, it) : v <= x
        /\ Left(kind, l, r, next) = Left(kind, l, r, it) \ {v}
    BY <1>1, <1>3, TakenFacts
  <2> HIDE DEF next, v
  <2>3. /\ s.out \in Seq(Nat) /\ m \in Nat
        /\ \A i, j \in 1 .. m : i < j => s.out[i] < s.out[j]
        /\ \A i \in 1 .. m : s.out[i] \in Nat /\ \A x \in Left(kind, l, r, it) : s.out[i] < x
    BY <1>1, ElementOfSeq, LenProperties DEF CallsOK
  <2>4. \A x \in Left(kind, l, r, it) : x \in Nat
    BY PlaceFacts DEF Left
  <2>5. v \in Nat
    BY <2>2, <2>4
  <2> PICK out : out = Append(s.out, v)
    OBVIOUS
  <2>6. /\ out \in Seq(Nat) /\ Len(out) = m + 1 /\ out[m + 1] = v
        /\ \A i \in 1 .. m : out[i] = s.out[i]
    BY <2>3, <2>5, AppendProperties
  <2>7. \A i, j \in 1 .. m + 1 : i < j => out[i] < out[j]
    <3> SUFFICES ASSUME NEW i \in 1 .. m + 1, NEW j \in 1 .. m + 1, i < j
                 PROVE  out[i] < out[j]
      OBVIOUS
    <3>1. i \in 1 .. m
      BY <2>3
    <3>2. CASE j \in 1 .. m
      BY <2>3, <2>6, <3>1, <3>2
    <3>3. CASE j = m + 1
      <4>1. s.out[i] < v
        BY <2>2, <2>3, <3>1
      <4>2. out[i] = s.out[i] /\ out[j] = v
        BY <2>6, <3>1, <3>3
      <4> QED BY <4>1, <4>2
    <3>4. m \in Nat
      BY <2>3
    <3>5. j \in 1 .. m \/ j = m + 1
      BY <3>4
    <3> QED BY <3>2, <3>3, <3>5
  <2>8. \A i \in 1 .. m + 1 : \A x \in Left(kind, l, r, next) : out[i] < x
    <3> SUFFICES ASSUME NEW i \in 1 .. m + 1, NEW x \in Left(kind, l, r, next)
                 PROVE  out[i] < x
      OBVIOUS
    <3>1. x \in Left(kind, l, r, it) /\ x # v /\ v <= x /\ x \in Nat
      BY <2>2, <2>4
    <3>2. CASE i \in 1 .. m
      BY <2>3, <2>6, <3>1, <3>2
    <3>3. CASE i = m + 1
      BY <2>5, <2>6, <3>1, <3>3
    <3> QED BY <2>3, <3>2, <3>3
  <2>9. ASSUME NEW x
        PROVE  x \in Wanted(kind, l, r) <=>
                 x \in Left(kind, l, r, next) \/ \E i \in 1 .. m + 1 : x = out[i]
    <3>1. x \in Wanted(kind, l, r) <=>
            x \in Left(kind, l, r, it) \/ \E i \in 1 .. m : x = s.out[i]
      BY <1>1 DEF CallsOK
    <3>2. (\E i \in 1 .. m + 1 : x = out[i]) <=> x = v \/ \E i \in 1 .. m : x = s.out[i]
      <4>1. \A i \in 1 .. m + 1 : i \in 1 .. m \/ i = m + 1
        BY <2>3
      <4>2. m + 1 \in 1 .. m + 1 /\ \A i \in 1 .. m : i \in 1 .. m + 1
        BY <2>3
      <4> QED BY <2>6, <4>1, <4>2
    <3> QED BY <2>2, <3>1, <3>2
  <2>10. m = n
    BY <1>1, <2>2 DEF CallsOK
  <2>11. t = [it |-> next, out |-> out] /\ t.it = next /\ t.out = out
    BY <2>1
  <2> QED BY <2>2, <2>6, <2>7, <2>8, <2>9, <2>10, <2>11 DEF CallsOK
<1> QED BY <1>2, <1>3

CallAt(kind, l, r, f, k) ==
    IF k = 0 THEN [it |-> Start(kind, l), out |-> <<>>] ELSE NextCall(kind, l, r, f[k - 1])

\* The calls one after the other
LEMMA CallsExist ==
    ASSUME NEW kind, NEW l, NEW r, NEW n \in Nat
    PROVE  \E f : /\ f = [k \in 0 .. n |-> CallAt(kind, l, r, f, k)]
                  /\ Yielded(kind, l, r, n) = f[n].out
<1> DEFINE S == {k \in Nat : \E f : f = [i \in 0 .. k |-> CallAt(kind, l, r, f, i)]}
<1>1. 0 \in S
  <2> DEFINE f == [i \in 0 .. 0 |-> [it |-> Start(kind, l), out |-> <<>>]]
  <2>1. f = [i \in 0 .. 0 |-> CallAt(kind, l, r, f, i)]
    BY DEF CallAt
  <2> QED BY <2>1
<1>2. ASSUME NEW k \in Nat, k \in S PROVE k + 1 \in S
  <2>1. PICK f : f = [i \in 0 .. k |-> CallAt(kind, l, r, f, i)]
    BY <1>2
  <2> DEFINE g == [i \in 0 .. k + 1 |-> IF i = k + 1 THEN CallAt(kind, l, r, f, i) ELSE f[i]]
  <2>2. ASSUME NEW i \in 0 .. k + 1 PROVE g[i] = CallAt(kind, l, r, g, i)
    <3>1. i # 0 => i - 1 \in 0 .. k + 1 /\ i - 1 # k + 1
      OBVIOUS
    <3>2. i # 0 => g[i - 1] = f[i - 1]
      BY <3>1
    <3>3. CallAt(kind, l, r, g, i) = CallAt(kind, l, r, f, i)
      BY <3>2 DEF CallAt
    <3>4. i # k + 1 => i \in 0 .. k
      OBVIOUS
    <3>5. i # k + 1 => f[i] = CallAt(kind, l, r, f, i)
      BY <2>1, <3>4
    <3>6. g[i] = IF i = k + 1 THEN CallAt(kind, l, r, f, i) ELSE f[i]
      OBVIOUS
    <3> HIDE DEF g
    <3> QED BY <3>3, <3>5, <3>6
  <2>3. g = [i \in 0 .. k + 1 |-> CallAt(kind, l, r, g, i)]
    BY <2>2
  <2>4. \E h : h = [i \in 0 .. k + 1 |-> CallAt(kind, l, r, h, i)]
    BY <2>3
  <2> QED BY <2>4
<1> HIDE DEF S
<1>3. n \in S
  BY <1>1, <1>2, Induct
<1>4. \E f : f = [k \in 0 .. n |-> CallAt(kind, l, r, f, k)]
  BY <1>3 DEF S
<1> DEFINE c == CHOOSE f : f = [k \in 0 .. n |-> CallAt(kind, l, r, f, k)]
<1>5. c = [k \in 0 .. n |-> CallAt(kind, l, r, c, k)]
  BY <1>4, Zenon
<1>6. Yielded(kind, l, r, n) = c[n].out
  BY DEF Yielded, CallAt
<1> HIDE DEF c
<1> QED BY <1>5, <1>6

LEMMA CallsGoOn ==
    ASSUME NEW kind \in IterKinds, NEW l \in BlockSeq, NEW r \in BlockSeq, NEW n \in Nat,
           NEW f, f = [k \in 0 .. n |-> CallAt(kind, l, r, f, k)]
    PROVE  CallsOK(kind, l, r, n, f[n])
<1> DEFINE S == {k \in Nat : k <= n => CallsOK(kind, l, r, k, f[k])}
<1>1. 0 \in S
  <2>1. 0 \in 0 .. n
    OBVIOUS
  <2>2. f[0] = [it |-> Start(kind, l), out |-> <<>>]
    BY <2>1 DEF CallAt
  <2> PICK s : s = f[0]
    OBVIOUS
  <2>3. /\ s = [it |-> s.it, out |-> s.out] /\ s.it = Start(kind, l)
        /\ s.out = <<>> /\ s.out \in Seq(Nat) /\ Len(s.out) = 0
    <3>1. s = [it |-> Start(kind, l), out |-> <<>>]
      BY <2>2
    <3>2. s.it = Start(kind, l) /\ s.out = <<>>
      BY <3>1
    <3>3. <<>> \in Seq(Nat) /\ Len(<<>>) = 0
      BY EmptySeq
    <3> QED BY <3>1, <3>2, <3>3
  <2>4. \A i : i \notin 1 .. Len(s.out)
    BY <2>3
  <2>5. CallsOK(kind, l, r, 0, s)
    BY <2>3, <2>4, StartFacts DEF CallsOK
  <2> QED BY <2>5
<1>2. ASSUME NEW k \in Nat, k \in S PROVE k + 1 \in S
  <2> SUFFICES ASSUME k + 1 <= n PROVE CallsOK(kind, l, r, k + 1, f[k + 1])
    OBVIOUS
  <2>1. CallsOK(kind, l, r, k, f[k])
    BY <1>2
  <2>2. k + 1 \in 0 .. n /\ k + 1 # 0 /\ (k + 1) - 1 = k
    OBVIOUS
  <2>3. f[k + 1] = NextCall(kind, l, r, f[k])
    BY <2>2 DEF CallAt
  <2> QED BY <2>1, <2>3, CallStep
<1> HIDE DEF S
<1>3. n \in S
  BY <1>1, <1>2, Induct
<1> QED BY <1>3 DEF S

\* A list that ascends holds as many numbers as it is long.
LEMMA AscendingSize ==
    ASSUME NEW out \in Seq(Nat),
           \A i, j \in 1 .. Len(out) : i < j => out[i] < out[j]
    PROVE  /\ IsFiniteSet({out[i] : i \in 1 .. Len(out)})
           /\ Cardinality({out[i] : i \in 1 .. Len(out)}) = Len(out)
<1> DEFINE D == 1 .. Len(out)
           R == {out[i] : i \in D}
<1>1. Len(out) \in Nat /\ IsFiniteSet(D) /\ Cardinality(D) = Len(out)
  <2>1. Len(out) \in Nat
    BY LenProperties
  <2>2. 1 \in Int /\ Len(out) \in Int
    BY <2>1
  <2>3. IsFiniteSet(D) /\ Cardinality(D) = IF 1 > Len(out) THEN 0 ELSE Len(out) - 1 + 1
    BY <2>2, FS_Interval, Zenon
  <2> QED BY <2>1, <2>3
<1>2. ASSUME NEW i \in D, NEW j \in D, out[i] = out[j] PROVE i = j
  <2>1. out[i] \in Nat /\ out[j] \in Nat
    BY ElementOfSeq
  <2> QED BY <1>1, <1>2, <2>1
<1> DEFINE b == [i \in D |-> out[i]]
<1>3. b \in Surjection(D, R)
  BY DEF Surjection
<1>4. b \in Injection(D, R)
  BY <1>2 DEF Injection, IsInjective
<1> HIDE DEF D, R, b
<1>5. IsFiniteSet(R) /\ Cardinality(R) = Cardinality(D)
  BY <1>1, <1>3, <1>4, FS_Surjection
<1> QED BY <1>1, <1>5 DEF D, R

\* Two calls after the last member everything has been yielded.
LEMMA IteratorExact ==
    ASSUME NEW kind \in IterKinds, NEW l \in BlockSeq, NEW r \in BlockSeq,
           NEW wanted, wanted = Wanted(kind, l, r),
           NEW out, out = Yielded(kind, l, r, Cardinality(wanted) + 2)
    PROVE  /\ Len(out) = Cardinality(wanted)
           /\ {out[n] : n \in DOMAIN out} = wanted
           /\ \A n \in 1 .. Len(out) - 1 : out[n] < out[n + 1]
<1>1. IsFiniteSet(wanted) /\ Cardinality(wanted) \in Nat
  <2>1. IsFiniteSet(Members(l)) /\ IsFiniteSet(Members(r))
    BY MembersFinite
  <2>2. IsFiniteSet(Members(l) \cup Members(r))
    BY <2>1, FS_Union
  <2>3. wanted \subseteq Members(l) \cup Members(r)
    BY DEF Wanted, Chosen, IterKinds
  <2>4. IsFiniteSet(wanted)
    BY <2>2, <2>3, FS_Subset
  <2> QED BY <2>4, FS_CardinalityType
<1> PICK n \in Nat : n = Cardinality(wanted) + 2
  BY <1>1
<1> PICK f : f = [k \in 0 .. n |-> CallAt(kind, l, r, f, k)] /\ out = f[n].out
  BY CallsExist
<1> PICK s : s = f[n]
  OBVIOUS
<1>2. CallsOK(kind, l, r, n, s) /\ out = s.out
  BY CallsGoOn
<1> DEFINE R == {out[i] : i \in 1 .. Len(out)}
<1>3. /\ out \in Seq(Nat) /\ \A i, j \in 1 .. Len(out) : i < j => out[i] < out[j]
      /\ \A x : x \in wanted <=> x \in Left(kind, l, r, s.it) \/ x \in R
      /\ Left(kind, l, r, s.it) = {} \/ Len(out) = n
  <2>1. \A x : x \in R <=> \E i \in 1 .. Len(out) : x = out[i]
    OBVIOUS
  <2> HIDE DEF R
  <2>2. /\ out \in Seq(Nat) /\ \A i, j \in 1 .. Len(out) : i < j => out[i] < out[j]
        /\ Left(kind, l, r, s.it) = {} \/ Len(out) = n
    BY <1>2 DEF CallsOK
  <2>3. \A x : x \in wanted <=>
           x \in Left(kind, l, r, s.it) \/ \E i \in 1 .. Len(out) : x = out[i]
    <3>1. \A x : x \in Wanted(kind, l, r) <=>
             x \in Left(kind, l, r, s.it) \/ \E i \in 1 .. Len(s.out) : x = s.out[i]
      BY <1>2, Zenon DEF CallsOK
    <3>2. wanted = Wanted(kind, l, r) /\ out = s.out
      BY <1>2
    <3> QED BY <3>1, <3>2
  <2> QED BY <2>1, <2>2, <2>3
<1>4. Len(out) \in Nat /\ DOMAIN out = 1 .. Len(out)
  BY <1>3, LenProperties
<1>5. IsFiniteSet(R) /\ Cardinality(R) = Len(out)
  BY <1>3, AscendingSize
<1> HIDE DEF R
<1>6. R \subseteq wanted /\ Len(out) <= Cardinality(wanted)
  <2>1. R \subseteq wanted
    BY <1>3
  <2>2. Cardinality(R) <= Cardinality(wanted)
    BY <1>1, <2>1, FS_Subset
  <2> QED BY <1>5, <2>1, <2>2
<1>7. Left(kind, l, r, s.it) = {}
  BY <1>1, <1>3, <1>4, <1>6
<1>8. R = wanted
  BY <1>3, <1>7
<1>9. \A i \in 1 .. Len(out) - 1 : out[i] < out[i + 1]
  <2> SUFFICES ASSUME NEW i \in 1 .. Len(out) - 1 PROVE out[i] < out[i + 1]
    OBVIOUS
  <2>1. i \in 1 .. Len(out) /\ i + 1 \in 1 .. Len(out) /\ i < i + 1
    BY <1>4
  <2> QED BY <1>3, <2>1
<1>10. {out[i] : i \in DOMAIN out} = wanted
  BY <1>4, <1>8 DEF R
<1> QED BY <1>5, <1>8, <1>9, <1>10

-----------------------------------------------------------------------------
(* The specification *)

LEMMA InitIInv == ASSUME Init PROVE IInv /\ Numbers!Init
<1>1. bit_blocks \in BlockSeq /\ Numbers!Init
  <2>1. CASE \E n \in Indexes : bit_blocks = Zeros((n + W - 1) \div W)
    <3>1. PICK n \in Indexes : bit_blocks = Zeros((n + W - 1) \div W)
      BY <2>1
    <3> PICK k : k = (n + W - 1) \div W
      OBVIOUS
    <3>2. k \in Nat
      BY Ceiling, WAssumption, IndexesAssumption
    <3>3. /\ bit_blocks \in BlockSeq /\ Capacity(bit_blocks) = W * k
          /\ Members(bit_blocks) = {}
      BY <3>1, <3>2, ZerosFacts
    <3> QED BY <3>3 DEF Numbers!Init, Numbers!Words
  <2>2. CASE bit_blocks \in Operands
    <3>1. bit_blocks \in BlockSeq
      BY <2>2, OperandsAssumption DEF BlockSeq
    <3>2. Operand(bit_blocks) \in {Operand(rhs) : rhs \in Operands}
      BY <2>2
    <3>3. /\ Members(bit_blocks) = Operand(bit_blocks).members
          /\ Capacity(bit_blocks) = Operand(bit_blocks).capacity
      BY DEF Operand
    <3> QED BY <3>1, <3>2, <3>3 DEF Numbers!Init
  <2>3. CASE \E bytes \in Slices : bit_blocks = FromBytes(bytes)
    BY <2>3, FromBytesFacts DEF Numbers!Init
  <2> QED BY <2>1, <2>2, <2>3 DEF Init
<1>2. active_count = CountOnes(bit_blocks) /\ miscounted = FALSE
  BY DEF Init
<1>3. active_count \in 0 .. CountMod - 1
  BY <1>1, <1>2, CountOnesType
<1> QED BY <1>1, <1>2, <1>3 DEF IInv, TypeOK, CountModulo, BlockSeq

\* A step is one operation of the abstract set, on the operand's members.
LEMMA StepIInv ==
    ASSUME IInv, [Next]_vars
    PROVE  IInv' /\ [Numbers!Next]_(Numbers!vars)
<1>1. CASE UNCHANGED vars
  BY <1>1 DEF vars, IInv, TypeOK, CountModulo, CountOnes, Members, Test, Capacity, Numbers!vars
<1>2. ASSUME NEW i \in Indexes, Set(i) \/ Flip(i) \/ Reset(i) PROVE IInv' /\ Numbers!Next
  BY <1>2, SetStep, FlipStep, ResetStep DEF Numbers!Next
<1>3. ASSUME SetAll \/ ResetAll \/ FlipAll PROVE IInv' /\ Numbers!Next
  BY <1>3, SetAllStep, ResetAllStep, FlipAllStep DEF Numbers!Next
<1>4. ASSUME NEW rhs \in Operands, And(rhs) \/ Or(rhs) \/ Xor(rhs) PROVE IInv' /\ Numbers!Next
  BY <1>4, AndStep, OrStep, XorStep DEF Numbers!Next
<1> QED BY <1>1, <1>2, <1>3, <1>4 DEF Next

\* Every operation keeps the words words and the count a usize, and counts
\* modulo 2^64 unless a reset miscounted (bitset.rs).
THEOREM BitSetInvariant == Spec => []IInv
<1>1. Init => IInv
  BY InitIInv
<1>2. IInv /\ [Next]_vars => IInv'
  BY StepIInv
<1> QED BY <1>1, <1>2, PTL DEF Spec

\* The type invariant of the bit set.
THEOREM TypeCorrect == Spec => []TypeOK
<1>1. IInv => TypeOK
  BY DEF IInv
<1> QED BY <1>1, BitSetInvariant, PTL

\* The cached count is exact between the miscounting resets, as long as the
\* capacity does not reach 2^64 (bitset.rs: count()).
THEOREM CountWithinRange ==
    Spec => [](Capacity(bit_blocks) < CountMod => CountExact)
<1>1. ASSUME IInv, Capacity(bit_blocks) < CountMod PROVE CountExact
  <2> DEFINE m == Cardinality(Members(bit_blocks))
             c == Capacity(bit_blocks)
  <2>1. bit_blocks \in BlockSeq
    BY <1>1 DEF IInv, TypeOK, BlockSeq
  <2>2. m \in Nat /\ m <= c /\ c \in Nat /\ c < CountMod
    BY <1>1, <2>1, MembersFinite, BlockFacts
  <2> HIDE DEF m, c
  <2>3. m % CountMod = m
    BY <2>2, CountAssumption
  <2> QED BY <1>1, <2>3 DEF IInv, CountModulo, CountOnes, CountExact, m
<1> QED BY <1>1, BitSetInvariant, PTL

\* The words of a BitSet implement a set of naturals: growing, truncating and
\* padding never lose, move or invent a member (bitset.rs:315-328 and the
\* operators).
THEOREM Implements == Spec => ImplementsNatSet
<1>1. Init => Numbers!Init
  BY InitIInv
<1>2. IInv /\ [Next]_vars => [Numbers!Next]_(Numbers!vars)
  BY StepIInv
<1> QED BY <1>1, <1>2, BitSetInvariant, PTL DEF Spec, ImplementsNatSet, Numbers!Spec

\* And each operation is the one of its name, whichever set is the longer.
THEOREM OperationsAreTheirNames == Spec => OperationsExact
<1> DEFINE A == /\ \A i \in Indexes : /\ Set(i) => Numbers!Insert(i)
                                      /\ Flip(i) => Numbers!Toggle(i)
                                      /\ Reset(i) => Numbers!Remove(i)
                /\ SetAll => Numbers!Fill
                /\ ResetAll => Numbers!Clear
                /\ FlipAll => Numbers!Complement
                /\ \A rhs \in Operands : /\ And(rhs) => Numbers!Intersect(Operand(rhs))
                                         /\ Or(rhs) => Numbers!Unite(Operand(rhs))
                                         /\ Xor(rhs) => Numbers!Differ(Operand(rhs))
<1>1. IInv => A
  BY SetStep, FlipStep, ResetStep, SetAllStep, ResetAllStep, FlipAllStep, AndStep, OrStep, XorStep
<1>2. Spec => [][A]_vars
  BY <1>1, BitSetInvariant, PTL
<1> QED BY <1>2 DEF OperationsExact

\* Whatever operations have made the set, and whatever the lengths of the two sets,
\* every iterator yields the members of its set operation, each once and in
\* ascending order.
THEOREM AlwaysIteratorsExact == Spec => []IteratorsExact
<1>1. IInv => IteratorsExact
  <2> SUFFICES ASSUME IInv, NEW rhs \in Operands, NEW kind \in IterKinds,
                      NEW wanted, wanted = Chosen(kind, Members(bit_blocks), Members(rhs)),
                      NEW out, out = Yielded(kind, bit_blocks, rhs, Cardinality(wanted) + 2)
               PROVE  /\ Len(out) = Cardinality(wanted)
                      /\ {out[n] : n \in DOMAIN out} = wanted
                      /\ \A n \in 1 .. Len(out) - 1 : out[n] < out[n + 1]
    BY DEF IteratorsExact
  <2>1. bit_blocks \in BlockSeq /\ rhs \in BlockSeq
    BY OperandsAssumption DEF IInv, TypeOK, BlockSeq
  <2>2. wanted = Wanted(kind, bit_blocks, rhs)
    BY DEF Wanted
  <2> QED BY <2>1, <2>2, IteratorExact
<1> QED BY <1>1, BitSetInvariant, PTL
=============================================================================
