----------------------------- MODULE Finder_proofs -----------------------------
(***************************************************************************)
(* Proofs about Finder, for every list of candidates, every number of      *)
(* workers asked for and every session of submits.                         *)
(*                                                                         *)
(* The engine: the rows that are reused are rows of the matrix, so a score *)
(* is that of a fresh matrix (MatchExact), it is positive exactly if       *)
(* the text contains the pattern, and a search in a sound cache finds what *)
(* a full search finds (SearchExact).  EngineInv keeps every cache sound.  *)
(*                                                                         *)
(* The pool: ResponsesFit is not inductive.  That a worker finds room for  *)
(* its answer says nothing of the workers that still hold a task of the    *)
(* same submit.  RoomForAll counts them: the answers that wait and the     *)
(* workers that may still answer are never more than the workers the       *)
(* submit has reached.  Likewise WorkersLast needs to know who can still   *)
(* meet a submit that failed (FailedIsClosed), and that the drop closes in *)
(* order.                                                                  *)
(*                                                                         *)
(* The matches: LatestIsComplete needs to know which worker has answered.  *)
(* MatchInv gives every answer that waits a worker of its own, which has   *)
(* searched its chunk for the pattern of the submit and no longer holds    *)
(* the task.                                                               *)
(***************************************************************************)
EXTENDS Finder, SequenceFacts

-----------------------------------------------------------------------------
(* The functions of the matcher that are written by recursion *)

\* A bonus is never negative.
LEMMA BonusType ==
    ASSUME NEW a, NEW b
    PROVE  ContextBonus(a, b) \in Nat
<1>1. CASE a = Space
  <2>1. ContextBonus(a, b) \in {9, 10}
    BY <1>1 DEF ContextBonus
  <2> QED BY <2>1
<1>2. CASE a # Space /\ a \in Delimiters
  BY <1>2 DEF ContextBonus
<1>3. CASE a # Space /\ a \notin Delimiters
  BY <1>3 DEF ContextBonus
<1> QED BY <1>1, <1>2, <1>3

\* What a cell holds, if what it is computed from is sound: a run of consecutive
\* matches never reaches back before the slice.
LEMMA CellType ==
    ASSUME NEW t \in Nat \ {0}, NEW bonus, \A i \in 1 .. t : bonus[i] \in Nat,
           NEW diagonal, diagonal.score \in Nat, diagonal.consecutives \in 0 .. t - 1,
           NEW left, left.score \in Nat, NEW isMatch, NEW isFirst,
           NEW cell, cell = Cell(diagonal, left, isMatch, isFirst, bonus, t)
    PROVE  /\ cell.score \in Nat /\ cell.consecutives \in 0 .. t
           /\ isMatch => cell.score >= ScoreMatch
<1> DEFINE consecutive == diagonal.consecutives + 1
           head == IF consecutive > 1
                   THEN {BonusConsecutive, bonus[t - (consecutive - 1)]} ELSE {0}
           context == Max({bonus[t]} \cup head)
           gain == (IF isFirst THEN FirstCharMultiplier * context ELSE context) + ScoreMatch
           s1 == IF isMatch THEN diagonal.score + gain ELSE 0
           s2 == left.score + (IF left.consecutives > 0 THEN GapStart ELSE GapExtension)
           best == Max({s1, s2, 0})
<1>1. cell = [score |-> best,
              consecutives |-> IF isMatch /\ best = s1 /\ best > 0 THEN consecutive ELSE 0]
  BY DEF Cell
<1>2. consecutive \in 1 .. t
  OBVIOUS
<1>3. context \in Nat
  <2>1. bonus[t] \in Nat /\ BonusConsecutive \in Nat
    BY DEF BonusConsecutive
  <2>2. CASE consecutive > 1
    <3> DEFINE b == bonus[t - (consecutive - 1)]
    <3>1. t - (consecutive - 1) \in 1 .. t
      BY <1>2
    <3>2. b \in Nat
      BY <3>1
    <3> HIDE DEF b
    <3>3. {bonus[t]} \cup head = {bonus[t], BonusConsecutive, b}
      BY <2>2 DEF b
    <3>4. bonus[t] \in Int /\ BonusConsecutive \in Int /\ b \in Int
      BY <2>1, <3>2
    <3>5. Max({bonus[t], BonusConsecutive, b}) \in {bonus[t], BonusConsecutive, b}
      BY ONLY <3>4, MaxOfThree
    <3> QED BY <2>1, <3>2, <3>3, <3>5
  <2>3. CASE ~(consecutive > 1)
    <3>1. {bonus[t]} \cup head = {bonus[t], 0}
      BY <2>3
    <3>2. bonus[t] \in Int /\ 0 \in Int
      BY <2>1
    <3>3. Max({bonus[t], 0}) \in {bonus[t], 0}
      BY ONLY <3>2, MaxOfTwo
    <3>4. context = Max({bonus[t], 0})
      BY <3>1, Zenon
    <3> HIDE DEF context
    <3> QED BY <2>1, <3>3, <3>4
  <2> QED BY <2>2, <2>3
<1> HIDE DEF context
<1>4. s1 \in Nat /\ (isMatch => s1 >= ScoreMatch)
  BY <1>3 DEF ScoreMatch, FirstCharMultiplier
<1>5. s2 \in Int
  BY DEF GapStart, GapExtension
<1> HIDE DEF s1, s2, consecutive
<1>6. best \in {s1, s2, 0} /\ s1 <= best /\ 0 <= best
  <2>1. s1 \in Int /\ s2 \in Int /\ 0 \in Int
    BY <1>4, <1>5
  <2> QED BY ONLY <2>1, MaxOfThree
<1> HIDE DEF best
<1>7. best \in Nat /\ (isMatch => best >= ScoreMatch)
  BY <1>4, <1>5, <1>6 DEF ScoreMatch
<1> QED BY <1>1, <1>2, <1>7

\* The cells of a row, as the matcher computes them.
LEMMA RowCellsValue ==
    ASSUME NEW prev, NEW left, NEW p \in Nat, NEW slice, NEW bonus, NEW pattern,
           LastColumn(p, slice, pattern) \in Int, p - 1 <= LastColumn(p, slice, pattern),
           NEW cell, cell = RowCells(prev, left, p, slice, bonus, pattern)
    PROVE  cell = [t \in p - 1 .. LastColumn(p, slice, pattern) |->
                     IF t = p - 1
                     THEN left
                     ELSE Cell(prev[t], cell[t - 1], RemoveAccent(slice[t]) = pattern[p],
                               p = 1 /\ t = 1, bonus, t)]
<1> DEFINE E(t, x) == Cell(prev[t], x, RemoveAccent(slice[t]) = pattern[p],
                           p = 1 /\ t = 1, bonus, t)
           a == p - 1
           last == LastColumn(p, slice, pattern)
<1>1. RowCells(prev, left, p, slice, bonus, pattern)
        = CHOOSE f : f = [t \in a .. last |-> IF t = a THEN left ELSE E(t, f[t - 1])]
  BY DEF RowCells
<1> HIDE DEF E
<1> DEFINE S == {k \in Nat :
                   \E f : f = [t \in a .. a + k |-> IF t = a THEN left ELSE E(t, f[t - 1])]}
<1>2. 0 \in S
  <2> DEFINE f == [t \in a .. a + 0 |-> left]
  <2>1. f = [t \in a .. a + 0 |-> IF t = a THEN left ELSE E(t, f[t - 1])]
    OBVIOUS
  <2> QED BY <2>1
<1>3. ASSUME NEW k \in Nat, k \in S PROVE k + 1 \in S
  <2>1. PICK f : f = [t \in a .. a + k |-> IF t = a THEN left ELSE E(t, f[t - 1])]
    BY <1>3
  <2> DEFINE n == a + (k + 1)
             g == [t \in a .. n |-> IF t = n THEN E(t, f[t - 1]) ELSE f[t]]
  <2>2. ASSUME NEW t \in a .. n
        PROVE  g[t] = IF t = a THEN left ELSE E(t, g[t - 1])
    <3>1. CASE t = n
      BY <3>1
    <3>2. CASE t # n
      <4>1. t \in a .. a + k
        BY <3>2
      <4>2. g[t] = f[t] /\ f[t] = IF t = a THEN left ELSE E(t, f[t - 1])
        BY <2>1, <3>2, <4>1
      <4>3. t # a => g[t - 1] = f[t - 1]
        BY <3>2, <4>1
      <4> QED BY <4>2, <4>3
    <3> QED BY <3>1, <3>2
  <2>3. g = [t \in a .. n |-> IF t = a THEN left ELSE E(t, g[t - 1])]
    BY <2>2
  <2>4. \E h : h = [t \in a .. a + (k + 1) |-> IF t = a THEN left ELSE E(t, h[t - 1])]
    BY <2>3
  <2> QED BY <2>4
<1> HIDE DEF S
<1>4. last - a \in Nat /\ a + (last - a) = last
  OBVIOUS
<1>5. last - a \in S
  BY <1>2, <1>3, <1>4, Induct
<1>6. \E f : f = [t \in a .. last |-> IF t = a THEN left ELSE E(t, f[t - 1])]
  BY <1>4, <1>5 DEF S
<1>7. cell = [t \in a .. last |-> IF t = a THEN left ELSE E(t, cell[t - 1])]
  BY <1>1, <1>6, Zenon
<1> QED BY <1>7, Zenon DEF E

\* The rows, after each character of the pattern.
LEMMA RowsAfterValue ==
    ASSUME NEW rows, NEW slice, NEW bonus, NEW pattern, Len(pattern) \in Nat,
           NEW after, after = RowsAfter(rows, slice, bonus, pattern)
    PROVE  after = [p \in 0 .. Len(pattern) |->
                      IF p = 0
                      THEN [prev |-> Filled(rows.prev, Len(slice) + 1),
                            current |-> Resized(rows.current, Len(slice) + 1)]
                      ELSE [prev |-> NextRow(after[p - 1], p, slice, bonus, pattern),
                            current |-> after[p - 1].prev]]
<1> DEFINE E(p, x) == [prev |-> NextRow(x, p, slice, bonus, pattern), current |-> x.prev]
           first == [prev |-> Filled(rows.prev, Len(slice) + 1),
                     current |-> Resized(rows.current, Len(slice) + 1)]
           n == Len(pattern)
<1>1. RowsAfter(rows, slice, bonus, pattern)
        = CHOOSE f : f = [p \in 0 .. n |-> IF p = 0 THEN first ELSE E(p, f[p - 1])]
  BY DEF RowsAfter
<1> HIDE DEF E, first
<1> DEFINE S == {k \in Nat : \E f : f = [p \in 0 .. k |-> IF p = 0 THEN first ELSE E(p, f[p - 1])]}
<1>2. 0 \in S
  <2> DEFINE f == [p \in 0 .. 0 |-> first]
  <2>1. f = [p \in 0 .. 0 |-> IF p = 0 THEN first ELSE E(p, f[p - 1])]
    OBVIOUS
  <2> QED BY <2>1
<1>3. ASSUME NEW k \in Nat, k \in S PROVE k + 1 \in S
  <2>1. PICK f : f = [p \in 0 .. k |-> IF p = 0 THEN first ELSE E(p, f[p - 1])]
    BY <1>3
  <2> DEFINE m == k + 1
             g == [p \in 0 .. m |-> IF p = m THEN E(p, f[p - 1]) ELSE f[p]]
  <2>2. ASSUME NEW p \in 0 .. m
        PROVE  g[p] = IF p = 0 THEN first ELSE E(p, g[p - 1])
    <3>1. CASE p = m
      BY <3>1
    <3>2. CASE p # m
      <4>1. p \in 0 .. k
        BY <3>2
      <4>2. g[p] = f[p] /\ f[p] = IF p = 0 THEN first ELSE E(p, f[p - 1])
        BY <2>1, <3>2, <4>1
      <4>3. p # 0 => g[p - 1] = f[p - 1]
        BY <3>2, <4>1
      <4> QED BY <4>2, <4>3
    <3> QED BY <3>1, <3>2
  <2>3. g = [p \in 0 .. m |-> IF p = 0 THEN first ELSE E(p, g[p - 1])]
    BY <2>2
  <2>4. \E f1 : f1 = [p \in 0 .. k + 1 |-> IF p = 0 THEN first ELSE E(p, f1[p - 1])]
    BY <2>3
  <2> QED BY <2>4
<1> HIDE DEF S
<1>4. n \in S
  BY <1>2, <1>3, Induct
<1>5. \E f : f = [p \in 0 .. n |-> IF p = 0 THEN first ELSE E(p, f[p - 1])]
  BY <1>4 DEF S
<1>6. after = [p \in 0 .. n |-> IF p = 0 THEN first ELSE E(p, after[p - 1])]
  BY <1>1, <1>5, Zenon
<1> QED BY <1>6, Zenon DEF E, first

\* A row of the matrix, from the one above it.
LEMMA MatrixRowValue ==
    ASSUME NEW above, NEW p \in Nat \ {0}, NEW slice, NEW bonus, NEW pattern, Len(slice) \in Nat,
           NEW cell, cell = MatrixRow(above, p, slice, bonus, pattern)
    PROVE  cell = [t \in 0 .. Len(slice) |->
                     IF t < p
                     THEN Zero
                     ELSE Cell(above[t - 1], cell[t - 1], RemoveAccent(slice[t]) = pattern[p],
                               p = 1 /\ t = 1, bonus, t)]
<1> DEFINE E(t, x) == Cell(above[t - 1], x, RemoveAccent(slice[t]) = pattern[p],
                           p = 1 /\ t = 1, bonus, t)
           n == Len(slice)
<1>1. MatrixRow(above, p, slice, bonus, pattern)
        = CHOOSE f : f = [t \in 0 .. n |-> IF t < p THEN Zero ELSE E(t, f[t - 1])]
  BY DEF MatrixRow
<1> HIDE DEF E
<1> DEFINE S == {k \in Nat : \E f : f = [t \in 0 .. k |-> IF t < p THEN Zero ELSE E(t, f[t - 1])]}
<1>2. 0 \in S
  <2> DEFINE f == [t \in 0 .. 0 |-> Zero]
  <2>1. f = [t \in 0 .. 0 |-> IF t < p THEN Zero ELSE E(t, f[t - 1])]
    OBVIOUS
  <2> QED BY <2>1
<1>3. ASSUME NEW k \in Nat, k \in S PROVE k + 1 \in S
  <2>1. PICK f : f = [t \in 0 .. k |-> IF t < p THEN Zero ELSE E(t, f[t - 1])]
    BY <1>3
  <2> DEFINE m == k + 1
             g == [t \in 0 .. m |->
                     IF t = m THEN IF t < p THEN Zero ELSE E(t, f[t - 1]) ELSE f[t]]
  <2>2. ASSUME NEW t \in 0 .. m
        PROVE  g[t] = IF t < p THEN Zero ELSE E(t, g[t - 1])
    <3>1. CASE t = m
      BY <3>1
    <3>2. CASE t # m
      <4>1. t \in 0 .. k
        BY <3>2
      <4>2. g[t] = f[t] /\ f[t] = IF t < p THEN Zero ELSE E(t, f[t - 1])
        BY <2>1, <3>2, <4>1
      <4>3. ~(t < p) => g[t - 1] = f[t - 1]
        BY <3>2, <4>1
      <4> QED BY <4>2, <4>3
    <3> QED BY <3>1, <3>2
  <2>3. g = [t \in 0 .. m |-> IF t < p THEN Zero ELSE E(t, g[t - 1])]
    BY <2>2
  <2>4. \E f1 : f1 = [t \in 0 .. k + 1 |-> IF t < p THEN Zero ELSE E(t, f1[t - 1])]
    BY <2>3
  <2> QED BY <2>4
<1> HIDE DEF S
<1>4. n \in S
  BY <1>2, <1>3, Induct
<1>5. \E f : f = [t \in 0 .. n |-> IF t < p THEN Zero ELSE E(t, f[t - 1])]
  BY <1>4 DEF S
<1>6. cell = [t \in 0 .. n |-> IF t < p THEN Zero ELSE E(t, cell[t - 1])]
  BY <1>1, <1>5, Zenon
<1> QED BY <1>6, Zenon DEF E

\* The rows of the matrix.
LEMMA MatrixValue ==
    ASSUME NEW slice, NEW bonus, NEW pattern, Len(pattern) \in Nat,
           NEW row, row = Matrix(slice, bonus, pattern)
    PROVE  row = [p \in 0 .. Len(pattern) |->
                    IF p = 0
                    THEN [t \in 0 .. Len(slice) |-> Zero]
                    ELSE MatrixRow(row[p - 1], p, slice, bonus, pattern)]
<1> DEFINE E(p, x) == MatrixRow(x, p, slice, bonus, pattern)
           first == [t \in 0 .. Len(slice) |-> Zero]
           n == Len(pattern)
<1>1. Matrix(slice, bonus, pattern)
        = CHOOSE f : f = [p \in 0 .. n |-> IF p = 0 THEN first ELSE E(p, f[p - 1])]
  BY DEF Matrix
<1> HIDE DEF E, first
<1> DEFINE S == {k \in Nat : \E f : f = [p \in 0 .. k |-> IF p = 0 THEN first ELSE E(p, f[p - 1])]}
<1>2. 0 \in S
  <2> DEFINE f == [p \in 0 .. 0 |-> first]
  <2>1. f = [p \in 0 .. 0 |-> IF p = 0 THEN first ELSE E(p, f[p - 1])]
    OBVIOUS
  <2> QED BY <2>1
<1>3. ASSUME NEW k \in Nat, k \in S PROVE k + 1 \in S
  <2>1. PICK f : f = [p \in 0 .. k |-> IF p = 0 THEN first ELSE E(p, f[p - 1])]
    BY <1>3
  <2> DEFINE m == k + 1
             g == [p \in 0 .. m |-> IF p = m THEN E(p, f[p - 1]) ELSE f[p]]
  <2>2. ASSUME NEW p \in 0 .. m
        PROVE  g[p] = IF p = 0 THEN first ELSE E(p, g[p - 1])
    <3>1. CASE p = m
      BY <3>1
    <3>2. CASE p # m
      <4>1. p \in 0 .. k
        BY <3>2
      <4>2. g[p] = f[p] /\ f[p] = IF p = 0 THEN first ELSE E(p, f[p - 1])
        BY <2>1, <3>2, <4>1
      <4>3. p # 0 => g[p - 1] = f[p - 1]
        BY <3>2, <4>1
      <4> QED BY <4>2, <4>3
    <3> QED BY <3>1, <3>2
  <2>3. g = [p \in 0 .. m |-> IF p = 0 THEN first ELSE E(p, g[p - 1])]
    BY <2>2
  <2>4. \E f1 : f1 = [p \in 0 .. k + 1 |-> IF p = 0 THEN first ELSE E(p, f1[p - 1])]
    BY <2>3
  <2> QED BY <2>4
<1> HIDE DEF S
<1>4. n \in S
  BY <1>2, <1>3, Induct
<1>5. \E f : f = [p \in 0 .. n |-> IF p = 0 THEN first ELSE E(p, f[p - 1])]
  BY <1>4 DEF S
<1>6. row = [p \in 0 .. n |-> IF p = 0 THEN first ELSE E(p, row[p - 1])]
  BY <1>1, <1>5, Zenon
<1> QED BY <1>6, Zenon DEF E, first

-----------------------------------------------------------------------------
(* The rows that are reused are rows of the matrix *)

\* A row of the matrix from a sound row above it.
LEMMA MatrixRowType ==
    ASSUME NEW above, NEW p \in Nat \ {0}, NEW slice, NEW bonus, NEW pattern, Len(slice) \in Nat,
           \A i \in 1 .. Len(slice) : bonus[i] \in Nat,
           \A t \in 0 .. Len(slice) : above[t].score \in Nat /\ above[t].consecutives \in 0 .. t,
           NEW cell, cell = MatrixRow(above, p, slice, bonus, pattern)
    PROVE  \A t \in 0 .. Len(slice) :
              /\ cell[t].score \in Nat /\ cell[t].consecutives \in 0 .. t
              /\ p <= t /\ RemoveAccent(slice[t]) = pattern[p] => cell[t].score >= ScoreMatch
<1> DEFINE n == Len(slice)
           Good(t) == /\ cell[t].score \in Nat /\ cell[t].consecutives \in 0 .. t
                      /\ p <= t /\ RemoveAccent(slice[t]) = pattern[p] => cell[t].score >= ScoreMatch
           S == {k \in Nat : k <= n => Good(k)}
<1>1. ASSUME NEW t \in 0 .. n, t < p PROVE Good(t)
  <2>1. cell[t] = Zero
    BY <1>1, MatrixRowValue
  <2> QED BY <1>1, <2>1 DEF Zero
<1>2. 0 \in S
  BY <1>1
<1>3. ASSUME NEW k \in Nat, k \in S PROVE k + 1 \in S
  <2> PICK t : t = k + 1
    OBVIOUS
  <2> SUFFICES ASSUME t <= n, ~(t < p) PROVE Good(t)
    BY <1>1
  <2>1. t \in Nat \ {0} /\ t \in 0 .. n /\ t - 1 \in 0 .. n /\ t - 1 = k
    OBVIOUS
  <2>2. cell[t] = Cell(above[t - 1], cell[t - 1], RemoveAccent(slice[t]) = pattern[p],
                       p = 1 /\ t = 1, bonus, t)
    BY <2>1, MatrixRowValue
  <2>3. PICK isMatch \in BOOLEAN, isFirst \in BOOLEAN :
          isMatch = (RemoveAccent(slice[t]) = pattern[p]) /\ isFirst = (p = 1 /\ t = 1)
    OBVIOUS
  <2>4. PICK diagonal, left : diagonal = above[t - 1] /\ left = cell[t - 1]
    OBVIOUS
  <2>5. cell[t] = Cell(diagonal, left, isMatch, isFirst, bonus, t)
    BY <2>2, <2>3, <2>4, Zenon
  <2>6. /\ left.score \in Nat /\ \A i \in 1 .. t : bonus[i] \in Nat
        /\ diagonal.score \in Nat /\ diagonal.consecutives \in 0 .. t - 1
    BY <1>3, <2>1, <2>4
  <2>7. /\ cell[t].score \in Nat /\ cell[t].consecutives \in 0 .. t
        /\ isMatch => cell[t].score >= ScoreMatch
    BY ONLY <2>1, <2>5, <2>6, CellType
  <2> QED BY <2>3, <2>7
<1>4. Nat \subseteq S
  <2> HIDE DEF S
  <2> QED BY <1>2, <1>3, Induct
<1> QED BY <1>4

\* Every row of the matrix is sound.
LEMMA MatrixType ==
    ASSUME NEW slice, NEW bonus, NEW pattern, Len(pattern) \in Nat, Len(slice) \in Nat,
           \A i \in 1 .. Len(slice) : bonus[i] \in Nat,
           NEW row, row = Matrix(slice, bonus, pattern),
           NEW q \in 0 .. Len(pattern), NEW u \in 0 .. Len(slice)
    PROVE  row[q][u].score \in Nat /\ row[q][u].consecutives \in 0 .. u
<1> DEFINE n == Len(slice)
           m == Len(pattern)
           Good(p) == \A t \in 0 .. n : row[p][t].score \in Nat /\ row[p][t].consecutives \in 0 .. t
           S == {k \in Nat : k <= m => Good(k)}
<1>1. 0 \in S
  <2>1. row[0] = [t \in 0 .. n |-> Zero]
    BY MatrixValue
  <2> QED BY <2>1 DEF Zero
<1>2. ASSUME NEW p \in 1 .. m, Good(p - 1)
      PROVE  \A t \in 0 .. n :
               /\ row[p][t].score \in Nat /\ row[p][t].consecutives \in 0 .. t
               /\ p <= t /\ RemoveAccent(slice[t]) = pattern[p] => row[p][t].score >= ScoreMatch
  <2>1. row[p] = MatrixRow(row[p - 1], p, slice, bonus, pattern)
    BY MatrixValue, SMT
  <2>2. p \in Nat \ {0}
    OBVIOUS
  <2> QED BY <1>2, <2>1, <2>2, MatrixRowType
<1>3. ASSUME NEW k \in Nat, k \in S PROVE k + 1 \in S
  <2> SUFFICES ASSUME k + 1 <= m PROVE Good(k + 1)
    OBVIOUS
  <2>1. k + 1 \in 1 .. m /\ (k + 1) - 1 = k /\ Good(k)
    BY <1>3
  <2> HIDE DEF Good
  <2>2. Good((k + 1) - 1)
    BY <2>1
  <2> QED BY <1>2, <2>1, <2>2 DEF Good
<1>4. Nat \subseteq S
  <2> HIDE DEF S
  <2> QED BY <1>1, <1>3, Induct
<1>5. ASSUME NEW p \in 0 .. m PROVE Good(p)
  BY <1>4
<1>6. Good(q)
  BY <1>5
<1> QED BY <1>6

\* A match is worth something.
LEMMA MatrixMatch ==
    ASSUME NEW slice, NEW bonus, NEW pattern, Len(pattern) \in Nat, Len(slice) \in Nat,
           \A i \in 1 .. Len(slice) : bonus[i] \in Nat,
           NEW row, row = Matrix(slice, bonus, pattern),
           NEW q \in 1 .. Len(pattern), NEW u \in q .. Len(slice),
           RemoveAccent(slice[u]) = pattern[q]
    PROVE  row[q][u].score >= ScoreMatch
<1>1. row[q] = MatrixRow(row[q - 1], q, slice, bonus, pattern)
  BY MatrixValue, SMT
<1>2. ASSUME NEW t \in 0 .. Len(slice)
      PROVE  row[q - 1][t].score \in Nat /\ row[q - 1][t].consecutives \in 0 .. t
  <2>1. q - 1 \in 0 .. Len(pattern)
    OBVIOUS
  <2> QED BY <2>1, MatrixType
<1>3. q \in Nat \ {0} /\ u \in 0 .. Len(slice) /\ q <= u
  OBVIOUS
<1> QED BY <1>1, <1>2, <1>3, MatrixRowType

\* The rows that are reused hold, in the window of each character, the cells of
\* the matrix, whatever was in them before.
LEMMA RowsAreTheMatrix ==
    ASSUME NEW rows, NEW slice, NEW bonus, NEW pattern, Len(slice) \in Nat,
           Len(pattern) \in Nat, Len(pattern) <= Len(slice),
           NEW after, after = RowsAfter(rows, slice, bonus, pattern),
           NEW row, row = Matrix(slice, bonus, pattern),
           NEW q \in 0 .. Len(pattern), NEW u \in q .. Len(slice) - (Len(pattern) - q)
    PROVE  after[q].prev[u + 1] = row[q][u]
<1> DEFINE n == Len(slice)
           m == Len(pattern)
           last(p) == n - (m - p)
           Shape(p) == DOMAIN after[p].prev = 1 .. n + 1 /\ DOMAIN after[p].current = 1 .. n + 1
           Same(p) == \A t \in p .. last(p) : after[p].prev[t + 1] = row[p][t]
           S == {k \in Nat : k <= m => Shape(k) /\ Same(k)}
<1>1. 0 \in S
  <2>1. row[0] = [t \in 0 .. n |-> Zero]
    BY MatrixValue
  <2>2. after[0] = [prev |-> Filled(rows.prev, n + 1), current |-> Resized(rows.current, n + 1)]
    BY RowsAfterValue
  <2>3. Shape(0)
    BY <2>2 DEF Filled, Resized
  <2>4. ASSUME NEW t \in 0 .. last(0) PROVE after[0].prev[t + 1] = row[0][t]
    <3>1. t \in 0 .. n /\ t + 1 \in 1 .. n + 1
      OBVIOUS
    <3>2. after[0].prev[t + 1] = Zero
      BY <2>2, <3>1 DEF Filled
    <3> QED BY <2>1, <3>1, <3>2
  <2> QED BY <2>3, <2>4
<1>2. ASSUME NEW p \in 1 .. m, Shape(p - 1), Same(p - 1) PROVE Shape(p) /\ Same(p)
  <2> DEFINE before == after[p - 1]
             current == Cleared(before.current, p)
             cell == RowCells(before.prev, current[p], p, slice, bonus, pattern)
  <2>1. after[p] = [prev |-> NextRow(before, p, slice, bonus, pattern), current |-> before.prev]
    BY RowsAfterValue, SMT
  <2>2. DOMAIN current = 1 .. n + 1 /\ current[p] = Zero
    BY <1>2 DEF Cleared
  <2>3. last(p) = LastColumn(p, slice, pattern) /\ last(p) \in Int /\ p - 1 <= last(p)
        /\ p \in Nat \ {0} /\ last(p) <= n /\ last(p - 1) = last(p) - 1
    BY DEF LastColumn
  <2>4. NextRow(before, p, slice, bonus, pattern)
          = [c \in DOMAIN current |-> IF c - 1 \in p .. last(p) THEN cell[c - 1] ELSE current[c]]
    BY <2>3 DEF NextRow
  <2> HIDE DEF before, current
  <2>5. Shape(p)
    BY <1>2, <2>1, <2>2, <2>4 DEF before
  <2>6. /\ cell[p - 1] = Zero
        /\ \A t \in p .. last(p) :
             cell[t] = Cell(before.prev[t], cell[t - 1], RemoveAccent(slice[t]) = pattern[p],
                            p = 1 /\ t = 1, bonus, t)
    <3> PICK prev, left : prev = before.prev /\ left = current[p]
      OBVIOUS
    <3>1. /\ p \in Nat /\ cell = RowCells(prev, left, p, slice, bonus, pattern)
          /\ LastColumn(p, slice, pattern) \in Int /\ p - 1 <= LastColumn(p, slice, pattern)
      BY <2>3
    <3> HIDE DEF cell
    <3>2. cell = [t \in p - 1 .. LastColumn(p, slice, pattern) |->
                     IF t = p - 1
                     THEN left
                     ELSE Cell(prev[t], cell[t - 1], RemoveAccent(slice[t]) = pattern[p],
                               p = 1 /\ t = 1, bonus, t)]
      BY ONLY <3>1, RowCellsValue
    <3>3. cell[p - 1] = left
      BY <3>1, <3>2
    <3>4. \A t \in p .. last(p) :
            cell[t] = Cell(prev[t], cell[t - 1], RemoveAccent(slice[t]) = pattern[p],
                           p = 1 /\ t = 1, bonus, t)
      BY <2>3, <3>1, <3>2
    <3> QED BY <2>2, <3>3, <3>4
  <2>7. row[p] = MatrixRow(row[p - 1], p, slice, bonus, pattern)
    BY MatrixValue, SMT
  <2>8. \A t \in 0 .. n :
          row[p][t] = IF t < p THEN Zero
                      ELSE Cell(row[p - 1][t - 1], row[p][t - 1],
                                RemoveAccent(slice[t]) = pattern[p], p = 1 /\ t = 1, bonus, t)
    BY <2>3, <2>7, MatrixRowValue
  <2> HIDE DEF cell
  <2> DEFINE C == {k \in Nat : (p - 1) + k <= last(p) => cell[(p - 1) + k] = row[p][(p - 1) + k]}
  <2>9. 0 \in C
    <3>1. (p - 1) + 0 = p - 1 /\ p - 1 \in 0 .. n /\ p - 1 < p
      BY <2>3
    <3> QED BY <2>6, <2>8, <3>1
  <2>10. ASSUME NEW k \in Nat, k \in C PROVE k + 1 \in C
    <3> DEFINE t == (p - 1) + (k + 1)
    <3> SUFFICES ASSUME t <= last(p) PROVE cell[t] = row[p][t]
      OBVIOUS
    <3>1. t \in p .. last(p) /\ t \in 0 .. n /\ ~(t < p) /\ t - 1 = (p - 1) + k
      BY <2>3
    <3>2. cell[t - 1] = row[p][t - 1]
      BY <2>10, <2>3, <3>1
    <3>3. before.prev[t] = row[p - 1][t - 1]
      <4>1. t - 1 \in p - 1 .. last(p - 1) /\ (t - 1) + 1 = t
        BY <2>3, <3>1
      <4> QED BY <1>2, <4>1 DEF before
    <3> HIDE DEF t
    <3>4. cell[t] = Cell(before.prev[t], cell[t - 1], RemoveAccent(slice[t]) = pattern[p],
                            p = 1 /\ t = 1, bonus, t)
      BY <2>6, <3>1
    <3>5. row[p][t] = Cell(row[p - 1][t - 1], row[p][t - 1],
                                RemoveAccent(slice[t]) = pattern[p], p = 1 /\ t = 1, bonus, t)
      BY <2>8, <3>1
    <3> QED BY <3>2, <3>3, <3>4, <3>5
  <2>11. Nat \subseteq C
    <3> HIDE DEF C
    <3> QED BY <2>9, <2>10, Induct
  <2>12. ASSUME NEW t \in p .. last(p) PROVE after[p].prev[t + 1] = row[p][t]
    <3>1. t - (p - 1) \in Nat /\ (p - 1) + (t - (p - 1)) = t /\ t <= last(p)
      BY <2>3
    <3>2. t - (p - 1) \in C
      BY <2>11, <3>1
    <3>3. cell[t] = row[p][t]
      BY <3>1, <3>2
    <3>4. t + 1 \in 1 .. n + 1 /\ (t + 1) - 1 = t
      BY <2>3
    <3> QED BY <2>1, <2>2, <2>4, <3>3, <3>4
  <2> QED BY <2>5, <2>12
<1> HIDE DEF Shape, Same
<1>3. ASSUME NEW k \in Nat, k \in S PROVE k + 1 \in S
  <2> SUFFICES ASSUME k + 1 <= m PROVE Shape(k + 1) /\ Same(k + 1)
    OBVIOUS
  <2>1. k + 1 \in 1 .. m /\ (k + 1) - 1 = k /\ Shape(k) /\ Same(k)
    BY <1>3
  <2> QED BY <1>2, <2>1
<1>4. Nat \subseteq S
  <2> HIDE DEF S
  <2> QED BY <1>1, <1>3, Induct
<1>5. Same(q)
  BY <1>4
<1> QED BY <1>5 DEF Same

-----------------------------------------------------------------------------
(* The scan finds the texts that contain the pattern *)

\* A scan, step by step.
LEMMA ScannedSteps ==
    ASSUME NEW slice, Len(slice) \in Nat, DOMAIN slice = 1 .. Len(slice), NEW pattern
    PROVE  \E met :
             /\ met[0] = 0
             /\ \A i \in 1 .. Len(slice) :
                  met[i] = IF met[i - 1] < Len(pattern)
                                /\ pattern[met[i - 1] + 1] = RemoveAccent(slice[i])
                           THEN met[i - 1] + 1 ELSE met[i - 1]
             /\ Scanned(slice, pattern) = met[Len(slice)]
<1> DEFINE E(x, i) == IF x < Len(pattern) /\ pattern[x + 1] = RemoveAccent(slice[i])
                      THEN x + 1 ELSE x
           n == Len(slice)
<1>1. Scanned(slice, pattern)
        = (CHOOSE f : f = [s \in SUBSET (1 .. n) |->
                             IF s = {} THEN 0 ELSE E(f[s \ {Max(s)}], Max(s))])[1 .. n]
  BY DEF Scanned, FoldLeft, MapThenFoldSet
<1> HIDE DEF E
<1> DEFINE S == {k \in Nat : \E f : f = [s \in SUBSET (1 .. k) |->
                                           IF s = {} THEN 0 ELSE E(f[s \ {Max(s)}], Max(s))]}
<1>2. 0 \in S
  <2> DEFINE f == [s \in SUBSET (1 .. 0) |-> 0]
  <2>1. f = [s \in SUBSET (1 .. 0) |-> IF s = {} THEN 0 ELSE E(f[s \ {Max(s)}], Max(s))]
    OBVIOUS
  <2> QED BY <2>1
<1>3. ASSUME NEW k \in Nat, k \in S PROVE k + 1 \in S
  <2>1. PICK f : f = [s \in SUBSET (1 .. k) |->
                        IF s = {} THEN 0 ELSE E(f[s \ {Max(s)}], Max(s))]
    BY <1>3
  <2> DEFINE m == k + 1
             g == [s \in SUBSET (1 .. m) |-> IF m \in s THEN E(f[s \ {m}], m) ELSE f[s]]
  <2>2. ASSUME NEW s \in SUBSET (1 .. m)
        PROVE  g[s] = IF s = {} THEN 0 ELSE E(g[s \ {Max(s)}], Max(s))
    <3>1. CASE m \in s
      <4>1. Max(s) = m
        BY <3>1, MaxIsLast
      <4>2. s \ {m} \in SUBSET (1 .. m) /\ m \notin s \ {m} /\ s # {}
        BY <3>1
      <4>3. g[s] = E(f[s \ {m}], m) /\ g[s \ {m}] = f[s \ {m}]
        BY <3>1, <4>2
      <4> QED BY <4>1, <4>2, <4>3
    <3>2. CASE m \notin s
      <4>1. s \in SUBSET (1 .. k)
        BY <3>2
      <4>2. g[s] = f[s] /\ f[s] = IF s = {} THEN 0 ELSE E(f[s \ {Max(s)}], Max(s))
        BY <2>1, <3>2, <4>1
      <4>3. g[s \ {Max(s)}] = f[s \ {Max(s)}]
        BY <3>2
      <4> QED BY <4>2, <4>3
    <3> QED BY <3>1, <3>2
  <2>3. g = [s \in SUBSET (1 .. m) |-> IF s = {} THEN 0 ELSE E(g[s \ {Max(s)}], Max(s))]
    BY <2>2
  <2>4. \E f1 : f1 = [s \in SUBSET (1 .. (k + 1)) |->
                        IF s = {} THEN 0 ELSE E(f1[s \ {Max(s)}], Max(s))]
    BY <2>3
  <2>5. k + 1 \in Nat
    OBVIOUS
  <2> QED BY <2>4, <2>5, Zenon
<1> HIDE DEF S
<1>4. n \in S
  BY <1>2, <1>3, Induct
<1>5. \E f : f = [s \in SUBSET (1 .. n) |-> IF s = {} THEN 0 ELSE E(f[s \ {Max(s)}], Max(s))]
  BY <1>4 DEF S
<1>6. PICK f : /\ f = [s \in SUBSET (1 .. n) |-> IF s = {} THEN 0 ELSE E(f[s \ {Max(s)}], Max(s))]
               /\ Scanned(slice, pattern) = f[1 .. n]
  BY <1>1, <1>5, Zenon
<1> DEFINE met == [i \in 0 .. n |-> f[1 .. i]]
<1>7. met[0] = 0
  <2>1. 1 .. 0 = {} /\ {} \in SUBSET (1 .. n)
    OBVIOUS
  <2> QED BY <1>6, <2>1
<1>8. ASSUME NEW i \in 1 .. n PROVE met[i] = E(met[i - 1], i)
  <2>1. 1 .. i \in SUBSET (1 .. n) /\ 1 .. i # {} /\ (1 .. i) \ {i} = 1 .. (i - 1)
    BY FirstNumbers
  <2>2. Max(1 .. i) = i /\ i \in 0 .. n /\ i - 1 \in 0 .. n
    BY FirstNumbers
  <2>3. f[1 .. i] = E(f[1 .. (i - 1)], i)
    BY <1>6, <2>1, <2>2
  <2> QED BY <2>2, <2>3
<1>9. met[n] = f[1 .. n]
  OBVIOUS
<1> HIDE DEF met
<1> QED BY <1>6, <1>7, <1>8, <1>9 DEF E

\* The steps of a scan
ScanSteps(met, slice, pattern) ==
    /\ met[0] = 0
    /\ \A i \in 1 .. Len(slice) :
         met[i] = IF met[i - 1] < Len(pattern)
                       /\ pattern[met[i - 1] + 1] = RemoveAccent(slice[i])
                  THEN met[i - 1] + 1 ELSE met[i - 1]

\* A scan meets at most one character at each place, and never more than the
\* pattern has.
LEMMA ScanBounds ==
    ASSUME NEW slice, Len(slice) \in Nat, NEW pattern, Len(pattern) \in Nat,
           NEW met, ScanSteps(met, slice, pattern)
    PROVE  /\ \A i \in 0 .. Len(slice) :
                met[i] \in Nat /\ met[i] <= Len(pattern) /\ met[i] <= i
           /\ \A i \in 1 .. Len(slice) : met[i - 1] <= met[i] /\ met[i] <= met[i - 1] + 1
<1> DEFINE n == Len(slice)
           S == {k \in Nat : k <= n => met[k] \in Nat /\ met[k] <= Len(pattern) /\ met[k] <= k}
<1>1. 0 \in S
  BY DEF ScanSteps
<1>2. ASSUME NEW k \in Nat, k \in S PROVE k + 1 \in S
  <2> SUFFICES ASSUME k + 1 <= n
               PROVE  met[k + 1] \in Nat /\ met[k + 1] <= Len(pattern) /\ met[k + 1] <= k + 1
    OBVIOUS
  <2>1. k + 1 \in 1 .. n /\ (k + 1) - 1 = k
    OBVIOUS
  <2>2. met[k + 1] = IF met[k] < Len(pattern) /\ pattern[met[k] + 1] = RemoveAccent(slice[k + 1])
                     THEN met[k] + 1 ELSE met[k]
    BY <2>1 DEF ScanSteps
  <2>3. met[k] \in Nat /\ met[k] <= Len(pattern) /\ met[k] <= k
    BY <1>2
  <2> QED BY <2>2, <2>3
<1>3. Nat \subseteq S
  <2> HIDE DEF S
  <2> QED BY <1>1, <1>2, Induct
<1>4. \A i \in 0 .. n : met[i] \in Nat /\ met[i] <= Len(pattern) /\ met[i] <= i
  BY <1>3
<1>5. ASSUME NEW i \in 1 .. n PROVE met[i - 1] <= met[i] /\ met[i] <= met[i - 1] + 1
  <2>1. met[i] = met[i - 1] + 1 \/ met[i] = met[i - 1]
    BY DEF ScanSteps
  <2>2. met[i - 1] \in Nat
    BY <1>4
  <2> QED BY <2>1, <2>2
<1> QED BY <1>4, <1>5

\* What a scan has met it keeps.
LEMMA ScanKeeps ==
    ASSUME NEW slice, Len(slice) \in Nat, NEW pattern, Len(pattern) \in Nat,
           NEW met, ScanSteps(met, slice, pattern)
    PROVE  \A j \in 0 .. Len(slice), i \in 0 .. Len(slice) : i <= j => met[i] <= met[j]
<1> DEFINE n == Len(slice)
           S == {k \in Nat : k <= n => \A i \in 0 .. k : met[i] <= met[k]}
<1>0. \A i \in 0 .. n : met[i] \in Nat
  BY ScanBounds
<1>1. 0 \in S
  BY <1>0
<1>2. ASSUME NEW k \in Nat, k \in S PROVE k + 1 \in S
  <2> SUFFICES ASSUME k + 1 <= n, NEW i \in 0 .. k + 1
               PROVE  met[i] <= met[k + 1]
    OBVIOUS
  <2>1. met[k + 1] \in Nat /\ met[k] \in Nat /\ met[i] \in Nat
    BY <1>0
  <2>2. k + 1 \in 1 .. n /\ (k + 1) - 1 = k
    OBVIOUS
  <2>3. met[k] <= met[k + 1]
    BY <2>2, ScanBounds
  <2>4. i # k + 1 => met[i] <= met[k]
    BY <1>2
  <2> QED BY <2>1, <2>3, <2>4
<1>3. Nat \subseteq S
  <2> HIDE DEF S
  <2> QED BY <1>1, <1>2, Induct
<1> QED BY <1>3

\* A greedy scan meets all of a pattern that occurs in the slice.
LEMMA ScanMeetsAll ==
    ASSUME NEW slice, IsList(slice), NEW pattern, IsList(pattern), IsSubsequence(pattern, slice)
    PROVE  Scanned(slice, pattern) = Len(pattern)
<1> DEFINE n == Len(slice)
           m == Len(pattern)
<1>1. n \in Nat /\ DOMAIN slice = 1 .. n /\ m \in Nat /\ DOMAIN pattern = 1 .. m
  BY ListFacts
<1>2. PICK met : ScanSteps(met, slice, pattern) /\ Scanned(slice, pattern) = met[n]
  BY <1>1, ScannedSteps DEF ScanSteps
<1>3. PICK place \in [1 .. m -> 1 .. n] :
        /\ \A i \in 1 .. m : RemoveAccent(slice[place[i]]) = pattern[i]
        /\ \A i \in 1 .. m - 1 : place[i] < place[i + 1]
  BY <1>1 DEF IsSubsequence
<1> HIDE DEF n, m
<1>4. \A i \in 0 .. n : met[i] \in Nat /\ met[i] <= m
  BY <1>1, <1>2, ScanBounds DEF n, m
<1>5. \A j \in 0 .. n, i \in 0 .. n : i <= j => met[i] <= met[j]
  BY <1>1, <1>2, ScanKeeps DEF n, m
<1> DEFINE S == {k \in Nat : k + 1 <= m => met[place[k + 1]] >= k + 1}
<1>6. ASSUME NEW k \in 1 .. m, met[place[k] - 1] >= k - 1
      PROVE  met[place[k]] >= k
  <2>1. /\ place[k] \in 1 .. n /\ place[k] - 1 \in 0 .. n
        /\ RemoveAccent(slice[place[k]]) = pattern[k]
    BY <1>1, <1>3
  <2> PICK at : at = place[k]
    OBVIOUS
  <2>2. met[at] = IF met[at - 1] < m /\ pattern[met[at - 1] + 1] = RemoveAccent(slice[at])
                  THEN met[at - 1] + 1 ELSE met[at - 1]
    BY <1>2, <2>1 DEF ScanSteps, n, m
  <2>3. met[at - 1] \in Nat /\ met[at - 1] >= k - 1 /\ k \in Nat /\ k <= m
    BY <1>1, <1>4, <1>6, <2>1
  <2>4. CASE met[at - 1] = k - 1
    <3>1. met[at - 1] < m /\ met[at - 1] + 1 = k
      BY <1>1, <2>3, <2>4
    <3>2. met[at] = met[at - 1] + 1
      BY <2>1, <2>2, <3>1
    <3> QED BY <2>3, <3>1, <3>2
  <2>5. CASE met[at - 1] # k - 1
    <3>1. met[at - 1] >= k
      BY <2>3, <2>5
    <3>2. met[at] = met[at - 1] + 1 \/ met[at] = met[at - 1]
      BY <2>2
    <3> QED BY <2>3, <3>1, <3>2
  <2> QED BY <2>4, <2>5
<1>7. 0 \in S
  <2> SUFFICES ASSUME 1 <= m PROVE met[place[1]] >= 1
    OBVIOUS
  <2>1. 1 \in 1 .. m /\ place[1] - 1 \in 0 .. n /\ 1 - 1 = 0
    BY <1>1, <1>3
  <2>2. met[place[1] - 1] >= 1 - 1
    BY <1>4, <2>1
  <2> QED BY <1>6, <2>1, <2>2
<1>8. ASSUME NEW k \in Nat, k \in S PROVE k + 1 \in S
  <2> SUFFICES ASSUME (k + 1) + 1 <= m PROVE met[place[(k + 1) + 1]] >= (k + 1) + 1
    OBVIOUS
  <2> PICK j : j = k + 1
    OBVIOUS
  <2>1. j \in 1 .. m /\ j + 1 \in 1 .. m /\ j \in 1 .. m - 1 /\ (j + 1) - 1 = j
    BY <1>1
  <2>2. place[j] < place[j + 1] /\ place[j] \in 1 .. n /\ place[j + 1] \in 1 .. n
    BY <1>3, <2>1
  <2>3. place[j] \in 0 .. n /\ place[j + 1] - 1 \in 0 .. n /\ place[j] <= place[j + 1] - 1
    BY <1>1, <2>2
  <2>4. met[place[j]] <= met[place[j + 1] - 1]
    BY <1>5, <2>3
  <2>5. met[place[j]] >= j
    BY <1>8, <2>1
  <2>6. met[place[j + 1] - 1] >= (j + 1) - 1
    BY <1>4, <2>1, <2>3, <2>4, <2>5
  <2>7. met[place[j + 1]] >= j + 1
    BY <1>6, <2>1, <2>6
  <2> QED BY <2>7
<1>9. Nat \subseteq S
  <2> HIDE DEF S
  <2> QED BY <1>7, <1>8, Induct
<1>10. CASE m = 0
  BY <1>1, <1>2, <1>4, <1>10 DEF m
<1>11. CASE m # 0
  <2>1. m \in 1 .. m /\ m - 1 \in Nat /\ (m - 1) + 1 = m
    BY <1>1, <1>11
  <2>2. met[place[m]] >= m
    BY <1>9, <2>1
  <2>3. place[m] \in 0 .. n /\ n \in 0 .. n /\ place[m] <= n
    BY <1>1, <1>3, <2>1
  <2>4. met[place[m]] <= met[n] /\ met[n] \in Nat /\ met[n] <= m /\ met[place[m]] \in Nat
    BY <1>4, <1>5, <2>3
  <2> QED BY <1>1, <1>2, <2>2, <2>4 DEF m
<1> QED BY <1>10, <1>11

\* A pattern of which a scan meets everything occurs in the slice.
LEMMA ScanFinds ==
    ASSUME NEW slice, IsList(slice), NEW pattern, IsList(pattern),
           Scanned(slice, pattern) = Len(pattern)
    PROVE  IsSubsequence(pattern, slice) /\ Len(pattern) <= Len(slice)
<1> DEFINE n == Len(slice)
           m == Len(pattern)
<1>1. n \in Nat /\ DOMAIN slice = 1 .. n /\ m \in Nat /\ DOMAIN pattern = 1 .. m
  BY ListFacts
<1>2. PICK met : ScanSteps(met, slice, pattern) /\ met[n] = m
  <2>1. \E met : ScanSteps(met, slice, pattern) /\ Scanned(slice, pattern) = met[n]
    BY <1>1, ScannedSteps DEF ScanSteps
  <2> QED BY <2>1
<1> HIDE DEF n, m
<1>3. \A i \in 0 .. n : met[i] \in Nat /\ met[i] <= m /\ met[i] <= i
  BY <1>1, <1>2, ScanBounds DEF n, m
<1>4. \A i \in 1 .. n : met[i - 1] <= met[i] /\ met[i] <= met[i - 1] + 1
  BY <1>1, <1>2, ScanBounds DEF n, m
<1>5. \A j \in 0 .. n, i \in 0 .. n : i <= j => met[i] <= met[j]
  BY <1>1, <1>2, ScanKeeps DEF n, m
<1>6. m <= n
  <2>1. n \in 0 .. n
    BY <1>1
  <2> QED BY <1>2, <1>3, <2>1
<1>7. ASSUME NEW k \in 1 .. m
      PROVE  \E i \in 1 .. n : met[i - 1] = k - 1 /\ met[i] = k
  <2> DEFINE T == {i \in 0 .. n : met[i] >= k}
  <2>1. T \subseteq Nat /\ n \in T
    BY <1>1, <1>2, <1>3
  <2>2. PICK i \in T : \A j \in T : i <= j
    BY <2>1, LeastNat
  <2>3. i # 0
    <3>1. met[0] = 0
      BY <1>2 DEF ScanSteps
    <3> QED BY <1>1, <3>1
  <2>4. i \in 1 .. n /\ i - 1 \in 0 .. n /\ i - 1 < i
    BY <1>1, <2>3
  <2>5. ~(met[i - 1] >= k)
    BY <1>1, <2>2, <2>4
  <2>6. met[i] >= k /\ met[i] \in Nat /\ met[i - 1] \in Nat /\ met[i] <= met[i - 1] + 1
    BY <1>3, <1>4, <2>4
  <2>7. met[i - 1] = k - 1 /\ met[i] = k
    BY <1>1, <2>5, <2>6
  <2> QED BY <2>4, <2>7
<1> DEFINE place == [k \in 1 .. m |-> CHOOSE i \in 1 .. n : met[i - 1] = k - 1 /\ met[i] = k]
<1>8. ASSUME NEW k \in 1 .. m
      PROVE  place[k] \in 1 .. n /\ met[place[k] - 1] = k - 1 /\ met[place[k]] = k
  BY <1>7
<1>9. place \in [DOMAIN pattern -> DOMAIN slice]
  <2>1. \A k \in 1 .. m : place[k] \in 1 .. n
    BY <1>8
  <2> QED BY <1>1, <2>1
<1> HIDE DEF place
<1>10. ASSUME NEW k \in 1 .. m PROVE RemoveAccent(slice[place[k]]) = pattern[k]
  <2> PICK at : at = place[k]
    OBVIOUS
  <2>1. at \in 1 .. n /\ met[at - 1] = k - 1 /\ met[at] = k
    BY <1>8
  <2>2. met[at] = IF met[at - 1] < m /\ pattern[met[at - 1] + 1] = RemoveAccent(slice[at])
                  THEN met[at - 1] + 1 ELSE met[at - 1]
    BY <1>2, <2>1 DEF ScanSteps, n, m
  <2>3. k \in Nat /\ k - 1 # k /\ (k - 1) + 1 = k
    BY <1>1
  <2> QED BY <2>1, <2>2, <2>3
<1>11. ASSUME NEW k \in 1 .. m - 1 PROVE place[k] < place[k + 1]
  <2>1. k \in 1 .. m /\ k + 1 \in 1 .. m
    BY <1>1
  <2> PICK p, q : p = place[k] /\ q = place[k + 1]
    OBVIOUS
  <2>2. p \in 1 .. n /\ q \in 1 .. n /\ met[p] = k /\ met[q] = k + 1
    BY <1>8, <2>1
  <2>3. q <= p => met[q] <= met[p]
    BY <1>1, <1>5, <2>2
  <2> QED BY <1>1, <2>2, <2>3
<1>12. \E place1 \in [DOMAIN pattern -> DOMAIN slice] :
         /\ \A i \in DOMAIN pattern : RemoveAccent(slice[place1[i]]) = pattern[i]
         /\ \A i \in 1 .. m - 1 : place1[i] < place1[i + 1]
  BY <1>1, <1>9, <1>10, <1>11
<1> QED BY <1>6, <1>12 DEF IsSubsequence, m, n

\* Where a text has a character.
Places(text, c) == {i \in DOMAIN text : RemoveAccent(text[i]) = c}

\* The first and the last of them.
LEMMA PlacesFacts ==
    ASSUME NEW text, IsList(text), NEW c, Places(text, c) # {}
    PROVE  /\ Max(Places(text, c)) \in Places(text, c) /\ Min(Places(text, c)) \in Places(text, c)
           /\ \A i \in Places(text, c) : i <= Max(Places(text, c)) /\ Min(Places(text, c)) <= i
<1> DEFINE T == Places(text, c)
<1>1. T \subseteq 1 .. Len(text) /\ Len(text) \in Nat
  BY ListFacts DEF Places
<1> HIDE DEF T
<1>2. T \subseteq Int /\ \A x \in T : x <= Len(text) /\ 0 <= x
  BY <1>1
<1>3. Max(T) \in T /\ \A x \in T : x <= Max(T)
  BY <1>1, <1>2, GreatestInt DEF T
<1>4. Min(T) \in T /\ \A x \in T : Min(T) <= x
  BY <1>1, <1>2, LeastInt DEF T
<1> QED BY <1>3, <1>4 DEF T

\* The bounds that are found, if they are.
LEMMA SomeBounds ==
    ASSUME NEW text, IsList(text), NEW pattern, IsList(pattern),
           NEW bounds, bounds = ViableBounds(text, pattern), bounds # NoBounds
    PROVE  /\ bounds[1] \in 1 .. Len(text) /\ bounds[2] \in bounds[1] .. Len(text)
           /\ RemoveAccent(text[bounds[2]]) = pattern[Len(pattern)]
           /\ Scanned(SubSeq(text, bounds[1], bounds[2]), pattern) = Len(pattern)
<1> DEFINE firsts == Places(text, pattern[1])
           lasts == Places(text, pattern[Len(pattern)])
<1>1. /\ firsts # {} /\ lasts # {} /\ bounds = <<Min(firsts), Max(lasts)>>
      /\ ~(Max(lasts) < Min(firsts))
      /\ Scanned(SubSeq(text, Min(firsts), Max(lasts)), pattern) = Len(pattern)
  BY DEF ViableBounds, Places
<1>2. Max(lasts) \in lasts /\ Min(firsts) \in firsts
  BY <1>1, PlacesFacts
<1>3. /\ Max(lasts) \in 1 .. Len(text) /\ Min(firsts) \in 1 .. Len(text) /\ Len(text) \in Nat
      /\ RemoveAccent(text[Max(lasts)]) = pattern[Len(pattern)]
  BY <1>2, ListFacts DEF Places
<1> HIDE DEF firsts, lasts
<1> QED BY <1>1, <1>3

\* There are bounds exactly for the texts that contain the pattern.
LEMMA BoundsIffContained ==
    ASSUME NEW text, IsList(text), NEW pattern, IsList(pattern), pattern # <<>>
    PROVE  ViableBounds(text, pattern) # NoBounds <=> IsSubsequence(pattern, text)
<1> DEFINE bounds == ViableBounds(text, pattern)
           m == Len(pattern)
<1>0. /\ Len(text) \in Nat /\ DOMAIN text = 1 .. Len(text)
      /\ m \in Nat \ {0} /\ DOMAIN pattern = 1 .. m
  BY ListFacts, NotEmpty
<1> HIDE DEF m
<1>1. ASSUME bounds # NoBounds PROVE IsSubsequence(pattern, text)
  <2> PICK lo, hi : lo = bounds[1] /\ hi = bounds[2]
    OBVIOUS
  <2> DEFINE slice == SubSeq(text, lo, hi)
  <2>1. lo \in 1 .. Len(text) /\ hi \in lo .. Len(text) /\ Scanned(slice, pattern) = Len(pattern)
    BY <1>1, SomeBounds
  <2>2. /\ IsList(slice) /\ Len(slice) = hi - lo + 1 /\ DOMAIN slice = 1 .. hi - lo + 1
        /\ \A i \in 1 .. hi - lo + 1 : slice[i] = text[lo + i - 1]
    BY <2>1, SliceFacts, ListFacts
  <2> HIDE DEF slice
  <2>3. PICK place \in [1 .. m -> 1 .. hi - lo + 1] :
          /\ \A i \in 1 .. m : RemoveAccent(slice[place[i]]) = pattern[i]
          /\ \A i \in 1 .. m - 1 : place[i] < place[i + 1]
    <3>1. IsSubsequence(pattern, slice)
      BY <2>1, <2>2, ScanFinds DEF slice
    <3> QED BY <1>0, <2>2, <3>1 DEF IsSubsequence, m
  <2> DEFINE there == [i \in 1 .. m |-> lo + place[i] - 1]
  <2>4. ASSUME NEW i \in 1 .. m
        PROVE  there[i] \in 1 .. Len(text) /\ RemoveAccent(text[there[i]]) = pattern[i]
    <3>1. place[i] \in 1 .. hi - lo + 1 /\ there[i] = lo + place[i] - 1
      BY <2>3
    <3>2. slice[place[i]] = text[lo + place[i] - 1] /\ RemoveAccent(slice[place[i]]) = pattern[i]
      BY <2>2, <2>3, <3>1
    <3>3. there[i] \in 1 .. Len(text)
      BY <1>0, <2>1, <3>1
    <3> QED BY <3>1, <3>2, <3>3
  <2>5. ASSUME NEW i \in 1 .. m - 1 PROVE there[i] < there[i + 1]
    <3>1. i \in 1 .. m /\ i + 1 \in 1 .. m
      BY <1>0
    <3>2. place[i] \in Int /\ place[i + 1] \in Int /\ place[i] < place[i + 1]
      BY <2>3, <3>1
    <3> QED BY <2>1, <3>1, <3>2
  <2>6. there \in [DOMAIN pattern -> DOMAIN text]
    <3>1. \A i \in 1 .. m : there[i] \in 1 .. Len(text)
      BY <2>4
    <3> QED BY <1>0, <3>1
  <2> HIDE DEF there
  <2>7. \E p \in [DOMAIN pattern -> DOMAIN text] :
          /\ \A i \in DOMAIN pattern : RemoveAccent(text[p[i]]) = pattern[i]
          /\ \A i \in 1 .. m - 1 : p[i] < p[i + 1]
    BY <1>0, <2>4, <2>5, <2>6
  <2> QED BY <2>7 DEF IsSubsequence, m
<1>2. ASSUME IsSubsequence(pattern, text) PROVE bounds # NoBounds
  <2>1. PICK place \in [1 .. m -> 1 .. Len(text)] :
          /\ \A i \in 1 .. m : RemoveAccent(text[place[i]]) = pattern[i]
          /\ \A i \in 1 .. m - 1 : place[i] < place[i + 1]
    BY <1>0, <1>2 DEF IsSubsequence, m
  <2> DEFINE firsts == Places(text, pattern[1])
             lasts == Places(text, pattern[m])
  <2>2. 1 \in 1 .. m /\ m \in 1 .. m
    BY <1>0
  <2>3. place[1] \in firsts /\ place[m] \in lasts
    BY <1>0, <2>1, <2>2 DEF Places
  <2>4. \A i \in 1 .. m : place[1] <= place[i] /\ place[i] <= place[m]
    <3> DEFINE S == {k \in Nat : k + 1 <= m => place[1] <= place[k + 1]}
               R == {k \in Nat : k + 1 <= m => place[m - k] <= place[m]}
    <3>1. \A i \in 1 .. m : place[i] \in Int
      BY <2>1
    <3>2. 0 \in S /\ 0 \in R
      BY <1>0, <2>2, <3>1
    <3>3. ASSUME NEW k \in Nat, k \in S PROVE k + 1 \in S
      <4> SUFFICES ASSUME (k + 1) + 1 <= m PROVE place[1] <= place[(k + 1) + 1]
        OBVIOUS
      <4>1. k + 1 \in 1 .. m - 1 /\ (k + 1) + 1 \in 1 .. m /\ k + 1 \in 1 .. m
        BY <1>0
      <4>2. place[1] <= place[k + 1]
        BY <1>0, <3>3, <4>1
      <4> QED BY <2>1, <2>2, <3>1, <4>1, <4>2
    <3>4. ASSUME NEW k \in Nat, k \in R PROVE k + 1 \in R
      <4> SUFFICES ASSUME (k + 1) + 1 <= m PROVE place[m - (k + 1)] <= place[m]
        OBVIOUS
      <4>1. /\ m - (k + 1) \in 1 .. m - 1 /\ m - (k + 1) \in 1 .. m /\ m - k \in 1 .. m
            /\ (m - (k + 1)) + 1 = m - k
        BY <1>0
      <4>2. place[m - k] <= place[m]
        BY <1>0, <3>4, <4>1
      <4>3. place[m - (k + 1)] < place[m - k]
        BY <2>1, <4>1
      <4>4. place[m - (k + 1)] \in Int /\ place[m - k] \in Int /\ place[m] \in Int
        BY <2>2, <3>1, <4>1
      <4> QED BY <4>2, <4>3, <4>4
    <3>5. Nat \subseteq S /\ Nat \subseteq R
      <4> HIDE DEF S, R
      <4>1. Nat \subseteq S
        BY <3>2, <3>3, Induct
      <4>2. Nat \subseteq R
        BY <3>2, <3>4, Induct
      <4> QED BY <4>1, <4>2
    <3>6. ASSUME NEW i \in 1 .. m PROVE place[1] <= place[i] /\ place[i] <= place[m]
      <4>1. i - 1 \in Nat /\ (i - 1) + 1 = i /\ i <= m /\ m - i \in Nat /\ m - (m - i) = i
            /\ (m - i) + 1 <= m
        BY <1>0
      <4>2. i - 1 \in S /\ m - i \in R
        BY <3>5, <4>1
      <4> QED BY <4>1, <4>2
    <3> QED BY <3>6
  <2> PICK lo, hi : lo = Min(firsts) /\ hi = Max(lasts)
    OBVIOUS
  <2>5. lo \in firsts /\ hi \in lasts /\ lo <= place[1] /\ place[m] <= hi
    BY <2>3, PlacesFacts
  <2>6. lo \in 1 .. Len(text) /\ hi \in lo .. Len(text)
    <3>1. lo \in 1 .. Len(text) /\ hi \in 1 .. Len(text)
      BY <1>0, <2>5 DEF Places
    <3>2. place[1] <= place[m] /\ place[1] \in Int /\ place[m] \in Int
      BY <2>1, <2>2, <2>4
    <3> QED BY <1>0, <2>5, <3>1, <3>2
  <2> DEFINE slice == SubSeq(text, lo, hi)
             here == [i \in 1 .. m |-> place[i] - lo + 1]
  <2>7. /\ IsList(slice) /\ Len(slice) = hi - lo + 1 /\ DOMAIN slice = 1 .. hi - lo + 1
        /\ \A i \in 1 .. hi - lo + 1 : slice[i] = text[lo + i - 1]
    BY <2>6, SliceFacts, ListFacts
  <2> HIDE DEF slice
  <2>8. ASSUME NEW i \in 1 .. m
        PROVE  here[i] \in 1 .. hi - lo + 1 /\ RemoveAccent(slice[here[i]]) = pattern[i]
    <3>1. /\ place[i] \in Int /\ place[1] \in Int /\ place[m] \in Int
          /\ place[1] <= place[i] /\ place[i] <= place[m]
      BY <2>1, <2>2, <2>4
    <3>2. here[i] \in 1 .. hi - lo + 1 /\ lo + here[i] - 1 = place[i]
      BY <2>5, <2>6, <3>1
    <3> QED BY <2>1, <2>7, <3>2
  <2>9. ASSUME NEW i \in 1 .. m - 1 PROVE here[i] < here[i + 1]
    <3>1. i \in 1 .. m /\ i + 1 \in 1 .. m
      BY <1>0
    <3>2. place[i] \in Int /\ place[i + 1] \in Int /\ place[i] < place[i + 1]
      BY <2>1, <3>1
    <3> QED BY <2>6, <3>1, <3>2
  <2>10. here \in [DOMAIN pattern -> DOMAIN slice]
    <3>1. \A i \in 1 .. m : here[i] \in 1 .. hi - lo + 1
      BY <2>8
    <3> QED BY <1>0, <2>7, <3>1
  <2> HIDE DEF here
  <2>11. \E p \in [DOMAIN pattern -> DOMAIN slice] :
          /\ \A i \in DOMAIN pattern : RemoveAccent(slice[p[i]]) = pattern[i]
          /\ \A i \in 1 .. m - 1 : p[i] < p[i + 1]
    BY <1>0, <2>8, <2>9, <2>10
  <2>12. Scanned(slice, pattern) = Len(pattern)
    BY <2>7, <2>11, ScanMeetsAll DEF IsSubsequence, m
  <2>13. text # <<>> /\ firsts # {} /\ lasts # {} /\ ~(hi < lo)
    BY <2>5, <2>6, NotEmpty
  <2>14. bounds = <<lo, hi>>
    BY <2>12, <2>13 DEF ViableBounds, Places, slice, m
  <2>15. <<lo, hi>> # <<0, 0>>
    <3>1. lo # 0
      BY <2>6
    <3> QED BY <3>1
  <2> QED BY <2>14, <2>15 DEF NoBounds
<1> QED BY <1>1, <1>2

-----------------------------------------------------------------------------
(* The score *)

\* The score of a text that contains the pattern.
LEMMA MatchExact ==
    ASSUME NEW text, IsList(text), NEW pattern, IsList(pattern), pattern # <<>>, NEW rows
    PROVE  MatchScore(rows, text, pattern).score
             = IF IsSubsequence(pattern, text) THEN ReferenceScore(text, pattern) ELSE 0
<1>1. CASE ViableBounds(text, pattern) = NoBounds
  <2>1. ~IsSubsequence(pattern, text)
    BY <1>1, BoundsIffContained
  <2> QED BY <1>1, <2>1 DEF MatchScore
<1>2. CASE ViableBounds(text, pattern) # NoBounds
  <2>1. PICK bounds, lo, hi :
          bounds = ViableBounds(text, pattern) /\ lo = bounds[1] /\ hi = bounds[2]
    OBVIOUS
  <2>2. PICK slice, bonus : slice = SubSeq(text, lo, hi) /\ bonus = SliceBonus(text, bounds)
    OBVIOUS
  <2>3. PICK m, n, after, row :
          /\ m = Len(pattern) /\ n = Len(slice)
          /\ after = RowsAfter(rows, slice, bonus, pattern)
          /\ row = Matrix(slice, bonus, pattern)
    OBVIOUS
  <2>4. IsSubsequence(pattern, text)
    BY <1>2, BoundsIffContained
  <2>5. lo \in 1 .. Len(text) /\ hi \in lo .. Len(text) /\ Scanned(slice, pattern) = m
    BY <1>2, <2>1, <2>2, <2>3, SomeBounds
  <2>6. IsList(slice) /\ n \in Nat /\ m \in Nat
    BY <2>2, <2>3, <2>5, SliceFacts, ListFacts
  <2>7. m <= n
    BY <2>3, <2>5, <2>6, ScanFinds
  <2>8. /\ MatchScore(rows, text, pattern).score = Max({after[m].prev[c].score : c \in m + 1 .. n + 1})
        /\ ReferenceScore(text, pattern) = Max({row[m][t].score : t \in m .. n})
    BY <1>2, <2>1, <2>2, <2>3 DEF MatchScore, ReferenceScore
  <2>9. ASSUME NEW t \in m .. n PROVE after[m].prev[t + 1] = row[m][t]
    <3>1. m \in 0 .. m /\ t \in m .. n - (m - m)
      BY <2>6
    <3> QED BY <2>3, <2>6, <2>7, <3>1, RowsAreTheMatrix
  <2>10. PICK p, r : p = after[m].prev /\ r = row[m]
    OBVIOUS
  <2>11. \A t \in m .. n : p[t + 1] = r[t]
    BY <2>9, <2>10
  <2> DEFINE A == {p[c].score : c \in m + 1 .. n + 1}
             B == {r[t].score : t \in m .. n}
  <2>12. ASSUME NEW c \in m + 1 .. n + 1 PROVE \E t \in m .. n : p[c].score = r[t].score
    <3>1. c - 1 \in m .. n /\ (c - 1) + 1 = c
      BY <2>6
    <3>2. p[c] = r[c - 1]
      BY <2>11, <3>1
    <3> QED BY <3>1, <3>2
  <2>13. ASSUME NEW t \in m .. n PROVE \E c \in m + 1 .. n + 1 : p[c].score = r[t].score
    <3>1. t + 1 \in m + 1 .. n + 1
      BY <2>6
    <3>2. p[t + 1] = r[t]
      BY <2>11
    <3> QED BY <3>1, <3>2
  <2>14. \A x \in A : x \in B
    BY <2>12
  <2>15. \A x \in B : x \in A
    BY <2>13
  <2>16. A = B
    BY <2>14, <2>15
  <2> QED BY <2>4, <2>8, <2>10, <2>16
<1> QED BY <1>1, <1>2

\* The score of a text that contains the pattern is positive.
LEMMA MatchPositive ==
    ASSUME NEW text, IsList(text), NEW pattern, IsList(pattern), pattern # <<>>,
           IsSubsequence(pattern, text)
    PROVE  ReferenceScore(text, pattern) \in Nat /\ ReferenceScore(text, pattern) > 0
<1>1. PICK bounds, lo, hi :
        bounds = ViableBounds(text, pattern) /\ lo = bounds[1] /\ hi = bounds[2]
  OBVIOUS
<1>2. PICK slice, bonus : slice = SubSeq(text, lo, hi) /\ bonus = SliceBonus(text, bounds)
  OBVIOUS
<1>3. PICK m, n, row : m = Len(pattern) /\ n = Len(slice) /\ row = Matrix(slice, bonus, pattern)
  OBVIOUS
<1>4. bounds # NoBounds
  BY <1>1, BoundsIffContained
<1>5. /\ lo \in 1 .. Len(text) /\ hi \in lo .. Len(text)
      /\ RemoveAccent(text[hi]) = pattern[m]
      /\ Scanned(slice, pattern) = m
  BY <1>1, <1>2, <1>3, <1>4, SomeBounds
<1>6. IsList(slice) /\ n \in Nat /\ m \in Nat \ {0} /\ Len(text) \in Nat
  BY <1>2, <1>3, <1>5, SliceFacts, ListFacts, NotEmpty
<1>7. m <= n /\ m \in 1 .. m /\ n \in m .. n /\ \A t \in m .. n : t \in 0 .. n
  <2>1. m <= n
    BY <1>3, <1>5, <1>6, ScanFinds
  <2> QED BY <1>6, <2>1
<1>8. n = hi - lo + 1 /\ slice[n] = text[hi]
  <2>1. /\ Len(slice) = hi - lo + 1
        /\ \A i \in 1 .. hi - lo + 1 : slice[i] = text[lo + i - 1]
    BY <1>2, <1>5, SliceFacts
  <2>2. hi - lo + 1 \in 1 .. hi - lo + 1 /\ lo + (hi - lo + 1) - 1 = hi
    BY <1>5, <1>6
  <2> QED BY <1>3, <2>1, <2>2
<1>9. \A i \in 1 .. n : bonus[i] \in Nat
  <2>1. n = bounds[2] - bounds[1] + 1
    BY <1>1, <1>8
  <2> QED BY <1>2, <2>1, BonusType DEF SliceBonus
<1>10. ASSUME NEW t \in 0 .. n PROVE row[m][t].score \in Nat
  <2>1. m \in 0 .. m
    BY <1>6
  <2> QED BY <1>3, <1>6, <1>9, <2>1, MatrixType
<1>11. row[m][n].score >= ScoreMatch
  BY <1>3, <1>5, <1>6, <1>7, <1>8, <1>9, MatrixMatch
<1>12. PICK f : f = [t \in m .. n |-> row[m][t].score]
  OBVIOUS
<1>13. \A t \in m .. n : f[t] = row[m][t].score /\ f[t] \in Nat
  BY <1>7, <1>10, <1>12
<1>14. PICK u \in m .. n : \A t \in m .. n : f[t] <= f[u]
  <2>1. m \in Int /\ n \in Int /\ \A t \in m .. n : f[t] \in Int
    BY <1>6, <1>13
  <2> QED BY ONLY <1>7, <2>1, GreatestImage
<1> DEFINE scores == {f[t] : t \in m .. n}
<1>15. ReferenceScore(text, pattern) = Max(scores)
  <2>1. ReferenceScore(text, pattern) = Max({row[m][t].score : t \in m .. n})
    BY <1>1, <1>2, <1>3 DEF ReferenceScore
  <2>2. scores = {row[m][t].score : t \in m .. n}
    BY <1>13
  <2> QED BY <2>1, <2>2
<1>16. /\ scores \subseteq Int /\ f[u] \in Int /\ f[n] \in scores
       /\ \A x \in scores : x <= f[u] /\ x \in Nat
  BY <1>7, <1>13, <1>14
<1>17. Max(scores) \in scores /\ f[n] <= Max(scores)
  <2> HIDE DEF scores
  <2> QED BY <1>16, GreatestInt
<1>18. Max(scores) \in Nat /\ f[n] \in Nat /\ f[n] >= ScoreMatch
  <2> HIDE DEF scores
  <2> QED BY <1>7, <1>11, <1>13, <1>16, <1>17
<1> HIDE DEF scores
<1> QED BY <1>15, <1>17, <1>18 DEF ScoreMatch

-----------------------------------------------------------------------------
(* The engine, and the search it should be *)

\* What a search does with the next candidate
Tried(acc, c, clean) ==
    LET result == MatchScore(acc.rows, c.text, clean)
    IN  IF result.score > 0
        THEN [rows |-> result.rows,
              cached |-> Append(acc.cached, c),
              matches |-> Append(acc.matches, [id |-> c.id, score |-> result.score])]
        ELSE [acc EXCEPT !.rows = result.rows]

\* The steps of a search
SearchSteps(acc, rows, scope, clean) ==
    /\ acc[0] = [rows |-> rows, cached |-> <<>>, matches |-> <<>>]
    /\ \A i \in 1 .. Len(scope) : acc[i] = Tried(acc[i - 1], scope[i], clean)

\* A search is its steps.
LEMMA SearchHasSteps ==
    ASSUME NEW eng, NEW candidates, NEW pattern, pattern # <<>>,
           NEW scope, scope = InScope(eng, candidates, pattern), IsList(scope)
    PROVE  \E acc :
             /\ SearchSteps(acc, eng.rows, scope, Sanitized(pattern))
             /\ Search(eng, candidates, pattern)
                  = [engine |-> [last |-> pattern, cached |-> acc[Len(scope)].cached,
                                 rows |-> acc[Len(scope)].rows],
                     matches |-> acc[Len(scope)].matches]
<1> DEFINE E(x, i) == Tried(x, scope[i], Sanitized(pattern))
           first == [rows |-> eng.rows, cached |-> <<>>, matches |-> <<>>]
           n == Len(scope)
           fold == (CHOOSE f : f = [s \in SUBSET (1 .. n) |->
                                      IF s = {} THEN first ELSE E(f[s \ {Max(s)}], Max(s))])[1 .. n]
<1>0. n \in Nat /\ DOMAIN scope = 1 .. n
  BY ListFacts
<1>1. Search(eng, candidates, pattern)
        = [engine |-> [last |-> pattern, cached |-> fold.cached, rows |-> fold.rows],
           matches |-> fold.matches]
  BY <1>0, Zenon DEF Search, FoldLeft, MapThenFoldSet, Tried
<1> HIDE DEF E, first
<1> DEFINE S == {k \in Nat : \E f : f = [s \in SUBSET (1 .. k) |->
                                           IF s = {} THEN first ELSE E(f[s \ {Max(s)}], Max(s))]}
<1>2. 0 \in S
  <2> DEFINE f == [s \in SUBSET (1 .. 0) |-> first]
  <2>1. f = [s \in SUBSET (1 .. 0) |-> IF s = {} THEN first ELSE E(f[s \ {Max(s)}], Max(s))]
    OBVIOUS
  <2> QED BY <2>1
<1>3. ASSUME NEW k \in Nat, k \in S PROVE k + 1 \in S
  <2>1. PICK f : f = [s \in SUBSET (1 .. k) |->
                        IF s = {} THEN first ELSE E(f[s \ {Max(s)}], Max(s))]
    BY <1>3
  <2> DEFINE m == k + 1
             g == [s \in SUBSET (1 .. m) |-> IF m \in s THEN E(f[s \ {m}], m) ELSE f[s]]
  <2>2. ASSUME NEW s \in SUBSET (1 .. m)
        PROVE  g[s] = IF s = {} THEN first ELSE E(g[s \ {Max(s)}], Max(s))
    <3>1. CASE m \in s
      <4>1. Max(s) = m
        BY <3>1, MaxIsLast
      <4>2. s \ {m} \in SUBSET (1 .. m) /\ m \notin s \ {m} /\ s # {}
        BY <3>1
      <4>3. g[s] = E(f[s \ {m}], m) /\ g[s \ {m}] = f[s \ {m}]
        BY <3>1, <4>2
      <4> QED BY <4>1, <4>2, <4>3
    <3>2. CASE m \notin s
      <4>1. s \in SUBSET (1 .. k)
        BY <3>2
      <4>2. g[s] = f[s] /\ f[s] = IF s = {} THEN first ELSE E(f[s \ {Max(s)}], Max(s))
        BY <2>1, <3>2, <4>1
      <4>3. g[s \ {Max(s)}] = f[s \ {Max(s)}]
        BY <3>2
      <4> QED BY <4>2, <4>3
    <3> QED BY <3>1, <3>2
  <2>3. g = [s \in SUBSET (1 .. m) |-> IF s = {} THEN first ELSE E(g[s \ {Max(s)}], Max(s))]
    BY <2>2
  <2>4. \E f1 : f1 = [s \in SUBSET (1 .. (k + 1)) |->
                        IF s = {} THEN first ELSE E(f1[s \ {Max(s)}], Max(s))]
    BY <2>3
  <2>5. k + 1 \in Nat
    OBVIOUS
  <2> QED BY <2>4, <2>5, Zenon
<1> HIDE DEF S
<1>4. n \in S
  BY <1>0, <1>2, <1>3, Induct
<1>5. \E f : f = [s \in SUBSET (1 .. n) |-> IF s = {} THEN first ELSE E(f[s \ {Max(s)}], Max(s))]
  BY <1>4 DEF S
<1>6. PICK f : /\ f = [s \in SUBSET (1 .. n) |->
                         IF s = {} THEN first ELSE E(f[s \ {Max(s)}], Max(s))]
               /\ fold = f[1 .. n]
  BY <1>5, Zenon
<1> HIDE DEF fold
<1> DEFINE steps == [i \in 0 .. n |-> f[1 .. i]]
<1>7. steps[0] = first
  <2>1. 1 .. 0 = {} /\ {} \in SUBSET (1 .. n) /\ 0 \in 0 .. n
    BY <1>0
  <2> QED BY <1>6, <2>1
<1>8. ASSUME NEW i \in 1 .. n PROVE steps[i] = E(steps[i - 1], i)
  <2>1. 1 .. i \in SUBSET (1 .. n) /\ 1 .. i # {} /\ (1 .. i) \ {i} = 1 .. (i - 1)
    BY <1>0, FirstNumbers
  <2>2. Max(1 .. i) = i /\ i \in 0 .. n /\ i - 1 \in 0 .. n
    BY <1>0, FirstNumbers
  <2>3. f[1 .. i] = E(f[1 .. (i - 1)], i)
    BY <1>6, <2>1, <2>2
  <2> QED BY <2>2, <2>3
<1>9. fold = steps[n]
  BY <1>0, <1>6
<1> HIDE DEF steps
<1>10. SearchSteps(steps, eng.rows, scope, Sanitized(pattern))
  BY <1>7, <1>8 DEF SearchSteps, E, first
<1> QED BY <1>1, <1>9, <1>10

\* The next match of a full search
Matched(candidate, pattern) ==
    [id |-> candidate.id, score |-> ReferenceScore(candidate.text, Sanitized(pattern))]

\* Does a full search find the candidate?
HasPattern(candidate, pattern) == pattern # <<>> /\ IsSubsequence(Sanitized(pattern), candidate.text)

\* The steps of a full search
FullSearchSteps(found, candidates, pattern) ==
    /\ found[0] = <<>>
    /\ \A i \in 1 .. Len(candidates) :
         found[i] = IF HasPattern(candidates[i], pattern)
                    THEN Append(found[i - 1], Matched(candidates[i], pattern))
                    ELSE found[i - 1]

\* A full search is its steps.
LEMMA FullSearchHasSteps ==
    ASSUME NEW candidates, IsList(candidates), NEW pattern
    PROVE  \E found : /\ FullSearchSteps(found, candidates, pattern)
                      /\ FullSearch(candidates, pattern) = found[Len(candidates)]
<1> DEFINE E(x, i) == IF HasPattern(candidates[i], pattern)
                      THEN Append(x, Matched(candidates[i], pattern))
                      ELSE x
           first == <<>>
           n == Len(candidates)
           fold == (CHOOSE f : f = [s \in SUBSET (1 .. n) |->
                                      IF s = {} THEN first ELSE E(f[s \ {Max(s)}], Max(s))])[1 .. n]
<1>0. n \in Nat /\ DOMAIN candidates = 1 .. n
  BY ListFacts
<1>1. FullSearch(candidates, pattern) = fold
  BY <1>0, Zenon DEF FullSearch, FoldLeft, MapThenFoldSet, HasPattern, Matched
<1> HIDE DEF E, first
<1> DEFINE S == {k \in Nat : \E f : f = [s \in SUBSET (1 .. k) |->
                                           IF s = {} THEN first ELSE E(f[s \ {Max(s)}], Max(s))]}
<1>2. 0 \in S
  <2> DEFINE f == [s \in SUBSET (1 .. 0) |-> first]
  <2>1. f = [s \in SUBSET (1 .. 0) |-> IF s = {} THEN first ELSE E(f[s \ {Max(s)}], Max(s))]
    OBVIOUS
  <2> QED BY <2>1
<1>3. ASSUME NEW k \in Nat, k \in S PROVE k + 1 \in S
  <2>1. PICK f : f = [s \in SUBSET (1 .. k) |->
                        IF s = {} THEN first ELSE E(f[s \ {Max(s)}], Max(s))]
    BY <1>3
  <2> DEFINE m == k + 1
             g == [s \in SUBSET (1 .. m) |-> IF m \in s THEN E(f[s \ {m}], m) ELSE f[s]]
  <2>2. ASSUME NEW s \in SUBSET (1 .. m)
        PROVE  g[s] = IF s = {} THEN first ELSE E(g[s \ {Max(s)}], Max(s))
    <3>1. CASE m \in s
      <4>1. Max(s) = m
        BY <3>1, MaxIsLast
      <4>2. s \ {m} \in SUBSET (1 .. m) /\ m \notin s \ {m} /\ s # {}
        BY <3>1
      <4>3. g[s] = E(f[s \ {m}], m) /\ g[s \ {m}] = f[s \ {m}]
        BY <3>1, <4>2
      <4> QED BY <4>1, <4>2, <4>3
    <3>2. CASE m \notin s
      <4>1. s \in SUBSET (1 .. k)
        BY <3>2
      <4>2. g[s] = f[s] /\ f[s] = IF s = {} THEN first ELSE E(f[s \ {Max(s)}], Max(s))
        BY <2>1, <3>2, <4>1
      <4>3. g[s \ {Max(s)}] = f[s \ {Max(s)}]
        BY <3>2
      <4> QED BY <4>2, <4>3
    <3> QED BY <3>1, <3>2
  <2>3. g = [s \in SUBSET (1 .. m) |-> IF s = {} THEN first ELSE E(g[s \ {Max(s)}], Max(s))]
    BY <2>2
  <2>4. \E f1 : f1 = [s \in SUBSET (1 .. (k + 1)) |->
                        IF s = {} THEN first ELSE E(f1[s \ {Max(s)}], Max(s))]
    BY <2>3
  <2>5. k + 1 \in Nat
    OBVIOUS
  <2> QED BY <2>4, <2>5, Zenon
<1> HIDE DEF S
<1>4. n \in S
  BY <1>0, <1>2, <1>3, Induct
<1>5. \E f : f = [s \in SUBSET (1 .. n) |-> IF s = {} THEN first ELSE E(f[s \ {Max(s)}], Max(s))]
  BY <1>4 DEF S
<1>6. PICK f : /\ f = [s \in SUBSET (1 .. n) |->
                         IF s = {} THEN first ELSE E(f[s \ {Max(s)}], Max(s))]
               /\ fold = f[1 .. n]
  BY <1>5, Zenon
<1> HIDE DEF fold
<1> DEFINE steps == [i \in 0 .. n |-> f[1 .. i]]
<1>7. steps[0] = first
  <2>1. 1 .. 0 = {} /\ {} \in SUBSET (1 .. n) /\ 0 \in 0 .. n
    BY <1>0
  <2> QED BY <1>6, <2>1
<1>8. ASSUME NEW i \in 1 .. n PROVE steps[i] = E(steps[i - 1], i)
  <2>1. 1 .. i \in SUBSET (1 .. n) /\ 1 .. i # {} /\ (1 .. i) \ {i} = 1 .. (i - 1)
    BY <1>0, FirstNumbers
  <2>2. Max(1 .. i) = i /\ i \in 0 .. n /\ i - 1 \in 0 .. n
    BY <1>0, FirstNumbers
  <2>3. f[1 .. i] = E(f[1 .. (i - 1)], i)
    BY <1>6, <2>1, <2>2
  <2> QED BY <2>2, <2>3
<1>9. fold = steps[n]
  BY <1>0, <1>6
<1> HIDE DEF steps
<1>10. FullSearchSteps(steps, candidates, pattern)
  BY <1>7, <1>8 DEF FullSearchSteps, E, first
<1> QED BY <1>1, <1>9, <1>10

\* Nothing is found in nothing.
LEMMA FullSearchEmpty ==
    ASSUME NEW pattern
    PROVE  FullSearch(<<>>, pattern) = <<>>
<1>1. IsList(<<>>) /\ Len(<<>>) = 0
  BY EmptyList
<1> QED BY <1>1, FullSearchHasSteps DEF FullSearchSteps

\* One candidate more is one match more, or none.
LEMMA FullSearchAppend ==
    ASSUME NEW candidates, IsList(candidates), NEW c, NEW pattern
    PROVE  FullSearch(Append(candidates, c), pattern)
             = IF HasPattern(c, pattern)
               THEN Append(FullSearch(candidates, pattern), Matched(c, pattern))
               ELSE FullSearch(candidates, pattern)
<1>1. PICK n, longer : n = Len(candidates) /\ longer = Append(candidates, c)
  OBVIOUS
<1>2. /\ n \in Nat /\ IsList(longer) /\ Len(longer) = n + 1 /\ longer[n + 1] = c
      /\ \A i \in 1 .. n : longer[i] = candidates[i]
  BY <1>1, ListAppend, ListFacts
<1>3. PICK f : FullSearchSteps(f, candidates, pattern) /\ FullSearch(candidates, pattern) = f[n]
  BY <1>1, FullSearchHasSteps
<1>4. PICK g : FullSearchSteps(g, longer, pattern) /\ FullSearch(longer, pattern) = g[n + 1]
  BY <1>2, FullSearchHasSteps
<1> DEFINE S == {k \in Nat : k <= n => f[k] = g[k]}
<1>5. 0 \in S
  BY <1>3, <1>4 DEF FullSearchSteps
<1>6. ASSUME NEW k \in Nat, k \in S PROVE k + 1 \in S
  <2> SUFFICES ASSUME k + 1 <= n PROVE f[k + 1] = g[k + 1]
    OBVIOUS
  <2>1. k + 1 \in 1 .. n /\ k + 1 \in 1 .. n + 1 /\ (k + 1) - 1 = k
    BY <1>2
  <2>2. f[k] = g[k] /\ longer[k + 1] = candidates[k + 1]
    BY <1>2, <1>6, <2>1
  <2>3. f[k + 1] = IF HasPattern(candidates[k + 1], pattern)
                   THEN Append(f[k], Matched(candidates[k + 1], pattern)) ELSE f[k]
    BY <1>1, <1>3, <2>1 DEF FullSearchSteps
  <2>4. g[k + 1] = IF HasPattern(longer[k + 1], pattern)
                   THEN Append(g[k], Matched(longer[k + 1], pattern)) ELSE g[k]
    BY <1>2, <1>4, <2>1 DEF FullSearchSteps
  <2> QED BY <2>2, <2>3, <2>4
<1>7. Nat \subseteq S
  <2> HIDE DEF S
  <2> QED BY <1>5, <1>6, Induct
<1>8. f[n] = g[n]
  BY <1>2, <1>7
<1>9. g[n + 1] = IF HasPattern(c, pattern) THEN Append(g[n], Matched(c, pattern)) ELSE g[n]
  <2>1. n + 1 \in 1 .. n + 1 /\ (n + 1) - 1 = n
    BY <1>2
  <2> QED BY <1>2, <1>4, <2>1 DEF FullSearchSteps
<1> QED BY <1>1, <1>3, <1>4, <1>8, <1>9

\* What is found is a list.
LEMMA FullSearchList ==
    ASSUME NEW candidates, IsList(candidates), NEW pattern
    PROVE  IsList(FullSearch(candidates, pattern))
<1>1. PICK n : n = Len(candidates) /\ n \in Nat
  BY ListFacts
<1>2. PICK f : FullSearchSteps(f, candidates, pattern) /\ FullSearch(candidates, pattern) = f[n]
  BY <1>1, FullSearchHasSteps
<1> DEFINE S == {k \in Nat : k <= n => IsList(f[k])}
<1>3. 0 \in S
  BY <1>2, EmptyList DEF FullSearchSteps
<1>4. ASSUME NEW k \in Nat, k \in S PROVE k + 1 \in S
  <2> SUFFICES ASSUME k + 1 <= n PROVE IsList(f[k + 1])
    OBVIOUS
  <2>1. k + 1 \in 1 .. n /\ (k + 1) - 1 = k /\ IsList(f[k])
    BY <1>1, <1>4
  <2>2. f[k + 1] = IF HasPattern(candidates[k + 1], pattern)
                   THEN Append(f[k], Matched(candidates[k + 1], pattern)) ELSE f[k]
    BY <1>1, <1>2, <2>1 DEF FullSearchSteps
  <2> QED BY <2>1, <2>2, ListAppend
<1>5. Nat \subseteq S
  <2> HIDE DEF S
  <2> QED BY <1>3, <1>4, Induct
<1> QED BY <1>1, <1>2, <1>5

\* The empty pattern finds nothing.
LEMMA NothingForNothing ==
    ASSUME NEW candidates, IsList(candidates)
    PROVE  FullSearch(candidates, <<>>) = <<>>
<1>1. PICK n : n = Len(candidates) /\ n \in Nat
  BY ListFacts
<1>2. PICK f : FullSearchSteps(f, candidates, <<>>) /\ FullSearch(candidates, <<>>) = f[n]
  BY <1>1, FullSearchHasSteps
<1> DEFINE S == {k \in Nat : k <= n => f[k] = <<>>}
<1>3. 0 \in S
  BY <1>2 DEF FullSearchSteps
<1>4. ASSUME NEW k \in Nat, k \in S PROVE k + 1 \in S
  <2> SUFFICES ASSUME k + 1 <= n PROVE f[k + 1] = <<>>
    OBVIOUS
  <2>1. k + 1 \in 1 .. n /\ (k + 1) - 1 = k /\ f[k] = <<>>
    BY <1>1, <1>4
  <2>2. ~HasPattern(candidates[k + 1], <<>>)
    BY DEF HasPattern
  <2> QED BY <1>1, <1>2, <2>1, <2>2 DEF FullSearchSteps
<1>5. Nat \subseteq S
  <2> HIDE DEF S
  <2> QED BY <1>3, <1>4, Induct
<1> QED BY <1>1, <1>2, <1>5

\* A pattern keeps its length when its accents are removed.
LEMMA SanitizedFacts ==
    ASSUME NEW pattern, IsList(pattern)
    PROVE  /\ IsList(Sanitized(pattern)) /\ Len(Sanitized(pattern)) = Len(pattern)
           /\ (pattern # <<>> <=> Sanitized(pattern) # <<>>)
<1>1. PICK n, clean : n = Len(pattern) /\ clean = Sanitized(pattern)
  OBVIOUS
<1>2. n \in Nat /\ DOMAIN pattern = 1 .. n
  BY <1>1, ListFacts
<1>3. DOMAIN clean = 1 .. n /\ clean = [i \in 1 .. n |-> clean[i]]
  BY <1>1, <1>2 DEF Sanitized
<1>4. IsList(clean)
  <2> DEFINE S == {clean[i] : i \in 1 .. n}
  <2>1. clean \in [1 .. n -> S]
    BY <1>3
  <2>2. clean \in Seq(S)
    BY <1>2, <2>1, SeqDef
  <2> QED BY <2>2, SeqIsList
<1>5. Len(clean) = n
  <2>1. Len(clean) \in Nat /\ DOMAIN clean = 1 .. Len(clean)
    BY <1>4, ListFacts
  <2>2. 1 .. Len(clean) = 1 .. n
    BY <1>3, <2>1
  <2>3. Cardinality(1 .. Len(clean)) = Len(clean) /\ Cardinality(1 .. n) = n
    BY <1>2, <2>1, IntervalSize
  <2> QED BY <2>2, <2>3
<1> QED BY <1>1, <1>4, <1>5, NotEmpty

\* What contains a pattern contains every pattern it begins with.
LEMMA PrefixContained ==
    ASSUME NEW q, IsList(q), q # <<>>, NEW p, IsList(p), IsPrefix(q, p), NEW c, HasPattern(c, p)
    PROVE  HasPattern(c, q)
<1>1. PICK n, m, a, b, text :
        /\ n = Len(q) /\ m = Len(p) /\ a = Sanitized(q) /\ b = Sanitized(p)
        /\ text = c.text
  OBVIOUS
<1>2. /\ n \in Nat /\ m \in Nat /\ DOMAIN q = 1 .. n /\ DOMAIN p = 1 .. m
      /\ Len(a) = n /\ Len(b) = m /\ DOMAIN a = 1 .. n /\ DOMAIN b = 1 .. m
  BY <1>1, ListFacts, SanitizedFacts
<1>3. n <= m /\ \A i \in 1 .. n : q[i] = p[i]
  BY <1>1, PrefixFacts
<1>4. \A i \in 1 .. n : a[i] = b[i] /\ i \in 1 .. m
  <2>1. \A i \in 1 .. n : i \in 1 .. m
    BY <1>2, <1>3
  <2> QED BY <1>1, <1>2, <1>3, <2>1 DEF Sanitized
<1>5. PICK place \in [1 .. m -> DOMAIN text] :
        /\ \A i \in 1 .. m : RemoveAccent(text[place[i]]) = b[i]
        /\ \A i \in 1 .. m - 1 : place[i] < place[i + 1]
  BY <1>1, <1>2 DEF HasPattern, IsSubsequence
<1> DEFINE short == [i \in 1 .. n |-> place[i]]
<1>6. short \in [1 .. n -> DOMAIN text]
  BY <1>4, <1>5
<1>7. \A i \in 1 .. n : RemoveAccent(text[short[i]]) = a[i]
  BY <1>4, <1>5
<1>8. ASSUME NEW i \in 1 .. n - 1 PROVE short[i] < short[i + 1]
  <2>1. i \in 1 .. n /\ i + 1 \in 1 .. n /\ i \in 1 .. m - 1
    BY <1>2, <1>3
  <2> QED BY <1>5, <2>1
<1> HIDE DEF short
<1>9. \E s \in [DOMAIN a -> DOMAIN text] :
        /\ \A i \in DOMAIN a : RemoveAccent(text[s[i]]) = a[i]
        /\ \A i \in 1 .. Len(a) - 1 : s[i] < s[i + 1]
  BY <1>2, <1>6, <1>7, <1>8
<1> QED BY <1>1, <1>9 DEF HasPattern, IsSubsequence

-----------------------------------------------------------------------------
(* A search with a cache finds what a full search finds *)

\* A candidate is cached, and a match of the search, exactly when it contains
\* the pattern.
LEMMA TriedValue ==
    ASSUME NEW acc, DOMAIN acc = {"rows", "cached", "matches"}, NEW c, IsList(c.text),
           NEW pattern, IsList(pattern), pattern # <<>>,
           NEW next, next = Tried(acc, c, Sanitized(pattern))
    PROVE  /\ DOMAIN next = {"rows", "cached", "matches"}
           /\ next.cached = IF HasPattern(c, pattern) THEN Append(acc.cached, c) ELSE acc.cached
           /\ next.matches = IF HasPattern(c, pattern)
                             THEN Append(acc.matches, Matched(c, pattern))
                             ELSE acc.matches
<1>1. PICK clean, text, result :
        clean = Sanitized(pattern) /\ text = c.text /\ result = MatchScore(acc.rows, text, clean)
  OBVIOUS
<1>2. IsList(clean) /\ clean # <<>>
  BY <1>1, SanitizedFacts
<1>3. result.score = IF IsSubsequence(clean, text) THEN ReferenceScore(text, clean) ELSE 0
  BY <1>1, <1>2, MatchExact
<1>4. HasPattern(c, pattern) <=> IsSubsequence(clean, text)
  BY <1>1 DEF HasPattern
<1>5. CASE IsSubsequence(clean, text)
  <2>1. result.score > 0
    BY <1>1, <1>2, <1>3, <1>5, MatchPositive
  <2>2. [id |-> c.id, score |-> result.score] = Matched(c, pattern)
    BY <1>1, <1>3, <1>5 DEF Matched
  <2>3. next = [rows |-> result.rows, cached |-> Append(acc.cached, c),
                matches |-> Append(acc.matches, Matched(c, pattern))]
    BY <1>1, <2>1, <2>2, Zenon DEF Tried
  <2> QED BY <1>4, <1>5, <2>3
<1>6. CASE ~IsSubsequence(clean, text)
  <2>1. ~(result.score > 0)
    BY <1>3, <1>6
  <2>2. next = [acc EXCEPT !.rows = result.rows]
    BY <1>1, <2>1, Zenon DEF Tried
  <2> QED BY <1>4, <1>6, <2>2
<1> QED BY <1>5, <1>6

\* Every candidate has a text.
Texts(candidates) == IsList(candidates) /\ \A c \in ToSet(candidates) : IsList(c.text)

\* What an eng keeps of its candidates is enough for every longer pattern.
CacheSound(eng, candidates) ==
    /\ IsList(eng.last)
    /\ IsList(eng.cached) /\ Len(eng.cached) <= Len(candidates)
    /\ ToSet(eng.cached) \subseteq ToSet(candidates)
    /\ eng.last # <<>> =>
         \A p : IsList(p) /\ IsPrefix(eng.last, p) =>
                  FullSearch(eng.cached, p) = FullSearch(candidates, p)

\* What a search looks at has all it can find.
LEMMA ScopeSound ==
    ASSUME NEW candidates, Texts(candidates), NEW eng, CacheSound(eng, candidates),
           NEW pattern, IsList(pattern), NEW scope, scope = InScope(eng, candidates, pattern)
    PROVE  /\ Texts(scope) /\ Len(scope) <= Len(candidates) /\ Len(scope) \in Nat
           /\ ToSet(scope) \subseteq ToSet(candidates)
           /\ \A p : IsList(p) /\ IsPrefix(pattern, p) =>
                       FullSearch(scope, p) = FullSearch(candidates, p)
<1>1. CASE eng.last # <<>> /\ IsPrefix(eng.last, pattern)
  <2>1. scope = eng.cached
    BY <1>1 DEF InScope
  <2>2. ASSUME NEW p, IsList(p), IsPrefix(pattern, p)
        PROVE  FullSearch(scope, p) = FullSearch(candidates, p)
    <3>1. IsPrefix(eng.last, p)
      <4>1. PICK last : last = eng.last /\ IsList(last)
        BY DEF CacheSound
      <4> QED BY <1>1, <2>2, <4>1, PrefixOfPrefix
    <3> QED BY <1>1, <2>1, <2>2, <3>1 DEF CacheSound
  <2>3. /\ IsList(scope) /\ Len(scope) <= Len(candidates)
        /\ ToSet(scope) \subseteq ToSet(candidates)
    BY <2>1 DEF CacheSound
  <2> QED BY <2>2, <2>3, ListFacts DEF Texts
<1>2. CASE ~(eng.last # <<>> /\ IsPrefix(eng.last, pattern))
  <2>1. scope = candidates
    BY <1>2 DEF InScope
  <2>2. Len(scope) \in Nat
    BY <2>1, ListFacts DEF Texts
  <2> QED BY <2>1, <2>2
<1> QED BY <1>1, <1>2

\* The candidates tried so far that contain the pattern
LEMMA SearchTried ==
    ASSUME NEW scope, Texts(scope), NEW pattern, IsList(pattern), pattern # <<>>,
           NEW rows, NEW acc, SearchSteps(acc, rows, scope, Sanitized(pattern)),
           NEW f, FullSearchSteps(f, scope, pattern),
           NEW k \in Nat, k <= Len(scope)
    PROVE  /\ DOMAIN acc[k] = {"rows", "cached", "matches"}
           /\ acc[k].matches = f[k]
           /\ IsList(acc[k].cached) /\ Len(acc[k].cached) <= k
           /\ ToSet(acc[k].cached) \subseteq ToSet(scope)
<1>1. PICK n : n = Len(scope) /\ n \in Nat /\ DOMAIN scope = 1 .. n
  BY ListFacts DEF Texts
<1> DEFINE Good(i) == /\ DOMAIN acc[i] = {"rows", "cached", "matches"}
                      /\ acc[i].matches = f[i]
                      /\ IsList(acc[i].cached) /\ Len(acc[i].cached) <= i
                      /\ ToSet(acc[i].cached) \subseteq ToSet(scope)
           S == {i \in Nat : i <= n => Good(i)}
<1>2. 0 \in S
  <2>1. acc[0] = [rows |-> rows, cached |-> <<>>, matches |-> <<>>] /\ f[0] = <<>>
    BY DEF SearchSteps, FullSearchSteps
  <2>2. ToSet(<<>>) = {}
    BY DEF ToSet
  <2> QED BY <2>1, <2>2, EmptyList
<1>3. ASSUME NEW i \in Nat, i \in S PROVE i + 1 \in S
  <2> SUFFICES ASSUME i + 1 <= n PROVE Good(i + 1)
    OBVIOUS
  <2>1. Good(i) /\ i + 1 \in 1 .. n /\ (i + 1) - 1 = i
    BY <1>1, <1>3
  <2>2. PICK c, before, after : c = scope[i + 1] /\ before = acc[i] /\ after = acc[i + 1]
    OBVIOUS
  <2>3. c \in ToSet(scope) /\ IsList(c.text)
    BY <1>1, <2>1, <2>2 DEF Texts, ToSet
  <2>4. after = Tried(before, c, Sanitized(pattern))
    BY <1>1, <2>1, <2>2 DEF SearchSteps
  <2>5. /\ DOMAIN after = {"rows", "cached", "matches"}
        /\ after.cached = IF HasPattern(c, pattern) THEN Append(before.cached, c) ELSE before.cached
        /\ after.matches = IF HasPattern(c, pattern)
                           THEN Append(before.matches, Matched(c, pattern))
                           ELSE before.matches
    <3>1. DOMAIN before = {"rows", "cached", "matches"}
      BY <2>1, <2>2
    <3> QED BY ONLY <2>3, <2>4, <3>1, IsList(pattern), pattern # <<>>, TriedValue
  <2>6. f[i + 1] = IF HasPattern(c, pattern) THEN Append(f[i], Matched(c, pattern)) ELSE f[i]
    BY <1>1, <2>1, <2>2 DEF FullSearchSteps
  <2>7. after.matches = f[i + 1]
    BY <2>1, <2>2, <2>5, <2>6
  <2>8. PICK old : old = before.cached /\ IsList(old) /\ Len(old) <= i /\ Len(old) \in Nat
                   /\ ToSet(old) \subseteq ToSet(scope)
    BY <2>1, <2>2, ListFacts
  <2>9. IsList(after.cached) /\ Len(after.cached) <= i + 1 /\ ToSet(after.cached) \subseteq ToSet(scope)
    <3>1. CASE HasPattern(c, pattern)
      <4>1. PICK longer : longer = Append(old, c) /\ after.cached = longer
        BY <2>5, <2>8, <3>1
      <4>2. /\ IsList(longer) /\ Len(longer) = Len(old) + 1 /\ longer[Len(old) + 1] = c
            /\ \A j \in 1 .. Len(old) : longer[j] = old[j]
        BY <2>8, <4>1, ListAppend
      <4>3. ASSUME NEW x \in ToSet(longer) PROVE x \in ToSet(scope)
        <5>1. PICK j \in 1 .. Len(longer) : x = longer[j]
          BY <4>2, ListFacts DEF ToSet
        <5>2. j \in 1 .. Len(old) \/ j = Len(old) + 1
          BY <2>8, <4>2
        <5>3. \A m \in 1 .. Len(old) : old[m] \in ToSet(old)
          BY <2>8, ListFacts DEF ToSet
        <5> QED BY <2>3, <2>8, <4>2, <5>1, <5>2, <5>3
      <4> QED BY <2>8, <4>1, <4>2, <4>3
    <3>2. CASE ~HasPattern(c, pattern)
      BY <2>5, <2>8, <3>2
    <3> QED BY <3>1, <3>2
  <2> QED BY <2>2, <2>5, <2>7, <2>9
<1>4. Nat \subseteq S
  <2> HIDE DEF S
  <2> QED BY <1>2, <1>3, Induct
<1> QED BY <1>1, <1>4

\* The cached ones are enough for a longer pattern.
LEMMA CachedEnough ==
    ASSUME NEW scope, Texts(scope), NEW pattern, IsList(pattern), pattern # <<>>,
           NEW rows, NEW acc, SearchSteps(acc, rows, scope, Sanitized(pattern)),
           NEW p, IsList(p), IsPrefix(pattern, p)
    PROVE  FullSearch(acc[Len(scope)].cached, p) = FullSearch(scope, p)
<1>1. PICK n : n = Len(scope) /\ n \in Nat /\ DOMAIN scope = 1 .. n /\ IsList(scope)
  BY ListFacts DEF Texts
<1>2. PICK f : FullSearchSteps(f, scope, pattern)
  BY <1>1, FullSearchHasSteps
<1>3. PICK g : FullSearchSteps(g, scope, p) /\ FullSearch(scope, p) = g[n]
  BY <1>1, FullSearchHasSteps
<1> DEFINE S == {k \in Nat : k <= n => FullSearch(acc[k].cached, p) = g[k]}
<1>4. 0 \in S
  <2>1. acc[0].cached = <<>> /\ g[0] = <<>>
    BY <1>3 DEF SearchSteps, FullSearchSteps
  <2> QED BY <2>1, FullSearchEmpty
<1>5. ASSUME NEW k \in Nat, k \in S PROVE k + 1 \in S
  <2> SUFFICES ASSUME k + 1 <= n PROVE FullSearch(acc[k + 1].cached, p) = g[k + 1]
    OBVIOUS
  <2>1. k <= n /\ FullSearch(acc[k].cached, p) = g[k] /\ k + 1 \in 1 .. n /\ (k + 1) - 1 = k
    BY <1>1, <1>5
  <2>2. PICK c, before, after, old :
          c = scope[k + 1] /\ before = acc[k] /\ after = acc[k + 1] /\ old = acc[k].cached
    OBVIOUS
  <2>3. DOMAIN before = {"rows", "cached", "matches"} /\ IsList(old)
    BY <1>1, <1>2, <2>1, <2>2, SearchTried
  <2>4. IsList(c.text)
    BY <1>1, <2>1, <2>2 DEF Texts, ToSet
  <2>5. after = Tried(before, c, Sanitized(pattern))
    BY <1>1, <2>1, <2>2 DEF SearchSteps
  <2>6. after.cached = IF HasPattern(c, pattern) THEN Append(before.cached, c) ELSE before.cached
    BY ONLY <2>3, <2>4, <2>5, IsList(pattern), pattern # <<>>, TriedValue
  <2>7. g[k + 1] = IF HasPattern(c, p) THEN Append(g[k], Matched(c, p)) ELSE g[k]
    BY <1>1, <1>3, <2>1, <2>2 DEF FullSearchSteps
  <2>8. HasPattern(c, p) => HasPattern(c, pattern)
    BY PrefixContained
  <2>9. CASE HasPattern(c, pattern)
    <3>1. FullSearch(Append(old, c), p)
            = IF HasPattern(c, p) THEN Append(FullSearch(old, p), Matched(c, p)) ELSE FullSearch(old, p)
      BY <2>3, FullSearchAppend
    <3> QED BY <2>1, <2>2, <2>6, <2>7, <2>9, <3>1
  <2>10. CASE ~HasPattern(c, pattern)
    BY <2>1, <2>2, <2>6, <2>7, <2>8, <2>10
  <2> QED BY <2>9, <2>10
<1>6. Nat \subseteq S
  <2> HIDE DEF S
  <2> QED BY <1>4, <1>5, Induct
<1> QED BY <1>1, <1>3, <1>6

\* A search finds what a full search finds, and leaves the cache sound.
LEMMA SearchExact ==
    ASSUME NEW candidates, Texts(candidates), NEW eng, CacheSound(eng, candidates),
           NEW pattern, IsList(pattern),
           NEW result, result = Search(eng, candidates, pattern)
    PROVE  /\ result.matches = FullSearch(candidates, pattern)
           /\ CacheSound(result.engine, candidates)
           /\ result.engine.last \in {eng.last, pattern}
<1>1. CASE pattern = <<>>
  <2>1. result = [engine |-> eng, matches |-> <<>>]
    BY <1>1, Zenon DEF Search
  <2>2. FullSearch(candidates, pattern) = <<>>
    BY <1>1, NothingForNothing DEF Texts
  <2> QED BY <2>1, <2>2
<1>2. CASE pattern # <<>>
  <2>1. PICK scope : scope = InScope(eng, candidates, pattern)
    OBVIOUS
  <2>2. /\ Texts(scope) /\ Len(scope) <= Len(candidates) /\ Len(scope) \in Nat
        /\ ToSet(scope) \subseteq ToSet(candidates)
        /\ \A p : IsList(p) /\ IsPrefix(pattern, p) =>
                    FullSearch(scope, p) = FullSearch(candidates, p)
    BY <2>1, ScopeSound
  <2>3. PICK n : n = Len(scope) /\ n \in Nat /\ n <= Len(candidates) /\ IsList(scope)
    BY <2>2 DEF Texts
  <2>4. PICK acc :
          /\ SearchSteps(acc, eng.rows, scope, Sanitized(pattern))
          /\ result = [engine |-> [last |-> pattern, cached |-> acc[n].cached, rows |-> acc[n].rows],
                       matches |-> acc[n].matches]
    BY <1>2, <2>1, <2>3, SearchHasSteps
  <2>5. PICK f : FullSearchSteps(f, scope, pattern) /\ FullSearch(scope, pattern) = f[n]
    BY <2>3, FullSearchHasSteps
  <2>6. PICK cached, rows : cached = acc[n].cached /\ rows = eng.rows
    OBVIOUS
  <2>7. /\ acc[n].matches = f[n] /\ IsList(cached) /\ Len(cached) <= n
        /\ ToSet(cached) \subseteq ToSet(scope)
    <3>1. n \in Nat /\ n <= Len(scope) /\ SearchSteps(acc, rows, scope, Sanitized(pattern))
      BY <2>3, <2>4, <2>6
    <3> QED BY <1>2, <2>2, <2>5, <2>6, <3>1, SearchTried
  <2>8. result.matches = FullSearch(candidates, pattern)
    BY <2>2, <2>4, <2>5, <2>7, SelfPrefix
  <2>9. CacheSound(result.engine, candidates)
    <3>1. result.engine.last = pattern /\ result.engine.cached = cached
      BY <2>4, <2>6
    <3>2. ASSUME NEW p, IsList(p), IsPrefix(pattern, p)
          PROVE  FullSearch(cached, p) = FullSearch(candidates, p)
      <4>1. SearchSteps(acc, rows, scope, Sanitized(pattern))
        BY <2>4, <2>6
      <4>2. FullSearch(acc[Len(scope)].cached, p) = FullSearch(scope, p)
        BY ONLY <1>2, <2>2, <3>2, <4>1, IsList(pattern), CachedEnough
      <4> QED BY <2>2, <2>3, <2>6, <3>2, <4>2
    <3>3. Len(cached) \in Nat /\ Len(candidates) \in Nat
      BY <2>7, ListFacts DEF Texts
    <3>4. Len(cached) <= Len(candidates) /\ ToSet(cached) \subseteq ToSet(candidates)
      BY <2>2, <2>3, <2>7, <3>3
    <3> QED BY <2>7, <3>1, <3>2, <3>4 DEF CacheSound
  <2>10. result.engine.last = pattern
    BY <2>4
  <2> QED BY <2>8, <2>9, <2>10
<1> QED BY <1>1, <1>2

\* An engine that has not searched anything has nothing wrong in its cache.
LEMMA NewEngineSound ==
    ASSUME NEW candidates, IsList(candidates)
    PROVE  CacheSound(NewEngine, candidates)
<1>1. NewEngine.last = <<>> /\ NewEngine.cached = <<>>
  BY DEF NewEngine
<1>2. ToSet(<<>>) = {} /\ IsList(<<>>) /\ Len(<<>>) = 0
  BY EmptyList DEF ToSet
<1>3. Len(candidates) \in Nat
  BY ListFacts
<1> QED BY <1>1, <1>2, <1>3 DEF CacheSound

-----------------------------------------------------------------------------
(* What is found in the chunks together *)

\* No two of the matches, or of the candidates, have the same id.
Distinct(x) == \A i, j \in 1 .. Len(x) : x[i].id = x[j].id => i = j

\* Two lists without a common id
LEMMA ConcatDistinct ==
    ASSUME NEW a, IsList(a), Distinct(a), NEW b, IsList(b), Distinct(b),
           \A x \in ToSet(a), y \in ToSet(b) : x.id # y.id
    PROVE  Distinct(a \o b)
<1>1. PICK c, n, m : c = a \o b /\ n = Len(a) /\ m = Len(b) /\ n \in Nat /\ m \in Nat
  BY ListFacts
<1>2. /\ IsList(c) /\ Len(c) = n + m
      /\ \A i \in 1 .. Len(c) : c[i] = IF i <= n THEN a[i] ELSE b[i - n]
  <2>1. /\ IsList(a \o b) /\ Len(a \o b) = Len(a) + Len(b)
        /\ \A i \in 1 .. Len(a) + Len(b) :
             (a \o b)[i] = IF i <= Len(a) THEN a[i] ELSE b[i - Len(a)]
    BY ListConcat
  <2> QED BY <1>1, <2>1
<1>3. ASSUME NEW i \in 1 .. n, NEW j \in 1 .. m PROVE a[i].id # b[j].id
  <2>1. a[i] \in ToSet(a) /\ b[j] \in ToSet(b)
    BY <1>1, InList
  <2> QED BY <2>1
<1>4. ASSUME NEW i \in 1 .. n + m, NEW j \in 1 .. n + m, c[i].id = c[j].id PROVE i = j
  <2>1. CASE i <= n /\ j <= n
    <3>1. i \in 1 .. n /\ j \in 1 .. n /\ c[i] = a[i] /\ c[j] = a[j]
      BY <1>1, <1>2, <2>1
    <3> QED BY <1>1, <1>4, <3>1 DEF Distinct
  <2>2. CASE ~(i <= n) /\ ~(j <= n)
    <3>1. i - n \in 1 .. m /\ j - n \in 1 .. m /\ c[i] = b[i - n] /\ c[j] = b[j - n]
      BY <1>1, <1>2, <2>2
    <3>2. i - n = j - n
      BY <1>1, <1>4, <3>1 DEF Distinct
    <3> QED BY <1>1, <3>2
  <2>3. CASE i <= n /\ ~(j <= n)
    <3>1. i \in 1 .. n /\ j - n \in 1 .. m /\ c[i] = a[i] /\ c[j] = b[j - n]
      BY <1>1, <1>2, <2>3
    <3> QED BY <1>3, <1>4, <3>1
  <2>4. CASE ~(i <= n) /\ j <= n
    <3>1. j \in 1 .. n /\ i - n \in 1 .. m /\ c[j] = a[j] /\ c[i] = b[i - n]
      BY <1>1, <1>2, <2>4
    <3> QED BY <1>3, <1>4, <3>1
  <2> QED BY <2>1, <2>2, <2>3, <2>4
<1> QED BY <1>1, <1>2, <1>4 DEF Distinct

\* Lists that have no common id are flattened to one without repetition.
LEMMA FlattenDistinct ==
    ASSUME NEW seqs, IsList(seqs), \A i \in 1 .. Len(seqs) : IsList(seqs[i]) /\ Distinct(seqs[i]),
           \A i, j \in 1 .. Len(seqs) : i # j =>
              \A x \in ToSet(seqs[i]), y \in ToSet(seqs[j]) : x.id # y.id
    PROVE  Distinct(FlattenSeq(seqs))
<1>1. PICK n \in Nat : n = Len(seqs)
  BY ListFacts
<1>2. CASE n = 0
  <2>1. FlattenSeq(seqs) = seqs
    BY <1>1, <1>2, Zenon DEF FlattenSeq
  <2>2. Distinct(seqs)
    BY <1>1, <1>2 DEF Distinct
  <2> QED BY <2>1, <2>2
<1>3. CASE n # 0
  <2>1. PICK f : /\ f = [i \in 1 .. n |-> IF i = 1 THEN seqs[i] ELSE f[i - 1] \o seqs[i]]
                 /\ FlattenSeq(seqs) = f[n]
    BY <1>1, <1>3, FlattenHasSteps
  <2> DEFINE Good(k) == /\ IsList(f[k]) /\ Distinct(f[k])
                        /\ \A e \in ToSet(f[k]) : \E i \in 1 .. k : e \in ToSet(seqs[i])
             S == {k \in Nat : k \in 1 .. n => Good(k)}
  <2>2. 0 \in S
    OBVIOUS
  <2>3. ASSUME NEW k \in Nat, k \in S PROVE k + 1 \in S
    <3> SUFFICES ASSUME k + 1 \in 1 .. n PROVE Good(k + 1)
      OBVIOUS
    <3>1. CASE k = 0
      <4>1. f[1] = seqs[1] /\ 1 \in 1 .. n /\ k + 1 = 1 /\ 1 .. 1 = {1}
        BY <1>1, <1>3, <2>1, <3>1
      <4> QED BY <1>1, <4>1
    <3>2. CASE k # 0
      <4>1. PICK m : m = k + 1 /\ m \in 1 .. n /\ m # 1 /\ m - 1 = k /\ k \in 1 .. n
        BY <1>1, <3>2
      <4>2. PICK a, b : a = f[k] /\ b = seqs[m]
        OBVIOUS
      <4>3. f[m] = a \o b
        BY <2>1, <4>1, <4>2
      <4>4. /\ IsList(a) /\ IsList(b) /\ Distinct(a) /\ Distinct(b)
            /\ \A e \in ToSet(a) : \E i \in 1 .. k : e \in ToSet(seqs[i])
        BY <1>1, <2>3, <4>1, <4>2
      <4>5. IsList(f[m])
        BY <4>3, <4>4, ListConcat
      <4>6. ASSUME NEW e \in ToSet(f[m]) PROVE \E i \in 1 .. m : e \in ToSet(seqs[i])
        <5>1. e \in ToSet(a) \/ e \in ToSet(b)
          BY <4>3, <4>4, <4>6, ConcatSet
        <5>2. \A i : i \in 1 .. m <=> i \in 1 .. k \/ i = m
          BY <4>1
        <5> QED BY <4>2, <4>4, <5>1, <5>2
      <4>7. ASSUME NEW x \in ToSet(a), NEW y \in ToSet(b) PROVE x.id # y.id
        <5>1. PICK i \in 1 .. k : x \in ToSet(seqs[i])
          BY <4>4
        <5>2. i \in 1 .. Len(seqs) /\ m \in 1 .. Len(seqs) /\ i # m
          BY <1>1, <4>1, <5>1
        <5> QED BY <4>2, <5>1, <5>2
      <4>8. Distinct(f[m])
        BY <4>3, <4>4, <4>7, ConcatDistinct
      <4> QED BY <4>1, <4>5, <4>6, <4>8
    <3> QED BY <3>1, <3>2
  <2>4. Nat \subseteq S
    <3> HIDE DEF S
    <3> QED BY <2>2, <2>3, Induct
  <2>5. n \in S /\ n \in 1 .. n
    BY <1>1, <1>3, <2>4
  <2> QED BY <1>1, <2>1, <2>5
<1> QED BY <1>2, <1>3

\* As many ids as matches
LEMMA DistinctCounted ==
    ASSUME NEW x, IsList(x), Distinct(x)
    PROVE  Cardinality({x[k].id : k \in DOMAIN x}) = Len(x)
<1>1. PICK n \in Nat : n = Len(x) /\ DOMAIN x = 1 .. n
  BY ListFacts
<1> DEFINE T == {x[k].id : k \in 1 .. n}
           f == [k \in 1 .. n |-> x[k].id]
<1>2. f \in Bijection(1 .. n, T)
  <2>1. f \in [1 .. n -> T] /\ \A t \in T : \E k \in 1 .. n : f[k] = t
    OBVIOUS
  <2>2. \A i, j \in 1 .. n : f[i] = f[j] => i = j
    BY <1>1 DEF Distinct
  <2> HIDE DEF f, T
  <2> QED BY <2>1, <2>2 DEF Bijection, Injection, Surjection, IsInjective
<1>3. ExistsBijection(1 .. n, T)
  BY <1>2, Zenon DEF ExistsBijection
<1>4. Cardinality(T) = n
  <2> HIDE DEF T
  <2> QED BY <1>3, FS_CountingElements
<1> QED BY <1>1, <1>4

\* An id that is new repeats none.
LEMMA AppendDistinct ==
    ASSUME NEW x, IsList(x), Distinct(x), NEW new, \A y \in ToSet(x) : y.id # new.id
    PROVE  Distinct(Append(x, new))
<1>1. PICK longer, n : longer = Append(x, new) /\ n = Len(x) /\ n \in Nat
  BY ListFacts
<1>2. /\ IsList(longer) /\ Len(longer) = n + 1 /\ longer[n + 1] = new
      /\ \A i \in 1 .. n : longer[i] = x[i]
  BY <1>1, ListAppend
<1>3. ASSUME NEW i \in 1 .. n PROVE longer[i].id # new.id
  <2>1. x[i] \in ToSet(x)
    BY <1>1, InList
  <2> QED BY <1>2, <2>1
<1>4. \A i, j \in 1 .. n : longer[i].id = longer[j].id => i = j
  BY <1>1, <1>2 DEF Distinct
<1>5. \A i : i \in 1 .. n + 1 <=> i \in 1 .. n \/ i = n + 1
  BY <1>1
<1>6. \A i, j \in 1 .. n + 1 : longer[i].id = longer[j].id => i = j
  BY <1>2, <1>3, <1>4, <1>5
<1> QED BY <1>1, <1>2, <1>6 DEF Distinct

\* The matches are those of the candidates that contain the pattern.
LEMMA FullSearchHas ==
    ASSUME NEW candidates, IsList(candidates), NEW pattern, NEW e
    PROVE  e \in ToSet(FullSearch(candidates, pattern))
             <=> \E c \in ToSet(candidates) : HasPattern(c, pattern) /\ e = Matched(c, pattern)
<1>1. PICK n : n = Len(candidates) /\ n \in Nat
  BY ListFacts
<1>2. PICK f : FullSearchSteps(f, candidates, pattern) /\ FullSearch(candidates, pattern) = f[n]
  BY <1>1, FullSearchHasSteps
<1> DEFINE Has(i) == HasPattern(candidates[i], pattern) /\ e = Matched(candidates[i], pattern)
           Good(k) == /\ IsList(f[k])
                      /\ e \in ToSet(f[k]) <=> \E i \in 1 .. k : Has(i)
           S == {k \in Nat : k <= n => Good(k)}
<1>3. 0 \in S
  <2>1. f[0] = <<>>
    BY <1>2 DEF FullSearchSteps
  <2>2. ToSet(<<>>) = {}
    BY EmptyList DEF ToSet
  <2> QED BY <2>1, <2>2, EmptyList
<1>4. ASSUME NEW k \in Nat, k \in S PROVE k + 1 \in S
  <2> SUFFICES ASSUME k + 1 <= n PROVE Good(k + 1)
    OBVIOUS
  <2>1. PICK m : m = k + 1 /\ m \in 1 .. n /\ m - 1 = k /\ k <= n
    BY <1>1
  <2>2. Good(k)
    BY <1>4, <2>1
  <2>3. PICK c, old : c = candidates[m] /\ old = f[k]
    OBVIOUS
  <2>4. IsList(old)
    BY <2>2, <2>3
  <2>5. f[m] = IF HasPattern(c, pattern) THEN Append(old, Matched(c, pattern)) ELSE old
    BY <1>1, <1>2, <2>1, <2>3 DEF FullSearchSteps
  <2>6. IsList(f[m])
    BY <2>4, <2>5, ListAppend
  <2>7. e \in ToSet(f[m]) <=> e \in ToSet(old) \/ Has(m)
    BY <2>3, <2>4, <2>5, AppendSet
  <2>8. \A i : i \in 1 .. m <=> i \in 1 .. k \/ i = m
    BY <2>1
  <2>9. e \in ToSet(old) <=> \E i \in 1 .. k : Has(i)
    BY <2>2, <2>3
  <2> HIDE DEF Has
  <2>10. e \in ToSet(f[m]) <=> \E i \in 1 .. m : Has(i)
    BY <2>7, <2>8, <2>9
  <2> QED BY <2>1, <2>6, <2>10
<1>5. Nat \subseteq S
  <2> HIDE DEF S
  <2> QED BY <1>3, <1>4, Induct
<1>6. e \in ToSet(f[n]) <=> \E i \in 1 .. n : Has(i)
  BY <1>1, <1>5
<1>7. \A c : c \in ToSet(candidates) <=> \E i \in 1 .. n : c = candidates[i]
  BY <1>1, InList
<1> QED BY <1>2, <1>6, <1>7

\* A full search finds each candidate once.
LEMMA FullSearchDistinct ==
    ASSUME NEW candidates, IsList(candidates), Distinct(candidates), NEW pattern
    PROVE  Distinct(FullSearch(candidates, pattern))
<1>1. PICK n : n = Len(candidates) /\ n \in Nat
  BY ListFacts
<1>2. PICK f : FullSearchSteps(f, candidates, pattern) /\ FullSearch(candidates, pattern) = f[n]
  BY <1>1, FullSearchHasSteps
<1> DEFINE Good(k) == /\ IsList(f[k]) /\ Distinct(f[k])
                      /\ \A e \in ToSet(f[k]) : \E i \in 1 .. k : e.id = candidates[i].id
           S == {k \in Nat : k <= n => Good(k)}
<1>3. 0 \in S
  <2>1. f[0] = <<>>
    BY <1>2 DEF FullSearchSteps
  <2>2. ToSet(<<>>) = {} /\ Distinct(<<>>)
    BY EmptyList DEF ToSet, Distinct
  <2> QED BY <2>1, <2>2, EmptyList
<1>4. ASSUME NEW k \in Nat, k \in S PROVE k + 1 \in S
  <2> SUFFICES ASSUME k + 1 <= n PROVE Good(k + 1)
    OBVIOUS
  <2>1. PICK m : m = k + 1 /\ m \in 1 .. n /\ m - 1 = k /\ k <= n
    BY <1>1
  <2>2. Good(k)
    BY <1>4, <2>1
  <2>3. PICK c, old, new : c = candidates[m] /\ old = f[k] /\ new = Matched(c, pattern)
    OBVIOUS
  <2>4. IsList(old) /\ Distinct(old) /\ \A e \in ToSet(old) : \E i \in 1 .. k : e.id = candidates[i].id
    BY <2>2, <2>3
  <2>5. f[m] = IF HasPattern(c, pattern) THEN Append(old, new) ELSE old
    BY <1>1, <1>2, <2>1, <2>3 DEF FullSearchSteps
  <2>6. new.id = candidates[m].id
    BY <2>3 DEF Matched
  <2>7. \A i : i \in 1 .. m <=> i \in 1 .. k \/ i = m
    BY <2>1
  <2>8. ASSUME NEW y \in ToSet(old) PROVE y.id # new.id
    <3>1. PICK i \in 1 .. k : y.id = candidates[i].id
      BY <2>4
    <3>2. i \in 1 .. n /\ m \in 1 .. n /\ i # m
      BY <1>1, <2>1, <3>1
    <3> QED BY <1>1, <2>6, <3>1, <3>2 DEF Distinct
  <2>9. IsList(f[m]) /\ Distinct(f[m])
    <3>1. IsList(Append(old, new)) /\ Distinct(Append(old, new))
      BY <2>4, <2>8, ListAppend, AppendDistinct
    <3> QED BY <2>4, <2>5, <3>1
  <2>10. ASSUME NEW e \in ToSet(f[m]) PROVE \E i \in 1 .. m : e.id = candidates[i].id
    <3>1. e \in ToSet(old) \/ e = new
      BY <2>4, <2>5, <2>10, AppendSet
    <3> QED BY <2>4, <2>6, <2>7, <3>1
  <2> QED BY <2>1, <2>9, <2>10
<1>5. Nat \subseteq S
  <2> HIDE DEF S
  <2> QED BY <1>3, <1>4, Induct
<1> QED BY <1>1, <1>2, <1>5

\* Slices of the candidates, of equal size but for the last.
Slices(chunks, size, last, l) ==
    /\ DOMAIN chunks = 1 .. last
    /\ l <= last * size
    /\ \A k \in 1 .. last :
         /\ (k - 1) * size + 1 \in 1 .. l
         /\ IsList(chunks[k]) /\ Len(chunks[k]) \in 1 .. size
         /\ (k - 1) * size + Len(chunks[k]) = IF k * size <= l THEN k * size ELSE l
         /\ \A i \in 1 .. Len(chunks[k]) : chunks[k][i] = Candidates[(k - 1) * size + i]

\* The chunks are slices of the candidates.
LEMMA ChunkFacts ==
    ASSUME NEW n \in Nat, n # 0, Candidates # <<>>
    PROVE  \E size, last \in Nat \ {0} : Slices(Chunks(n), size, last, Len(Candidates))
<1>1. PICK l \in Nat \ {0} : l = Len(Candidates)
  BY CandidatesAssumption, LenProperties, EmptySeq
<1>2. PICK size : size = (l + n - 1) \div n
  OBVIOUS
<1>3. size \in Nat \ {0}
  BY <1>2
<1>4. PICK last : last = (l + size - 1) \div size
  OBVIOUS
<1>5. last \in Nat \ {0} /\ l <= last * size /\ (last - 1) * size < l
  BY <1>3, <1>4
<1>6. Chunks(n) = [k \in 1 .. last |->
                     SubSeq(Candidates, (k - 1) * size + 1, Min({k * size, l}))]
  BY <1>1, <1>2, <1>4 DEF Chunks
<1>7. ASSUME NEW k \in 1 .. last
      PROVE  /\ (k - 1) * size + 1 \in 1 .. l
             /\ IsList(Chunks(n)[k]) /\ Len(Chunks(n)[k]) \in 1 .. size
             /\ (k - 1) * size + Len(Chunks(n)[k]) = IF k * size <= l THEN k * size ELSE l
             /\ \A i \in 1 .. Len(Chunks(n)[k]) : Chunks(n)[k][i] = Candidates[(k - 1) * size + i]
  <2>1. k \in Nat /\ k - 1 \in Nat /\ k - 1 <= last - 1 /\ last - 1 \in Nat
    BY <1>5, <1>7
  <2>2. PICK before : before = (k - 1) * size /\ before \in Nat
    BY <1>3, <2>1
  <2>3. before <= (last - 1) * size
    BY <1>3, <2>1, <2>2, ProductGrows
  <2>4. before < l
    BY <1>1, <1>3, <1>5, <2>1, <2>2, <2>3
  <2>5. k * size = before + size
    BY <1>3, <2>1, <2>2
  <2>6. PICK hi : hi = Min({before + size, l})
    OBVIOUS
  <2>7. hi = IF before + size <= l THEN before + size ELSE l
    BY <1>1, <1>3, <2>2, <2>6, LesserOfTwo
  <2>8. Chunks(n)[k] = SubSeq(Candidates, before + 1, hi)
    BY <1>6, <1>7, <2>2, <2>5, <2>6
  <2>9. before + 1 \in 1 .. l /\ hi \in before + 1 .. l
    BY <1>1, <1>3, <2>2, <2>4, <2>7
  <2>10. IsList(Candidates)
    BY CandidatesAssumption DEF IsList
  <2>11. PICK chunk : chunk = Chunks(n)[k]
    OBVIOUS
  <2>12. /\ IsList(chunk) /\ Len(chunk) = hi - (before + 1) + 1
         /\ \A i \in 1 .. hi - (before + 1) + 1 : chunk[i] = Candidates[(before + 1) + i - 1]
    BY <1>1, <2>8, <2>9, <2>10, <2>11, SliceFacts
  <2>13. hi \in Nat /\ hi - (before + 1) + 1 = hi - before
    BY <1>1, <1>3, <2>2, <2>7
  <2>14. Len(chunk) = hi - before /\ Len(chunk) \in 1 .. size /\ before + Len(chunk) = hi
    BY <1>1, <1>3, <2>2, <2>7, <2>9, <2>12, <2>13
  <2>15. ASSUME NEW i \in 1 .. Len(chunk) PROVE chunk[i] = Candidates[before + i]
    <3>1. (before + 1) + i - 1 = before + i
      BY <2>2, <2>14
    <3> QED BY <2>12, <2>13, <2>14, <3>1
  <2> QED BY <2>2, <2>5, <2>7, <2>9, <2>11, <2>12, <2>14, <2>15
<1>8. DOMAIN Chunks(n) = 1 .. last
  BY <1>6
<1>9. Slices(Chunks(n), size, last, l)
  BY <1>5, <1>7, <1>8 DEF Slices
<1> QED BY <1>1, <1>3, <1>5, <1>9

\* Every candidate is in a chunk, and no two chunks share a position.
Partition(chunks, place, l) ==
    /\ \A k \in DOMAIN chunks :
         /\ IsList(chunks[k])
         /\ \A i \in 1 .. Len(chunks[k]) :
              place[k][i] \in 1 .. l /\ chunks[k][i] = Candidates[place[k][i]]
    /\ \A k, m \in DOMAIN chunks : \A i \in 1 .. Len(chunks[k]), j \in 1 .. Len(chunks[m]) :
         place[k][i] = place[m][j] => k = m /\ i = j
    /\ \A p \in 1 .. l :
         \E k \in DOMAIN chunks : \E i \in 1 .. Len(chunks[k]) : place[k][i] = p

\* The chunks share no position and leave none out.
LEMMA ChunksPartition ==
    ASSUME NEW n \in Nat, n # 0, Candidates # <<>>
    PROVE  \E place : Partition(Chunks(n), place, Len(Candidates))
<1>1. PICK l \in Nat \ {0} : l = Len(Candidates)
  BY CandidatesAssumption, LenProperties, EmptySeq
<1>2. PICK chunks : chunks = Chunks(n)
  OBVIOUS
<1>0. PICK size, last \in Nat \ {0} : Slices(chunks, size, last, l)
  BY <1>1, <1>2, ChunkFacts
<1>3. /\ DOMAIN chunks = 1 .. last
      /\ l <= last * size
      /\ \A k \in 1 .. last :
           /\ (k - 1) * size + 1 \in 1 .. l
           /\ IsList(chunks[k]) /\ Len(chunks[k]) \in 1 .. size
           /\ (k - 1) * size + Len(chunks[k]) = IF k * size <= l THEN k * size ELSE l
           /\ \A i \in 1 .. Len(chunks[k]) : chunks[k][i] = Candidates[(k - 1) * size + i]
  BY <1>0 DEF Slices
<1>4. PICK place : place = [k \in 1 .. last |-> [i \in 1 .. size |-> (k - 1) * size + i]]
  OBVIOUS
<1>5. ASSUME NEW k \in 1 .. last, NEW i \in 1 .. Len(chunks[k])
      PROVE  place[k][i] = (k - 1) * size + i /\ place[k][i] \in 1 .. l
  <2>1. i \in 1 .. size
    BY <1>3
  <2>2. place[k][i] = (k - 1) * size + i
    BY <1>4, <2>1
  <2>3. PICK before \in Nat, upto \in Nat : before = (k - 1) * size /\ upto = k * size
    <3>1. (k - 1) * size \in Nat /\ k * size \in Nat
      OBVIOUS
    <3> QED BY <3>1
  <2>4. before + Len(chunks[k]) = IF upto <= l THEN upto ELSE l
    BY <1>3, <2>3
  <2>5. before + Len(chunks[k]) <= l /\ Len(chunks[k]) \in Nat
    BY <1>1, <1>3, <2>4
  <2>6. place[k][i] = before + i
    BY <2>2, <2>3
  <2>7. place[k][i] \in 1 .. l
    BY <2>5, <2>6
  <2> QED BY <2>2, <2>7
<1>6. ASSUME NEW k \in 1 .. last, NEW m \in 1 .. last, k < m,
             NEW i \in 1 .. Len(chunks[k]), NEW j \in 1 .. Len(chunks[m])
      PROVE  place[k][i] # place[m][j]
  <2>1. i \in 1 .. size /\ j \in 1 .. size
    BY <1>3
  <2>2. k \in Nat /\ m - 1 \in Nat /\ k <= m - 1
    BY <1>6
  <2>3. k * size <= (m - 1) * size
    BY <2>2, ProductGrows
  <2>4. k * size = (k - 1) * size + size
    BY <2>2
  <2>5. PICK a \in Nat, b \in Nat : a = (k - 1) * size /\ b = (m - 1) * size
    <3>1. (k - 1) * size \in Nat /\ (m - 1) * size \in Nat
      BY <2>2
    <3> QED BY <3>1
  <2>6. place[k][i] = a + i /\ place[m][j] = b + j
    <3>1. place[k][i] = (k - 1) * size + i /\ place[m][j] = (m - 1) * size + j
      BY <1>5
    <3> QED BY <2>5, <3>1
  <2>7. a + size <= b
    BY <2>3, <2>4, <2>5
  <2> QED BY <2>1, <2>5, <2>6, <2>7
<1>7. ASSUME NEW k \in 1 .. last, NEW m \in 1 .. last,
             NEW i \in 1 .. Len(chunks[k]), NEW j \in 1 .. Len(chunks[m]),
             place[k][i] = place[m][j]
      PROVE  k = m /\ i = j
  <2>1. ~(k < m) /\ ~(m < k)
    BY <1>6, <1>7
  <2>2. k = m
    BY <2>1
  <2>3. PICK a \in Nat : a = (k - 1) * size
    OBVIOUS
  <2>4. a + i = a + j
    BY <1>5, <1>7, <2>2, <2>3
  <2>5. i \in Nat /\ j \in Nat
    BY <1>3
  <2> QED BY <2>2, <2>4, <2>5
<1>8. ASSUME NEW p \in 1 .. l
      PROVE  \E k \in 1 .. last : \E i \in 1 .. Len(chunks[k]) : place[k][i] = p
  <2>1. PICK q : q = (p - 1) \div size
    OBVIOUS
  <2>2. q \in Nat /\ q * size <= p - 1 /\ p - 1 < q * size + size
    BY <2>1
  <2>3. PICK a \in Nat : a = q * size
    BY <2>2
  <2>4. q < last
    <3> SUFFICES ASSUME last <= q PROVE FALSE
      BY <2>2
    <3>1. last * size <= q * size
      BY <2>2, ProductGrows
    <3>2. l <= a
      BY <1>1, <1>3, <2>3, <3>1
    <3> QED BY <1>1, <2>2, <2>3, <3>2
  <2>5. PICK k : k = q + 1 /\ k \in 1 .. last /\ k - 1 = q
    BY <2>2, <2>4
  <2>6. k * size = a + size /\ (k - 1) * size = a
    BY <2>2, <2>3, <2>5
  <2>7. PICK b \in Nat : b = Len(chunks[k]) /\ a + b = IF a + size <= l THEN a + size ELSE l
    <3>1. /\ Len(chunks[k]) \in Nat
          /\ (k - 1) * size + Len(chunks[k]) = IF k * size <= l THEN k * size ELSE l
      BY <1>3, <2>5
    <3> QED BY <2>6, <3>1
  <2>8. PICK i : i = p - a
    OBVIOUS
  <2>9. i \in 1 .. b
    <3>1. a <= p - 1 /\ p - 1 < a + size /\ p <= l
      BY <1>1, <2>2, <2>3
    <3> QED BY <1>1, <2>7, <2>8, <3>1
  <2>10. place[k][i] = a + i
    BY <1>5, <2>3, <2>5, <2>7, <2>9
  <2>11. place[k][i] = p
    BY <1>1, <2>3, <2>8, <2>10
  <2> QED BY <2>5, <2>7, <2>9, <2>11
<1>9. \A k \in DOMAIN chunks :
        /\ IsList(chunks[k])
        /\ \A i \in 1 .. Len(chunks[k]) :
             place[k][i] \in 1 .. l /\ chunks[k][i] = Candidates[place[k][i]]
  BY <1>3, <1>5
<1>10. DOMAIN chunks = 1 .. last
  BY <1>3
<1>11. Partition(chunks, place, l)
  BY ONLY <1>7, <1>8, <1>9, <1>10 DEF Partition
<1> QED BY <1>1, <1>2, <1>11

\* The candidates are a list.
LEMMA CandidatesListed == IsList(Candidates)
BY CandidatesAssumption DEF IsList

\* A candidate is in a chunk.
LEMMA ChunksCover ==
    ASSUME NEW n \in Nat, n # 0, Candidates # <<>>, NEW c
    PROVE  c \in ToSet(Candidates) <=> \E k \in DOMAIN Chunks(n) : c \in ToSet(Chunks(n)[k])
<1>1. PICK chunks, l : chunks = Chunks(n) /\ l = Len(Candidates)
  OBVIOUS
<1>2. PICK place : Partition(chunks, place, l)
  BY <1>1, ChunksPartition
<1>3. c \in ToSet(Candidates) <=> \E p \in 1 .. l : c = Candidates[p]
  BY <1>1, CandidatesListed, InList
<1>4. ASSUME c \in ToSet(Candidates) PROVE \E k \in DOMAIN chunks : c \in ToSet(chunks[k])
  <2>1. PICK p \in 1 .. l : c = Candidates[p]
    BY <1>3, <1>4
  <2>2. PICK k \in DOMAIN chunks : \E i \in 1 .. Len(chunks[k]) : place[k][i] = p
    BY <1>2 DEF Partition
  <2>3. PICK i \in 1 .. Len(chunks[k]) : place[k][i] = p
    BY <2>2
  <2>4. IsList(chunks[k]) /\ chunks[k][i] = c
    BY <1>2, <2>1, <2>3 DEF Partition
  <2>5. c \in ToSet(chunks[k])
    BY <2>3, <2>4, InList
  <2> QED BY <2>5
<1>5. ASSUME NEW k \in DOMAIN chunks, c \in ToSet(chunks[k]) PROVE c \in ToSet(Candidates)
  <2>1. IsList(chunks[k])
    BY <1>2 DEF Partition
  <2>2. PICK i \in 1 .. Len(chunks[k]) : c = chunks[k][i]
    BY <1>5, <2>1, InList
  <2>3. place[k][i] \in 1 .. l /\ c = Candidates[place[k][i]]
    BY <1>2, <2>2 DEF Partition
  <2> QED BY <1>3, <2>3
<1> QED BY <1>1, <1>4, <1>5

\* No candidate is in two chunks, or twice in one.
LEMMA ChunksApart ==
    ASSUME NEW n \in Nat, n # 0, Candidates # <<>>, Distinct(Candidates)
    PROVE  /\ \A k \in DOMAIN Chunks(n) : IsList(Chunks(n)[k]) /\ Distinct(Chunks(n)[k])
           /\ \A k, m \in DOMAIN Chunks(n) : k # m =>
                 \A x \in ToSet(Chunks(n)[k]), y \in ToSet(Chunks(n)[m]) : x.id # y.id
<1>1. PICK chunks, l : chunks = Chunks(n) /\ l = Len(Candidates)
  OBVIOUS
<1>2. PICK place : Partition(chunks, place, l)
  BY <1>1, ChunksPartition
<1>3. \A p, q \in 1 .. l : Candidates[p].id = Candidates[q].id => p = q
  BY <1>1 DEF Distinct
<1>4. ASSUME NEW k \in DOMAIN chunks PROVE IsList(chunks[k]) /\ Distinct(chunks[k])
  <2>1. IsList(chunks[k])
    BY <1>2 DEF Partition
  <2>2. ASSUME NEW i \in 1 .. Len(chunks[k]), NEW j \in 1 .. Len(chunks[k]),
               chunks[k][i].id = chunks[k][j].id
        PROVE  i = j
    <3>1. PICK p, q : p = place[k][i] /\ q = place[k][j]
      OBVIOUS
    <3>2. p \in 1 .. l /\ q \in 1 .. l /\ chunks[k][i] = Candidates[p] /\ chunks[k][j] = Candidates[q]
      BY <1>2, <3>1 DEF Partition
    <3>3. p = q
      BY <1>3, <2>2, <3>2
    <3>4. place[k][i] = place[k][j]
      BY <3>1, <3>3
    <3>5. \A a, b \in DOMAIN chunks : \A x \in 1 .. Len(chunks[a]), y \in 1 .. Len(chunks[b]) :
            place[a][x] = place[b][y] => x = y
      BY <1>2 DEF Partition
    <3> QED BY <3>4, <3>5
  <2> QED BY <2>1, <2>2 DEF Distinct
<1>5. ASSUME NEW k \in DOMAIN chunks, NEW m \in DOMAIN chunks, k # m,
             NEW x \in ToSet(chunks[k]), NEW y \in ToSet(chunks[m])
      PROVE  x.id # y.id
  <2>1. IsList(chunks[k]) /\ IsList(chunks[m])
    BY <1>4
  <2>2. PICK i \in 1 .. Len(chunks[k]) : x = chunks[k][i]
    BY <2>1, InList
  <2>3. PICK j \in 1 .. Len(chunks[m]) : y = chunks[m][j]
    BY <2>1, InList
  <2>4. PICK p, q : p = place[k][i] /\ q = place[m][j]
    OBVIOUS
  <2>5. p \in 1 .. l /\ q \in 1 .. l /\ x = Candidates[p] /\ y = Candidates[q]
    BY <1>2, <2>2, <2>3, <2>4 DEF Partition
  <2>6. p # q
    BY <1>2, <1>5, <2>4 DEF Partition
  <2> QED BY <1>3, <2>5, <2>6
<1> QED BY <1>1, <1>4, <1>5

-----------------------------------------------------------------------------
(* The pool *)

Runners == [workers : Nat, pc : {"none", "alive", "closing", "joining", "dropped"}]

\* The workers are numbered without a gap, and there are never more than the
\* runner reports.
ThreadsCounted ==
    /\ runner \in Runners
    /\ \E k \in 0 .. runner.workers : Threads = 1 .. k /\ (runner.pc # "none" => k # 0)

SubmitsShape ==
    /\ session \in Sessions /\ epoch \in 0 .. Len(session)
    /\ IsList(submits) /\ Len(submits) = epoch
    /\ IsList(responses) /\ Len(responses) = epoch
    /\ \A s \in 1 .. epoch :
         /\ DOMAIN submits[s] = {"pc", "next", "matches", "undisturbed", "late"}
         /\ submits[s].pc \in {"sending", "collecting", "returned", "failed", "abandoned"}
         /\ submits[s].pc = "sending" => submits[s].next \in Threads
         /\ IsList(responses[s])

QueuesShape ==
    /\ DOMAIN tasks = Threads
    /\ \A w \in Threads :
         /\ tasks[w] \in Seq(1 .. epoch) /\ Len(tasks[w]) <= TaskCapacity
         /\ \A i, j \in 1 .. Len(tasks[w]) : tasks[w][i] = tasks[w][j] => i = j

\* A worker is at work on a task that is not in its channel any more.
WorkersShape ==
    \A w \in Threads :
        /\ DOMAIN worker[w] = {"pc", "epoch", "matches"}
        /\ worker[w].pc \in {"receiving", "searching", "answering", "ended"}
        /\ worker[w].pc \in {"receiving", "ended"} => worker[w].epoch = 0
        /\ worker[w].pc \in {"searching", "answering"} =>
             worker[w].epoch \in 1 .. epoch /\ worker[w].epoch \notin ToSet(tasks[w])

\* The channels are closed in order.
ClosedInOrder ==
    /\ closed \subseteq Threads
    /\ \A w \in closed : 1 .. w \subseteq closed

\* The workers that may still answer a submit.
Holders(s) == {w \in Threads : s \in ToSet(tasks[w]) \/ worker[w].epoch = s}

\* How many workers a submit has reached, at most.
Reached(s) == IF submits[s].pc = "sending" THEN submits[s].next - 1 ELSE Cardinality(Threads)

RoomForAll ==
    \A s \in 1 .. epoch :
        /\ Holders(s) \subseteq 1 .. Reached(s)
        /\ Len(responses[s]) + Cardinality(Holders(s)) <= Reached(s)

\* A submit fails at a channel that is closed, and with it those before it, or
\* at a worker that has ended.
FailedIsClosed ==
    \A s \in 1 .. epoch :
        submits[s].pc = "failed" => AnyAbandoned \/ Holders(s) \subseteq closed

IInv ==
    /\ ThreadsCounted
    /\ SubmitsShape
    /\ QueuesShape
    /\ WorkersShape
    /\ ClosedInOrder
    /\ RoomForAll
    /\ FailedIsClosed
    /\ WorkersLast

-----------------------------------------------------------------------------
(* Lists and counts *)

\* The workers are as many as the last one's number.
LEMMA PoolSize ==
    ASSUME ThreadsCounted
    PROVE  /\ runner \in Runners /\ runner.workers \in Nat
           /\ Cardinality(Threads) \in Nat /\ Threads = 1 .. Cardinality(Threads)
           /\ Cardinality(Threads) <= runner.workers
           /\ runner.pc # "none" => Cardinality(Threads) # 0
           /\ IsFiniteSet(Threads)
<1>1. runner \in Runners /\ runner.workers \in Nat
  BY DEF ThreadsCounted, Runners
<1>2. PICK k \in 0 .. runner.workers : Threads = 1 .. k /\ (runner.pc # "none" => k # 0)
  BY DEF ThreadsCounted
<1>3. k \in Nat /\ k <= runner.workers
  BY <1>1, <1>2
<1>4. Cardinality(Threads) = k /\ IsFiniteSet(Threads)
  BY <1>2, <1>3, IntervalSize, FS_Interval
<1> QED BY <1>1, <1>2, <1>3, <1>4

LEMMA HoldersCounted ==
    ASSUME ThreadsCounted, NEW s
    PROVE  /\ Holders(s) \subseteq Threads
           /\ IsFiniteSet(Holders(s)) /\ Cardinality(Holders(s)) \in Nat
           /\ Cardinality(Holders(s)) <= Cardinality(Threads)
<1>1. Holders(s) \subseteq Threads
  BY DEF Holders
<1> QED BY <1>1, PoolSize, FS_Subset, FS_CardinalityType

LEMMA ReachedType ==
    ASSUME ThreadsCounted, SubmitsShape, NEW s \in 1 .. epoch
    PROVE  Reached(s) \in Nat /\ Reached(s) <= Cardinality(Threads)
<1>1. submits[s].pc = "sending" => submits[s].next \in Threads
  BY DEF SubmitsShape
<1> DEFINE k == Cardinality(Threads)
<1>2. k \in Nat /\ Threads = 1 .. k
  BY PoolSize
<1> HIDE DEF k
<1>3. submits[s].pc = "sending" => submits[s].next \in 1 .. k
  BY <1>1, <1>2
<1>4. Reached(s) = IF submits[s].pc = "sending" THEN submits[s].next - 1 ELSE k
  BY DEF Reached, k
<1>5. Reached(s) \in Nat /\ Reached(s) <= k
  BY <1>2, <1>3, <1>4
<1> QED BY <1>5 DEF k

LEMMA Basics ==
    ASSUME SubmitsShape
    PROVE  /\ epoch \in Nat
           /\ DOMAIN submits = 1 .. epoch /\ DOMAIN responses = 1 .. epoch
           /\ \A s \in 1 .. epoch : Len(responses[s]) \in Nat
<1>1. session \in Seq(ToSet(session))
  BY SessionsAssumption DEF SubmitsShape
<1>2. Len(session) \in Nat
  BY <1>1, LenProperties
<1> QED BY <1>2, ListFacts DEF SubmitsShape

-----------------------------------------------------------------------------
(* Steps after which a submit has no more holders and answers than before *)

LEMMA RoomKept ==
    ASSUME ThreadsCounted, SubmitsShape, RoomForAll,
           ThreadsCounted', SubmitsShape', Threads' = Threads, epoch' = epoch,
           \A s \in 1 .. epoch :
              /\ (Holders(s))' \subseteq Holders(s)
              /\ Len(responses'[s]) <= Len(responses[s])
              /\ (Reached(s))' = Reached(s) \/ (Reached(s))' = Cardinality(Threads)
    PROVE  RoomForAll'
<1> SUFFICES ASSUME NEW s \in 1 .. epoch
             PROVE  /\ (Holders(s))' \subseteq 1 .. (Reached(s))'
                    /\ Len(responses'[s]) + Cardinality((Holders(s))') <= (Reached(s))'
  BY Zenon DEF RoomForAll
<1> DEFINE h == Holders(s)
           g == (Holders(s))'
           r == Reached(s)
           q == (Reached(s))'
           a == Len(responses[s])
           b == Len(responses'[s])
           k == Cardinality(Threads)
<1>1. g \subseteq h /\ b <= a /\ (q = r \/ q = k)
  OBVIOUS
<1>2. r \in Nat /\ r <= k /\ k \in Nat
  BY ReachedType, PoolSize
<1>3. a \in Nat
  BY Basics
<1>4. b \in Nat
  <2>1. IsList(responses'[s])
    BY DEF SubmitsShape
  <2> QED BY <2>1, ListFacts
<1>5. IsFiniteSet(h) /\ Cardinality(h) \in Nat
  BY HoldersCounted
<1>6. h \subseteq 1 .. r /\ a + Cardinality(h) <= r
  BY DEF RoomForAll
<1> HIDE DEF h, g, r, q, a, b, k
<1>7. Cardinality(g) \in Nat /\ Cardinality(g) <= Cardinality(h)
  BY <1>1, <1>5, FS_Subset, FS_CardinalityType
<1>8. r <= q /\ q \in Nat
  BY <1>1, <1>2
<1>9. b + Cardinality(g) <= q
  BY <1>1, <1>2, <1>3, <1>4, <1>5, <1>6, <1>7, <1>8
<1>10. g \subseteq 1 .. q
  BY <1>1, <1>2, <1>6, <1>8
<1> QED BY <1>9, <1>10 DEF g, q, b

LEMMA FailedKept ==
    ASSUME FailedIsClosed, epoch' = epoch, closed \subseteq closed',
           AnyAbandoned => AnyAbandoned',
           \A s \in 1 .. epoch :
              /\ submits'[s].pc = "failed" => submits[s].pc = "failed"
              /\ (Holders(s))' \subseteq Holders(s)
    PROVE  FailedIsClosed'
<1> SUFFICES ASSUME NEW s \in 1 .. epoch, submits'[s].pc = "failed"
             PROVE  AnyAbandoned' \/ (Holders(s))' \subseteq closed'
  BY Zenon DEF FailedIsClosed
<1>1. AnyAbandoned \/ Holders(s) \subseteq closed
  BY DEF FailedIsClosed
<1> QED BY <1>1

\* Only the worker w changes, and it holds what it held or less.
LEMMA FewerHolders ==
    ASSUME NEW w \in Threads, Threads' = Threads,
           \A v \in Threads \ {w} : worker'[v] = worker[v],
           \A v \in Threads \ {w} : ToSet(tasks'[v]) = ToSet(tasks[v]),
           ToSet(tasks'[w]) \cup {worker'[w].epoch}
             \subseteq ToSet(tasks[w]) \cup {worker[w].epoch} \cup {0}
    PROVE  \A s \in 1 .. epoch : (Holders(s))' \subseteq Holders(s)
<1> SUFFICES ASSUME NEW s \in 1 .. epoch, NEW v \in Threads,
                    s \in ToSet(tasks'[v]) \/ worker'[v].epoch = s
             PROVE  s \in ToSet(tasks[v]) \/ worker[v].epoch = s
  BY DEF Holders
<1>1. s # 0
  OBVIOUS
<1> QED BY <1>1

-----------------------------------------------------------------------------
(* What a step leaves alone *)

LEMMA ThreadsKept ==
    ASSUME ThreadsCounted, Threads' = Threads, runner' = runner
    PROVE  ThreadsCounted'
BY DEF ThreadsCounted

LEMMA SubmitsKept ==
    ASSUME SubmitsShape, Threads' = Threads, UNCHANGED <<session, epoch, submits, responses>>
    PROVE  SubmitsShape' /\ AnyAbandoned' = AnyAbandoned
<1>1. SubmitsShape'
  BY DEF SubmitsShape
<1>2. AnyAbandoned' = AnyAbandoned
  BY DEF AnyAbandoned
<1> QED BY <1>1, <1>2

LEMMA QueuesKept ==
    ASSUME QueuesShape, Threads' = Threads, UNCHANGED <<tasks, epoch>>
    PROVE  QueuesShape'
BY DEF QueuesShape

LEMMA WorkersKept ==
    ASSUME WorkersShape, WorkersLast, UNCHANGED <<worker, epoch>>, closed \subseteq closed',
           AnyAbandoned => AnyAbandoned',
           \A w \in Threads : ToSet(tasks'[w]) \subseteq ToSet(tasks[w])
    PROVE  WorkersShape' /\ WorkersLast'
<1>1. Threads' = Threads
  BY DEF Threads
<1>2. WorkersShape'
  BY <1>1 DEF WorkersShape
<1>3. WorkersLast'
  BY <1>1 DEF WorkersLast
<1> QED BY <1>2, <1>3

\* Nothing of a submit changes.
LEMMA SubmitsAlone ==
    ASSUME ThreadsCounted, SubmitsShape, RoomForAll, FailedIsClosed,
           ThreadsCounted', Threads' = Threads, closed \subseteq closed',
           UNCHANGED <<session, epoch, submits, responses>>,
           \A s \in 1 .. epoch : (Holders(s))' \subseteq Holders(s)
    PROVE  SubmitsShape' /\ RoomForAll' /\ FailedIsClosed'
<1>1. SubmitsShape' /\ AnyAbandoned' = AnyAbandoned
  BY SubmitsKept
<1>2. FailedIsClosed'
  BY <1>1, FailedKept
<1>3. ASSUME NEW s \in 1 .. epoch
      PROVE  Len(responses'[s]) <= Len(responses[s]) /\ (Reached(s))' = Reached(s)
  <2>1. Len(responses[s]) \in Nat /\ responses' = responses
    BY Basics
  <2>2. (Reached(s))' = Reached(s)
    BY DEF Reached
  <2> QED BY <2>1, <2>2
<1>4. RoomForAll'
  BY <1>1, <1>3, RoomKept
<1> QED BY <1>1, <1>2, <1>4

-----------------------------------------------------------------------------
(* The workers *)

\* The first task of a channel is taken.
LEMMA TailOfQueue ==
    ASSUME NEW n, NEW q \in Seq(1 .. n), q # <<>>, Len(q) <= TaskCapacity,
           \A i, j \in 1 .. Len(q) : q[i] = q[j] => i = j
    PROVE  /\ Head(q) \in 1 .. n /\ Tail(q) \in Seq(1 .. n) /\ Len(Tail(q)) <= TaskCapacity
           /\ \A i, j \in 1 .. Len(Tail(q)) : Tail(q)[i] = Tail(q)[j] => i = j
           /\ Head(q) \notin ToSet(Tail(q))
           /\ Head(q) \in ToSet(q) /\ ToSet(Tail(q)) \subseteq ToSet(q)
<1> DEFINE t == Tail(q)
           k == Len(q)
<1>1. /\ k \in Nat \ {0} /\ DOMAIN q = 1 .. k
      /\ Head(q) = q[1] /\ q[1] \in 1 .. n
      /\ t \in Seq(1 .. n) /\ Len(t) = k - 1 /\ DOMAIN t = 1 .. k - 1
      /\ \A i \in 1 .. k - 1 : t[i] = q[i + 1]
  BY TailFacts
<1>2. \A i, j \in 1 .. k : q[i] = q[j] => i = j
  OBVIOUS
<1>3. k <= TaskCapacity
  OBVIOUS
<1> HIDE DEF t, k
<1>4. \A i \in 1 .. k - 1 : i + 1 \in 1 .. k /\ i + 1 # 1
  BY <1>1
<1>5. 1 \in 1 .. k /\ \A i \in 1 .. k - 1 : \A j \in 1 .. k - 1 : i + 1 = j + 1 => i = j
  BY <1>1
<1>6. \A i, j \in 1 .. Len(t) : t[i] = t[j] => i = j
  BY <1>1, <1>2, <1>4, <1>5
<1>7. Head(q) \notin ToSet(t)
  BY <1>1, <1>2, <1>4, <1>5 DEF ToSet
<1>8. Head(q) \in ToSet(q) /\ ToSet(t) \subseteq ToSet(q)
  BY <1>1, <1>4, <1>5 DEF ToSet
<1>9. Len(t) <= TaskCapacity
  BY <1>1, <1>3 DEF TaskCapacity
<1> QED BY <1>1, <1>6, <1>7, <1>8, <1>9 DEF t

\* The channel of w loses its tasks, or nothing.
LEMMA EmptiedQueue ==
    ASSUME QueuesShape, NEW w \in Threads, Threads' = Threads, epoch' = epoch,
           DOMAIN tasks' = Threads, tasks'[w] = <<>> \/ tasks'[w] = tasks[w],
           \A v \in Threads \ {w} : tasks'[v] = tasks[v]
    PROVE  QueuesShape'
<1> SUFFICES ASSUME NEW v \in Threads
             PROVE  /\ tasks'[v] \in Seq(1 .. epoch) /\ Len(tasks'[v]) <= TaskCapacity
                    /\ \A i, j \in 1 .. Len(tasks'[v]) : tasks'[v][i] = tasks'[v][j] => i = j
  BY Zenon DEF QueuesShape, TaskCapacity
<1>1. CASE tasks'[v] = tasks[v]
  BY <1>1 DEF QueuesShape
<1>2. CASE tasks'[v] = <<>>
  <2>1. <<>> \in Seq(1 .. epoch) /\ Len(<<>>) = 0
    BY EmptySeq
  <2> QED BY <1>2, <2>1 DEF TaskCapacity
<1> QED BY <1>1, <1>2

\* Only the worker w changes.
LEMMA OneWorker ==
    ASSUME WorkersShape, NEW w \in Threads, Threads' = Threads, epoch' = epoch,
           \A v \in Threads \ {w} : worker'[v] = worker[v] /\ tasks'[v] = tasks[v],
           DOMAIN worker'[w] = {"pc", "epoch", "matches"},
           \/ worker'[w].pc \in {"receiving", "ended"} /\ worker'[w].epoch = 0
           \/ /\ worker'[w].pc \in {"searching", "answering"}
              /\ worker'[w].epoch \in 1 .. epoch /\ worker'[w].epoch \notin ToSet(tasks'[w])
    PROVE  WorkersShape'
<1> SUFFICES ASSUME NEW v \in Threads
             PROVE  /\ DOMAIN worker'[v] = {"pc", "epoch", "matches"}
                    /\ worker'[v].pc \in {"receiving", "searching", "answering", "ended"}
                    /\ worker'[v].pc \in {"receiving", "ended"} => worker'[v].epoch = 0
                    /\ worker'[v].pc \in {"searching", "answering"} =>
                         worker'[v].epoch \in 1 .. epoch /\ worker'[v].epoch \notin ToSet(tasks'[v])
  BY Zenon DEF WorkersShape
<1>1. CASE v = w BY <1>1
<1>2. CASE v # w BY <1>2 DEF WorkersShape
<1> QED BY <1>1, <1>2

LEMMA TakeStep == ASSUME IInv, NEW w \in Threads, Take(w) PROVE IInv'
<1> DEFINE q == tasks[w]
           h == Head(tasks[w])
<1>1. /\ worker[w].pc = "receiving" /\ tasks[w] # <<>>
      /\ tasks' = [tasks EXCEPT ![w] = Tail(@)]
      /\ worker' = IF h < epoch THEN worker
                   ELSE [worker EXCEPT ![w].pc = "searching", ![w].epoch = h]
      /\ UNCHANGED <<session, epoch, engines, submits, responses, runner, closed>>
  BY DEF Take
<1>2. /\ ThreadsCounted /\ SubmitsShape /\ QueuesShape /\ WorkersShape
      /\ ClosedInOrder /\ RoomForAll /\ FailedIsClosed /\ WorkersLast
  BY DEF IInv
<1>3. Threads' = Threads
  BY <1>1 DEF Threads
<1>4. /\ DOMAIN tasks = Threads
      /\ \A v \in Threads :
           /\ tasks[v] \in Seq(1 .. epoch) /\ Len(tasks[v]) <= TaskCapacity
           /\ \A i, j \in 1 .. Len(tasks[v]) : tasks[v][i] = tasks[v][j] => i = j
  BY <1>2 DEF QueuesShape
<1>5. /\ h \in 1 .. epoch /\ Tail(q) \in Seq(1 .. epoch) /\ Len(Tail(q)) <= TaskCapacity
      /\ \A i, j \in 1 .. Len(Tail(q)) : Tail(q)[i] = Tail(q)[j] => i = j
      /\ h \notin ToSet(Tail(q))
      /\ h \in ToSet(q) /\ ToSet(Tail(q)) \subseteq ToSet(q)
  BY <1>1, <1>4, TailOfQueue
<1>6. /\ DOMAIN tasks' = Threads /\ tasks'[w] = Tail(q)
      /\ \A v \in Threads \ {w} : tasks'[v] = tasks[v]
  BY <1>1, <1>4
<1>7. /\ DOMAIN worker[w] = {"pc", "epoch", "matches"} /\ worker[w].epoch = 0
      /\ \A v \in Threads :
           /\ DOMAIN worker[v] = {"pc", "epoch", "matches"}
           /\ worker[v].pc \in {"receiving", "searching", "answering", "ended"}
           /\ worker[v].pc \in {"receiving", "ended"} => worker[v].epoch = 0
           /\ worker[v].pc \in {"searching", "answering"} =>
                worker[v].epoch \in 1 .. epoch /\ worker[v].epoch \notin ToSet(tasks[v])
  BY <1>1, <1>2 DEF WorkersShape
<1>8. \A v \in Threads \ {w} : worker'[v] = worker[v]
  BY <1>1 DEF Threads
<1>9. /\ DOMAIN worker'[w] = {"pc", "epoch", "matches"}
      /\ \/ worker'[w].pc = "receiving" /\ worker'[w].epoch = 0
         \/ worker'[w].pc = "searching" /\ worker'[w].epoch = h
  <2>1. CASE h < epoch
    BY <2>1, <1>1, <1>7
  <2>2. CASE ~(h < epoch)
    BY <2>2, <1>1, <1>7 DEF Threads
  <2> QED BY <2>1, <2>2
<1> HIDE DEF q, h
<1>10. ThreadsCounted'
  BY <1>1, <1>2, <1>3, ThreadsKept
<1>11. QueuesShape'
  <2> SUFFICES ASSUME NEW v \in Threads
               PROVE  /\ tasks'[v] \in Seq(1 .. epoch) /\ Len(tasks'[v]) <= TaskCapacity
                      /\ \A i, j \in 1 .. Len(tasks'[v]) : tasks'[v][i] = tasks'[v][j] => i = j
    BY <1>1, <1>3, <1>6, Zenon DEF QueuesShape, TaskCapacity
  <2>1. CASE v = w BY <2>1, <1>5, <1>6
  <2>2. CASE v # w BY <2>2, <1>4, <1>6
  <2> QED BY <2>1, <2>2
<1>12. WorkersShape'
  <2>1. h \in 1 .. epoch /\ h \notin ToSet(tasks'[w])
    BY <1>5, <1>6
  <2>2. epoch' = epoch /\ \A v \in Threads \ {w} : worker'[v] = worker[v] /\ tasks'[v] = tasks[v]
    BY <1>1, <1>6, <1>8
  <2>3. \/ worker'[w].pc \in {"receiving", "ended"} /\ worker'[w].epoch = 0
        \/ /\ worker'[w].pc \in {"searching", "answering"}
           /\ worker'[w].epoch \in 1 .. epoch /\ worker'[w].epoch \notin ToSet(tasks'[w])
    BY <2>1, <1>9
  <2> QED BY <2>2, <2>3, <1>2, <1>3, <1>9, OneWorker
<1>13. ClosedInOrder'
  BY <1>1, <1>2, <1>3 DEF ClosedInOrder
<1>14. \A s \in 1 .. epoch : (Holders(s))' \subseteq Holders(s)
  <2>1. ToSet(tasks'[w]) \cup {worker'[w].epoch}
          \subseteq ToSet(tasks[w]) \cup {worker[w].epoch} \cup {0}
    BY <1>5, <1>6, <1>9 DEF q
  <2> QED BY <2>1, <1>3, <1>6, <1>8, FewerHolders
<1>15. SubmitsShape' /\ RoomForAll' /\ FailedIsClosed'
  BY <1>1, <1>2, <1>3, <1>10, <1>14, SubmitsAlone
<1>16. WorkersLast'
  <2>1. AnyAbandoned' = AnyAbandoned
    BY <1>1 DEF AnyAbandoned
  <2> QED BY <2>1, <1>1, <1>2, <1>3, <1>8, <1>9 DEF WorkersLast
<1> QED BY <1>10, <1>11, <1>12, <1>13, <1>15, <1>16 DEF IInv

LEMMA FinishStep == ASSUME IInv, NEW w \in Threads, Finish(w) PROVE IInv'
<1> DEFINE t == worker[w].epoch
<1>1. /\ worker[w].pc = "searching"
      /\ UNCHANGED <<session, epoch, tasks, submits, responses, runner, closed>>
  BY DEF Finish
<1>2. /\ ThreadsCounted /\ SubmitsShape /\ QueuesShape /\ WorkersShape
      /\ ClosedInOrder /\ RoomForAll /\ FailedIsClosed /\ WorkersLast
  BY DEF IInv
<1>3. PICK m, pc : /\ pc = AfterSearch(t)
                   /\ worker' = [worker EXCEPT ![w] =
                        IF pc = "answering"
                        THEN [pc |-> pc, epoch |-> t, matches |-> m]
                        ELSE [Receiving EXCEPT !.pc = pc]]
  BY DEF Finish
<1>4. Threads' = Threads /\ \A v \in Threads \ {w} : worker'[v] = worker[v]
  BY <1>3 DEF Threads
<1>5. pc = "receiving" \/ pc = "answering"
  BY <1>3 DEF AfterSearch
<1>6. t \in 1 .. epoch /\ t \notin ToSet(tasks[w])
  BY <1>1, <1>2 DEF WorkersShape
<1>7. /\ DOMAIN worker'[w] = {"pc", "epoch", "matches"}
      /\ \/ worker'[w].pc = "receiving" /\ worker'[w].epoch = 0
         \/ worker'[w].pc = "answering" /\ worker'[w].epoch = t
  <2>1. CASE pc = "receiving"
    BY <2>1, <1>3 DEF Threads, Receiving
  <2>2. CASE pc = "answering"
    BY <2>2, <1>3 DEF Threads
  <2> QED BY <1>5, <2>1, <2>2
<1>8. ThreadsCounted' /\ QueuesShape' /\ ClosedInOrder'
  <2>1. ClosedInOrder'
    BY <1>1, <1>2, <1>4 DEF ClosedInOrder
  <2> QED BY <2>1, <1>1, <1>2, <1>4, ThreadsKept, QueuesKept
<1>9. WorkersShape'
  BY <1>1, <1>2, <1>4, <1>6, <1>7, OneWorker
<1>10. \A s \in 1 .. epoch : (Holders(s))' \subseteq Holders(s)
  <2>1. ToSet(tasks'[w]) \cup {worker'[w].epoch}
          \subseteq ToSet(tasks[w]) \cup {worker[w].epoch} \cup {0}
    BY <1>1, <1>7
  <2> QED BY <2>1, <1>1, <1>4, FewerHolders
<1> HIDE DEF t
<1>11. SubmitsShape' /\ RoomForAll' /\ FailedIsClosed'
  BY <1>1, <1>2, <1>4, <1>8, <1>10, SubmitsAlone
<1>12. WorkersLast'
  <2>1. AnyAbandoned' = AnyAbandoned
    BY <1>1 DEF AnyAbandoned
  <2> QED BY <2>1, <1>1, <1>2, <1>4, <1>7 DEF WorkersLast
<1> QED BY <1>8, <1>9, <1>11, <1>12 DEF IInv

LEMMA EndStep == ASSUME IInv, NEW w \in Threads, End(w) PROVE IInv'
<1>1. /\ worker[w].pc = "receiving" /\ w \in closed
      /\ worker' = [worker EXCEPT ![w].pc = "ended"]
      /\ UNCHANGED <<session, epoch, tasks, engines, submits, responses, runner, closed>>
  BY DEF End
<1>2. /\ ThreadsCounted /\ SubmitsShape /\ QueuesShape /\ WorkersShape
      /\ ClosedInOrder /\ RoomForAll /\ FailedIsClosed /\ WorkersLast
  BY DEF IInv
<1>3. Threads' = Threads /\ \A v \in Threads \ {w} : worker'[v] = worker[v]
  BY <1>1 DEF Threads
<1>4. DOMAIN worker[w] = {"pc", "epoch", "matches"} /\ worker[w].epoch = 0
  BY <1>1, <1>2 DEF WorkersShape
<1>5. /\ DOMAIN worker'[w] = {"pc", "epoch", "matches"}
      /\ worker'[w].pc = "ended" /\ worker'[w].epoch = 0
  BY <1>1, <1>4 DEF Threads
<1>6. ThreadsCounted' /\ QueuesShape' /\ ClosedInOrder'
  <2>1. ClosedInOrder'
    BY <1>1, <1>2, <1>3 DEF ClosedInOrder
  <2> QED BY <2>1, <1>1, <1>2, <1>3, ThreadsKept, QueuesKept
<1>7. WorkersShape'
  BY <1>1, <1>2, <1>3, <1>5, OneWorker
<1>8. \A s \in 1 .. epoch : (Holders(s))' \subseteq Holders(s)
  <2>1. ToSet(tasks'[w]) \cup {worker'[w].epoch}
          \subseteq ToSet(tasks[w]) \cup {worker[w].epoch} \cup {0}
    BY <1>1, <1>5
  <2> QED BY <2>1, <1>1, <1>3, FewerHolders
<1>9. SubmitsShape' /\ RoomForAll' /\ FailedIsClosed'
  BY <1>1, <1>2, <1>3, <1>6, <1>8, SubmitsAlone
<1>10. WorkersLast'
  <2>1. AnyAbandoned' = AnyAbandoned
    BY <1>1 DEF AnyAbandoned
  <2> QED BY <2>1, <1>1, <1>2, <1>3 DEF WorkersLast
<1> QED BY <1>6, <1>7, <1>9, <1>10 DEF IInv

\* The receiver of the answer is gone, and the worker ends.  Who failed met a
\* closed channel or an abandoned submit.
LEMMA AnswerGoneStep ==
    ASSUME IInv, NEW w \in Threads, Answer(w), Gone(worker[w].epoch)
    PROVE  IInv'
<1> DEFINE t == worker[w].epoch
<1>1. /\ worker[w].pc = "answering"
      /\ worker' = [worker EXCEPT ![w] = [Receiving EXCEPT !.pc = "ended"]]
      /\ tasks' = [tasks EXCEPT ![w] = <<>>] \/ UNCHANGED tasks
      /\ UNCHANGED <<session, epoch, responses, engines, submits, runner, closed>>
  BY DEF Answer
<1>2. /\ ThreadsCounted /\ SubmitsShape /\ QueuesShape /\ WorkersShape
      /\ ClosedInOrder /\ RoomForAll /\ FailedIsClosed /\ WorkersLast
  BY DEF IInv
<1>3. Threads' = Threads /\ \A v \in Threads \ {w} : worker'[v] = worker[v]
  BY <1>1 DEF Threads
<1>4. /\ DOMAIN worker'[w] = {"pc", "epoch", "matches"}
      /\ worker'[w].pc = "ended" /\ worker'[w].epoch = 0
  BY <1>1 DEF Threads, Receiving
<1>5. /\ DOMAIN tasks = Threads
      /\ \A v \in Threads :
           /\ tasks[v] \in Seq(1 .. epoch) /\ Len(tasks[v]) <= TaskCapacity
           /\ \A i, j \in 1 .. Len(tasks[v]) : tasks[v][i] = tasks[v][j] => i = j
  BY <1>2 DEF QueuesShape
<1>6. /\ DOMAIN tasks' = Threads /\ (tasks'[w] = <<>> \/ tasks'[w] = tasks[w])
      /\ \A v \in Threads \ {w} : tasks'[v] = tasks[v]
  BY <1>1, <1>5
<1>7. QueuesShape'
  BY <1>1, <1>2, <1>3, <1>6, EmptiedQueue
<1>8. ThreadsCounted' /\ ClosedInOrder'
  <2>1. ClosedInOrder'
    BY <1>1, <1>2, <1>3 DEF ClosedInOrder
  <2> QED BY <2>1, <1>1, <1>2, <1>3, ThreadsKept
<1>9. WorkersShape'
  BY <1>1, <1>2, <1>3, <1>4, <1>6, OneWorker
<1>10. \A s \in 1 .. epoch : (Holders(s))' \subseteq Holders(s)
  <2>1. ToSet(<<>>) = {}
    BY EmptyList, ListFacts DEF ToSet
  <2>2. ToSet(tasks'[w]) \cup {worker'[w].epoch}
          \subseteq ToSet(tasks[w]) \cup {worker[w].epoch} \cup {0}
    BY <2>1, <1>4, <1>6
  <2> QED BY <2>2, <1>3, <1>6, FewerHolders
<1>11. SubmitsShape' /\ RoomForAll' /\ FailedIsClosed'
  BY <1>1, <1>2, <1>3, <1>8, <1>10, SubmitsAlone
<1>12. WorkersLast'
  <2>1. AnyAbandoned' = AnyAbandoned
    BY <1>1 DEF AnyAbandoned
  <2>2. t \in 1 .. epoch /\ DOMAIN submits = 1 .. epoch
    BY <1>1, <1>2, Basics DEF WorkersShape
  <2>3. w \in Holders(t)
    BY DEF Holders
  <2>4. w \in closed \/ AnyAbandoned
    <3>1. CASE submits[t].pc = "abandoned"
      BY <3>1, <2>2 DEF AnyAbandoned
    <3>2. CASE submits[t].pc = "failed"
      BY <3>2, <2>2, <2>3, <1>2 DEF FailedIsClosed
    <3> QED BY <3>1, <3>2 DEF Gone
  <2> HIDE DEF t
  <2> QED BY <2>1, <2>4, <1>1, <1>2, <1>3 DEF WorkersLast
<1> QED BY <1>7, <1>8, <1>9, <1>11, <1>12 DEF IInv

\* Only the submit s changes.
LEMMA OneSubmit ==
    ASSUME SubmitsShape, NEW s \in 1 .. epoch, Threads' = Threads, UNCHANGED <<session, epoch>>,
           submits' = [i \in DOMAIN submits |-> submits'[i]],
           responses' = [i \in DOMAIN responses |-> responses'[i]],
           \A i \in 1 .. epoch \ {s} : submits'[i] = submits[i] /\ responses'[i] = responses[i],
           DOMAIN submits'[s] = {"pc", "next", "matches", "undisturbed", "late"},
           submits'[s].pc \in {"sending", "collecting", "returned", "failed", "abandoned"},
           submits'[s].pc = "sending" => submits'[s].next \in Threads,
           IsList(responses'[s])
    PROVE  SubmitsShape'
<1>1. /\ IsList(submits') /\ Len(submits') = epoch
      /\ IsList(responses') /\ Len(responses') = epoch
  BY ListExcept DEF SubmitsShape
<1>2. ASSUME NEW i \in 1 .. epoch
      PROVE  /\ DOMAIN submits'[i] = {"pc", "next", "matches", "undisturbed", "late"}
             /\ submits'[i].pc \in {"sending", "collecting", "returned", "failed", "abandoned"}
             /\ submits'[i].pc = "sending" => submits'[i].next \in Threads
             /\ IsList(responses'[i])
  <2>1. CASE i = s BY <2>1
  <2>2. CASE i # s BY <2>2 DEF SubmitsShape
  <2> QED BY <2>1, <2>2
<1>3. session' \in Sessions /\ epoch' \in 0 .. Len(session')
  BY DEF SubmitsShape
<1> QED BY <1>1, <1>2, <1>3, Zenon DEF SubmitsShape

LEMMA AnswerDeliveredStep ==
    ASSUME IInv, NEW w \in Threads, Answer(w), ~Gone(worker[w].epoch)
    PROVE  IInv'
<1> PICK t, m : t = worker[w].epoch /\ m = worker[w].matches
  OBVIOUS
<1>1. /\ worker[w].pc = "answering"
      /\ worker' = [worker EXCEPT ![w] = Receiving]
      /\ responses' = [responses EXCEPT ![t] = Append(@, m)]
      /\ UNCHANGED <<session, epoch, tasks, engines, submits, runner, closed>>
  BY DEF Answer, Answered
<1>2. /\ ThreadsCounted /\ SubmitsShape /\ QueuesShape /\ WorkersShape
      /\ ClosedInOrder /\ RoomForAll /\ FailedIsClosed /\ WorkersLast
  BY DEF IInv
<1>3. Threads' = Threads /\ \A v \in Threads \ {w} : worker'[v] = worker[v]
  BY <1>1 DEF Threads
<1>4. /\ DOMAIN worker'[w] = {"pc", "epoch", "matches"}
      /\ worker'[w].pc = "receiving" /\ worker'[w].epoch = 0
  BY <1>1 DEF Threads, Receiving
<1>5. t \in 1 .. epoch /\ t \notin ToSet(tasks[w])
  BY <1>1, <1>2 DEF WorkersShape
<1>6. ThreadsCounted' /\ QueuesShape' /\ ClosedInOrder'
  <2>1. ClosedInOrder'
    BY <1>1, <1>2, <1>3 DEF ClosedInOrder
  <2> QED BY <2>1, <1>1, <1>2, <1>3, ThreadsKept, QueuesKept
<1>7. WorkersShape'
  BY <1>1, <1>2, <1>3, <1>4, OneWorker
<1>8. /\ DOMAIN submits = 1 .. epoch /\ DOMAIN responses = 1 .. epoch /\ epoch \in Nat
      /\ \A s \in 1 .. epoch : Len(responses[s]) \in Nat
  BY <1>2, Basics
<1>9. IsList(responses'[t]) /\ Len(responses'[t]) = Len(responses[t]) + 1
  <2>1. IsList(responses[t])
    BY <1>2, <1>5 DEF SubmitsShape
  <2>2. responses'[t] = Append(responses[t], m)
    BY <1>1, <1>5, <1>8
  <2> QED BY <2>1, <2>2, ListAppend
<1>10. SubmitsShape'
  <2>1. /\ submits' = [i \in DOMAIN submits |-> submits'[i]]
        /\ responses' = [i \in DOMAIN responses |-> responses'[i]]
        /\ \A i \in 1 .. epoch \ {t} : submits'[i] = submits[i] /\ responses'[i] = responses[i]
    <3>1. submits = [i \in DOMAIN submits |-> submits[i]]
      <4>1. submits \in Seq(ToSet(submits))
        BY <1>2 DEF SubmitsShape, IsList
      <4>2. submits \in [1 .. Len(submits) -> ToSet(submits)]
        BY <4>1, LenProperties
      <4> QED BY <4>2
    <3> QED BY <3>1, <1>1, <1>8
  <2>2. /\ DOMAIN submits'[t] = {"pc", "next", "matches", "undisturbed", "late"}
        /\ submits'[t].pc \in {"sending", "collecting", "returned", "failed", "abandoned"}
        /\ submits'[t].pc = "sending" => submits'[t].next \in Threads
    BY <1>1, <1>2, <1>5 DEF SubmitsShape
  <2> QED BY <2>1, <2>2, <1>1, <1>2, <1>3, <1>5, <1>9, OneSubmit
<1>11. \A s \in 1 .. epoch : (Holders(s))' \subseteq Holders(s)
  <2>1. ToSet(tasks'[w]) \cup {worker'[w].epoch}
          \subseteq ToSet(tasks[w]) \cup {worker[w].epoch} \cup {0}
    BY <1>1, <1>4
  <2> QED BY <2>1, <1>1, <1>3, FewerHolders
<1>12. w \in Holders(t) /\ w \notin (Holders(t))'
  <2>1. t # 0
    BY <1>5
  <2> QED BY <2>1, <1>1, <1>4, <1>5 DEF Holders
<1>13. \A s \in 1 .. epoch : (Reached(s))' = Reached(s)
  BY <1>1, <1>3 DEF Reached
<1>14. RoomForAll'
  <2> SUFFICES ASSUME NEW s \in 1 .. epoch
               PROVE  /\ (Holders(s))' \subseteq 1 .. (Reached(s))'
                      /\ Len(responses'[s]) + Cardinality((Holders(s))') <= (Reached(s))'
    BY <1>1, Zenon DEF RoomForAll
  <2> DEFINE h == Holders(s)
             g == (Holders(s))'
             r == Reached(s)
             q == (Reached(s))'
             a == Len(responses[s])
             b == Len(responses'[s])
  <2>1. g \subseteq h /\ q = r
    BY <1>11, <1>13
  <2>2. r \in Nat /\ a \in Nat /\ IsFiniteSet(h) /\ Cardinality(h) \in Nat
    BY <1>2, <1>8, ReachedType, HoldersCounted
  <2>3. h \subseteq 1 .. r /\ a + Cardinality(h) <= r
    BY <1>2 DEF RoomForAll
  <2>4. CASE s = t
    <3>1. w \in h /\ w \notin g /\ b = a + 1
      BY <2>4, <1>9, <1>12
    <3> HIDE DEF h, g, r, q, a, b
    <3>2. g \subseteq h \ {w} /\ Cardinality(h \ {w}) = Cardinality(h) - 1 /\ IsFiniteSet(h \ {w})
      BY <2>1, <2>2, <3>1, FS_RemoveElement
    <3>3. Cardinality(g) \in Nat /\ Cardinality(g) <= Cardinality(h \ {w})
      BY <3>2, FS_Subset, FS_CardinalityType
    <3>4. b + Cardinality(g) <= q
      BY <2>1, <2>2, <2>3, <3>1, <3>2, <3>3
    <3>5. g \subseteq 1 .. q
      BY <2>1, <2>3
    <3> QED BY <3>4, <3>5 DEF g, q, b
  <2>5. CASE s # t
    <3>1. b = a
      BY <2>5, <1>1, <1>8
    <3> HIDE DEF h, g, r, q, a, b
    <3>2. Cardinality(g) \in Nat /\ Cardinality(g) <= Cardinality(h)
      BY <2>1, <2>2, FS_Subset, FS_CardinalityType
    <3>3. b + Cardinality(g) <= q
      BY <2>1, <2>2, <2>3, <3>1, <3>2
    <3>4. g \subseteq 1 .. q
      BY <2>1, <2>3
    <3> QED BY <3>3, <3>4 DEF g, q, b
  <2> QED BY <2>4, <2>5
<1>15. AnyAbandoned' = AnyAbandoned
  BY <1>1 DEF AnyAbandoned
<1>16. FailedIsClosed'
  BY <1>1, <1>2, <1>11, <1>15, FailedKept
<1>17. WorkersLast'
  BY <1>15, <1>1, <1>2, <1>3, <1>4 DEF WorkersLast
<1> QED BY <1>6, <1>7, <1>10, <1>14, <1>16, <1>17 DEF IInv

-----------------------------------------------------------------------------
(* The submits *)

\* A new submit has reached nobody, and nobody holds it.
LEMMA SubmitInv == ASSUME IInv, Submit PROVE IInv'
<1> DEFINE new == [pc |-> "sending", next |-> 1, matches |-> <<>>, undisturbed |-> FALSE,
          late |-> closed # {}]
           k == Cardinality(Threads)
<1>1. /\ epoch < Len(session) /\ runner.pc # "none" /\ epoch' = epoch + 1
      /\ submits' = Append(submits, new) /\ responses' = Append(responses, <<>>)
      /\ UNCHANGED <<session, tasks, worker, engines, runner, closed>>
  BY DEF Submit
<1>2. /\ ThreadsCounted /\ SubmitsShape /\ QueuesShape /\ WorkersShape
      /\ ClosedInOrder /\ RoomForAll /\ FailedIsClosed /\ WorkersLast
  BY DEF IInv
<1>3. Threads' = Threads /\ epoch \in Nat
  BY <1>1, <1>2, Basics DEF Threads
<1>4. k \in Nat /\ Threads = 1 .. k /\ k # 0
  BY <1>1, <1>2, PoolSize
<1>5. /\ IsList(submits') /\ Len(submits') = epoch + 1 /\ submits'[epoch + 1] = new
      /\ \A s \in 1 .. epoch : submits'[s] = submits[s]
  <2>1. IsList(submits) /\ Len(submits) = epoch
    BY <1>2 DEF SubmitsShape
  <2> HIDE DEF new
  <2> QED BY <2>1, <1>1, ListAppend
<1>6. /\ IsList(responses') /\ Len(responses') = epoch + 1 /\ responses'[epoch + 1] = <<>>
      /\ \A s \in 1 .. epoch : responses'[s] = responses[s]
  <2>1. IsList(responses) /\ Len(responses) = epoch
    BY <1>2 DEF SubmitsShape
  <2> QED BY <2>1, <1>1, ListAppend
<1>7. /\ DOMAIN new = {"pc", "next", "matches", "undisturbed", "late"}
      /\ new.pc = "sending" /\ new.next = 1 /\ 1 \in Threads
  BY <1>4
<1> HIDE DEF new, k
<1>8. ASSUME NEW s \in 1 .. epoch + 1 PROVE s = epoch + 1 \/ s \in 1 .. epoch
  BY <1>3
<1>9. ThreadsCounted' /\ ClosedInOrder'
  <2>1. ClosedInOrder'
    BY <1>1, <1>2, <1>3 DEF ClosedInOrder
  <2> QED BY <2>1, <1>1, <1>2, <1>3, ThreadsKept
<1>10. SubmitsShape'
  <2>1. session' \in Sessions /\ epoch + 1 \in 0 .. Len(session')
    <3>1. session \in Sessions /\ session \in Seq(ToSet(session))
      BY <1>2, SessionsAssumption DEF SubmitsShape
    <3>2. Len(session) \in Nat
      BY <3>1, LenProperties
    <3> QED BY <3>1, <3>2, <1>1, <1>3
  <2>2. ASSUME NEW s \in 1 .. epoch + 1
        PROVE  /\ DOMAIN submits'[s] = {"pc", "next", "matches", "undisturbed", "late"}
               /\ submits'[s].pc \in {"sending", "collecting", "returned", "failed", "abandoned"}
               /\ submits'[s].pc = "sending" => submits'[s].next \in Threads
               /\ IsList(responses'[s])
    <3>1. CASE s = epoch + 1
      BY <3>1, <1>5, <1>6, <1>7, EmptyList
    <3>2. CASE s \in 1 .. epoch
      BY <3>2, <1>2, <1>5, <1>6 DEF SubmitsShape
    <3> QED BY <3>1, <3>2, <1>8
  <2> QED BY <2>1, <2>2, <1>1, <1>3, <1>5, <1>6, Zenon DEF SubmitsShape
<1>11. 1 .. epoch \subseteq 1 .. epoch + 1
  BY <1>3
<1>12. QueuesShape'
  <2> SUFFICES ASSUME NEW w \in Threads
               PROVE  /\ tasks[w] \in Seq(1 .. epoch + 1) /\ Len(tasks[w]) <= TaskCapacity
                      /\ \A i, j \in 1 .. Len(tasks[w]) : tasks[w][i] = tasks[w][j] => i = j
    BY <1>1, <1>2, <1>3, Zenon DEF QueuesShape, TaskCapacity
  <2>1. /\ tasks[w] \in Seq(1 .. epoch) /\ Len(tasks[w]) <= TaskCapacity
        /\ \A i, j \in 1 .. Len(tasks[w]) : tasks[w][i] = tasks[w][j] => i = j
    BY <1>2 DEF QueuesShape
  <2>2. tasks[w] \in Seq(1 .. epoch + 1)
    <3>1. Len(tasks[w]) \in Nat /\ tasks[w] \in [1 .. Len(tasks[w]) -> 1 .. epoch]
      BY <2>1, LenProperties
    <3>2. tasks[w] \in [1 .. Len(tasks[w]) -> 1 .. epoch + 1]
      BY <3>1, <1>11
    <3> QED BY <3>1, <3>2, SeqDef
  <2> QED BY <2>1, <2>2
<1>13. WorkersShape'
  BY <1>1, <1>2, <1>3, <1>11 DEF WorkersShape
<1>14. \A s \in 1 .. epoch + 1 : (Holders(s))' = Holders(s)
  BY <1>1, <1>3 DEF Holders
<1>15. Holders(epoch + 1) = {}
  <2> SUFFICES ASSUME NEW w \in Threads
               PROVE  epoch + 1 \notin ToSet(tasks[w]) /\ worker[w].epoch # epoch + 1
    BY DEF Holders
  <2>1. ToSet(tasks[w]) \subseteq 1 .. epoch
    <3>1. tasks[w] \in Seq(1 .. epoch)
      BY <1>2 DEF QueuesShape
    <3>2. \A i \in DOMAIN tasks[w] : tasks[w][i] \in 1 .. epoch
      BY <3>1, ElementOfSeq, LenProperties
    <3> QED BY <3>2 DEF ToSet
  <2>2. worker[w].epoch \in 0 .. epoch
    BY <1>2, <1>3 DEF WorkersShape
  <2> QED BY <2>1, <2>2, <1>3
<1>16. /\ \A s \in 1 .. epoch : (Reached(s))' = Reached(s)
       /\ \A s : s = epoch + 1 => (Reached(s))' = 0
  <2>1. \A s \in 1 .. epoch : (Reached(s))' = Reached(s)
    BY <1>3, <1>5 DEF Reached
  <2>2. ASSUME NEW s, s = epoch + 1 PROVE (Reached(s))' = 0
    <3>1. submits'[s].pc = "sending" /\ submits'[s].next = 1
      BY <2>2, <1>5, <1>7
    <3> QED BY <3>1 DEF Reached
  <2> QED BY <2>1, <2>2
<1>17. RoomForAll'
  <2> SUFFICES ASSUME NEW s \in 1 .. epoch + 1
               PROVE  /\ (Holders(s))' \subseteq 1 .. (Reached(s))'
                      /\ Len(responses'[s]) + Cardinality((Holders(s))') <= (Reached(s))'
    BY <1>1, Zenon DEF RoomForAll
  <2>1. CASE s = epoch + 1
    <3>1. (Holders(s))' = {} /\ Len(responses'[s]) = 0
      BY <2>1, <1>6, <1>14, <1>15, EmptyList
    <3>2. Cardinality({}) = 0
      BY FS_EmptySet
    <3>3. (Reached(s))' = 0
      BY <2>1, <1>16
    <3> QED BY <3>1, <3>2, <3>3
  <2>2. CASE s \in 1 .. epoch
    <3>1. (Holders(s))' = Holders(s) /\ (Reached(s))' = Reached(s) /\ responses'[s] = responses[s]
      BY <2>2, <1>6, <1>14, <1>16
    <3>2. /\ Holders(s) \subseteq 1 .. Reached(s)
          /\ Len(responses[s]) + Cardinality(Holders(s)) <= Reached(s)
      BY <2>2, <1>2 DEF RoomForAll
    <3> QED BY <3>1, <3>2
  <2> QED BY <2>1, <2>2, <1>8
<1>18. AnyAbandoned => AnyAbandoned'
  <2>1. DOMAIN submits = 1 .. epoch /\ DOMAIN submits' = 1 .. epoch + 1
    BY <1>2, <1>5, Basics, ListFacts
  <2> QED BY <2>1, <1>5, <1>11 DEF AnyAbandoned
<1>19. FailedIsClosed'
  <2> SUFFICES ASSUME NEW s \in 1 .. epoch + 1, submits'[s].pc = "failed"
               PROVE  AnyAbandoned' \/ (Holders(s))' \subseteq closed'
    BY <1>1, Zenon DEF FailedIsClosed
  <2>1. s # epoch + 1
    BY <1>5, <1>7
  <2> QED BY <2>1, <1>1, <1>2, <1>5, <1>8, <1>14, <1>18 DEF FailedIsClosed
<1>20. WorkersLast'
  BY <1>1, <1>2, <1>3, <1>18 DEF WorkersLast
<1> QED BY <1>9, <1>10, <1>12, <1>13, <1>17, <1>19, <1>20 DEF IInv

\* A submit is over: it has returned or failed, or its caller has left.
LEMMA SubmitEnds ==
    ASSUME IInv, NEW s \in 1 .. epoch, submits[s].pc \in {"sending", "collecting"},
           submits' = [i \in DOMAIN submits |-> submits'[i]],
           \A i \in 1 .. epoch \ {s} : submits'[i] = submits[i],
           DOMAIN submits'[s] = {"pc", "next", "matches", "undisturbed", "late"},
           submits'[s].pc \in {"returned", "failed", "abandoned"},
           submits'[s].pc = "failed" => AnyAbandoned \/ Holders(s) \subseteq closed,
           responses' = [responses EXCEPT ![s] = <<>>],
           UNCHANGED <<session, epoch, tasks, worker, runner, closed>>
    PROVE  IInv'
<1>1. /\ ThreadsCounted /\ SubmitsShape /\ QueuesShape /\ WorkersShape
      /\ ClosedInOrder /\ RoomForAll /\ FailedIsClosed /\ WorkersLast
  BY DEF IInv
<1>2. Threads' = Threads
  BY DEF Threads
<1>3. /\ epoch \in Nat /\ DOMAIN submits = 1 .. epoch /\ DOMAIN responses = 1 .. epoch
      /\ \A t \in 1 .. epoch : Len(responses[t]) \in Nat
  BY <1>1, Basics
<1>4. /\ responses'[s] = <<>> /\ \A i \in 1 .. epoch \ {s} : responses'[i] = responses[i]
      /\ responses' = [i \in DOMAIN responses |-> responses'[i]]
  BY <1>3
<1>5. SubmitsShape'
  BY <1>1, <1>2, <1>4, EmptyList, OneSubmit
<1>6. AnyAbandoned => AnyAbandoned'
  <2>1. DOMAIN submits' = 1 .. epoch
    BY <1>3
  <2>2. \A t \in 1 .. epoch : submits[t].pc = "abandoned" => submits'[t].pc = "abandoned"
    OBVIOUS
  <2> QED BY <2>1, <2>2, <1>3 DEF AnyAbandoned
<1>7. ThreadsCounted' /\ QueuesShape' /\ ClosedInOrder'
  <2>1. ClosedInOrder'
    BY <1>1, <1>2 DEF ClosedInOrder
  <2> QED BY <2>1, <1>1, <1>2, ThreadsKept, QueuesKept
<1>8. WorkersShape' /\ WorkersLast'
  BY <1>1, <1>6, WorkersKept
<1>9. \A t \in 1 .. epoch : (Holders(t))' = Holders(t)
  BY <1>2 DEF Holders
<1>10. RoomForAll'
  <2>1. ASSUME NEW t \in 1 .. epoch
        PROVE  /\ (Holders(t))' \subseteq Holders(t)
               /\ Len(responses'[t]) <= Len(responses[t])
               /\ (Reached(t))' = Reached(t) \/ (Reached(t))' = Cardinality(Threads)
    <3>1. CASE t = s
      <4>1. (Reached(t))' = Cardinality(Threads)
        <5>1. submits'[t].pc # "sending"
          BY <3>1
        <5> QED BY <5>1, <1>2 DEF Reached
      <4>2. Len(responses'[t]) = 0 /\ Len(responses[t]) \in Nat
        BY <3>1, <1>3, <1>4, EmptyList
      <4> QED BY <4>1, <4>2, <1>9
    <3>2. CASE t # s
      <4>1. submits'[t] = submits[t] /\ responses'[t] = responses[t]
        BY <3>2, <1>4
      <4>2. (Reached(t))' = Reached(t)
        BY <4>1, <1>2 DEF Reached
      <4> QED BY <4>1, <4>2, <1>3, <1>9
    <3> QED BY <3>1, <3>2
  <2> QED BY <2>1, <1>1, <1>2, <1>5, <1>7, RoomKept
<1>11. FailedIsClosed'
  <2> SUFFICES ASSUME NEW t \in 1 .. epoch, submits'[t].pc = "failed"
               PROVE  AnyAbandoned' \/ (Holders(t))' \subseteq closed'
    BY Zenon DEF FailedIsClosed
  <2>1. AnyAbandoned \/ Holders(t) \subseteq closed
    <3>1. CASE t = s BY <3>1
    <3>2. CASE t # s BY <3>2, <1>1 DEF FailedIsClosed
    <3> QED BY <3>1, <3>2
  <2> QED BY <2>1, <1>6, <1>9
<1> QED BY <1>5, <1>7, <1>8, <1>10, <1>11 DEF IInv

LEMMA ReturnStep == ASSUME IInv, NEW s \in DOMAIN submits, Return(s) PROVE IInv'
<1>1. s \in 1 .. epoch /\ DOMAIN submits[s] = {"pc", "next", "matches", "undisturbed", "late"}
  BY Basics DEF IInv, SubmitsShape
<1>2. PICK m, u :
         /\ submits[s].pc = "collecting"
         /\ submits' = [submits EXCEPT ![s].pc = "returned", ![s].matches = m,
                                       ![s].undisturbed = u]
         /\ responses' = [responses EXCEPT ![s] = <<>>]
         /\ UNCHANGED <<session, epoch, tasks, worker, runner, closed>>
  BY DEF Return
<1>3. /\ submits' = [i \in DOMAIN submits |-> submits'[i]]
      /\ \A i \in DOMAIN submits \ {s} : submits'[i] = submits[i]
      /\ DOMAIN submits'[s] = {"pc", "next", "matches", "undisturbed", "late"}
      /\ submits'[s].pc = "returned"
  BY <1>1, <1>2
<1>4. DOMAIN submits = 1 .. epoch
  BY Basics DEF IInv
<1> QED BY <1>1, <1>2, <1>3, <1>4, SubmitEnds

LEMMA AbandonStep == ASSUME IInv, NEW s \in DOMAIN submits, Abandon(s) PROVE IInv'
<1>1. s \in 1 .. epoch /\ DOMAIN submits[s] = {"pc", "next", "matches", "undisturbed", "late"}
  BY Basics DEF IInv, SubmitsShape
<1>2. /\ submits[s].pc \in {"sending", "collecting"}
      /\ submits' = [submits EXCEPT ![s].pc = "abandoned", ![s].next = 0]
      /\ responses' = [responses EXCEPT ![s] = <<>>]
      /\ UNCHANGED <<session, epoch, tasks, worker, runner, closed>>
  BY DEF Abandon
<1>3. /\ submits' = [i \in DOMAIN submits |-> submits'[i]]
      /\ \A i \in DOMAIN submits \ {s} : submits'[i] = submits[i]
      /\ DOMAIN submits'[s] = {"pc", "next", "matches", "undisturbed", "late"}
      /\ submits'[s].pc = "abandoned"
  BY <1>1, <1>2
<1>4. DOMAIN submits = 1 .. epoch
  BY Basics DEF IInv
<1> QED BY <1>1, <1>2, <1>3, <1>4, SubmitEnds

\* Whoever can still meet the failed submit comes before the channel it failed at.
LEMMA SendFailedStep ==
    ASSUME IInv, NEW s \in DOMAIN submits, Send(s),
           submits[s].next \in closed \/ worker[submits[s].next].pc = "ended"
    PROVE  IInv'
<1> DEFINE w == submits[s].next
<1>1. s \in 1 .. epoch /\ DOMAIN submits[s] = {"pc", "next", "matches", "undisturbed", "late"}
  BY Basics DEF IInv, SubmitsShape
<1>2. /\ submits[s].pc = "sending"
      /\ submits' = [submits EXCEPT ![s].pc = "failed", ![s].next = 0]
      /\ responses' = [responses EXCEPT ![s] = <<>>]
      /\ UNCHANGED <<session, epoch, tasks, worker, runner, closed>>
  BY DEF Send, Broken
<1>3. /\ submits' = [i \in DOMAIN submits |-> submits'[i]]
      /\ \A i \in DOMAIN submits \ {s} : submits'[i] = submits[i]
      /\ DOMAIN submits'[s] = {"pc", "next", "matches", "undisturbed", "late"}
      /\ submits'[s].pc = "failed"
  BY <1>1, <1>2
<1>4. DOMAIN submits = 1 .. epoch
  BY Basics DEF IInv
<1>5. AnyAbandoned \/ Holders(s) \subseteq closed
  <2>1. w \in Threads /\ Holders(s) \subseteq 1 .. w - 1
    BY <1>1, <1>2 DEF IInv, SubmitsShape, RoomForAll, Reached
  <2>2. w \in closed \/ AnyAbandoned
    BY <2>1 DEF IInv, WorkersLast
  <2>3. w \in Nat
    BY <2>1, PoolSize DEF IInv
  <2>4. CASE w \in closed
    <3>1. 1 .. w \subseteq closed
      BY <2>4 DEF IInv, ClosedInOrder
    <3>2. 1 .. w - 1 \subseteq 1 .. w
      BY <2>3
    <3> QED BY <2>1, <3>1, <3>2
  <2> QED BY <2>2, <2>4
<1> QED BY <1>1, <1>2, <1>3, <1>4, <1>5, SubmitEnds

LEMMA QueueGrows ==
    ASSUME NEW n, NEW q \in Seq(1 .. n), Len(q) < TaskCapacity,
           \A i, j \in 1 .. Len(q) : q[i] = q[j] => i = j,
           NEW s \in 1 .. n, s \notin ToSet(q)
    PROVE  /\ Append(q, s) \in Seq(1 .. n) /\ Len(Append(q, s)) <= TaskCapacity
           /\ \A i, j \in 1 .. Len(Append(q, s)) : Append(q, s)[i] = Append(q, s)[j] => i = j
           /\ ToSet(Append(q, s)) = ToSet(q) \cup {s}
<1> DEFINE t == Append(q, s)
           k == Len(q)
<1>1. /\ k \in Nat /\ DOMAIN q = 1 .. k
      /\ t \in Seq(1 .. n) /\ Len(t) = k + 1 /\ DOMAIN t = 1 .. k + 1
      /\ \A i \in 1 .. k : t[i] = q[i]
      /\ t[k + 1] = s
  BY AppendFacts
<1>2. k < TaskCapacity /\ \A i, j \in 1 .. k : q[i] = q[j] => i = j
  OBVIOUS
<1>3. \A i \in 1 .. k : q[i] # s
  BY <1>1 DEF ToSet
<1> HIDE DEF t, k
<1>4. \A i \in 1 .. k + 1 : i = k + 1 \/ i \in 1 .. k
  BY <1>1
<1>5. Len(t) <= TaskCapacity
  BY <1>1, <1>2 DEF TaskCapacity
<1>6. ASSUME NEW i \in 1 .. Len(t), NEW j \in 1 .. Len(t), t[i] = t[j] PROVE i = j
  <2>1. i \in 1 .. k + 1 /\ j \in 1 .. k + 1
    BY <1>1
  <2> QED BY <2>1, <1>1, <1>2, <1>3, <1>4, <1>6
<1>7. ToSet(t) = ToSet(q) \cup {s}
  <2>1. ToSet(t) = {t[i] : i \in 1 .. k + 1} /\ ToSet(q) = {q[i] : i \in 1 .. k}
    BY <1>1 DEF ToSet
  <2>2. 1 .. k \subseteq 1 .. k + 1 /\ k + 1 \in 1 .. k + 1
    BY <1>1
  <2> QED BY <2>1, <2>2, <1>1, <1>4
<1> QED BY <1>1, <1>5, <1>6, <1>7 DEF t

\* The next worker holds the submit too, and the submit has reached one more.
LEMMA SendOkStep ==
    ASSUME IInv, NEW s \in DOMAIN submits, Send(s),
           ~(submits[s].next \in closed \/ worker[submits[s].next].pc = "ended")
    PROVE  IInv'
<1> PICK w, k : w = submits[s].next /\ k = Cardinality(Threads)
  OBVIOUS
<1>1. /\ submits[s].pc = "sending" /\ Len(tasks[w]) < TaskCapacity
      /\ tasks' = [tasks EXCEPT ![w] = Append(@, s)]
      /\ submits' = IF w + 1 \in Threads
                    THEN [submits EXCEPT ![s].next = w + 1]
                    ELSE [submits EXCEPT ![s].next = 0, ![s].pc = "collecting"]
      /\ UNCHANGED <<session, epoch, worker, runner, closed, responses>>
  BY DEF Send, Broken, HasRoom
<1>2. /\ ThreadsCounted /\ SubmitsShape /\ QueuesShape /\ WorkersShape
      /\ ClosedInOrder /\ RoomForAll /\ FailedIsClosed /\ WorkersLast
  BY DEF IInv
<1>3. Threads' = Threads
  BY <1>1 DEF Threads
<1>4. /\ epoch \in Nat /\ DOMAIN submits = 1 .. epoch /\ DOMAIN responses = 1 .. epoch
      /\ \A t \in 1 .. epoch : Len(responses[t]) \in Nat
  BY <1>2, Basics
<1>5. k \in Nat /\ Threads = 1 .. k
  BY <1>2, PoolSize
<1>6. /\ s \in 1 .. epoch /\ DOMAIN submits[s] = {"pc", "next", "matches", "undisturbed", "late"}
      /\ w \in Threads /\ IsList(responses[s])
  BY <1>1, <1>2, <1>4 DEF SubmitsShape
<1>7. Holders(s) \subseteq 1 .. w - 1 /\ Len(responses[s]) + Cardinality(Holders(s)) <= w - 1
  BY <1>1, <1>2, <1>6 DEF RoomForAll, Reached
<1>8. w \in 1 .. k /\ w \in Nat /\ w \notin 1 .. w - 1
  <2>1. w \in 1 .. k /\ k \in Nat
    BY <1>5, <1>6
  <2>2. w \in Nat /\ w <= k
    BY ONLY <2>1
  <2> QED BY ONLY <2>1, <2>2
<1>9. s \notin ToSet(tasks[w]) /\ worker[w].epoch # s
  BY <1>6, <1>7, <1>8 DEF Holders
<1>10. /\ tasks[w] \in Seq(1 .. epoch)
       /\ \A i, j \in 1 .. Len(tasks[w]) : tasks[w][i] = tasks[w][j] => i = j
       /\ DOMAIN tasks = Threads
  BY <1>2, <1>6 DEF QueuesShape
<1>11. /\ tasks'[w] = Append(tasks[w], s) /\ DOMAIN tasks' = Threads
       /\ \A v \in Threads \ {w} : tasks'[v] = tasks[v]
  BY <1>1, <1>6, <1>10
<1>12. /\ tasks'[w] \in Seq(1 .. epoch) /\ Len(tasks'[w]) <= TaskCapacity
       /\ \A i, j \in 1 .. Len(tasks'[w]) : tasks'[w][i] = tasks'[w][j] => i = j
       /\ ToSet(tasks'[w]) = ToSet(tasks[w]) \cup {s}
  BY <1>1, <1>6, <1>9, <1>10, <1>11, QueueGrows
<1>13. QueuesShape'
  <2> SUFFICES ASSUME NEW v \in Threads
               PROVE  /\ tasks'[v] \in Seq(1 .. epoch) /\ Len(tasks'[v]) <= TaskCapacity
                      /\ \A i, j \in 1 .. Len(tasks'[v]) : tasks'[v][i] = tasks'[v][j] => i = j
    BY <1>1, <1>3, <1>11, Zenon DEF QueuesShape, TaskCapacity
  <2>1. CASE v = w BY <2>1, <1>12
  <2>2. CASE v # w BY <2>2, <1>2, <1>11 DEF QueuesShape
  <2> QED BY <2>1, <2>2
<1>14. WorkersShape'
  <2>1. \A v \in Threads \ {w} : worker'[v] = worker[v] /\ tasks'[v] = tasks[v]
    BY <1>1, <1>11
  <2>2. /\ DOMAIN worker[w] = {"pc", "epoch", "matches"}
        /\ worker[w].pc \in {"receiving", "searching", "answering", "ended"}
        /\ worker[w].pc \in {"receiving", "ended"} => worker[w].epoch = 0
        /\ worker[w].pc \in {"searching", "answering"} =>
             worker[w].epoch \in 1 .. epoch /\ worker[w].epoch \notin ToSet(tasks[w])
    BY <1>2, <1>6 DEF WorkersShape
  <2>3. worker' = worker /\ worker[w].epoch # s
    BY <1>1, <1>9
  <2>4. \/ worker'[w].pc \in {"receiving", "ended"} /\ worker'[w].epoch = 0
        \/ /\ worker'[w].pc \in {"searching", "answering"}
           /\ worker'[w].epoch \in 1 .. epoch /\ worker'[w].epoch \notin ToSet(tasks'[w])
    BY <2>2, <2>3, <1>12
  <2> QED BY <2>1, <2>2, <2>3, <2>4, <1>1, <1>2, <1>3, <1>6, OneWorker
<1>15. /\ submits' = [i \in DOMAIN submits |-> submits'[i]]
       /\ \A i \in DOMAIN submits \ {s} : submits'[i] = submits[i]
       /\ DOMAIN submits'[s] = {"pc", "next", "matches", "undisturbed", "late"}
       /\ \/ w + 1 \in Threads /\ submits'[s].pc = "sending" /\ submits'[s].next = w + 1
          \/ w + 1 \notin Threads /\ submits'[s].pc = "collecting"
  <2>1. CASE w + 1 \in Threads BY <2>1, <1>1, <1>6
  <2>2. CASE w + 1 \notin Threads BY <2>2, <1>1, <1>6
  <2> QED BY <2>1, <2>2
<1>16. SubmitsShape'
  <2>1. responses' = [i \in DOMAIN responses |-> responses'[i]]
    <3>1. responses \in Seq(ToSet(responses))
      BY <1>2 DEF SubmitsShape, IsList
    <3>2. responses \in [1 .. Len(responses) -> ToSet(responses)]
      BY <3>1, LenProperties
    <3> QED BY <3>2, <1>1
  <2>2. \A i \in 1 .. epoch \ {s} : submits'[i] = submits[i] /\ responses'[i] = responses[i]
    BY <1>1, <1>4, <1>15
  <2>3. /\ submits'[s].pc \in {"sending", "collecting", "returned", "failed", "abandoned"}
        /\ submits'[s].pc = "sending" => submits'[s].next \in Threads
    BY <1>15
  <2> QED BY <2>1, <2>2, <2>3, <1>1, <1>2, <1>3, <1>6, <1>15, OneSubmit
<1>17. ThreadsCounted' /\ ClosedInOrder'
  <2>1. ClosedInOrder'
    BY <1>1, <1>2, <1>3 DEF ClosedInOrder
  <2> QED BY <2>1, <1>1, <1>2, <1>3, ThreadsKept
<1>18. AnyAbandoned => AnyAbandoned'
  <2>1. DOMAIN submits' = 1 .. epoch
    BY <1>4, <1>15
  <2>2. \A t \in 1 .. epoch : submits[t].pc = "abandoned" => submits'[t].pc = "abandoned"
    BY <1>1, <1>4, <1>15
  <2> QED BY <2>1, <2>2, <1>4 DEF AnyAbandoned
<1>19. WorkersLast'
  BY <1>1, <1>2, <1>3, <1>18 DEF WorkersLast
<1>20. /\ \A t \in 1 .. epoch \ {s} : (Holders(t))' = Holders(t)
       /\ (Holders(s))' = Holders(s) \cup {w}
  <2>1. \A t : \A v \in Threads :
          t \in ToSet(tasks'[v]) <=> t \in ToSet(tasks[v]) \/ (v = w /\ t = s)
    BY <1>11, <1>12
  <2> QED BY <2>1, <1>1, <1>3, <1>6 DEF Holders
<1>21. /\ \A t \in 1 .. epoch \ {s} : (Reached(t))' = Reached(t)
       /\ (Reached(s))' = w
  <2>1. \A t \in 1 .. epoch \ {s} : (Reached(t))' = Reached(t)
    BY <1>3, <1>4, <1>15 DEF Reached
  <2>2. /\ submits'[s].pc = "sending" => (Reached(s))' = submits'[s].next - 1
        /\ submits'[s].pc = "collecting" => (Reached(s))' = k
    BY <1>3 DEF Reached
  <2>3. CASE w + 1 \in Threads
    <3>1. submits'[s].pc = "sending" /\ submits'[s].next = w + 1
      BY <2>3, <1>15
    <3>2. (w + 1) - 1 = w
      BY ONLY <1>8
    <3>3. (Reached(s))' = (w + 1) - 1
      BY <2>2, <3>1, Zenon
    <3> QED BY <2>1, <3>2, <3>3, Zenon
  <2>4. CASE w + 1 \notin Threads
    <3>1. w = k
      <4>1. w + 1 \notin 1 .. k /\ k \in Nat
        BY <2>4, <1>5
      <4> QED BY ONLY <4>1, <1>8
    <3> QED BY <2>1, <2>2, <2>4, <3>1, <1>15
  <2> QED BY <2>3, <2>4
<1>22. RoomForAll'
  <2> SUFFICES ASSUME NEW t \in 1 .. epoch
               PROVE  /\ (Holders(t))' \subseteq 1 .. (Reached(t))'
                      /\ Len(responses'[t]) + Cardinality((Holders(t))') <= (Reached(t))'
    BY <1>1, Zenon DEF RoomForAll
  <2>1. CASE t # s
    <3>1. (Holders(t))' = Holders(t) /\ (Reached(t))' = Reached(t) /\ responses'[t] = responses[t]
      BY <2>1, <1>1, <1>20, <1>21
    <3>2. Holders(t) \subseteq 1 .. Reached(t)
          /\ Len(responses[t]) + Cardinality(Holders(t)) <= Reached(t)
      BY <1>2 DEF RoomForAll
    <3> QED BY <3>1, <3>2
  <2>2. CASE t = s
    <3> DEFINE h == Holders(s)
               a == Len(responses[s])
    <3>1. (Holders(t))' = h \cup {w} /\ (Reached(t))' = w /\ Len(responses'[t]) = a
      BY <2>2, <1>1, <1>20, <1>21
    <3>2. h \subseteq 1 .. w - 1 /\ a + Cardinality(h) <= w - 1 /\ w \in 1 .. k
      BY <1>7, <1>8
    <3>3. IsFiniteSet(h) /\ Cardinality(h) \in Nat /\ a \in Nat
      BY <1>2, <1>4, <1>6, HoldersCounted
    <3> HIDE DEF h, a
    <3>4. Cardinality(h \cup {w}) = Cardinality(h) + 1
      BY <3>2, <3>3, <1>8, FS_AddElement
    <3>5. a + Cardinality(h \cup {w}) <= w
      BY <3>2, <3>3, <3>4
    <3>6. h \cup {w} \subseteq 1 .. w
      BY ONLY <3>2, <1>8
    <3> QED BY <3>1, <3>5, <3>6
  <2> QED BY <2>1, <2>2
<1>23. FailedIsClosed'
  <2> SUFFICES ASSUME NEW t \in 1 .. epoch, submits'[t].pc = "failed"
               PROVE  AnyAbandoned' \/ (Holders(t))' \subseteq closed'
    BY <1>1, Zenon DEF FailedIsClosed
  <2>1. t # s
    BY <1>15
  <2>2. submits[t].pc = "failed" /\ (Holders(t))' = Holders(t)
    BY <2>1, <1>4, <1>15, <1>20
  <2> QED BY <2>2, <1>1, <1>2, <1>18 DEF FailedIsClosed
<1> QED BY <1>13, <1>14, <1>16, <1>17, <1>19, <1>22, <1>23 DEF IInv

-----------------------------------------------------------------------------
(* The drop *)

LEMMA RunnerStep ==
    ASSUME ThreadsCounted, Threads' = Threads, runner.pc # "none",
           NEW pc \in {"closing", "joining", "dropped"}, runner' = [runner EXCEPT !.pc = pc]
    PROVE  ThreadsCounted'
<1>1. runner \in [workers : Nat, pc : {"none", "alive", "closing", "joining", "dropped"}]
  BY DEF ThreadsCounted, Runners
<1>2. runner' \in Runners /\ runner'.workers = runner.workers
  BY <1>1 DEF Runners
<1>3. PICK k \in 0 .. runner.workers : Threads = 1 .. k /\ (runner.pc # "none" => k # 0)
  BY DEF ThreadsCounted
<1> QED BY <1>2, <1>3 DEF ThreadsCounted

\* The runner's program counter changes, and nothing else.
LEMMA OnlyRunner ==
    ASSUME IInv, UNCHANGED <<session, epoch, tasks, worker, submits, responses, closed>>,
           ThreadsCounted'
    PROVE  IInv'
<1>1. /\ ThreadsCounted /\ SubmitsShape /\ QueuesShape /\ WorkersShape
      /\ ClosedInOrder /\ RoomForAll /\ FailedIsClosed /\ WorkersLast
  BY DEF IInv
<1>2. Threads' = Threads
  BY DEF Threads
<1>3. \A s \in 1 .. epoch : (Holders(s))' \subseteq Holders(s)
  BY <1>2 DEF Holders
<1>4. SubmitsShape' /\ RoomForAll' /\ FailedIsClosed'
  BY <1>1, <1>2, <1>3, SubmitsAlone
<1>5. QueuesShape' /\ WorkersShape' /\ WorkersLast'
  <2>1. AnyAbandoned' = AnyAbandoned
    BY DEF AnyAbandoned
  <2> QED BY <2>1, <1>1, <1>2, QueuesKept, WorkersKept
<1>6. ClosedInOrder'
  BY <1>1, <1>2 DEF ClosedInOrder
<1> QED BY <1>4, <1>5, <1>6 DEF IInv

LEMMA DropOrJoinStep == ASSUME IInv, DropRunner \/ Join PROVE IInv'
<1>1. Threads' = Threads /\ UNCHANGED <<session, epoch, tasks, worker, submits, responses, closed>>
  BY DEF DropRunner, Join, Threads
<1>2. ThreadsCounted'
  <2>1. CASE DropRunner
    <3>1. runner.pc # "none" /\ runner' = [runner EXCEPT !.pc = "closing"]
      BY <2>1 DEF DropRunner
    <3> QED BY <3>1, <1>1, RunnerStep DEF IInv
  <2>2. CASE Join
    <3>1. runner.pc # "none" /\ runner' = [runner EXCEPT !.pc = "dropped"]
      BY <2>2 DEF Join
    <3> QED BY <3>1, <1>1, RunnerStep DEF IInv
  <2> QED BY <2>1, <2>2
<1> QED BY <1>1, <1>2, OnlyRunner

LEMMA CloseChannelStep == ASSUME IInv, NEW w \in Threads, CloseChannel(w) PROVE IInv'
<1>1. /\ runner.pc = "closing" /\ closed = 1 .. w - 1 /\ closed' = closed \cup {w}
      /\ runner' = [runner EXCEPT !.pc = "joining"] \/ runner' = runner
      /\ tasks' = [tasks EXCEPT ![w] = <<>>]
      /\ UNCHANGED <<session, epoch, worker, submits, responses>>
  BY DEF CloseChannel
<1>2. /\ ThreadsCounted /\ SubmitsShape /\ QueuesShape /\ WorkersShape
      /\ ClosedInOrder /\ RoomForAll /\ FailedIsClosed /\ WorkersLast
  BY DEF IInv
<1>3. Threads' = Threads /\ closed \subseteq closed'
  BY <1>1 DEF Threads
<1>4. ThreadsCounted'
  <2>1. CASE runner' = runner BY <2>1, <1>2, <1>3, ThreadsKept
  <2>2. CASE runner' = [runner EXCEPT !.pc = "joining"]
    <3>1. runner.pc # "none"
      BY <1>1
    <3> QED BY <2>2, <3>1, <1>2, <1>3, RunnerStep
  <2> QED BY <2>1, <2>2, <1>1
<1>5. /\ DOMAIN tasks' = Threads /\ tasks'[w] = <<>>
      /\ \A v \in Threads \ {w} : tasks'[v] = tasks[v]
  <2>1. DOMAIN tasks = Threads
    BY <1>2 DEF QueuesShape
  <2> QED BY <2>1, <1>1
<1>6. QueuesShape'
  BY <1>1, <1>2, <1>3, <1>5, EmptiedQueue
<1>7. ToSet(<<>>) = {}
  BY EmptyList, ListFacts DEF ToSet
<1>8. \A v \in Threads : ToSet(tasks'[v]) \subseteq ToSet(tasks[v])
  BY <1>5, <1>7
<1>9. WorkersShape' /\ WorkersLast'
  <2>1. AnyAbandoned' = AnyAbandoned
    BY <1>1 DEF AnyAbandoned
  <2> QED BY <2>1, <1>1, <1>2, <1>3, <1>8, WorkersKept
<1>10. \A s \in 1 .. epoch : (Holders(s))' \subseteq Holders(s)
  BY <1>1, <1>3, <1>8 DEF Holders
<1>11. SubmitsShape' /\ RoomForAll' /\ FailedIsClosed'
  BY <1>1, <1>2, <1>3, <1>4, <1>10, SubmitsAlone
<1>12. ClosedInOrder'
  <2>1. PICK k \in Nat : Threads = 1 .. k
    BY <1>2, PoolSize
  <2>2. closed' = (1 .. w - 1) \cup {w} /\ w \in 1 .. k
    BY <1>1, <2>1
  <2>3. \A v \in closed' : 1 .. v \subseteq closed'
    BY ONLY <2>1, <2>2
  <2>4. closed' \subseteq Threads
    BY <2>1, <2>2
  <2> QED BY <2>3, <2>4, <1>3 DEF ClosedInOrder
<1> QED BY <1>4, <1>6, <1>9, <1>11, <1>12 DEF IInv

-----------------------------------------------------------------------------
(* The specification *)

\* As many chunks as workers, or fewer.
LEMMA ChunksCounted ==
    ASSUME NEW n \in Nat \ {0}, Candidates # <<>>
    PROVE  \E k \in 1 .. n : DOMAIN Chunks(n) = 1 .. k
<1> DEFINE l == Len(Candidates)
           size == (l + n - 1) \div n
           k == (l + size - 1) \div size
<1>1. l \in Nat \ {0}
  BY CandidatesAssumption, LenProperties, EmptySeq
<1>2. DOMAIN Chunks(n) = 1 .. k
  BY DEF Chunks
<1> HIDE DEF l
<1>3. size \in Nat \ {0} /\ l <= n * size
  BY <1>1
<1>4. k = (l + size - 1) \div size
  OBVIOUS
<1> HIDE DEF size, k
<1>5. k \in Nat \ {0} /\ k <= n
  BY <1>1, <1>3, <1>4
<1> QED BY <1>2, <1>5

LEMMA InitIInv == Init => IInv
<1> SUFFICES ASSUME Init PROVE IInv
  OBVIOUS
<1>1. /\ session \in Sessions /\ epoch = 0 /\ submits = <<>> /\ responses = <<>> /\ closed = {}
      /\ \E wanted \in Requests :
           \/ /\ runner = [workers |-> 0, pc |-> "none"]
              /\ worker = <<>> /\ tasks = <<>>
           \/ /\ Candidates # <<>> /\ wanted # 0
              /\ \E n : /\ n = Min({wanted, Len(Candidates)})
                        /\ runner = [workers |-> n, pc |-> "alive"]
                        /\ worker = [w \in DOMAIN Chunks(n) |-> Receiving]
                        /\ tasks = [w \in DOMAIN Chunks(n) |-> <<>>]
  BY DEF Init, PoolInit
<1>2. IsList(<<>>) /\ Len(<<>>) = 0 /\ DOMAIN <<>> = {} /\ ToSet(<<>>) = {}
  BY EmptyList, ListFacts DEF ToSet
<1>3. Len(session) \in Nat
  <2>1. session \in Seq(ToSet(session))
    BY <1>1, SessionsAssumption
  <2> QED BY <2>1, LenProperties
<1>4. SubmitsShape
  <2>1. \A s \in 1 .. epoch : FALSE
    BY <1>1
  <2>2. epoch \in 0 .. Len(session)
    BY <1>1, <1>3
  <2> QED BY <2>1, <2>2, <1>1, <1>2 DEF SubmitsShape
<1>5. ClosedInOrder
  BY <1>1 DEF ClosedInOrder
<1>6. RoomForAll /\ FailedIsClosed
  BY <1>1 DEF RoomForAll, FailedIsClosed
<1>7. /\ ThreadsCounted /\ DOMAIN tasks = Threads
      /\ \A w \in Threads : worker[w] = Receiving /\ tasks[w] = <<>>
  <2> PICK wanted \in Requests :
           \/ /\ runner = [workers |-> 0, pc |-> "none"]
              /\ worker = <<>> /\ tasks = <<>>
           \/ /\ Candidates # <<>> /\ wanted # 0
              /\ \E n : /\ n = Min({wanted, Len(Candidates)})
                        /\ runner = [workers |-> n, pc |-> "alive"]
                        /\ worker = [w \in DOMAIN Chunks(n) |-> Receiving]
                        /\ tasks = [w \in DOMAIN Chunks(n) |-> <<>>]
    BY <1>1
  <2>1. CASE runner = [workers |-> 0, pc |-> "none"] /\ worker = <<>> /\ tasks = <<>>
    <3>1. Threads = {} /\ DOMAIN tasks = {}
      BY <2>1, <1>2 DEF Threads
    <3>2. 0 \in 0 .. 0 /\ {} = 1 .. 0 /\ runner.workers = 0 /\ runner.pc = "none" /\ runner \in Runners
      BY <2>1 DEF Runners
    <3> QED BY <3>1, <3>2 DEF ThreadsCounted
  <2>2. CASE /\ Candidates # <<>> /\ wanted # 0
             /\ \E n : /\ n = Min({wanted, Len(Candidates)})
                       /\ runner = [workers |-> n, pc |-> "alive"]
                       /\ worker = [w \in DOMAIN Chunks(n) |-> Receiving]
                       /\ tasks = [w \in DOMAIN Chunks(n) |-> <<>>]
    <3> PICK n : /\ n = Min({wanted, Len(Candidates)})
                 /\ runner = [workers |-> n, pc |-> "alive"]
                 /\ worker = [w \in DOMAIN Chunks(n) |-> Receiving]
                 /\ tasks = [w \in DOMAIN Chunks(n) |-> <<>>]
      BY <2>2
    <3>1. wanted \in Nat \ {0}
      BY <2>2, RequestsAssumption
    <3>2. Len(Candidates) \in Nat \ {0}
      BY <2>2, CandidatesAssumption, LenProperties, EmptySeq
    <3>3. n \in Nat \ {0}
      BY <3>1, <3>2 DEF Min
    <3>4. PICK k \in 1 .. n : DOMAIN Chunks(n) = 1 .. k
      BY <2>2, <3>3, ChunksCounted
    <3>5. Threads = 1 .. k /\ DOMAIN tasks = 1 .. k
      BY <3>4 DEF Threads
    <3>6. runner.workers = n /\ runner \in Runners
      BY <3>3 DEF Runners
    <3>7. k \in 0 .. n /\ k # 0
      BY ONLY <3>3, k \in 1 .. n
    <3>8. ThreadsCounted
      BY <3>5, <3>6, <3>7 DEF ThreadsCounted
    <3> QED BY <3>4, <3>5, <3>8
  <2> QED BY <2>1, <2>2
<1>8. QueuesShape
  <2>1. <<>> \in Seq(1 .. epoch) /\ Len(<<>>) = 0
    BY EmptySeq
  <2>2. ASSUME NEW w \in Threads
        PROVE  /\ tasks[w] \in Seq(1 .. epoch) /\ Len(tasks[w]) <= TaskCapacity
               /\ \A i, j \in 1 .. Len(tasks[w]) : tasks[w][i] = tasks[w][j] => i = j
    <3>1. tasks[w] = <<>>
      BY <1>7
    <3>2. Len(tasks[w]) = 0 /\ 1 .. 0 = {}
      BY <2>1, <3>1
    <3> QED BY <2>1, <3>1, <3>2 DEF TaskCapacity
  <2> QED BY <2>2, <1>7, Zenon DEF QueuesShape, TaskCapacity
<1>9. WorkersShape /\ WorkersLast
  BY <1>7 DEF WorkersShape, WorkersLast, Receiving
<1> QED BY <1>4, <1>5, <1>6, <1>7, <1>8, <1>9 DEF IInv

LEMMA StepIInv == ASSUME IInv, [Next]_vars PROVE IInv'
<1>1. ASSUME NEW w \in Threads, WorkerStep(w) PROVE IInv'
  <2>1. CASE Take(w) BY <2>1, TakeStep
  <2>2. CASE Finish(w) BY <2>2, FinishStep
  <2>3. CASE Answer(w) BY <2>3, AnswerGoneStep, AnswerDeliveredStep
  <2>4. CASE End(w) BY <2>4, EndStep
  <2> QED BY <1>1, <2>1, <2>2, <2>3, <2>4 DEF WorkerStep
<1>2. CASE Submit BY <1>2, SubmitInv
<1>3. ASSUME NEW s \in DOMAIN submits, SubmitStep(s) \/ Abandon(s) PROVE IInv'
  <2>1. CASE Send(s) BY <2>1, SendOkStep, SendFailedStep
  <2>2. CASE Return(s) BY <2>2, ReturnStep
  <2>3. CASE Abandon(s) BY <2>3, AbandonStep
  <2> QED BY <1>3, <2>1, <2>2, <2>3 DEF SubmitStep
<1>4. CASE DropRunner \/ Join BY <1>4, DropOrJoinStep
<1>5. ASSUME NEW w \in Threads, CloseChannel(w) PROVE IInv'
  BY <1>5, CloseChannelStep
<1>6. ASSUME UNCHANGED poolVars PROVE IInv'
  <2>1. UNCHANGED <<session, epoch, tasks, worker, submits, responses, runner, closed>>
    BY <1>6 DEF poolVars
  <2>2. ThreadsCounted'
    BY <2>1 DEF IInv, ThreadsCounted, Threads
  <2> QED BY <2>1, <2>2, OnlyRunner
<1>7. CASE PoolStep
  BY <1>1, <1>2, <1>3, <1>4, <1>5, <1>7 DEF PoolStep, PoolNext, DropStep
<1>8. ASSUME NEW pattern, Query(pattern) PROVE IInv'
  BY <1>6, <1>8 DEF Query
<1>9. CASE UNCHANGED vars
  BY <1>6, <1>9 DEF vars, poolVars
<1> QED BY <1>7, <1>8, <1>9 DEF Next

-----------------------------------------------------------------------------
(* Submits that begin after the drop has begun *)

\* The first channel is closed, and a submit that began after that is stuck before it.
LateInv ==
    \A s \in 1 .. epoch :
        submits[s].late =>
            /\ 1 \in closed
            /\ \/ submits[s].pc \in {"failed", "abandoned"}
               \/ submits[s].pc = "sending" /\ submits[s].next = 1

\* Channels stay closed, and what touches no submit disturbs nobody.
LEMMA LateKept ==
    ASSUME LateInv, UNCHANGED <<epoch, submits>>, closed \subseteq closed'
    PROVE  LateInv'
BY DEF LateInv

\* If a channel is closed the first one is, and that is where a submit begins.
LEMMA LateSubmit == ASSUME IInv, LateInv, Submit PROVE LateInv'
<1> PICK new : new = [pc |-> "sending", next |-> 1, matches |-> <<>>, undisturbed |-> FALSE,
                      late |-> closed # {}]
  OBVIOUS
<1>1. /\ IsList(submits) /\ Len(submits) = epoch /\ epoch \in Nat
      /\ submits' = Append(submits, new) /\ closed' = closed /\ epoch' = epoch + 1
  BY Basics DEF IInv, SubmitsShape, Submit
<1>2. /\ submits'[epoch + 1] = new
      /\ \A i \in 1 .. epoch : submits'[i] = submits[i]
  BY <1>1, ListAppend
<1>3. new.pc = "sending" /\ new.next = 1 /\ (new.late => closed # {})
  OBVIOUS
<1>4. ASSUME closed # {} PROVE 1 \in closed
  <2>1. PICK w : w \in closed
    BY <1>4
  <2>2. ClosedInOrder /\ ThreadsCounted
    BY DEF IInv
  <2>3. w \in Nat \ {0}
    BY <2>1, <2>2, PoolSize DEF ClosedInOrder
  <2>4. 1 \in 1 .. w
    BY <2>3
  <2> QED BY <2>1, <2>2, <2>4 DEF ClosedInOrder
<1>5. \A s \in 1 .. epoch + 1 : s = epoch + 1 \/ s \in 1 .. epoch
  BY <1>1
<1> QED BY <1>1, <1>2, <1>3, <1>4, <1>5 DEF LateInv

\* A submit that ends is not late, unless it ends in failure or is abandoned.
LEMMA LateMoved ==
    ASSUME IInv, LateInv, NEW s \in 1 .. epoch, UNCHANGED <<epoch, closed>>,
           \A i \in 1 .. epoch \ {s} : submits'[i] = submits[i],
           submits'[s].late = submits[s].late,
           submits[s].late => submits'[s].pc \in {"failed", "abandoned"}
    PROVE  LateInv'
BY DEF LateInv

\* A late submit fails at the first send; the others may go on.
LEMMA LateStep ==
    ASSUME IInv, LateInv, NEW s \in DOMAIN submits, SubmitStep(s) \/ Abandon(s)
    PROVE  LateInv'
<1>1. /\ s \in 1 .. epoch /\ DOMAIN submits = 1 .. epoch
      /\ DOMAIN submits[s] = {"pc", "next", "matches", "undisturbed", "late"}
  BY Basics DEF IInv, SubmitsShape
<1>2. UNCHANGED <<epoch, closed>>
  BY DEF SubmitStep, Send, Return, Abandon
<1>3. /\ \A i \in 1 .. epoch \ {s} : submits'[i] = submits[i]
      /\ submits'[s].late = submits[s].late
  <2>1. CASE Send(s)
    <3>1. \/ submits' = [submits EXCEPT ![s].pc = "failed", ![s].next = 0]
          \/ submits' = [submits EXCEPT ![s].next = submits[s].next + 1]
          \/ submits' = [submits EXCEPT ![s].next = 0, ![s].pc = "collecting"]
      BY <2>1 DEF Send
    <3> QED BY <3>1, <1>1
  <2>2. CASE Return(s)
    <3>1. PICK m, u : submits' = [submits EXCEPT ![s].pc = "returned", ![s].matches = m,
                                                 ![s].undisturbed = u]
      BY <2>2 DEF Return
    <3> QED BY <3>1, <1>1
  <2>3. CASE Abandon(s)
    BY <2>3, <1>1 DEF Abandon
  <2> QED BY <2>1, <2>2, <2>3 DEF SubmitStep
<1>4. ASSUME submits[s].late PROVE submits'[s].pc \in {"failed", "abandoned"}
  <2>1. CASE Send(s)
    <3>1. Broken(submits[s].next)
      BY <2>1, <1>1, <1>4 DEF Send, Broken, LateInv
    <3>2. submits' = [submits EXCEPT ![s].pc = "failed", ![s].next = 0]
      BY <2>1, <3>1 DEF Send
    <3> QED BY <3>2, <1>1
  <2>2. CASE Return(s)
    BY <2>2, <1>1, <1>4 DEF Return, LateInv
  <2>3. CASE Abandon(s)
    BY <2>3, <1>1 DEF Abandon
  <2> QED BY <2>1, <2>2, <2>3 DEF SubmitStep
<1> QED BY <1>1, <1>2, <1>3, <1>4, LateMoved

LEMMA StepLate == ASSUME IInv, LateInv, [Next]_vars PROVE LateInv'
<1>1. ASSUME NEW w \in Threads, WorkerStep(w) PROVE LateInv'
  BY <1>1, LateKept DEF WorkerStep, Take, Finish, Answer, End
<1>2. CASE Submit BY <1>2, LateSubmit
<1>3. ASSUME NEW s \in DOMAIN submits, SubmitStep(s) \/ Abandon(s) PROVE LateInv'
  BY <1>3, LateStep
<1>4. CASE DropRunner \/ DropStep
  BY <1>4, LateKept DEF DropRunner, DropStep, Join, CloseChannel
<1>5. ASSUME UNCHANGED poolVars PROVE LateInv'
  BY <1>5, LateKept DEF poolVars
<1>6. CASE PoolStep
  BY <1>1, <1>2, <1>3, <1>4, <1>6 DEF PoolStep, PoolNext
<1>7. ASSUME NEW pattern, Query(pattern) PROVE LateInv'
  BY <1>5, <1>7 DEF Query
<1>8. CASE UNCHANGED vars
  BY <1>5, <1>8 DEF vars, poolVars
<1> QED BY <1>6, <1>7, <1>8 DEF Next

-----------------------------------------------------------------------------
(* The program's own engine *)

\* The answer is that of a full search, and the cache is good for the next one.
EngineInv ==
    /\ Texts(dataset) /\ CacheSound(engine, dataset)
    /\ engine.last \in Queries \cup {<<>>}
    /\ EngineExact

LEMMA InitEngineInv == Init => EngineInv
<1> SUFFICES ASSUME Init PROVE EngineInv
  OBVIOUS
<1>1. /\ dataset \in Datasets \cup {<<>>} /\ engine = NewEngine
      /\ answer = [pattern |-> <<>>, matches |-> <<>>]
  BY DEF Init
<1>2. Texts(dataset)
  <2>1. CASE dataset \in Datasets
    BY <2>1, DatasetsAssumption DEF Texts, IsList
  <2>2. CASE dataset = <<>>
    <3>1. ToSet(<<>>) = {}
      BY EmptyList DEF ToSet
    <3> QED BY <2>2, <3>1, EmptyList DEF Texts
  <2> QED BY <1>1, <2>1, <2>2
<1>3. CacheSound(engine, dataset)
  BY <1>1, <1>2, NewEngineSound DEF Texts
<1>4. engine.last = <<>>
  BY <1>1 DEF NewEngine
<1>5. EngineExact
  <2>1. FullSearch(dataset, <<>>) = <<>>
    BY <1>2, NothingForNothing DEF Texts
  <2> QED BY <1>1, <2>1 DEF EngineExact
<1> QED BY <1>2, <1>3, <1>4, <1>5 DEF EngineInv

LEMMA QueryStep ==
    ASSUME EngineInv, NEW pattern \in Queries, Query(pattern)
    PROVE  EngineInv'
<1>1. PICK result : result = Search(engine, dataset, pattern)
  OBVIOUS
<1>2. /\ engine' = result.engine /\ dataset' = dataset
      /\ answer' = [pattern |-> pattern, matches |-> result.matches]
  BY <1>1 DEF Query
<1>3. IsList(pattern)
  BY QueriesAssumption DEF IsList
<1>4. PICK eng, candidates : eng = engine /\ candidates = dataset
  OBVIOUS
<1>5. /\ Texts(candidates) /\ CacheSound(eng, candidates) /\ eng.last \in Queries \cup {<<>>}
      /\ result = Search(eng, candidates, pattern)
  BY <1>1, <1>4 DEF EngineInv
<1>6. /\ result.matches = FullSearch(candidates, pattern)
      /\ CacheSound(result.engine, candidates)
      /\ result.engine.last \in {eng.last, pattern}
  BY <1>3, <1>5, SearchExact
<1>7. dataset' = candidates /\ engine' = result.engine
  BY <1>2, <1>4
<1>8. Texts(dataset') /\ CacheSound(engine', dataset') /\ engine'.last \in Queries \cup {<<>>}
  BY <1>5, <1>6, <1>7
<1>9. answer'.matches = FullSearch(dataset', answer'.pattern)
  BY <1>2, <1>6, <1>7
<1> QED BY <1>8, <1>9 DEF EngineInv, EngineExact

LEMMA StepEngineInv == EngineInv /\ [Next]_vars => EngineInv'
<1> SUFFICES ASSUME EngineInv, [Next]_vars PROVE EngineInv'
  OBVIOUS
<1>1. ASSUME UNCHANGED <<dataset, engine, answer>> PROVE EngineInv'
  BY <1>1 DEF EngineInv, EngineExact
<1>2. CASE PoolStep
  BY <1>1, <1>2 DEF PoolStep
<1>3. ASSUME NEW pattern \in Queries, Query(pattern) PROVE EngineInv'
  BY <1>3, QueryStep
<1>4. CASE UNCHANGED vars
  BY <1>1, <1>4 DEF vars
<1> QED BY <1>2, <1>3, <1>4 DEF Next

-----------------------------------------------------------------------------
(* What the submits collect *)

\* Only true matches, each once
SoundResult(found, pattern) ==
    /\ ToSet(found) \subseteq ToSet(FullSearch(Candidates, pattern))
    /\ Cardinality({found[k].id : k \in DOMAIN found}) = Len(found)

\* The latest submit, as long as nothing has disturbed it
Latest(s) ==
    /\ submits[s].pc \in {"sending", "collecting"}
    /\ epoch = s /\ closed = {} /\ ~AnyAbandoned

\* Every response that waits is the full search of the chunk of a worker of its
\* own, that will not answer again; the latest submit misses none of the workers
\* that it has reached and that will not answer.
Collected(s, owner) ==
    /\ owner \in [1 .. Len(responses[s]) -> 1 .. Reached(s)]
    /\ \A i, j \in 1 .. Len(responses[s]) : owner[i] = owner[j] => i = j
    /\ \A i \in 1 .. Len(responses[s]) :
         /\ owner[i] \notin Holders(s)
         /\ responses[s][i] = FullSearch(Chunk(owner[i]), session[s])
    /\ Latest(s) => \A w \in 1 .. Reached(s) :
                      w \in Holders(s) \/ \E i \in 1 .. Len(responses[s]) : owner[i] = w

AllCollected == \A s \in 1 .. epoch : \E owner : Collected(s, owner)

\* The engine of every worker is sound, and its answer that of a full search.
ChunksSearched ==
    /\ runner.pc = "none" => epoch = 0 /\ Threads = {}
    /\ runner.pc # "none" =>
         runner.workers # 0 /\ Candidates # <<>> /\ Threads = DOMAIN Chunks(runner.workers)
    /\ DOMAIN engines = Threads
    /\ \A w \in Threads :
         /\ CacheSound(engines[w], Chunk(w))
         /\ worker[w].pc = "answering" =>
              worker[w].matches = FullSearch(Chunk(w), session[worker[w].epoch])

MatchInv == ChunksSearched /\ AllCollected /\ ResultsSound /\ LatestIsComplete

\* The full searches of chunks, each once, find only true matches, each once, and
\* those of all chunks find them all.
LEMMA CollectedFound ==
    ASSUME NEW n \in Nat, n # 0, Candidates # <<>>, NEW lists, IsList(lists), NEW p,
           NEW owner \in [1 .. Len(lists) -> DOMAIN Chunks(n)],
           \A i, j \in 1 .. Len(lists) : owner[i] = owner[j] => i = j,
           \A i \in 1 .. Len(lists) : lists[i] = FullSearch(Chunks(n)[owner[i]], p)
    PROVE  /\ SoundResult(FlattenSeq(lists), p)
           /\ (\A k \in DOMAIN Chunks(n) : \E i \in 1 .. Len(lists) : owner[i] = k) =>
                ToSet(FlattenSeq(lists)) = ToSet(FullSearch(Candidates, p))
<1>1. PICK found, chunks, l : found = FlattenSeq(lists) /\ chunks = Chunks(n) /\ l = Len(lists)
  OBVIOUS
<1>2. IsList(Candidates) /\ Distinct(Candidates)
  <2>1. DOMAIN Candidates = 1 .. Len(Candidates)
    BY CandidatesListed, ListFacts
  <2> QED BY <2>1, CandidatesListed, IdsAssumption DEF Distinct
<1>3. /\ \A k \in DOMAIN chunks : IsList(chunks[k]) /\ Distinct(chunks[k])
      /\ \A k, m \in DOMAIN chunks : k # m =>
           \A x \in ToSet(chunks[k]), y \in ToSet(chunks[m]) : x.id # y.id
  BY <1>1, <1>2, ChunksApart
<1>4. ASSUME NEW i \in 1 .. l
      PROVE  /\ owner[i] \in DOMAIN chunks /\ IsList(chunks[owner[i]])
             /\ IsList(lists[i]) /\ Distinct(lists[i])
             /\ \A e : e \in ToSet(lists[i]) <=>
                  \E c \in ToSet(chunks[owner[i]]) : HasPattern(c, p) /\ e = Matched(c, p)
  <2>1. PICK o, chunk : o = owner[i] /\ chunk = chunks[o]
    OBVIOUS
  <2>2. o \in DOMAIN chunks /\ lists[i] = FullSearch(chunk, p)
    BY <1>1, <2>1
  <2>3. IsList(chunk) /\ Distinct(chunk)
    BY <1>3, <2>1, <2>2
  <2>4. IsList(lists[i])
    BY <2>2, <2>3, FullSearchList
  <2>5. Distinct(lists[i])
    BY <2>2, <2>3, FullSearchDistinct
  <2>6. \A e : e \in ToSet(lists[i]) <=>
                  \E c \in ToSet(chunk) : HasPattern(c, p) /\ e = Matched(c, p)
    BY <2>2, <2>3, FullSearchHas
  <2> QED BY <2>1, <2>2, <2>3, <2>4, <2>5, <2>6
<1>5. \A i \in 1 .. Len(lists) : IsList(lists[i]) /\ Distinct(lists[i])
  BY <1>1, <1>4
<1>6. IsList(found) /\ \A e : e \in ToSet(found) <=> \E i \in 1 .. l : e \in ToSet(lists[i])
  BY <1>1, <1>5, FlattenFacts
<1>7. \A i, j \in 1 .. Len(lists) : i # j =>
        \A x \in ToSet(lists[i]), y \in ToSet(lists[j]) : x.id # y.id
  <2> SUFFICES ASSUME NEW i \in 1 .. l, NEW j \in 1 .. l, i # j,
                      NEW x \in ToSet(lists[i]), NEW y \in ToSet(lists[j])
               PROVE  x.id # y.id
    BY <1>1
  <2>1. PICK c \in ToSet(chunks[owner[i]]) : x = Matched(c, p)
    BY <1>4
  <2>2. PICK d \in ToSet(chunks[owner[j]]) : y = Matched(d, p)
    BY <1>4
  <2>3. owner[i] # owner[j]
    BY <1>1
  <2>4. c.id # d.id
    BY <1>3, <1>4, <2>3
  <2>5. x.id = c.id /\ y.id = d.id
    BY <2>1, <2>2 DEF Matched
  <2> QED BY <2>4, <2>5
<1>8. Distinct(found)
  BY <1>1, <1>5, <1>7, FlattenDistinct
<1>9. Cardinality({found[k].id : k \in DOMAIN found}) = Len(found)
  BY <1>6, <1>8, DistinctCounted
<1>10. \A e : e \in ToSet(FullSearch(Candidates, p))
                <=> \E c \in ToSet(Candidates) : HasPattern(c, p) /\ e = Matched(c, p)
  BY <1>2, FullSearchHas
<1>11. \A c : c \in ToSet(Candidates) <=> \E k \in DOMAIN chunks : c \in ToSet(chunks[k])
  BY <1>1, ChunksCover
<1>12. ToSet(found) \subseteq ToSet(FullSearch(Candidates, p))
  <2> SUFFICES ASSUME NEW e \in ToSet(found) PROVE e \in ToSet(FullSearch(Candidates, p))
    OBVIOUS
  <2>1. PICK i \in 1 .. l : e \in ToSet(lists[i])
    BY <1>6
  <2>2. PICK c \in ToSet(chunks[owner[i]]) : HasPattern(c, p) /\ e = Matched(c, p)
    BY <1>4, <2>1
  <2>3. c \in ToSet(Candidates)
    BY <1>4, <1>11
  <2> QED BY <1>10, <2>2, <2>3
<1>13. ASSUME \A k \in DOMAIN chunks : \E i \in 1 .. l : owner[i] = k
       PROVE  ToSet(FullSearch(Candidates, p)) \subseteq ToSet(found)
  <2> SUFFICES ASSUME NEW e \in ToSet(FullSearch(Candidates, p)) PROVE e \in ToSet(found)
    OBVIOUS
  <2>1. PICK c \in ToSet(Candidates) : HasPattern(c, p) /\ e = Matched(c, p)
    BY <1>10
  <2>2. PICK k \in DOMAIN chunks : c \in ToSet(chunks[k])
    BY <1>11
  <2>3. PICK i \in 1 .. l : owner[i] = k
    BY <1>13
  <2>4. e \in ToSet(lists[i])
    BY <1>4, <2>1, <2>2, <2>3
  <2> QED BY <1>6, <2>4
<1>14. SoundResult(found, p)
  BY <1>9, <1>12 DEF SoundResult
<1> QED BY <1>1, <1>12, <1>13, <1>14

-----------------------------------------------------------------------------
(* Steps after which the submits have collected what they had *)

\* Who had been reached holds the submit only if it did, and the latest loses nobody.
LEMMA OwnersKept ==
    ASSUME NEW s, \E owner : Collected(s, owner), responses'[s] = responses[s],
           session' = session, runner'.workers = runner.workers,
           1 .. Reached(s) \subseteq 1 .. (Reached(s))',
           \A w \in 1 .. Reached(s) : w \in (Holders(s))' => w \in Holders(s),
           (Latest(s))' =>
             /\ Latest(s)
             /\ \A w \in 1 .. (Reached(s))' :
                  w \in (Holders(s))' \/ (w \in 1 .. Reached(s) /\ w \notin Holders(s))
    PROVE  \E owner : (Collected(s, owner))'
<1>1. PICK owner : Collected(s, owner)
  OBVIOUS
<1>2. PICK r, q, h, g, n : /\ r = Reached(s) /\ q = (Reached(s))'
                           /\ h = Holders(s) /\ g = (Holders(s))' /\ n = Len(responses[s])
  OBVIOUS
<1>3. \A w : Chunk(w)' = Chunk(w)
  BY DEF Chunk
<1>4. /\ owner \in [1 .. n -> 1 .. r]
      /\ \A i, j \in 1 .. n : owner[i] = owner[j] => i = j
      /\ \A i \in 1 .. n : owner[i] \notin h /\ responses[s][i] = FullSearch(Chunk(owner[i]), session[s])
      /\ Latest(s) => \A w \in 1 .. r : w \in h \/ \E i \in 1 .. n : owner[i] = w
  BY <1>1, <1>2 DEF Collected
<1>5. Len(responses'[s]) = n /\ 1 .. r \subseteq 1 .. q
  BY <1>2
<1>6. owner \in [1 .. n -> 1 .. q]
  BY <1>4, <1>5
<1>7. \A i \in 1 .. n : /\ owner[i] \notin g
                        /\ responses'[s][i] = FullSearch(Chunk(owner[i])', session'[s])
  BY <1>2, <1>3, <1>4
<1>8. (Latest(s))' => \A w \in 1 .. q : w \in g \/ \E i \in 1 .. n : owner[i] = w
  BY <1>2, <1>4
<1>9. (Collected(s, owner))'
  BY <1>2, <1>4, <1>5, <1>6, <1>7, <1>8 DEF Collected
<1> QED BY <1>9

\* Nothing waits, and the submit is over, or has reached nobody.
LEMMA OwnersEmptied ==
    ASSUME NEW s, responses'[s] = <<>>, ~(Latest(s))' \/ (Reached(s))' = 0
    PROVE  \E owner : (Collected(s, owner))'
<1>1. Len(responses'[s]) = 0
  BY EmptyList
<1>2. 1 .. 0 = {}
  OBVIOUS
<1>3. <<>> \in [1 .. 0 -> 1 .. (Reached(s))']
  OBVIOUS
<1>4. (Collected(s, <<>>))'
  BY <1>1, <1>2, <1>3 DEF Collected
<1> QED BY <1>4

\* The results of the submits stay as they are.
LEMMA ResultsKept ==
    ASSUME ResultsSound, LatestIsComplete, session' = session, DOMAIN submits' = DOMAIN submits,
           \A s \in DOMAIN submits : /\ submits'[s].matches = submits[s].matches
                                     /\ submits'[s].undisturbed = submits[s].undisturbed
    PROVE  ResultsSound' /\ LatestIsComplete'
<1>1. ResultsSound'
  BY DEF ResultsSound
<1>2. LatestIsComplete'
  BY DEF LatestIsComplete
<1> QED BY <1>1, <1>2

\* No worker is given an answer.
LEMMA ChunksKept ==
    ASSUME ChunksSearched, Threads' = Threads, session' = session, engines' = engines,
           runner'.workers = runner.workers, runner'.pc = "none" => runner.pc = "none",
           runner.pc = "none" => runner'.pc = "none" /\ epoch' = epoch,
           \A w \in Threads : worker'[w].pc = "answering" => worker'[w] = worker[w]
    PROVE  ChunksSearched'
<1>1. \A w : Chunk(w)' = Chunk(w)
  BY DEF Chunk
<1>2. ASSUME NEW w \in Threads
      PROVE  /\ CacheSound(engines'[w], Chunk(w)')
             /\ worker'[w].pc = "answering" =>
                  worker'[w].matches = FullSearch(Chunk(w)', session'[worker'[w].epoch])
  BY <1>1 DEF ChunksSearched
<1> QED BY <1>2 DEF ChunksSearched

-----------------------------------------------------------------------------
(* The submits collect what the workers find *)

\* A step of a worker or of the drop, that only the latest submit could be harmed by
LEMMA SubmitsSteady ==
    ASSUME IInv, MatchInv, Threads' = Threads, closed \subseteq closed',
           UNCHANGED <<session, epoch, submits, responses>>, runner'.workers = runner.workers,
           \A s \in 1 .. epoch : (Holders(s))' \subseteq Holders(s),
           \A s \in 1 .. epoch : Latest(s) /\ closed' = {} => Holders(s) \subseteq (Holders(s))'
    PROVE  AllCollected' /\ ResultsSound' /\ LatestIsComplete'
<1>1. AnyAbandoned' = AnyAbandoned
  BY DEF AnyAbandoned
<1>2. ASSUME NEW s \in 1 .. epoch PROVE \E owner : (Collected(s, owner))'
  <2>1. (Reached(s))' = Reached(s)
    BY DEF Reached
  <2>2. ASSUME (Latest(s))' PROVE Latest(s) /\ closed' = {}
    BY <1>1, <2>2 DEF Latest
  <2>3. ASSUME (Latest(s))'
        PROVE  /\ Latest(s)
               /\ \A w \in 1 .. (Reached(s))' :
                    w \in (Holders(s))' \/ (w \in 1 .. Reached(s) /\ w \notin Holders(s))
    BY <2>1, <2>2, <2>3
  <2>4. \E owner : Collected(s, owner)
    BY DEF MatchInv, AllCollected
  <2>5. \A w \in 1 .. Reached(s) : w \in (Holders(s))' => w \in Holders(s)
    OBVIOUS
  <2>6. responses'[s] = responses[s] /\ 1 .. Reached(s) \subseteq 1 .. (Reached(s))' /\ session' = session
    BY <2>1
  <2> QED BY <2>3, <2>4, <2>5, <2>6, OwnersKept
<1>3. AllCollected'
  BY <1>2, Zenon DEF AllCollected
<1>4. ResultsSound' /\ LatestIsComplete'
  BY ResultsKept DEF MatchInv
<1> QED BY <1>3, <1>4

\* Only the worker w changes, and it holds the submit s if it did.
LEMMA HoldersLast ==
    ASSUME NEW w \in Threads, Threads' = Threads, NEW s,
           \A v \in Threads \ {w} : worker'[v] = worker[v],
           \A v \in Threads \ {w} : ToSet(tasks'[v]) = ToSet(tasks[v]),
           s \in ToSet(tasks[w]) \/ worker[w].epoch = s =>
             s \in ToSet(tasks'[w]) \/ worker'[w].epoch = s
    PROVE  Holders(s) \subseteq (Holders(s))'
BY DEF Holders

\* What is not taken from a channel stays in it.
LEMMA RestOfQueue ==
    ASSUME NEW n, NEW q \in Seq(1 .. n), q # <<>>
    PROVE  \A e \in ToSet(q) : e = Head(q) \/ e \in ToSet(Tail(q))
<1>1. PICK k, t : k = Len(q) /\ t = Tail(q)
  OBVIOUS
<1>2. /\ k \in Nat \ {0} /\ DOMAIN q = 1 .. k /\ Head(q) = q[1]
      /\ DOMAIN t = 1 .. k - 1 /\ \A i \in 1 .. k - 1 : t[i] = q[i + 1]
  BY <1>1, HeadTailProperties, LenProperties, EmptySeq
<1> SUFFICES ASSUME NEW e \in ToSet(q), e # Head(q) PROVE e \in ToSet(t)
  BY <1>1
<1>3. PICK i \in 1 .. k : e = q[i]
  BY <1>2 DEF ToSet
<1>4. i - 1 \in 1 .. k - 1 /\ (i - 1) + 1 = i
  BY <1>2, <1>3
<1>5. t[i - 1] = e
  BY <1>2, <1>3, <1>4
<1> QED BY <1>2, <1>4, <1>5 DEF ToSet

LEMMA TakeMatch == ASSUME IInv, MatchInv, NEW w \in Threads, Take(w) PROVE MatchInv'
<1> PICK q, h, t : q = tasks[w] /\ h = Head(q) /\ t = Tail(q)
  OBVIOUS
<1>1. /\ worker[w].pc = "receiving" /\ q # <<>>
      /\ tasks' = [tasks EXCEPT ![w] = t]
      /\ worker' = IF h < epoch THEN worker
                   ELSE [worker EXCEPT ![w].pc = "searching", ![w].epoch = h]
      /\ UNCHANGED <<session, epoch, engines, submits, responses, runner, closed>>
  BY DEF Take
<1>2. Threads' = Threads
  BY <1>1 DEF Threads
<1>3. /\ DOMAIN tasks = Threads /\ q \in Seq(1 .. epoch) /\ Len(q) <= TaskCapacity
      /\ \A i, j \in 1 .. Len(q) : q[i] = q[j] => i = j
  BY DEF IInv, QueuesShape
<1>4. h \in 1 .. epoch /\ h \in ToSet(q) /\ ToSet(t) \subseteq ToSet(q)
  BY <1>1, <1>3, TailOfQueue
<1>5. \A e \in ToSet(q) : e = h \/ e \in ToSet(t)
  BY <1>1, <1>3, RestOfQueue
<1>6. /\ tasks'[w] = t /\ \A v \in Threads \ {w} : tasks'[v] = tasks[v]
  BY <1>1, <1>3
<1>7. DOMAIN worker[w] = {"pc", "epoch", "matches"} /\ worker[w].epoch = 0
  BY <1>1 DEF IInv, WorkersShape
<1>8. \A v \in Threads \ {w} : worker'[v] = worker[v]
  BY <1>1 DEF Threads
<1>9. /\ h < epoch => worker'[w].pc = "receiving" /\ worker'[w].epoch = 0
      /\ ~(h < epoch) => worker'[w].pc = "searching" /\ worker'[w].epoch = h
  <2>1. CASE h < epoch
    BY <2>1, <1>1, <1>7
  <2>2. CASE ~(h < epoch)
    BY <2>2, <1>1, <1>7 DEF Threads
  <2> QED BY <2>1, <2>2
<1>10. \A s \in 1 .. epoch : (Holders(s))' \subseteq Holders(s)
  <2>1. ToSet(tasks'[w]) \cup {worker'[w].epoch}
          \subseteq ToSet(tasks[w]) \cup {worker[w].epoch} \cup {0}
    BY <1>4, <1>6, <1>9
  <2> QED BY <2>1, <1>2, <1>6, <1>8, FewerHolders
<1>11. ASSUME NEW s \in 1 .. epoch, Latest(s) PROVE Holders(s) \subseteq (Holders(s))'
  <2>1. s = epoch /\ s # 0
    BY <1>11 DEF Latest
  <2>2. epoch \in Nat
    BY Basics DEF IInv
  <2>3. h = s => ~(h < epoch)
    BY <2>1, <2>2
  <2>4. s \in ToSet(tasks[w]) \/ worker[w].epoch = s =>
             s \in ToSet(tasks'[w]) \/ worker'[w].epoch = s
    BY <1>5, <1>6, <1>7, <1>9, <2>1, <2>3
  <2> QED BY <2>4, <1>2, <1>6, <1>8, HoldersLast
<1>12. AllCollected' /\ ResultsSound' /\ LatestIsComplete'
  BY <1>1, <1>2, <1>10, <1>11, SubmitsSteady
<1>13. \A v \in Threads : worker'[v].pc = "answering" => worker'[v] = worker[v]
  BY <1>8, <1>9
<1>14. ChunksSearched'
  BY <1>1, <1>2, <1>13, ChunksKept DEF MatchInv
<1> QED BY <1>12, <1>14 DEF MatchInv

LEMMA EndMatch == ASSUME IInv, MatchInv, NEW w \in Threads, End(w) PROVE MatchInv'
<1>1. /\ worker[w].pc = "receiving" /\ w \in closed
      /\ worker' = [worker EXCEPT ![w].pc = "ended"]
      /\ UNCHANGED <<session, epoch, tasks, engines, submits, responses, runner, closed>>
  BY DEF End
<1>2. Threads' = Threads /\ \A v \in Threads \ {w} : worker'[v] = worker[v]
  BY <1>1 DEF Threads
<1>3. DOMAIN worker[w] = {"pc", "epoch", "matches"}
  BY DEF IInv, WorkersShape
<1>4. worker'[w].pc = "ended" /\ worker'[w].epoch = worker[w].epoch
  BY <1>1, <1>3 DEF Threads
<1>5. \A s \in 1 .. epoch : (Holders(s))' \subseteq Holders(s)
  <2>1. ToSet(tasks'[w]) \cup {worker'[w].epoch}
          \subseteq ToSet(tasks[w]) \cup {worker[w].epoch} \cup {0}
    BY <1>1, <1>4
  <2> QED BY <2>1, <1>1, <1>2, FewerHolders
<1>6. ASSUME NEW s \in 1 .. epoch PROVE Holders(s) \subseteq (Holders(s))'
  BY <1>1, <1>2, <1>4, HoldersLast
<1>7. AllCollected' /\ ResultsSound' /\ LatestIsComplete'
  BY <1>1, <1>2, <1>5, <1>6, SubmitsSteady
<1>8. \A v \in Threads : worker'[v].pc = "answering" => worker'[v] = worker[v]
  BY <1>2, <1>4
<1>9. ChunksSearched'
  BY <1>1, <1>2, <1>8, ChunksKept DEF MatchInv
<1> QED BY <1>7, <1>9 DEF MatchInv

\* A worker answers with what a full search of its chunk finds.
LEMMA FinishMatch == ASSUME IInv, MatchInv, NEW w \in Threads, Finish(w) PROVE MatchInv'
<1> PICK t, result, pc : /\ t = worker[w].epoch /\ pc = AfterSearch(t)
                         /\ result = Search(engines[w], Chunk(w), session[t])
  OBVIOUS
<1>1. /\ worker[w].pc = "searching"
      /\ engines' = [engines EXCEPT ![w] = result.engine]
      /\ worker' = [worker EXCEPT ![w] =
                      IF pc = "answering"
                      THEN [pc |-> pc, epoch |-> t, matches |-> result.matches]
                      ELSE [Receiving EXCEPT !.pc = pc]]
      /\ UNCHANGED <<session, epoch, tasks, submits, responses, runner, closed>>
  BY DEF Finish
<1>2. Threads' = Threads /\ \A v \in Threads \ {w} : worker'[v] = worker[v]
  BY <1>1 DEF Threads
<1>3. t \in 1 .. epoch
  BY <1>1 DEF IInv, WorkersShape
<1>4. /\ t < epoch => worker'[w].pc = "receiving" /\ worker'[w].epoch = 0
      /\ ~(t < epoch) => worker'[w] = [pc |-> "answering", epoch |-> t, matches |-> result.matches]
  <2>1. CASE t < epoch
    <3>1. pc = "receiving"
      BY <2>1 DEF AfterSearch
    <3>2. worker'[w] = [Receiving EXCEPT !.pc = pc]
      BY <1>1, <3>1 DEF Threads
    <3> QED BY <2>1, <3>1, <3>2 DEF Receiving
  <2>2. CASE ~(t < epoch)
    <3>1. pc = "answering"
      BY <2>2 DEF AfterSearch
    <3> QED BY <1>1, <2>2, <3>1 DEF Threads
  <2> QED BY <2>1, <2>2
<1>5. worker'[w].epoch = t \/ worker'[w].epoch = 0
  BY <1>4
<1>6. \A s \in 1 .. epoch : (Holders(s))' \subseteq Holders(s)
  <2>1. ToSet(tasks'[w]) \cup {worker'[w].epoch}
          \subseteq ToSet(tasks[w]) \cup {worker[w].epoch} \cup {0}
    BY <1>1, <1>5
  <2> QED BY <2>1, <1>1, <1>2, FewerHolders
<1>7. ASSUME NEW s \in 1 .. epoch, Latest(s) PROVE Holders(s) \subseteq (Holders(s))'
  <2>1. s = epoch /\ epoch \in Nat
    BY <1>7, Basics DEF Latest, IInv
  <2>2. t = s => ~(t < epoch)
    BY <2>1
  <2>3. t = s => worker'[w].epoch = t
    BY <1>4, <2>2
  <2> QED BY <1>1, <1>2, <2>3, HoldersLast
<1>8. AllCollected' /\ ResultsSound' /\ LatestIsComplete'
  BY <1>1, <1>2, <1>6, <1>7, SubmitsSteady
<1>9. PICK chunk, pattern, eng : chunk = Chunk(w) /\ pattern = session[t] /\ eng = engines[w]
  OBVIOUS
<1>10. /\ runner.pc # "none" /\ runner.workers # 0 /\ Candidates # <<>>
       /\ Threads = DOMAIN Chunks(runner.workers) /\ DOMAIN engines = Threads
       /\ CacheSound(eng, chunk)
  BY <1>9 DEF MatchInv, ChunksSearched
<1>11. Texts(chunk)
  <2>1. PICK n \in Nat : n = runner.workers /\ n # 0
    BY <1>10, PoolSize DEF IInv
  <2>2. IsList(Candidates) /\ Distinct(Candidates)
    <3>1. DOMAIN Candidates = 1 .. Len(Candidates)
      BY CandidatesListed, ListFacts
    <3> QED BY <3>1, CandidatesListed, IdsAssumption DEF Distinct
  <2>3. w \in DOMAIN Chunks(n) /\ chunk = Chunks(n)[w]
    BY <1>9, <1>10, <2>1 DEF Chunk
  <2>4. IsList(chunk)
    BY <1>10, <2>1, <2>2, <2>3, ChunksApart
  <2>5. \A c : c \in ToSet(Candidates) <=> \E k \in DOMAIN Chunks(n) : c \in ToSet(Chunks(n)[k])
    BY <1>10, <2>1, ChunksCover
  <2>6. ASSUME NEW c \in ToSet(chunk) PROVE IsList(c.text)
    BY <2>3, <2>5, TextsAssumption DEF IsList
  <2> QED BY <2>4, <2>6 DEF Texts
<1>12. IsList(pattern)
  <2>1. session \in Sessions /\ session \in Seq(ToSet(session)) /\ epoch \in 0 .. Len(session)
    BY SessionsAssumption DEF IInv, SubmitsShape
  <2>2. Len(session) \in Nat /\ DOMAIN session = 1 .. Len(session)
    BY <2>1, LenProperties
  <2>3. t \in DOMAIN session
    BY <1>3, <2>1, <2>2
  <2>4. session[t] \in ToSet(session)
    BY <2>3 DEF ToSet
  <2> QED BY <1>9, <2>1, <2>4, PatternsAssumption DEF IsList
<1>13. /\ result.matches = FullSearch(chunk, pattern)
       /\ CacheSound(result.engine, chunk)
  <2>1. result = Search(eng, chunk, pattern)
    BY <1>9
  <2> QED BY <1>10, <1>11, <1>12, <2>1, SearchExact
<1>14. \A v : Chunk(v)' = Chunk(v)
  BY <1>1 DEF Chunk
<1>15. engines'[w] = result.engine /\ \A v \in Threads \ {w} : engines'[v] = engines[v]
  BY <1>1, <1>10
<1>16. DOMAIN engines' = Threads
  BY <1>1, <1>10
<1>17. ASSUME NEW v \in Threads
       PROVE  /\ CacheSound(engines'[v], Chunk(v)')
              /\ worker'[v].pc = "answering" =>
                   worker'[v].matches = FullSearch(Chunk(v)', session'[worker'[v].epoch])
  <2>1. CASE v = w
    <3>1. CacheSound(engines'[v], Chunk(v)')
      BY <2>1, <1>9, <1>13, <1>14, <1>15
    <3>2. ASSUME worker'[v].pc = "answering"
          PROVE  worker'[v].matches = FullSearch(Chunk(v)', session'[worker'[v].epoch])
      <4>1. worker'[w] = [pc |-> "answering", epoch |-> t, matches |-> result.matches]
        BY <2>1, <3>2, <1>4
      <4>2. worker'[w].matches = result.matches /\ worker'[w].epoch = t
        BY <4>1
      <4>3. session'[t] = pattern /\ Chunk(w)' = chunk
        BY <1>1, <1>9, <1>14
      <4> QED BY <2>1, <4>2, <4>3, <1>13
    <3> QED BY <3>1, <3>2
  <2>2. CASE v # w
    <3>1. worker'[v] = worker[v] /\ engines'[v] = engines[v] /\ session' = session
      BY <2>2, <1>1, <1>2, <1>15
    <3>2. /\ CacheSound(engines[v], Chunk(v))
          /\ worker[v].pc = "answering" =>
               worker[v].matches = FullSearch(Chunk(v), session[worker[v].epoch])
      BY DEF MatchInv, ChunksSearched
    <3> QED BY <3>1, <3>2, <1>14
  <2> QED BY <2>1, <2>2
<1>18. ChunksSearched'
  BY <1>1, <1>2, <1>10, <1>16, <1>17 DEF ChunksSearched
<1> QED BY <1>8, <1>18 DEF MatchInv

\* A submit whose receiver is gone has failed, or its caller has left: no submit
\* is undisturbed any more.
LEMMA AnswerGoneMatch ==
    ASSUME IInv, MatchInv, NEW w \in Threads, Answer(w), Gone(worker[w].epoch)
    PROVE  MatchInv'
<1> PICK t : t = worker[w].epoch
  OBVIOUS
<1>1. /\ worker[w].pc = "answering"
      /\ worker' = [worker EXCEPT ![w] = [Receiving EXCEPT !.pc = "ended"]]
      /\ tasks' = [tasks EXCEPT ![w] = <<>>] \/ UNCHANGED tasks
      /\ UNCHANGED <<session, epoch, responses, engines, submits, runner, closed>>
  BY DEF Answer
<1>2. Threads' = Threads /\ \A v \in Threads \ {w} : worker'[v] = worker[v]
  BY <1>1 DEF Threads
<1>3. worker'[w].pc = "ended" /\ worker'[w].epoch = 0
  BY <1>1 DEF Threads, Receiving
<1>4. /\ tasks'[w] = <<>> \/ tasks'[w] = tasks[w]
      /\ \A v \in Threads \ {w} : tasks'[v] = tasks[v]
  <2>1. DOMAIN tasks = Threads
    BY DEF IInv, QueuesShape
  <2> QED BY <2>1, <1>1
<1>5. \A s \in 1 .. epoch : (Holders(s))' \subseteq Holders(s)
  <2>1. ToSet(<<>>) = {}
    BY EmptyList, ListFacts DEF ToSet
  <2>2. ToSet(tasks'[w]) \cup {worker'[w].epoch}
          \subseteq ToSet(tasks[w]) \cup {worker[w].epoch} \cup {0}
    BY <2>1, <1>3, <1>4
  <2> QED BY <2>2, <1>2, <1>4, FewerHolders
<1>6. AnyAbandoned \/ closed # {}
  <2>1. t \in 1 .. epoch /\ DOMAIN submits = 1 .. epoch
    BY <1>1, Basics DEF IInv, WorkersShape
  <2>2. CASE submits[t].pc = "abandoned"
    BY <2>1, <2>2 DEF AnyAbandoned
  <2>3. CASE submits[t].pc = "failed"
    <3>1. w \in Holders(t)
      BY DEF Holders
    <3> QED BY <2>1, <2>3, <3>1 DEF IInv, FailedIsClosed
  <2> QED BY <2>2, <2>3 DEF Gone
<1>7. \A s \in 1 .. epoch : ~Latest(s)
  BY <1>6 DEF Latest
<1>8. AllCollected' /\ ResultsSound' /\ LatestIsComplete'
  BY <1>1, <1>2, <1>5, <1>7, SubmitsSteady
<1>9. \A v \in Threads : worker'[v].pc = "answering" => worker'[v] = worker[v]
  BY <1>2, <1>3
<1>10. ChunksSearched'
  BY <1>1, <1>2, <1>9, ChunksKept DEF MatchInv
<1> QED BY <1>8, <1>10 DEF MatchInv

\* The response takes the place of its worker.
LEMMA OwnersGrow ==
    ASSUME NEW s, NEW w, \E owner : Collected(s, owner), IsList(responses[s]),
           responses'[s] = Append(responses[s], FullSearch(Chunk(w), session[s])),
           session' = session, runner' = runner, (Reached(s))' = Reached(s),
           (Latest(s))' => Latest(s),
           w \in 1 .. Reached(s), w \in Holders(s), (Holders(s))' = Holders(s) \ {w}
    PROVE  \E owner : (Collected(s, owner))'
<1>1. PICK owner : Collected(s, owner)
  OBVIOUS
<1>2. PICK r, h, n, list, new : /\ r = Reached(s) /\ h = Holders(s) /\ n = Len(responses[s])
                                /\ list = responses[s]
                                /\ new = FullSearch(Chunk(w), session[s])
  OBVIOUS
<1>3. \A v : Chunk(v)' = Chunk(v)
  BY DEF Chunk
<1>4. /\ owner \in [1 .. n -> 1 .. r]
      /\ \A i, j \in 1 .. n : owner[i] = owner[j] => i = j
      /\ \A i \in 1 .. n : owner[i] \notin h /\ list[i] = FullSearch(Chunk(owner[i]), session[s])
      /\ Latest(s) => \A v \in 1 .. r : v \in h \/ \E i \in 1 .. n : owner[i] = v
  BY <1>1, <1>2 DEF Collected
<1>5. n \in Nat /\ IsList(list) /\ n = Len(list)
  BY <1>2, ListFacts
<1>6. PICK longer : longer = Append(list, new)
  OBVIOUS
<1>7. Len(longer) = n + 1 /\ longer[n + 1] = new /\ \A i \in 1 .. n : longer[i] = list[i]
  BY <1>5, <1>6, ListAppend
<1>8. responses'[s] = longer
  BY <1>2, <1>6
<1>9. PICK more : more = [i \in 1 .. n + 1 |-> IF i <= n THEN owner[i] ELSE w]
  OBVIOUS
<1>10. \A i : i \in 1 .. n + 1 <=> i \in 1 .. n \/ i = n + 1
  BY <1>5
<1>11. /\ \A i \in 1 .. n : more[i] = owner[i]
       /\ more[n + 1] = w
  BY <1>5, <1>9, <1>10
<1>12. w \in h /\ w \in 1 .. r /\ (Holders(s))' = h \ {w} /\ (Reached(s))' = r
  BY <1>2
<1>13. more \in [1 .. n + 1 -> 1 .. r]
  <2>1. \A i \in 1 .. n + 1 : more[i] \in 1 .. r
    BY <1>4, <1>10, <1>11, <1>12
  <2> QED BY <1>9, <2>1
<1>14. \A i, j \in 1 .. n + 1 : more[i] = more[j] => i = j
  BY <1>4, <1>10, <1>11, <1>12
<1>15. \A i \in 1 .. n + 1 : more[i] \notin h \ {w}
  BY <1>4, <1>10, <1>11
<1>16. \A i \in 1 .. n + 1 : longer[i] = FullSearch(Chunk(more[i])', session'[s])
  <2> SUFFICES ASSUME NEW i \in 1 .. n + 1 PROVE longer[i] = FullSearch(Chunk(more[i]), session[s])
    BY <1>3
  <2>1. CASE i \in 1 .. n BY <2>1, <1>4, <1>7, <1>11
  <2>2. CASE i = n + 1 BY <2>2, <1>2, <1>7, <1>11
  <2> QED BY <1>10, <2>1, <2>2
<1>17. (Latest(s))' => \A v \in 1 .. r : v \in h \ {w} \/ \E i \in 1 .. n + 1 : more[i] = v
  <2> SUFFICES ASSUME Latest(s), NEW v \in 1 .. r, v \notin h \ {w}
               PROVE  \E i \in 1 .. n + 1 : more[i] = v
    OBVIOUS
  <2>1. CASE v = w BY <2>1, <1>10, <1>11
  <2>2. CASE v # w
    <3>1. PICK i \in 1 .. n : owner[i] = v
      BY <2>2, <1>4
    <3> QED BY <3>1, <1>10, <1>11
  <2> QED BY <2>1, <2>2
<1>18. (Collected(s, more))'
  BY <1>7, <1>8, <1>12, <1>13, <1>14, <1>15, <1>16, <1>17 DEF Collected
<1> QED BY <1>18

LEMMA AnswerDeliveredMatch ==
    ASSUME IInv, MatchInv, NEW w \in Threads, Answer(w), ~Gone(worker[w].epoch)
    PROVE  MatchInv'
<1> PICK t, m : t = worker[w].epoch /\ m = worker[w].matches
  OBVIOUS
<1>1. /\ worker[w].pc = "answering"
      /\ worker' = [worker EXCEPT ![w] = Receiving]
      /\ responses' = [responses EXCEPT ![t] = Append(@, m)]
      /\ UNCHANGED <<session, epoch, tasks, engines, submits, runner, closed>>
  BY DEF Answer, Answered
<1>2. Threads' = Threads /\ \A v \in Threads \ {w} : worker'[v] = worker[v]
  BY <1>1 DEF Threads
<1>3. worker'[w].pc = "receiving" /\ worker'[w].epoch = 0
  BY <1>1 DEF Threads, Receiving
<1>4. t \in 1 .. epoch /\ t \notin ToSet(tasks[w])
  BY <1>1 DEF IInv, WorkersShape
<1>5. m = FullSearch(Chunk(w), session[t])
  BY <1>1 DEF MatchInv, ChunksSearched
<1>6. /\ epoch \in Nat /\ DOMAIN responses = 1 .. epoch /\ DOMAIN submits = 1 .. epoch
      /\ IsList(responses[t])
  BY <1>4, Basics DEF IInv, SubmitsShape
<1>7. responses'[t] = Append(responses[t], m) /\ \A s \in 1 .. epoch \ {t} : responses'[s] = responses[s]
  BY <1>1, <1>4, <1>6
<1>8. \A s \in 1 .. epoch : (Reached(s))' = Reached(s)
  BY <1>1, <1>2 DEF Reached
<1>9. \A s \in 1 .. epoch : (Latest(s))' => Latest(s)
  BY <1>1 DEF Latest, AnyAbandoned
<1>10. (Holders(t))' = Holders(t) \ {w} /\ w \in Holders(t)
  <2>1. t # 0 /\ tasks' = tasks
    BY <1>1, <1>4
  <2>2. w \in Holders(t)
    BY DEF Holders
  <2>3. ASSUME NEW v \in (Holders(t))' PROVE v \in Holders(t) \ {w}
    BY <1>2, <1>3, <1>4, <2>1, <2>3 DEF Holders
  <2>4. ASSUME NEW v \in Holders(t) \ {w} PROVE v \in (Holders(t))'
    BY <1>2, <2>1, <2>4 DEF Holders
  <2> QED BY <2>2, <2>3, <2>4
<1>11. \A s \in 1 .. epoch \ {t} : (Holders(s))' = Holders(s)
  <2> SUFFICES ASSUME NEW s \in 1 .. epoch \ {t} PROVE (Holders(s))' = Holders(s)
    OBVIOUS
  <2>1. s # 0 /\ tasks' = tasks
    BY <1>1
  <2>2. \A v \in Threads : worker'[v].epoch = s <=> worker[v].epoch = s
    BY <1>2, <1>3, <2>1
  <2> QED BY <1>2, <2>1, <2>2 DEF Holders
<1>12. ASSUME NEW s \in 1 .. epoch PROVE \E owner : (Collected(s, owner))'
  <2>0. \E owner : Collected(s, owner)
    BY DEF MatchInv, AllCollected
  <2>1. CASE s = t
    <3>1. Holders(s) \subseteq 1 .. Reached(s)
      BY DEF IInv, RoomForAll
    <3>2. responses'[s] = Append(responses[s], FullSearch(Chunk(w), session[s]))
      BY <2>1, <1>5, <1>7
    <3>3. /\ session' = session /\ runner' = runner /\ (Reached(s))' = Reached(s)
          /\ (Latest(s))' => Latest(s)
          /\ w \in 1 .. Reached(s) /\ w \in Holders(s) /\ (Holders(s))' = Holders(s) \ {w}
          /\ IsList(responses[s])
      BY <2>1, <3>1, <1>1, <1>6, <1>8, <1>9, <1>10
    <3> QED BY <2>0, <3>2, <3>3, OwnersGrow
  <2>2. CASE s # t
    <3>1. /\ (Holders(s))' = Holders(s) /\ (Reached(s))' = Reached(s)
          /\ responses'[s] = responses[s] /\ session' = session
          /\ runner'.workers = runner.workers
      BY <2>2, <1>1, <1>7, <1>8, <1>11
    <3>2. (Latest(s))' =>
             /\ Latest(s)
             /\ \A v \in 1 .. (Reached(s))' :
                  v \in (Holders(s))' \/ (v \in 1 .. Reached(s) /\ v \notin Holders(s))
      BY <3>1, <1>9
    <3> QED BY <2>0, <3>1, <3>2, OwnersKept
  <2> QED BY <2>1, <2>2
<1>13. AllCollected'
  BY <1>1, <1>12, Zenon DEF AllCollected
<1>14. ResultsSound' /\ LatestIsComplete'
  BY <1>1, ResultsKept DEF MatchInv
<1>15. \A v \in Threads : worker'[v].pc = "answering" => worker'[v] = worker[v]
  BY <1>2, <1>3
<1>16. ChunksSearched'
  BY <1>1, <1>2, <1>15, ChunksKept DEF MatchInv
<1> QED BY <1>13, <1>14, <1>16 DEF MatchInv


\* Only the runner's program counter changes.
LEMMA DropOrJoinMatch == ASSUME IInv, MatchInv, DropRunner \/ Join PROVE MatchInv'
<1>1. /\ UNCHANGED <<session, epoch, tasks, worker, engines, submits, responses, closed>>
      /\ runner.pc # "none"
      /\ runner' = [runner EXCEPT !.pc = "closing"] \/ runner' = [runner EXCEPT !.pc = "dropped"]
  BY DEF DropRunner, Join
<1>2. Threads' = Threads
  BY <1>1 DEF Threads
<1>3. runner'.workers = runner.workers /\ runner'.pc # "none"
  <2>1. DOMAIN runner = {"workers", "pc"}
    BY DEF IInv, ThreadsCounted, Runners
  <2> QED BY <2>1, <1>1
<1>4. \A s \in 1 .. epoch : (Holders(s))' = Holders(s)
  BY <1>1, <1>2 DEF Holders
<1>5. AllCollected' /\ ResultsSound' /\ LatestIsComplete'
  BY <1>1, <1>2, <1>3, <1>4, SubmitsSteady
<1>6. ChunksSearched'
  BY <1>1, <1>2, <1>3, ChunksKept DEF MatchInv
<1> QED BY <1>5, <1>6 DEF MatchInv

LEMMA CloseChannelMatch == ASSUME IInv, MatchInv, NEW w \in Threads, CloseChannel(w) PROVE MatchInv'
<1>1. /\ runner.pc = "closing" /\ closed' = closed \cup {w}
      /\ runner' = [runner EXCEPT !.pc = "joining"] \/ runner' = runner
      /\ tasks' = [tasks EXCEPT ![w] = <<>>]
      /\ UNCHANGED <<session, epoch, worker, engines, submits, responses>>
  BY DEF CloseChannel
<1>2. Threads' = Threads
  BY <1>1 DEF Threads
<1>3. runner'.workers = runner.workers /\ runner'.pc # "none" /\ runner.pc # "none"
  <2>1. DOMAIN runner = {"workers", "pc"}
    BY DEF IInv, ThreadsCounted, Runners
  <2> QED BY <2>1, <1>1
<1>4. \A v \in Threads : ToSet(tasks'[v]) \subseteq ToSet(tasks[v])
  <2>1. DOMAIN tasks = Threads
    BY DEF IInv, QueuesShape
  <2>2. ToSet(<<>>) = {}
    BY EmptyList, ListFacts DEF ToSet
  <2> QED BY <2>1, <2>2, <1>1
<1>5. \A s \in 1 .. epoch : (Holders(s))' \subseteq Holders(s)
  BY <1>1, <1>2, <1>4 DEF Holders
<1>6. closed \subseteq closed' /\ closed' # {}
  BY <1>1
<1>7. AllCollected' /\ ResultsSound' /\ LatestIsComplete'
  BY <1>1, <1>2, <1>3, <1>5, <1>6, SubmitsSteady
<1>8. ChunksSearched'
  BY <1>1, <1>2, <1>3, ChunksKept DEF MatchInv
<1> QED BY <1>7, <1>8 DEF MatchInv

\* A new submit has reached nobody; the one before it is not the latest any more.
LEMMA SubmitMatch == ASSUME IInv, MatchInv, Submit PROVE MatchInv'
<1> PICK new : new = [pc |-> "sending", next |-> 1, matches |-> <<>>, undisturbed |-> FALSE,
          late |-> closed # {}]
  OBVIOUS
<1>1. /\ runner.pc # "none" /\ epoch' = epoch + 1
      /\ submits' = Append(submits, new) /\ responses' = Append(responses, <<>>)
      /\ UNCHANGED <<session, tasks, worker, engines, runner, closed>>
  BY DEF Submit
<1>2. Threads' = Threads /\ epoch \in Nat /\ DOMAIN submits = 1 .. epoch
  BY <1>1, Basics DEF Threads, IInv
<1>3. /\ IsList(submits') /\ Len(submits') = epoch + 1 /\ submits'[epoch + 1] = new
      /\ \A s \in 1 .. epoch : submits'[s] = submits[s]
  <2>1. IsList(submits) /\ Len(submits) = epoch
    BY DEF IInv, SubmitsShape
  <2> QED BY <2>1, <1>1, ListAppend
<1>4. /\ responses'[epoch + 1] = <<>> /\ \A s \in 1 .. epoch : responses'[s] = responses[s]
  <2>1. IsList(responses) /\ Len(responses) = epoch
    BY DEF IInv, SubmitsShape
  <2> QED BY <2>1, <1>1, ListAppend
<1>5. \A s : s \in 1 .. epoch + 1 <=> s \in 1 .. epoch \/ s = epoch + 1
  BY <1>2
<1>6. DOMAIN submits' = 1 .. epoch + 1
  BY <1>3, ListFacts
<1>7. ASSUME NEW s \in 1 .. epoch + 1 PROVE \E owner : (Collected(s, owner))'
  <2>1. CASE s = epoch + 1
    <3>1. submits'[s].pc = "sending" /\ submits'[s].next = 1
      BY <2>1, <1>3
    <3>2. (Reached(s))' = 0
      BY <3>1 DEF Reached
    <3> QED BY <2>1, <3>2, <1>4, OwnersEmptied
  <2>2. CASE s \in 1 .. epoch
    <3>1. ~(Latest(s))'
      <4>1. epoch + 1 # s
        BY <2>2, <1>2
      <4> QED BY <4>1, <1>1 DEF Latest
    <3>2. (Holders(s))' = Holders(s)
      BY <1>1, <1>2 DEF Holders
    <3>3. (Reached(s))' = Reached(s)
      BY <2>2, <1>2, <1>3 DEF Reached
    <3>4. \E owner : Collected(s, owner)
      BY <2>2 DEF MatchInv, AllCollected
    <3> QED BY <2>2, <3>1, <3>2, <3>3, <3>4, <1>1, <1>4, OwnersKept
  <2> QED BY <1>5, <2>1, <2>2
<1>8. AllCollected'
  BY <1>1, <1>7, Zenon DEF AllCollected
<1>9. new.matches = <<>> /\ new.undisturbed = FALSE
  OBVIOUS
<1>10. ResultsSound'
  <2> SUFFICES ASSUME NEW s \in 1 .. epoch + 1
               PROVE  LET found == submits'[s].matches
                      IN  /\ ToSet(found) \subseteq ToSet(FullSearch(Candidates, session[s]))
                          /\ Cardinality({found[k].id : k \in DOMAIN found}) = Len(found)
    BY <1>1, <1>6 DEF ResultsSound
  <2>1. CASE s = epoch + 1
    <3>1. submits'[s].matches = <<>>
      BY <2>1, <1>3, <1>9
    <3>2. ToSet(<<>>) = {} /\ DOMAIN <<>> = {} /\ Len(<<>>) = 0
      BY EmptyList, ListFacts DEF ToSet
    <3>3. Cardinality({}) = 0
      BY FS_EmptySet
    <3> QED BY <3>1, <3>2, <3>3
  <2>2. CASE s \in 1 .. epoch
    <3>1. submits'[s] = submits[s] /\ s \in DOMAIN submits
      BY <2>2, <1>2, <1>3
    <3> QED BY <3>1 DEF MatchInv, ResultsSound
  <2> QED BY <1>5, <2>1, <2>2
<1>11. LatestIsComplete'
  <2> SUFFICES ASSUME NEW s \in 1 .. epoch + 1, submits'[s].undisturbed
               PROVE  ToSet(submits'[s].matches) = ToSet(FullSearch(Candidates, session[s]))
    BY <1>1, <1>6 DEF LatestIsComplete
  <2>1. s # epoch + 1
    BY <1>3, <1>9
  <2>2. submits'[s] = submits[s] /\ s \in DOMAIN submits
    BY <2>1, <1>2, <1>3, <1>5
  <2> QED BY <2>2 DEF MatchInv, LatestIsComplete
<1>12. ChunksSearched'
  BY <1>1, <1>2, ChunksKept DEF MatchInv
<1> QED BY <1>8, <1>10, <1>11, <1>12 DEF MatchInv

\* The next worker holds the submit too, and the submit has reached one more.
LEMMA SendReaches ==
    ASSUME IInv, NEW s \in 1 .. epoch, Send(s),
           ~(submits[s].next \in closed \/ worker[submits[s].next].pc = "ended")
    PROVE  /\ (Holders(s))' = Holders(s) \cup {submits[s].next}
           /\ \A t \in 1 .. epoch \ {s} : (Holders(t))' = Holders(t)
           /\ submits[s].next \in Nat \ {0} /\ Reached(s) = submits[s].next - 1
           /\ (Reached(s))' = submits[s].next
           /\ \A t \in 1 .. epoch \ {s} : (Reached(t))' = Reached(t)
           /\ DOMAIN submits' = DOMAIN submits
           /\ \A t \in 1 .. epoch \ {s} : submits'[t] = submits[t]
           /\ submits[s].pc = "sending" /\ submits'[s].pc \in {"sending", "collecting"}
           /\ submits'[s].matches = submits[s].matches
           /\ submits'[s].undisturbed = submits[s].undisturbed
<1> PICK w, k : w = submits[s].next /\ k = Cardinality(Threads)
  OBVIOUS
<1>1. /\ submits[s].pc = "sending" /\ Len(tasks[w]) < TaskCapacity
      /\ tasks' = [tasks EXCEPT ![w] = Append(@, s)]
      /\ submits' = IF w + 1 \in Threads
                    THEN [submits EXCEPT ![s].next = w + 1]
                    ELSE [submits EXCEPT ![s].next = 0, ![s].pc = "collecting"]
      /\ UNCHANGED <<session, epoch, worker, runner, closed, responses>>
  BY DEF Send, Broken, HasRoom
<1>2. Threads' = Threads
  BY <1>1 DEF Threads
<1>3. /\ DOMAIN submits = 1 .. epoch /\ w \in Threads
      /\ DOMAIN submits[s] = {"pc", "next", "matches", "undisturbed", "late"}
  BY <1>1, Basics DEF IInv, SubmitsShape
<1>4. k \in Nat /\ Threads = 1 .. k
  BY PoolSize DEF IInv
<1>5. w \in 1 .. k
  BY <1>3, <1>4
<1>6. tasks[w] \in Seq(1 .. epoch) /\ DOMAIN tasks = Threads
  BY <1>3 DEF IInv, QueuesShape
<1>7. tasks'[w] = Append(tasks[w], s) /\ \A v \in Threads \ {w} : tasks'[v] = tasks[v]
  BY <1>1, <1>3, <1>6
<1>8. \A t : t \in ToSet(tasks'[w]) <=> t \in ToSet(tasks[w]) \/ t = s
  <2>1. IsList(tasks[w])
    BY <1>6, SeqIsList
  <2> QED BY <2>1, <1>7, AppendSet
<1>9. \A t : \A v \in Threads :
        t \in ToSet(tasks'[v]) <=> t \in ToSet(tasks[v]) \/ (v = w /\ t = s)
  BY <1>7, <1>8
<1>10. /\ (Holders(s))' = Holders(s) \cup {w}
       /\ \A t \in 1 .. epoch \ {s} : (Holders(t))' = Holders(t)
  BY <1>1, <1>2, <1>3, <1>9 DEF Holders
<1>11. /\ DOMAIN submits' = DOMAIN submits
       /\ \A t \in 1 .. epoch \ {s} : submits'[t] = submits[t]
       /\ submits'[s].matches = submits[s].matches
       /\ submits'[s].undisturbed = submits[s].undisturbed
       /\ \/ w + 1 \in Threads /\ submits'[s].pc = "sending" /\ submits'[s].next = w + 1
          \/ w + 1 \notin Threads /\ submits'[s].pc = "collecting"
  <2>1. CASE w + 1 \in Threads BY <2>1, <1>1, <1>3
  <2>2. CASE w + 1 \notin Threads BY <2>2, <1>1, <1>3
  <2> QED BY <2>1, <2>2
<1>12. \A t \in 1 .. epoch \ {s} : (Reached(t))' = Reached(t)
  BY <1>2, <1>11 DEF Reached
<1>13. Reached(s) = w - 1
  BY <1>1 DEF Reached
<1>14. (Reached(s))' = w
  <2>1. /\ submits'[s].pc = "sending" => (Reached(s))' = submits'[s].next - 1
        /\ submits'[s].pc = "collecting" => (Reached(s))' = k
    BY <1>2 DEF Reached
  <2>2. ASSUME w + 1 \notin Threads PROVE w = k
    <3>1. w + 1 \notin 1 .. k /\ k \in Nat
      BY <1>4, <2>2
    <3> QED BY ONLY <3>1, <1>5
  <2>3. (w + 1) - 1 = w
    BY <1>4, <1>5
  <2> QED BY <1>11, <2>1, <2>2, <2>3
<1>15. w \in Nat \ {0} /\ submits'[s].pc \in {"sending", "collecting"}
  <2>1. w \in Nat \ {0}
    BY ONLY <1>4, <1>5
  <2> QED BY <2>1, <1>11
<1> QED BY <1>1, <1>10, <1>11, <1>12, <1>13, <1>14, <1>15, Zenon

LEMMA SendOkMatch ==
    ASSUME IInv, MatchInv, NEW s \in DOMAIN submits, Send(s),
           ~(submits[s].next \in closed \/ worker[submits[s].next].pc = "ended")
    PROVE  MatchInv'
<1> PICK w : w = submits[s].next
  OBVIOUS
<1>1. UNCHANGED <<session, epoch, worker, engines, runner, closed, responses>>
  BY DEF Send, Broken
<1>2. Threads' = Threads /\ DOMAIN submits = 1 .. epoch /\ s \in 1 .. epoch
  BY <1>1, Basics DEF Threads, IInv
<1>3. /\ (Holders(s))' = Holders(s) \cup {w}
      /\ \A t \in 1 .. epoch \ {s} : (Holders(t))' = Holders(t)
      /\ w \in Nat \ {0} /\ Reached(s) = w - 1 /\ (Reached(s))' = w
      /\ \A t \in 1 .. epoch \ {s} : (Reached(t))' = Reached(t)
      /\ DOMAIN submits' = DOMAIN submits
      /\ \A t \in 1 .. epoch \ {s} : submits'[t] = submits[t]
      /\ submits[s].pc = "sending" /\ submits'[s].pc \in {"sending", "collecting"}
      /\ submits'[s].matches = submits[s].matches
      /\ submits'[s].undisturbed = submits[s].undisturbed
  BY <1>2, SendReaches
<1>4. AnyAbandoned => AnyAbandoned'
  BY <1>2, <1>3 DEF AnyAbandoned
<1>5. \A t \in 1 .. epoch : (Latest(t))' => Latest(t)
  BY <1>1, <1>3, <1>4 DEF Latest
<1>6. ASSUME NEW t \in 1 .. epoch PROVE \E owner : (Collected(t, owner))'
  <2>0. \E owner : Collected(t, owner)
    BY DEF MatchInv, AllCollected
  <2>1. CASE t = s
    <3>1. 1 .. Reached(t) = 1 .. w - 1 /\ 1 .. (Reached(t))' = 1 .. w
      BY <2>1, <1>3
    <3>2. 1 .. w - 1 \subseteq 1 .. w /\ \A v \in 1 .. w : v = w \/ v \in 1 .. w - 1
      BY <1>3
    <3>3. w \notin 1 .. w - 1
      BY <1>3
    <3>4. (Holders(t))' = Holders(t) \cup {w}
      BY <2>1, <1>3
    <3>5. \A v \in 1 .. Reached(t) : v \in (Holders(t))' => v \in Holders(t)
      BY <3>1, <3>3, <3>4
    <3>6. \A v \in 1 .. (Reached(t))' :
            v \in (Holders(t))' \/ (v \in 1 .. Reached(t) /\ v \notin Holders(t))
      BY <3>1, <3>2, <3>4
    <3>7. /\ 1 .. Reached(t) \subseteq 1 .. (Reached(t))'
          /\ responses'[t] = responses[t] /\ session' = session /\ runner'.workers = runner.workers
      BY <3>1, <3>2, <1>1
    <3> QED BY <2>0, <3>5, <3>6, <3>7, <1>5, OwnersKept
  <2>2. CASE t # s
    <3>1. /\ (Holders(t))' = Holders(t) /\ (Reached(t))' = Reached(t)
          /\ responses'[t] = responses[t] /\ session' = session
          /\ runner'.workers = runner.workers
      BY <2>2, <1>1, <1>3
    <3>2. (Latest(t))' =>
             /\ Latest(t)
             /\ \A v \in 1 .. (Reached(t))' :
                  v \in (Holders(t))' \/ (v \in 1 .. Reached(t) /\ v \notin Holders(t))
      BY <3>1, <1>5
    <3> QED BY <2>0, <3>1, <3>2, OwnersKept
  <2> QED BY <2>1, <2>2
<1>7. AllCollected'
  BY <1>1, <1>6, Zenon DEF AllCollected
<1>8. \A t \in DOMAIN submits : /\ submits'[t].matches = submits[t].matches
                                /\ submits'[t].undisturbed = submits[t].undisturbed
  BY <1>2, <1>3
<1>9. ResultsSound' /\ LatestIsComplete'
  BY <1>1, <1>3, <1>8, ResultsKept DEF MatchInv
<1>10. ChunksSearched'
  BY <1>1, <1>2, ChunksKept DEF MatchInv
<1> QED BY <1>7, <1>9, <1>10 DEF MatchInv


\* A submit is over, and what it received with it.
LEMMA OverCollected ==
    ASSUME IInv, AllCollected, NEW s \in 1 .. epoch, DOMAIN submits' = DOMAIN submits,
           \A i \in 1 .. epoch \ {s} : submits'[i] = submits[i],
           submits[s].pc # "abandoned",
           submits'[s].pc \in {"returned", "failed", "abandoned"},
           responses' = [responses EXCEPT ![s] = <<>>],
           UNCHANGED <<session, epoch, tasks, worker, runner, closed>>
    PROVE  AllCollected'
<1>1. Threads' = Threads /\ DOMAIN submits = 1 .. epoch /\ DOMAIN responses = 1 .. epoch
  BY Basics DEF Threads, IInv
<1>2. AnyAbandoned => AnyAbandoned'
  BY <1>1 DEF AnyAbandoned
<1>3. ASSUME NEW t \in 1 .. epoch PROVE \E owner : (Collected(t, owner))'
  <2>1. CASE t = s
    <3>1. responses'[t] = <<>> /\ ~(Latest(t))'
      BY <2>1, <1>1 DEF Latest
    <3> QED BY <3>1, OwnersEmptied
  <2>2. CASE t # s
    <3>1. submits'[t] = submits[t] /\ responses'[t] = responses[t]
      BY <2>2, <1>1
    <3>2. (Holders(t))' = Holders(t) /\ (Reached(t))' = Reached(t)
      BY <3>1, <1>1 DEF Holders, Reached
    <3>3. (Latest(t))' => Latest(t)
      BY <3>1, <1>2 DEF Latest
    <3>4. (Latest(t))' =>
             /\ Latest(t)
             /\ \A v \in 1 .. (Reached(t))' :
                  v \in (Holders(t))' \/ (v \in 1 .. Reached(t) /\ v \notin Holders(t))
      BY <3>2, <3>3
    <3>5. \E owner : Collected(t, owner)
      BY DEF AllCollected
    <3> QED BY <3>1, <3>2, <3>4, <3>5, OwnersKept
  <2> QED BY <2>1, <2>2
<1> QED BY <1>3, Zenon DEF AllCollected

LEMMA SendFailedMatch ==
    ASSUME IInv, MatchInv, NEW s \in DOMAIN submits, Send(s),
           submits[s].next \in closed \/ worker[submits[s].next].pc = "ended"
    PROVE  MatchInv'
<1>1. s \in 1 .. epoch /\ DOMAIN submits = 1 .. epoch
      /\ DOMAIN submits[s] = {"pc", "next", "matches", "undisturbed", "late"}
  BY Basics DEF IInv, SubmitsShape
<1>2. /\ submits[s].pc = "sending"
      /\ submits' = [submits EXCEPT ![s].pc = "failed", ![s].next = 0]
      /\ responses' = [responses EXCEPT ![s] = <<>>]
      /\ UNCHANGED <<session, epoch, tasks, worker, engines, runner, closed>>
  BY DEF Send, Broken
<1>3. /\ DOMAIN submits' = DOMAIN submits
      /\ \A i \in 1 .. epoch \ {s} : submits'[i] = submits[i]
      /\ submits'[s].pc = "failed" /\ submits'[s].matches = submits[s].matches
      /\ submits'[s].undisturbed = submits[s].undisturbed
  BY <1>1, <1>2
<1>4. AllCollected'
  BY <1>1, <1>2, <1>3, OverCollected DEF MatchInv
<1>5. ResultsSound' /\ LatestIsComplete'
  BY <1>1, <1>2, <1>3, ResultsKept DEF MatchInv
<1>6. Threads' = Threads
  BY <1>2 DEF Threads
<1>7. ChunksSearched'
  BY <1>2, <1>6, ChunksKept DEF MatchInv
<1> QED BY <1>4, <1>5, <1>7 DEF MatchInv

LEMMA AbandonMatch == ASSUME IInv, MatchInv, NEW s \in DOMAIN submits, Abandon(s) PROVE MatchInv'
<1>1. s \in 1 .. epoch /\ DOMAIN submits = 1 .. epoch
      /\ DOMAIN submits[s] = {"pc", "next", "matches", "undisturbed", "late"}
  BY Basics DEF IInv, SubmitsShape
<1>2. /\ submits[s].pc \in {"sending", "collecting"}
      /\ submits' = [submits EXCEPT ![s].pc = "abandoned", ![s].next = 0]
      /\ responses' = [responses EXCEPT ![s] = <<>>]
      /\ UNCHANGED <<session, epoch, tasks, worker, engines, runner, closed>>
  BY DEF Abandon
<1>3. /\ DOMAIN submits' = DOMAIN submits
      /\ \A i \in 1 .. epoch \ {s} : submits'[i] = submits[i]
      /\ submits'[s].pc = "abandoned" /\ submits'[s].matches = submits[s].matches
      /\ submits'[s].undisturbed = submits[s].undisturbed
  BY <1>1, <1>2
<1>4. AllCollected'
  BY <1>1, <1>2, <1>3, OverCollected DEF MatchInv
<1>5. ResultsSound' /\ LatestIsComplete'
  BY <1>1, <1>2, <1>3, ResultsKept DEF MatchInv
<1>6. Threads' = Threads
  BY <1>2 DEF Threads
<1>7. ChunksSearched'
  BY <1>2, <1>6, ChunksKept DEF MatchInv
<1> QED BY <1>4, <1>5, <1>7 DEF MatchInv

\* When no worker may answer any more, the latest submit has the responses of all.
LEMMA ReturnMatch == ASSUME IInv, MatchInv, NEW s \in DOMAIN submits, Return(s) PROVE MatchInv'
<1> PICK lists, found, p : lists = responses[s] /\ found = FlattenSeq(lists) /\ p = session[s]
  OBVIOUS
<1>1. /\ s \in 1 .. epoch /\ DOMAIN submits = 1 .. epoch
      /\ DOMAIN submits[s] = {"pc", "next", "matches", "undisturbed", "late"}
      /\ IsList(lists) /\ epoch \in Nat
  BY Basics DEF IInv, SubmitsShape
<1>2. /\ submits[s].pc = "collecting" /\ ~HasSender(s)
      /\ submits' = [submits EXCEPT ![s].pc = "returned", ![s].matches = found,
                                    ![s].undisturbed = epoch = s /\ closed = {} /\ ~AnyAbandoned]
      /\ responses' = [responses EXCEPT ![s] = <<>>]
      /\ UNCHANGED <<session, epoch, tasks, worker, engines, runner, closed>>
  BY DEF Return
<1>3. /\ DOMAIN submits' = DOMAIN submits
      /\ \A i \in 1 .. epoch \ {s} : submits'[i] = submits[i]
      /\ submits'[s].pc = "returned" /\ submits'[s].matches = found
      /\ submits'[s].undisturbed = (epoch = s /\ closed = {} /\ ~AnyAbandoned)
  BY <1>1, <1>2
<1>4. AllCollected'
  BY <1>1, <1>2, <1>3, OverCollected DEF MatchInv
<1>5. Threads' = Threads
  BY <1>2 DEF Threads
<1>6. ChunksSearched'
  BY <1>2, <1>5, ChunksKept DEF MatchInv
<1>7. runner.pc # "none" /\ runner.workers # 0 /\ Candidates # <<>>
      /\ Threads = DOMAIN Chunks(runner.workers)
  BY <1>1 DEF MatchInv, ChunksSearched
<1>8. PICK n \in Nat : n = runner.workers /\ n # 0
  BY <1>7, PoolSize DEF IInv
<1>9. Reached(s) = Cardinality(Threads) /\ Holders(s) = {}
  BY <1>2 DEF Reached, HasSender, Holders
<1>10. 1 .. Reached(s) = DOMAIN Chunks(n)
  BY <1>7, <1>8, <1>9, PoolSize DEF IInv
<1>11. PICK owner : Collected(s, owner)
  BY <1>1 DEF MatchInv, AllCollected
<1>12. /\ owner \in [1 .. Len(lists) -> DOMAIN Chunks(n)]
       /\ \A i, j \in 1 .. Len(lists) : owner[i] = owner[j] => i = j
       /\ \A i \in 1 .. Len(lists) : lists[i] = FullSearch(Chunks(n)[owner[i]], p)
  BY <1>8, <1>10, <1>11 DEF Collected, Chunk
<1>13. /\ SoundResult(found, p)
       /\ (\A k \in DOMAIN Chunks(n) : \E i \in 1 .. Len(lists) : owner[i] = k) =>
                ToSet(found) = ToSet(FullSearch(Candidates, p))
  <2>1. /\ SoundResult(FlattenSeq(lists), p)
        /\ (\A k \in DOMAIN Chunks(n) : \E i \in 1 .. Len(lists) : owner[i] = k) =>
             ToSet(FlattenSeq(lists)) = ToSet(FullSearch(Candidates, p))
    <3>1. n \in Nat /\ n # 0 /\ Candidates # <<>> /\ IsList(lists)
      BY <1>1, <1>7, <1>8
    <3> QED BY ONLY <3>1, <1>12, CollectedFound, SMTT(30)
  <2> QED BY <2>1
<1>14. ASSUME epoch = s, closed = {}, ~AnyAbandoned
       PROVE  ToSet(found) = ToSet(FullSearch(Candidates, p))
  <2>1. Latest(s)
    BY <1>2, <1>14 DEF Latest
  <2>2. \A k \in DOMAIN Chunks(n) : \E i \in 1 .. Len(lists) : owner[i] = k
    BY <2>1, <1>9, <1>10, <1>11 DEF Collected
  <2> QED BY <2>2, <1>13
<1>15. ResultsSound'
  <2> SUFFICES ASSUME NEW t \in 1 .. epoch
               PROVE  LET matches == submits'[t].matches
                      IN  /\ ToSet(matches) \subseteq ToSet(FullSearch(Candidates, session[t]))
                          /\ Cardinality({matches[k].id : k \in DOMAIN matches}) = Len(matches)
    BY <1>1, <1>2, <1>3 DEF ResultsSound
  <2>1. CASE t = s
    BY <2>1, <1>3, <1>13 DEF SoundResult
  <2>2. CASE t # s
    <3>1. submits'[t] = submits[t] /\ t \in DOMAIN submits
      BY <2>2, <1>1, <1>3
    <3> QED BY <3>1 DEF MatchInv, ResultsSound
  <2> QED BY <2>1, <2>2
<1>16. LatestIsComplete'
  <2> SUFFICES ASSUME NEW t \in 1 .. epoch, submits'[t].undisturbed
               PROVE  ToSet(submits'[t].matches) = ToSet(FullSearch(Candidates, session[t]))
    BY <1>1, <1>2, <1>3 DEF LatestIsComplete
  <2>1. CASE t = s
    <3>1. epoch = s /\ closed = {} /\ ~AnyAbandoned
      BY <2>1, <1>3
    <3> QED BY <2>1, <3>1, <1>3, <1>14
  <2>2. CASE t # s
    <3>1. submits'[t] = submits[t] /\ t \in DOMAIN submits
      BY <2>2, <1>1, <1>3
    <3> QED BY <3>1 DEF MatchInv, LatestIsComplete
  <2> QED BY <2>1, <2>2
<1> QED BY <1>4, <1>6, <1>15, <1>16 DEF MatchInv


LEMMA InitMatch == Init => MatchInv
<1> SUFFICES ASSUME Init PROVE MatchInv
  OBVIOUS
<1>1. /\ epoch = 0 /\ submits = <<>>
      /\ \E wanted \in Requests :
           \/ /\ runner = [workers |-> 0, pc |-> "none"]
              /\ worker = <<>> /\ engines = <<>>
           \/ /\ Candidates # <<>> /\ wanted # 0
              /\ \E n : /\ n = Min({wanted, Len(Candidates)})
                        /\ runner = [workers |-> n, pc |-> "alive"]
                        /\ worker = [w \in DOMAIN Chunks(n) |-> Receiving]
                        /\ engines = [w \in DOMAIN Chunks(n) |-> NewEngine]
  BY DEF Init, PoolInit
<1>2. DOMAIN <<>> = {}
  BY EmptyList, ListFacts
<1>3. AllCollected /\ ResultsSound /\ LatestIsComplete
  BY <1>1, <1>2 DEF AllCollected, ResultsSound, LatestIsComplete
<1>4. CASE runner = [workers |-> 0, pc |-> "none"] /\ worker = <<>> /\ engines = <<>>
  BY <1>1, <1>2, <1>3, <1>4 DEF MatchInv, ChunksSearched, Threads
<1>5. ASSUME NEW wanted \in Requests, Candidates # <<>>, wanted # 0,
             NEW n, n = Min({wanted, Len(Candidates)}),
             runner = [workers |-> n, pc |-> "alive"],
             worker = [w \in DOMAIN Chunks(n) |-> Receiving],
             engines = [w \in DOMAIN Chunks(n) |-> NewEngine]
      PROVE  MatchInv
  <2>1. n \in Nat /\ n # 0
    <3>1. wanted \in Nat \ {0}
      BY <1>5, RequestsAssumption
    <3>2. Len(Candidates) \in Nat \ {0}
      BY <1>5, CandidatesAssumption, LenProperties, EmptySeq
    <3> QED BY <3>1, <3>2, <1>5 DEF Min
  <2>2. runner.pc = "alive" /\ runner.workers = n
    BY <1>5
  <2>3. Threads = DOMAIN Chunks(n) /\ DOMAIN engines = DOMAIN Chunks(n)
    BY <1>5 DEF Threads
  <2>4. ASSUME NEW w \in DOMAIN Chunks(n)
        PROVE  /\ CacheSound(engines[w], Chunk(w))
               /\ worker[w].pc # "answering"
    <3>1. engines[w] = NewEngine /\ worker[w] = Receiving
      BY <1>5
    <3>2. IsList(Candidates) /\ Distinct(Candidates)
      <4>1. DOMAIN Candidates = 1 .. Len(Candidates)
        BY CandidatesListed, ListFacts
      <4> QED BY <4>1, CandidatesListed, IdsAssumption DEF Distinct
    <3>3. IsList(Chunks(n)[w])
      BY <1>5, <2>1, <3>2, ChunksApart
    <3>4. CacheSound(NewEngine, Chunks(n)[w])
      BY <3>3, NewEngineSound
    <3> QED BY <2>2, <3>1, <3>4 DEF Chunk, Receiving
  <2>5. ChunksSearched
    BY <1>5, <2>1, <2>2, <2>3, <2>4 DEF ChunksSearched
  <2> QED BY <2>5, <1>3 DEF MatchInv
<1> QED BY <1>1, <1>4, <1>5

LEMMA StepMatch == ASSUME IInv, MatchInv, [Next]_vars PROVE MatchInv'
<1>1. ASSUME NEW w \in Threads, WorkerStep(w) PROVE MatchInv'
  <2>1. CASE Take(w) BY <2>1, TakeMatch
  <2>2. CASE Finish(w) BY <2>2, FinishMatch
  <2>3. CASE Answer(w) BY <2>3, AnswerGoneMatch, AnswerDeliveredMatch
  <2>4. CASE End(w) BY <2>4, EndMatch
  <2> QED BY <1>1, <2>1, <2>2, <2>3, <2>4 DEF WorkerStep
<1>2. CASE Submit BY <1>2, SubmitMatch
<1>3. ASSUME NEW s \in DOMAIN submits, SubmitStep(s) \/ Abandon(s) PROVE MatchInv'
  <2>1. CASE Send(s) BY <2>1, SendOkMatch, SendFailedMatch
  <2>2. CASE Return(s) BY <2>2, ReturnMatch
  <2>3. CASE Abandon(s) BY <2>3, AbandonMatch
  <2> QED BY <1>3, <2>1, <2>2, <2>3 DEF SubmitStep
<1>4. CASE DropRunner \/ Join BY <1>4, DropOrJoinMatch
<1>5. ASSUME NEW w \in Threads, CloseChannel(w) PROVE MatchInv'
  BY <1>5, CloseChannelMatch
<1>6. ASSUME UNCHANGED poolVars PROVE MatchInv'
  <2>1. UNCHANGED <<session, epoch, tasks, worker, engines, submits, responses, runner, closed>>
    BY <1>6 DEF poolVars
  <2>2. Threads' = Threads
    BY <2>1 DEF Threads
  <2>3. \A s \in 1 .. epoch : (Holders(s))' = Holders(s)
    BY <2>1, <2>2 DEF Holders
  <2>4. AllCollected' /\ ResultsSound' /\ LatestIsComplete'
    BY <2>1, <2>2, <2>3, SubmitsSteady
  <2>5. ChunksSearched'
    BY <2>1, <2>2, ChunksKept DEF MatchInv
  <2> QED BY <2>4, <2>5 DEF MatchInv
<1>7. CASE PoolStep
  BY <1>1, <1>2, <1>3, <1>4, <1>5, <1>7 DEF PoolStep, PoolNext, DropStep
<1>8. ASSUME NEW pattern, Query(pattern) PROVE MatchInv'
  BY <1>6, <1>8 DEF Query
<1>9. CASE UNCHANGED vars
  BY <1>6, <1>9 DEF vars, poolVars
<1> QED BY <1>7, <1>8, <1>9 DEF Next

-----------------------------------------------------------------------------
(* The theorems *)

\* The inductive invariant holds of every behaviour of the pool.
THEOREM PoolInvariant == Spec => []IInv
<1>1. Init => IInv
  BY InitIInv
<1>2. IInv /\ [Next]_vars => IInv'
  BY StepIInv
<1> QED BY <1>1, <1>2, PTL DEF Spec

\* The channels of the workers hold two tasks at most, the submits are numbered
\* by their epochs, and only channels of the pool are closed (runner.rs:83,
\* dispatcher.rs).
THEOREM PoolTypeCorrect == Spec => []PoolTypeOK
<1>1. IInv => PoolTypeOK
  BY Basics DEF IInv, PoolTypeOK, SubmitsShape, QueuesShape, WorkersShape, ClosedInOrder
<1> QED BY <1>1, PoolInvariant, PTL

\* The bounded response channel never makes a worker wait (dispatcher.rs): the
\* worker that has an answer still counts among those that may answer, so there
\* is a place left for it.
THEOREM AlwaysResponsesFit == Spec => []ResponsesFit
<1>1. IInv => ResponsesFit
  <2> SUFFICES ASSUME IInv, NEW w \in Threads, worker[w].pc = "answering"
               PROVE  Len(responses[worker[w].epoch]) < runner.workers
    BY DEF ResponsesFit
  <2> DEFINE s == worker[w].epoch
             h == Cardinality(Holders(s))
             r == Reached(s)
             k == Cardinality(Threads)
             a == Len(responses[s])
  <2>1. /\ ThreadsCounted /\ SubmitsShape /\ RoomForAll
        /\ s \in 1 .. epoch
    BY DEF IInv, WorkersShape
  <2>2. w \in Holders(s)
    BY DEF Holders
  <2>3. h \in Nat /\ h # 0
    BY <2>1, <2>2, HoldersCounted, FS_EmptySet
  <2>4. r \in Nat /\ r <= k /\ k \in Nat /\ k <= runner.workers /\ runner.workers \in Nat
    BY <2>1, ReachedType, PoolSize
  <2>5. a \in Nat /\ a + h <= r
    BY <2>1, Basics DEF RoomForAll
  <2> HIDE DEF s, h, r, k, a
  <2>6. a < runner.workers
    BY <2>3, <2>4, <2>5
  <2> QED BY <2>6 DEF a, s
<1> QED BY <1>1, PoolInvariant, PTL

\* A worker ends only because its channel was closed or the caller of some submit
\* has left (dispatcher.rs): a submit that merely failed ends nobody the drop has
\* not reached.
THEOREM AlwaysWorkersLast == Spec => []WorkersLast
<1>1. IInv => WorkersLast
  BY DEF IInv
<1> QED BY <1>1, PoolInvariant, PTL

\* A submit that begins after the drop has begun to close the channels never gets
\* a task to a worker: channels are closed from the first one on, and that is where
\* every submit begins (dispatcher.rs:27-30, 61-70; runner.rs, drop).
THEOREM AlwaysFutureSubmitsFail == Spec => []FutureSubmitsFail
<1>1. Init => LateInv
  BY DEF Init, PoolInit, LateInv
<1>2. IInv /\ LateInv /\ [Next]_vars => LateInv'
  BY StepLate
<1>3. IInv /\ LateInv => FutureSubmitsFail
  BY Basics DEF IInv, LateInv, FutureSubmitsFail
<1> QED BY <1>1, <1>2, <1>3, PoolInvariant, PTL DEF Spec

\* The engine of a program without a pool keeps a sound cache and answers with
\* what a full search finds (engine.rs, search).
THEOREM EngineInvariant == Spec => []EngineInv
<1>1. Init => EngineInv
  BY InitEngineInv
<1>2. EngineInv /\ [Next]_vars => EngineInv'
  BY StepEngineInv
<1> QED BY <1>1, <1>2, PTL DEF Spec

\* Whatever was searched before, the answer of an engine is exact: narrowing the
\* search to the candidates of a prefix (engine.rs, search and cache) and keeping
\* the rows of the score matrix from text to text (matcher.rs) change nothing,
\* for every list of candidates and every sequence of queries.
THEOREM AlwaysEngineExact == Spec => []EngineExact
<1>1. EngineInv => EngineExact
  BY DEF EngineInv
<1> QED BY <1>1, EngineInvariant, PTL

\* The variables of the pool and of the engine have their types (runner.rs,
\* dispatcher.rs, engine.rs).
THEOREM TypeCorrect == Spec => []TypeOK
<1>1. EngineInv /\ PoolTypeOK => TypeOK
  BY DEF EngineInv, CacheSound, TypeOK
<1> QED BY <1>1, EngineInvariant, PoolTypeCorrect, PTL

\* Every response that waits is the search of the chunk of a worker of its own,
\* and the latest submit misses none of the workers that are done with it.
THEOREM MatchInvariant == Spec => []MatchInv
<1>1. Init => MatchInv
  BY InitMatch
<1>2. IInv /\ MatchInv /\ [Next]_vars => MatchInv'
  BY StepMatch
<1> QED BY <1>1, <1>2, PoolInvariant, PTL DEF Spec

\* Whatever is overtaken, abandoned or dropped, a submit collects only true
\* matches, each once (dispatcher.rs, submit; runner.rs, the worker loop).
THEOREM AlwaysResultsSound == Spec => []ResultsSound
<1>1. MatchInv => ResultsSound
  BY DEF MatchInv
<1> QED BY <1>1, MatchInvariant, PTL

\* A submit that nothing has overtaken or disturbed returns every match of every
\* chunk, however the candidates are cut into chunks and whatever the workers
\* had cached (runner.rs, new; dispatcher.rs, submit).
THEOREM AlwaysLatestIsComplete == Spec => []LatestIsComplete
<1>1. MatchInv => LatestIsComplete
  BY DEF MatchInv
<1> QED BY <1>1, MatchInvariant, PTL

=============================================================================
