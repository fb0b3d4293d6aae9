------------------------------ MODULE Matcher ------------------------------
(***************************************************************************)
(* finder/matcher.rs: the score of a text for a pattern.  The score is a   *)
(* matrix filled row by row, of which a Matcher keeps two rows that it     *)
(* reuses from call to call; only a slice of the text and, in each row, a  *)
(* window of columns is computed.  Texts and patterns are sequences of     *)
(* characters, and positions are those of characters (counted from 1).     *)
(***************************************************************************)
EXTENDS Integers, Sequences, FiniteSetsExt, SequencesExt

CONSTANTS
    RemoveAccent(_),    \* lower case without accents (sanitize.rs)
    Space,              \* ' '
    Delimiters,         \* '-', '/', ':', ';' and ','
    LowerCase, UpperCase, Digits,
    AsciiAlphanumeric

ScoreMatch == 16
GapStart == -3
GapExtension == -1
BonusConsecutive == 4
FirstCharMultiplier == 2

Alphabetic == LowerCase \cup UpperCase

ContextBonus(prev, current) ==
    CASE prev = Space -> 10
      [] prev \in Delimiters -> 9
      [] prev \notin Delimiters \cup {Space} ->
            IF \/ prev \in LowerCase /\ current \in UpperCase
               \/ prev \in Alphabetic /\ current \in Digits
            THEN 7
            ELSE IF prev \notin AsciiAlphanumeric /\ current \in AsciiAlphanumeric
                 THEN 8
                 ELSE 0

-----------------------------------------------------------------------------
\* The slice of the text that is searched

\* How many characters of the pattern a greedy scan of the slice meets.
Scanned(slice, pattern) ==
    FoldLeft(LAMBDA met, c : IF met < Len(pattern) /\ pattern[met + 1] = RemoveAccent(c)
                             THEN met + 1 ELSE met,
             0, slice)

NoBounds == <<0, 0>>

\* From the first occurrence of the first character to the last occurrence of
\* the last one, if the pattern is met in between.
ViableBounds(text, pattern) ==
    LET places(c) == {i \in DOMAIN text : RemoveAccent(text[i]) = c}
        firsts == places(pattern[1])
        lasts == places(pattern[Len(pattern)])
    IN  IF text = <<>> \/ pattern = <<>> THEN NoBounds
        ELSE IF firsts = {} \/ lasts = {} THEN NoBounds
        ELSE IF \/ Max(lasts) < Min(firsts)
                \/ Scanned(SubSeq(text, Min(firsts), Max(lasts)), pattern) # Len(pattern)
             THEN NoBounds
             ELSE <<Min(firsts), Max(lasts)>>

\* calculate_score_context: the bonus of every character of the slice, from the
\* character before it; a blank stands before the text.
SliceBonus(text, bounds) ==
    [i \in 1 .. bounds[2] - bounds[1] + 1 |->
       LET at == bounds[1] + i - 1
       IN  ContextBonus(IF at = 1 THEN Space ELSE text[at - 1], text[at])]

-----------------------------------------------------------------------------
\* The rows

Zero == [score |-> 0, consecutives |-> 0]

\* Vec::resize: what was there stays.
Resized(row, width) == [c \in 1 .. width |-> IF c \in DOMAIN row THEN row[c] ELSE Zero]

\* Faulty variant: the row of the last call is kept.
NotFilled(row, width) == Resized(row, width)

\* The row before the first one.
Filled(row, width) == [c \in 1 .. width |-> Zero]

\* The left neighbour of a row's window.
Cleared(row, column) == [row EXCEPT ![column] = Zero]

\* One cell, from its diagonal and its left neighbour.
Cell(diagonal, left, isMatch, isFirst, bonus, t) ==
    LET consecutive == diagonal.consecutives + 1
        head == IF consecutive > 1
                THEN {BonusConsecutive, bonus[t - (consecutive - 1)]} ELSE {0}
        context == Max({bonus[t]} \cup head)
        gain == (IF isFirst THEN FirstCharMultiplier * context ELSE context) + ScoreMatch
        s1 == IF isMatch THEN diagonal.score + gain ELSE 0
        s2 == left.score + (IF left.consecutives > 0 THEN GapStart ELSE GapExtension)
        best == Max({s1, s2, 0})
    IN  [score |-> best,
         consecutives |-> IF isMatch /\ best = s1 /\ best > 0 THEN consecutive ELSE 0]

\* The cells of row p, whose window ends where the rest of the pattern still
\* finds room, from the left neighbour of the window on.
LastColumn(p, slice, pattern) == Len(slice) - (Len(pattern) - p)

RowCells(prev, left, p, slice, bonus, pattern) ==
    LET cell[t \in p - 1 .. LastColumn(p, slice, pattern)] ==
          IF t = p - 1
          THEN left
          ELSE Cell(prev[t], cell[t - 1], RemoveAccent(slice[t]) = pattern[p],
                    p = 1 /\ t = 1, bonus, t)
    IN  cell

\* One row, written over the row before the previous one.
NextRow(rows, p, slice, bonus, pattern) ==
    LET current == Cleared(rows.current, p)
        cell == RowCells(rows.prev, current[p], p, slice, bonus, pattern)
    IN  [c \in DOMAIN current |->
           IF c - 1 \in p .. LastColumn(p, slice, pattern) THEN cell[c - 1] ELSE current[c]]

\* The two rows after each character of the pattern.
RowsAfter(rows, slice, bonus, pattern) ==
    LET width == Len(slice) + 1
        filled[p \in 0 .. Len(pattern)] ==
          IF p = 0
          THEN [prev |-> Filled(rows.prev, width), current |-> Resized(rows.current, width)]
          ELSE [prev |-> NextRow(filled[p - 1], p, slice, bonus, pattern),
                current |-> filled[p - 1].prev]
    IN  filled

\* match_score: the score and the two rows it leaves behind.
MatchScore(rows, text, pattern) ==
    LET bounds == ViableBounds(text, pattern)
        slice == SubSeq(text, bounds[1], bounds[2])
        after == RowsAfter(rows, slice, SliceBonus(text, bounds), pattern)[Len(pattern)]
    IN  IF bounds = NoBounds
        THEN [score |-> 0, rows |-> rows]
        ELSE [score |-> Max({after.prev[c].score : c \in Len(pattern) + 1 .. Len(slice) + 1}),
              rows |-> after]

NewRows == [prev |-> <<>>, current |-> <<>>]

-----------------------------------------------------------------------------
\* Reference definitions

\* The characters of the pattern occur in the text, in order.
IsSubsequence(pattern, text) ==
    \E place \in [DOMAIN pattern -> DOMAIN text] :
        /\ \A i \in DOMAIN pattern : RemoveAccent(text[place[i]]) = pattern[i]
        /\ \A i \in 1 .. Len(pattern) - 1 : place[i] < place[i + 1]

\* The matrix itself, without rows to reuse: a row from the one above it.
MatrixRow(above, p, slice, bonus, pattern) ==
    LET cell[t \in 0 .. Len(slice)] ==
          IF t < p
          THEN Zero
          ELSE Cell(above[t - 1], cell[t - 1], RemoveAccent(slice[t]) = pattern[p],
                    p = 1 /\ t = 1, bonus, t)
    IN  cell

Matrix(slice, bonus, pattern) ==
    LET row[p \in 0 .. Len(pattern)] ==
          IF p = 0
          THEN [t \in 0 .. Len(slice) |-> Zero]
          ELSE MatrixRow(row[p - 1], p, slice, bonus, pattern)
    IN  row

ReferenceScore(text, pattern) ==
    LET bounds == ViableBounds(text, pattern)
        slice == SubSeq(text, bounds[1], bounds[2])
        row == Matrix(slice, SliceBonus(text, bounds), pattern)[Len(pattern)]
    IN  Max({row[t].score : t \in Len(pattern) .. Len(slice)})
=============================================================================
