------------------------------- MODULE Engine -------------------------------
(***************************************************************************)
(* finder/engine.rs: searches over a list of candidates.  An engine keeps  *)
(* its last pattern and the candidates that matched it, and a search whose *)
(* pattern extends the last one looks only at those.                       *)
(***************************************************************************)
EXTENDS Matcher

NewEngine == [last |-> <<>>, cached |-> <<>>, rows |-> NewRows]

Sanitized(pattern) == [i \in DOMAIN pattern |-> RemoveAccent(pattern[i])]

\* Faulty variant: the cache is used for shorter patterns too.
InScopeEitherWay(engine, candidates, pattern) ==
    IF engine.last # <<>> /\ (IsPrefix(engine.last, pattern) \/ IsPrefix(pattern, engine.last))
    THEN engine.cached
    ELSE candidates

\* The candidates a search looks at.
InScope(engine, candidates, pattern) ==
    IF engine.last # <<>> /\ IsPrefix(engine.last, pattern)
    THEN engine.cached
    ELSE candidates

\* search: the matches, in the order of the candidates, and the engine after it.
\* An empty pattern matches nothing and leaves the cache alone.
Search(engine, candidates, pattern) ==
    LET clean == Sanitized(pattern)
        try(acc, c) ==
          LET result == MatchScore(acc.rows, c.text, clean)
          IN  IF result.score > 0
              THEN [rows |-> result.rows,
                    cached |-> Append(acc.cached, c),
                    matches |-> Append(acc.matches, [id |-> c.id, score |-> result.score])]
              ELSE [acc EXCEPT !.rows = result.rows]
        done == FoldLeft(try, [rows |-> engine.rows, cached |-> <<>>, matches |-> <<>>],
                         InScope(engine, candidates, pattern))
    IN  IF pattern = <<>>
        THEN [engine |-> engine, matches |-> <<>>]
        ELSE [engine |-> [last |-> pattern, cached |-> done.cached, rows |-> done.rows],
              matches |-> done.matches]

\* What a search should find: every candidate that contains the pattern, with
\* the score of the full matrix, in the order of the candidates.
FullSearch(candidates, pattern) ==
    LET clean == Sanitized(pattern)
        try(found, c) ==
          IF pattern # <<>> /\ IsSubsequence(clean, c.text)
          THEN Append(found, [id |-> c.id, score |-> ReferenceScore(c.text, clean)])
          ELSE found
    IN  FoldLeft(try, <<>>, candidates)
=============================================================================
