------------------------------ MODULE MCFinder ------------------------------
\* Characters of every class the bonuses tell apart, one of them with an accent.
EXTENDS Finder

Letters == {"a", "b", "A", "a-acute", "1", "/"}
Unaccented(c) == CASE c \in {"A", "a-acute"} -> "a" [] OTHER -> c

Listed(texts) ==
    LET order == FoldSet(LAMBDA text, seq : Append(seq, text), <<>>, texts)
    IN  [i \in DOMAIN order |-> [id |-> i, text |-> order[i]]]

Words(letters, n) == [1 .. n -> letters]

\* Short texts over several alphabets, and longer ones on which a gap eats up the
\* score, a match is consecutive, or a bonus stands in the middle.
SmallDatasets ==
    {Listed(UNION {Words({"a", "b"}, n) : n \in 0 .. 2}),
     Listed(Words({"a", "b"}, 3)),
     Listed(Words({"a", "A"}, 3)),
     Listed(Words({"/", "a"}, 3)),
     Listed(Words({"b", "a-acute"}, 3)),
     Listed(Words({"a", "1"}, 3)),
     Listed({<<"/", "a", "b", "a", "A", "b">>, <<"b", "a-acute", "b", "b", "/", "b">>,
             <<"a", "1", "1", "1", "1", "b">>, <<"a", "b", "/", "a", "b", "1">>,
             <<"a", "a", "b", "1", "a", "a">>, <<"b", "a">>, <<"a", "/", "b">>})}
SmallQueries == UNION {Words({"a", "b"}, n) : n \in 0 .. 3} \cup {<<"A">>, <<"a", "1">>}

\* Four candidates for three workers make two chunks.
PoolCandidates == Listed({<<"a", "b">>, <<"b">>, <<"/", "a">>, <<"b", "a">>})

\* A pattern that is typed, extended and shortened again.
PoolSessions == {<<<<"a">>, <<"a", "b">>, <<"a">>>>}
=============================================================================
