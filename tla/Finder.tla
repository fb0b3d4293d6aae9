------------------------------- MODULE Finder -------------------------------
(***************************************************************************)
(* The finder as a program uses it: through a pool (FinderPool) or, when   *)
(* there is none, through an Engine of its own that searches one pattern   *)
(* after the other.                                                        *)
(***************************************************************************)
EXTENDS FinderPool

CONSTANTS
    Datasets,       \* the candidates a program's own engine may have
    Queries         \* the patterns it is asked for

ASSUME DatasetsAssumption ==
    \A candidates \in Datasets :
        /\ candidates \in Seq(ToSet(candidates))
        /\ \A c \in ToSet(candidates) : c.text \in Seq(ToSet(c.text))
ASSUME QueriesAssumption == \A pattern \in Queries : pattern \in Seq(ToSet(pattern))

VARIABLES
    dataset,        \* the candidates of the program's own engine
    engine,
    answer          \* the last query and its matches

vars == <<session, epoch, tasks, worker, engines, submits, responses, runner, closed,
          dataset, engine, answer>>

Init ==
    /\ PoolInit
    /\ dataset \in IF runner.pc = "none" THEN Datasets ELSE {<<>>}
    /\ engine = NewEngine
    /\ answer = [pattern |-> <<>>, matches |-> <<>>]

Query(pattern) ==
    LET result == Search(engine, dataset, pattern)
    IN  /\ runner.pc = "none"
        /\ engine' = result.engine
        /\ answer' = [pattern |-> pattern, matches |-> result.matches]
        /\ UNCHANGED <<poolVars, dataset>>

PoolStep == PoolNext /\ UNCHANGED <<dataset, engine, answer>>

Next == PoolStep \/ \E pattern \in Queries : Query(pattern)

Spec == Init /\ [][Next]_vars /\ PoolFairness

TypeOK ==
    /\ PoolTypeOK
    /\ engine.last \in Queries \cup {<<>>}
    /\ Len(engine.cached) <= Len(dataset)

\* Whatever was searched before (longer, shorter or other patterns, that left
\* candidates in the cache and scores in the rows), the answer is that of a full
\* search with a fresh matrix: exactly the candidates that contain the pattern,
\* in order, with their scores.
EngineExact == answer.matches = FullSearch(dataset, answer.pattern)
=============================================================================
