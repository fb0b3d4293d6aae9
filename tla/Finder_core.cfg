\* No pool and one engine, or a pool of one or two workers and three submits.
SPECIFICATION Spec
CONSTANTS
    RemoveAccent <- Unaccented
    Space = " "
    Delimiters = {"/"}
    LowerCase = {"a", "b", "a-acute"}
    UpperCase = {"A"}
    Digits = {"1"}
    AsciiAlphanumeric = {"a", "b", "A", "1"}
    Candidates <- PoolCandidates
    Requests = {0, 1, 3}
    Sessions <- PoolSessions
    MaxAbandons = 1
    Datasets <- SmallDatasets
    Queries <- SmallQueries
CHECK_DEADLOCK FALSE
INVARIANTS
    TypeOK
    ResponsesFit
    LatestIsComplete
    ResultsSound
    WorkersLast
    EngineExact
PROPERTIES
    SubmitsEnd
    DropJoins
