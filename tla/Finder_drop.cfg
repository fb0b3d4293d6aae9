\* Does a submit that is under way fail when the Runner is dropped?
SPECIFICATION Spec
CONSTANTS
    RemoveAccent <- Unaccented
    Space = " "
    Delimiters = {"/"}
    LowerCase = {"a", "b", "a-acute"}
    UpperCase = {"A"}
    Digits = {"1"}
    AsciiAlphanumeric = {"a", "b", "A", "1"}
    Candidates <- PoolCandidates
    Requests = {1, 3}
    Sessions <- PoolSessions
    MaxAbandons = 0
    Datasets <- SmallDatasets
    Queries <- SmallQueries
CHECK_DEADLOCK FALSE
PROPERTY PendingSubmitsFail
