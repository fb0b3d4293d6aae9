\* The compositor with two windows that may change their app_id, and a channel of one place.
SPECIFICATION Spec
CONSTANTS
    Classes = {c1, c2}
    Windows = {w1, w2}
    NoClass = NoClass
    NoWindow = NoWindow
    Cap = 1
    MaxWire = 6
    AppIdChanges = TRUE
    DoneAfterClosed = TRUE
SYMMETRY Symmetry
INVARIANTS
    TypeOK
    KnowsOpenWindows
    OnlyUnnamedHandlesStay
CHECK_DEADLOCK FALSE
