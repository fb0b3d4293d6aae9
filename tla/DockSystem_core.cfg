\* The whole pipeline with two windows; app_ids do not change.
SPECIFICATION PromptDiskSpec
CONSTANTS
    Classes = {c1, c2}
    Windows = {w1, w2}
    NoClass = NoClass
    NoWindow = NoWindow
    NoMenu = NoMenu
    Cap = 1
    MaxWire = 5
    AppIdChanges = FALSE
    DoneAfterClosed = TRUE
    InitFiles <- EmptyFile
    MaxSaves = 1
SYMMETRY Symmetry
INVARIANTS
    EventsLegal
    WindowsConverge
    ActiveConverges
    FocusTruthful
