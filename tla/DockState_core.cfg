\* Every handler, two classes and two windows; writes finish before anything else.
SPECIFICATION PromptDiskSpec
CONSTANTS
    Classes = {a, b}
    Windows = {w1, w2}
    NoClass = NoClass
    NoWindow = NoWindow
    NoMenu = NoMenu
    InitFiles <- AllFiles
    MaxSaves = 1
SYMMETRY Symmetry
INVARIANTS
    TypeOK
    Consistent
    FocusPointerValid
    MenuMatchesDock
PROPERTIES
    DropTakesTargetPlace
    ImplementsTaskbar
