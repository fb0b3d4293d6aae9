\* Two overlapping saves finish out of order.
SPECIFICATION MenuOnlySpec
CONSTANTS
    Classes = {a, b}
    Windows = {w1}
    NoClass = NoClass
    NoWindow = NoWindow
    NoMenu = NoMenu
    InitFiles <- EmptyFile
    MaxSaves = 2
SYMMETRY Symmetry
INVARIANT SavedWhenQuiet
