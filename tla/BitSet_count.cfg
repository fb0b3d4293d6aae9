\* The doc of count() on the same instance.
SPECIFICATION Spec
CONSTANTS
    W = 2
    ByteBits = 1
    CountMod = 16
    Indexes <- SmallIndexes
    Slices <- SmallSlices
    Operands <- SmallOperands
INVARIANTS
    CountIsMembers
