\* Four words of two bits on the left, operands of at most two words.
SPECIFICATION Spec
CONSTANTS
    W = 2
    ByteBits = 1
    CountMod = 16
    Indexes <- SmallIndexes
    Slices <- SmallSlices
    Operands <- SmallOperands
INVARIANTS
    TypeOK
    CountExact
    IteratorsExact
PROPERTIES
    ImplementsNatSet
    OperationsExact
