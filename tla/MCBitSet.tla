------------------------------ MODULE MCBitSet ------------------------------
\* Words of two bits and bytes of one, so that five indices need four words.
EXTENDS BitSet

SmallIndexes == 0 .. 4
SmallSlices == UNION {[1 .. n -> SUBSET {0}] : n \in 0 .. 5}
SmallOperands == UNION {[1 .. n -> SUBSET {0, 1}] : n \in 0 .. 2}
=============================================================================
