--------------------------- MODULE MCSmallVector ---------------------------
EXTENDS SmallVector, TLC

\* The two vectors are interchangeable.
Symmetry == Permutations(Vectors)
=============================================================================
