------------------------------ MODULE MCDriver ------------------------------
EXTENDS Driver
\* The trace indices are interchangeable.
Symmetry == Permutations(Indices)
=============================================================================
