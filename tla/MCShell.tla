------------------------------ MODULE MCShell ------------------------------
EXTENDS Shell, TLC
Symmetry == Permutations(Pids)
=============================================================================
