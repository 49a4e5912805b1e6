------------------------------ MODULE MCProxy ------------------------------
EXTENDS Proxy, TLC
Symmetry == Permutations(Threads)
=============================================================================
