---------------------------- MODULE MCCacheList ----------------------------
EXTENDS CacheList, TLC
Symmetry == Permutations(Nodes) \cup Permutations(Names)
=============================================================================
