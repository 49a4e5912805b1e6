------------------------------ MODULE MCPTree -------------------------------
EXTENDS PTree
\* Init with two children, one of which has a child.
MCParent == (1 :> 0) @@ (2 :> 1) @@ (3 :> 2) @@ (4 :> 1)
MCLength == (1 :> 1) @@ (2 :> 2) @@ (3 :> 1) @@ (4 :> 1)
Symmetry == Permutations(Files)
=============================================================================
