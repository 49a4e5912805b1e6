CONSTANTS
    Pids = {1, 2, 3, 4}
    Parent <- MCParent
    Length <- MCLength
    Files = {f1, f2}
    Counts = {2, 7}
    LENGTH_MAX = 4
    MaxLen = 7
SYMMETRY Symmetry
SPECIFICATION Spec
INVARIANTS TypeOK
PROPERTIES ReadsBranch
CHECK_DEADLOCK FALSE
