CONSTANTS
    MAX_HEAP = 26
    CHUNKSIZE = 4
    Indices = {i1, i2, i3}
    Requests = {8, 48}
SYMMETRY Symmetry
SPECIFICATION Spec
INVARIANT RangesDisjoint
CHECK_DEADLOCK FALSE
