CONSTANTS
    NULL = NULL
    Nodes = {n1, n2, n3, n4, n5}
    Names = {a, b, c}
    Sizes = {1, 2, 3}
    MAX_CACHE_SIZE = 4
    MAX_OBJECT_SIZE = 2
SYMMETRY Symmetry
SPECIFICATION Spec
PROPERTY LookupKeepsItems
CHECK_DEADLOCK FALSE
