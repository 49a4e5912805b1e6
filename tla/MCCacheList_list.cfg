CONSTANTS
    NULL = NULL
    Nodes = {n1, n2, n3, n4}
    Names = {a, b, c}
    Sizes = {1, 2, 3}
    MAX_CACHE_SIZE = 3
    MAX_OBJECT_SIZE = 2
SPECIFICATION FairSpec
INVARIANTS TypeOK Accounted WellLinked
PROPERTIES RefinesRecency InsertEnds
CHECK_DEADLOCK FALSE
