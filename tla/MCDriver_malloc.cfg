CONSTANTS
    MAX_HEAP = 26
    CHUNKSIZE = 4
    Indices = {i1, i2, i3}
    Requests = {8, 12, 24, 40}
SYMMETRY Symmetry
SPECIFICATION Spec
INVARIANTS TypeOK Tiled ListsExact FindFitIsBest BlocksOwned RejectsOnlyFull UtilAtMostOne
    RefusalKeepsHeap
PROPERTIES ContiguousOnlyByMove
CHECK_DEADLOCK FALSE
