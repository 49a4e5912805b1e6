CONSTANTS
    Ptrs = {1, 2, 3}
    Sizes = {0, 1}
    MaxCalls = 4
    MaxDrops = 1
SPECIFICATION Spec
INVARIANTS TypeOK ListOrdered CountersAreBlocks Balanced MisuseStopped
PROPERTIES MisuseReported
CHECK_DEADLOCK FALSE
