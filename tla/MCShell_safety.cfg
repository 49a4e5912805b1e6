SPECIFICATION Spec
CONSTANTS
    p1 = p1
    p2 = p2
    Pids = {p1, p2}
    MAXJOBS = 2
    MaxJid = 2
    Keys = {"INT", "TSTP"}
SYMMETRY Symmetry
INVARIANTS
    TypeOK
    ListedOnce
    JobsAreChildren
    ChildrenAreJobs
    ForegroundOwnsShell
    StopsAreListed
    KeysSpareBackground
CHECK_DEADLOCK FALSE
