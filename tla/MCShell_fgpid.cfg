SPECIFICATION Spec
CONSTANTS
    p1 = p1
    p2 = p2
    Pids = {p1, p2}
    MAXJOBS = 2
    MaxJid = 2
    Keys = {}
SYMMETRY Symmetry
INVARIANTS
    FgpidFindsForeground
CHECK_DEADLOCK FALSE
