SPECIFICATION FairSpec
CONSTANTS
    p1 = p1
    p2 = p2
    Pids = {p1, p2}
    MAXJOBS = 1
    MaxJid = 1
    Keys = {"INT", "QUIT"}
PROPERTIES
    CtrlCEndsWait
CHECK_DEADLOCK FALSE
