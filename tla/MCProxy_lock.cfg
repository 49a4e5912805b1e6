CONSTANTS
    Threads = {t1, t2, t3, t4}
SPECIFICATION FairSpec
INVARIANTS TypeOK CacheExclusion
PROPERTIES RefinesReadersWriter ThreadsEnd
CHECK_DEADLOCK FALSE
