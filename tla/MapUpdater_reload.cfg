CONSTANTS
    Maps = {m1}
    Threads = {t1, t2, t3}
    InitialThreads = 2
    AllowShrink = TRUE
    SpuriousWakeups = TRUE
    MaxWindow = 1
    Word = 8
SPECIFICATION Spec
SYMMETRY Symmetry
CHECK_DEADLOCK FALSE
INVARIANTS
    PoolNeverBelowTarget
