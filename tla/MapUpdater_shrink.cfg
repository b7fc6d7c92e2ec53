CONSTANTS
    Maps = {m1}
    Threads = {t1, t2}
    InitialThreads = 2
    AllowShrink = TRUE
    SpuriousWakeups = FALSE
    MaxWindow = 1
    Word = 8
SPECIFICATION Spec
INVARIANTS
    CleanupAssertion
