CONSTANTS
    Maps = {m1, m2, m3}
    Threads = {t1, t2, t3}
    InitialThreads = 2
    AllowShrink = FALSE
    SpuriousWakeups = FALSE
    MaxWindow = 3
    Word = 8
SPECIFICATION FairSpec
INVARIANTS
    WorldHasMapsToItself
    OneUpdaterPerMap
PROPERTIES
    ImplementsBarrier
    TicksEnd
    WorkersWoken
