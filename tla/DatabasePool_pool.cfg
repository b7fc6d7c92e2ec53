CONSTANTS
    NumWorkers = 2
    NumTasks = 3
    Statements = 2
    Empty = {2}
    Faults = {"deadlock", "error", "lost", "unreachable"}
    MaxFaults = 3
    LoopBreaker = 2
SPECIFICATION FairSpec
CHECK_DEADLOCK FALSE
INVARIANTS
    SettledInOrder
    DroppedByCloseOnly
    OnlyFaultedAreTorn
    StoppedBeforeCleared
PROPERTIES
    EventuallySettled
    CloseReturns
