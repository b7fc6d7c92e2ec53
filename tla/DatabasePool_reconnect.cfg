CONSTANTS
    NumWorkers = 1
    NumTasks = 1
    Statements = 3
    Empty = {}
    Faults = {"lost"}
    MaxFaults = 2
    LoopBreaker = 5
SPECIFICATION Spec
CHECK_DEADLOCK FALSE
INVARIANTS
    AllOrNothing
