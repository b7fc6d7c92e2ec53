CONSTANTS
    Block = 2
    WordBits = 4
    MaxId = 9
SPECIFICATION IdsSpec
INVARIANTS
    LowestFirst
    OnlyBoundaryIdsLost
