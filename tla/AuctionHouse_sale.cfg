CONSTANTS
    Players = {p1, p2, p3}
    Items = {i1}
    InitialMoney = 3
    Deposit = 1
    CutPercent = 50
    Prices = {1, 2, 3}
    MaxAuctions = 1
    MaxQueue = 2
SPECIFICATION Spec
SYMMETRY Symmetry
CHECK_DEADLOCK FALSE
INVARIANTS
    SoldOnceWithItem
