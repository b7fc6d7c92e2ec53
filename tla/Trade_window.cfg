SPECIFICATION Spec
CONSTANTS
    Players = {p1, p2, p3}
    Items = {i1, i2}
    None = None
    Capacity = 1
    InitialMoney = 1
    MaxMoney = 2
    SlotCount = 1
    Amounts = {0, 1}
SYMMETRY Symmetry
INVARIANTS
    TradesPaired
    AcceptedAsShown
    ItemsConserved
    MoneyConserved
PROPERTIES
    NothingMovesUnseen
