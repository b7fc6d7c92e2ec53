\* Three players, an ordinary item and a quest item; at most three votes are counted on the two together, repeated ones included.
SPECIFICATION Spec
CONSTANTS
    Players = {1, 2, 3}
    Items = {i1, q1}
    QuestItems = {q1}
    QuestCounts = {1}
    None = None
    MaxVotes = 3
    Unreliable = {1}
    Looters = {2}
INVARIANTS
    AwardedOnce
    TotalsMatchVotes
PROPERTIES
    NobodyCutOff
    NeedWins
    NotLeftBlocked
    RollEnds
