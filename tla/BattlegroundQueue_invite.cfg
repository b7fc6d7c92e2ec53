\* Three players and one instance id with room for two: the id is used again
\* and an old event is still pending when its player is invited again.
SPECIFICATION Spec
CONSTANTS
    Players = {p1, p2, p3}
    Battlegrounds = {b1}
    None = None
    MaxPlayers = 2
    WaitTime = 2
    EndOfTime = 5
SYMMETRY Symmetry
INVARIANTS
    NotOverfilled
    DeletedUnreferenced
    SlotAgrees
    InvitedCountExact
    InvitationExpires
PROPERTIES
    StaleEventHarmless
