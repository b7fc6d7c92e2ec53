CONSTANTS
    Players = {1, 2, 3}
    Groups = {11, 12}
    None = None
    GroupSize = 3
    Unreliable = {3}
    MaxProposals = 1
    MaxJoins = 3
    MaxRaces = 1
SPECIFICATION Spec
INVARIANTS
    QueuedIsSearched
    ProposedIsAsked
    RoleCheckIsOpen
    QueueMatchesGroups
    DungeonsStillSelected
CHECK_DEADLOCK FALSE
