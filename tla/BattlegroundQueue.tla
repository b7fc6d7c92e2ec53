-------------------------- MODULE BattlegroundQueue --------------------------
(***************************************************************************)
(* The invitations of one battleground queue.  A player is recorded in     *)
(* four places: the queue (GroupQueueInfo), his own queue slot, the        *)
(* counter of invited players of the battleground and its matchmaking      *)
(* data.  They are changed by different handlers, with a loading screen    *)
(* and a timer in between, and the battleground is deleted when its        *)
(* counter is zero.                                                        *)
(*                                                                         *)
(* Everything happens on the world thread: a handler is one step.  One     *)
(* team is modelled; the counters of the two teams are separate.           *)
(***************************************************************************)
EXTENDS Integers, FiniteSets, FiniteSetsExt

CONSTANTS
    Players,
    Battlegrounds,  \* the instance ids, used again when a battleground is gone
    None,
    MaxPlayers,     \* maxPlayersPerTeam
    WaitTime,       \* INVITE_ACCEPT_WAIT_TIME
    EndOfTime       \* bound: the clock stops here, and nobody is invited that late

ASSUME BattlegroundQueueAssumption ==
    /\ IsFiniteSet(Players)
    /\ {None, "none", "queued"} \cap Battlegrounds = {}
    /\ MaxPlayers \in Nat /\ WaitTime \in Nat \ {0} /\ EndOfTime \in Nat

VARIABLES
    online,    \* connected players
    queue,     \* m_QueuedGroups: the GroupQueueInfo records
    slot,      \* m_bgBattlegroundQueueID of a player: "none", "queued", or the
               \* instance he is invited to (and stays in)
    bgId,      \* m_bgData.bgInstanceID
    loading,   \* players on their way into a battleground
    status,    \* "free" (no such object), "running", "ending"
    invited,   \* m_InvitedAlliance or m_InvitedHorde
    data,      \* playerData of the matchmaking
    inside,    \* m_Players
    events,    \* pending BGQueueRemoveEvents
    clock      \* GetGameTimeMS

playerVars == <<online, slot, bgId, loading>>
bgVars == <<status, invited, data, inside>>
vars == <<playerVars, bgVars, queue, events, clock>>

GroupInfos == [players : SUBSET Players, bg : Battlegrounds \cup {None}, time : Nat]

TypeOK ==
    /\ online \subseteq Players
    /\ queue \subseteq GroupInfos
    /\ slot \in [Players -> {"none", "queued"} \cup Battlegrounds]
    /\ bgId \in [Players -> Battlegrounds \cup {None}]
    /\ loading \subseteq Players
    /\ status \in [Battlegrounds -> {"free", "running", "ending"}]
    /\ invited \in [Battlegrounds -> Nat]
    /\ data \in [Battlegrounds -> SUBSET Players]
    /\ inside \in [Battlegrounds -> SUBSET Players]
    /\ events \subseteq [player : Players, bg : Battlegrounds, time : Nat]
    /\ clock \in 0 .. EndOfTime

Init ==
    /\ online = Players
    /\ queue = {}
    /\ slot = [p \in Players |-> "none"]
    /\ bgId = [p \in Players |-> None]
    /\ loading = {}
    /\ status = [b \in Battlegrounds |-> "free"]
    /\ invited = [b \in Battlegrounds |-> 0]
    /\ data = [b \in Battlegrounds |-> {}]
    /\ inside = [b \in Battlegrounds |-> {}]
    /\ events = {}
    /\ clock = 0

Queued(p) == \E g \in queue : p \in g.players
GroupInfo(p) == CHOOSE g \in queue : p \in g.players

\* Player::RemoveBattlegroundQueueId
FreeSlot(p) == [slot EXCEPT ![p] = "none"]

Exists(b) == b # None /\ status[b] # "free"

-----------------------------------------------------------------------------
(* BattlegroundQueue *)

AddGroup(members) ==
    /\ members # {} /\ members \subseteq online
    /\ \A p \in members : slot[p] = "none"
    /\ queue' = queue \cup {[players |-> members, bg |-> None, time |-> 0]}
    /\ slot' = [p \in Players |-> IF p \in members THEN "queued" ELSE slot[p]]
    /\ UNCHANGED <<online, bgId, loading, bgVars, events, clock>>

\* Fault: the groups of a proposal are checked one by one, not together.
EachFits(b, groups) ==
    \A g \in groups : Cardinality(data[b]) + Cardinality(g.players) <= MaxPlayers

\* freeSlots of CalculateProposalQuality
Fits(b, groups) ==
    Cardinality(data[b]) + MapThenSumSet(LAMBDA g : Cardinality(g.players), groups)
        <= MaxPlayers

\* Fault: only one player of those invited gets an event.
OneRemoveEvent(asked, b, deadline) ==
    IF asked = {} THEN {}
    ELSE {[player |-> CHOOSE p \in asked : TRUE, bg |-> b, time |-> deadline]}

RemoveEvents(asked, b, deadline) ==
    {[player |-> p, bg |-> b, time |-> deadline] : p \in asked}

\* InviteGroupToBG for each group of a proposal.  Players who are not
\* connected are left out.
InviteGroups(b, groups) ==
    LET asked == (UNION {g.players : g \in groups}) \cap online
        deadline == clock + WaitTime
    IN /\ deadline <= EndOfTime
       /\ queue' = (queue \ groups)
                     \cup {[g EXCEPT !.bg = b, !.time = deadline] : g \in groups}
       /\ invited' = [invited EXCEPT ![b] = @ + Cardinality(asked)]
       /\ data' = [data EXCEPT ![b] = @ \cup asked]
       /\ slot' = [p \in Players |-> IF p \in asked THEN b ELSE slot[p]]
       /\ events' = events \cup RemoveEvents(asked, b, deadline)
       /\ UNCHANGED <<online, bgId, loading, inside, clock>>

\* Which proposal is best is left open: any that fits may be, the empty one
\* too.
Proposals(b) ==
    {groups \in SUBSET {g \in queue : g.bg = None} : Fits(b, groups)}

Fill(b) ==
    /\ status[b] = "running"
    /\ \E groups \in Proposals(b) : InviteGroups(b, groups)
    /\ UNCHANGED status

StartBattleground(b) ==
    /\ status[b] = "free"
    /\ status' = [status EXCEPT ![b] = "running"]
    /\ \E groups \in Proposals(b) : InviteGroups(b, groups)

\* Fault: one player who leaves takes his whole group out of the queue.
RemoveGroup(p) == queue \ {GroupInfo(p)}

\* queue after p was erased from his group and the empty group from the queue
Erase(p) ==
    LET g == GroupInfo(p)
        rest == [g EXCEPT !.players = @ \ {p}]
    IN (queue \ {g}) \cup (IF rest.players = {} THEN {} ELSE {rest})

\* The battleground forgets a player who was invited or took part.
Forget(b, p) ==
    /\ invited' = [invited EXCEPT ![b] = @ - 1]
    /\ data' = [data EXCEPT ![b] = @ \ {p}]

KeepCount == FALSE
DecreaseCount == TRUE

RemovePlayer(p, decreaseInvitedCount) ==
    IF ~Queued(p) THEN UNCHANGED <<queue, invited, data>>
    ELSE /\ queue' = Erase(p)
         /\ IF decreaseInvitedCount /\ Exists(GroupInfo(p).bg)
            THEN Forget(GroupInfo(p).bg, p)
            ELSE UNCHANGED <<invited, data>>

-----------------------------------------------------------------------------
(* HandleBattleFieldPortOpcode and the loading screen *)

\* Fault: entering gives the invitation back.
EnterMode == DecreaseCount

PortMode == KeepCount

PortEnter(p) ==
    /\ p \in online \ loading /\ Queued(p)
    /\ LET b == GroupInfo(p).bg
       IN /\ Exists(b) /\ slot[p] \in Battlegrounds
          /\ bgId' = [bgId EXCEPT ![p] = b]
    /\ loading' = loading \cup {p}
    /\ RemovePlayer(p, PortMode)
    /\ UNCHANGED <<online, slot, status, inside, events, clock>>

PortLeave(p) ==
    /\ p \in online \ loading /\ Queued(p)
    /\ slot' = FreeSlot(p)
    /\ RemovePlayer(p, DecreaseCount)
    /\ UNCHANGED <<online, bgId, loading, status, inside, events, clock>>

\* HandleMoveWorldportAckOpcode: only who is invited is added.
CompleteTeleport(p) ==
    /\ loading' = loading \ {p}
    /\ inside' = [b \in Battlegrounds |->
          IF p \in loading /\ bgId[p] = b /\ Exists(b) /\ slot[p] = b
          THEN inside[b] \cup {p} ELSE inside[b]]

Arrive(p) ==
    /\ p \in loading
    /\ CompleteTeleport(p)
    /\ UNCHANGED <<online, slot, bgId, status, invited, data, queue, events, clock>>

\* LogoutPlayer: a pending teleport is completed first, so a player who is
\* loading is added.  Who is inside stays there and goes to the offline queue.
Logout(p) ==
    /\ p \in online
    /\ online' = online \ {p}
    /\ CompleteTeleport(p)
    /\ slot' = FreeSlot(p)
    /\ RemovePlayer(p, DecreaseCount)
    /\ UNCHANGED <<bgId, status, events, clock>>

\* Player::LoadFromDB
Login(p) ==
    /\ p \in Players \ online
    /\ online' = online \cup {p}
    /\ LET b == bgId[p]
           present == b # None /\ p \in inside[b]
       IN IF present /\ status[b] # "ending"
          THEN /\ slot' = [slot EXCEPT ![p] = b]
               /\ UNCHANGED <<bgId, inside, invited, data>>
          ELSE /\ bgId' = [bgId EXCEPT ![p] = None]
               /\ IF present
                  THEN Forget(b, p) /\ inside' = [inside EXCEPT ![b] = @ \ {p}]
                  ELSE UNCHANGED <<inside, invited, data>>
               /\ UNCHANGED slot
    /\ UNCHANGED <<loading, status, queue, events, clock>>

-----------------------------------------------------------------------------
(* BGQueueRemoveEvent *)

\* Fault: the time of the invitation is not compared.
IsInvitedAtAll(e) == Queued(e.player) /\ GroupInfo(e.player).bg = e.bg

IsPlayerInvited(e) ==
    /\ Queued(e.player)
    /\ GroupInfo(e.player).bg = e.bg /\ GroupInfo(e.player).time = e.time

\* A player who logged out in the meantime is left alone.
RemoveEvent(e) ==
    /\ e.time <= clock
    /\ events' = events \ {e}
    /\ LET p == e.player
       IN IF p \in online /\ slot[p] # "none" /\ IsPlayerInvited(e)
          THEN slot' = FreeSlot(p) /\ RemovePlayer(p, DecreaseCount)
          ELSE UNCHANGED <<slot, queue, invited, data>>
    /\ UNCHANGED <<online, bgId, loading, status, inside, clock>>

\* Every tick runs the events that are due.
Tick ==
    /\ clock < EndOfTime
    /\ \A e \in events : e.time > clock
    /\ clock' = clock + 1
    /\ UNCHANGED <<playerVars, bgVars, queue, events>>

-----------------------------------------------------------------------------
(* Battleground *)

\* RemovePlayerAtLeave of a participant: by his own wish, or at the end.
RemovePlayerAtLeave(b, p) ==
    /\ p \in inside[b]
    /\ p \in online \/ status[b] = "ending"
    /\ Forget(b, p)
    /\ inside' = [inside EXCEPT ![b] = @ \ {p}]
    /\ IF p \in online
       THEN slot' = FreeSlot(p) /\ bgId' = [bgId EXCEPT ![p] = None]
       ELSE UNCHANGED <<slot, bgId>>
    /\ UNCHANGED <<online, loading, status, queue, events, clock>>

\* _ProcessOfflineQueue, five minutes after the logout
RemoveOffline(b, p) ==
    /\ status[b] = "running" /\ p \in inside[b] \ online
    /\ Forget(b, p)
    /\ inside' = [inside EXCEPT ![b] = @ \ {p}]
    /\ UNCHANGED <<playerVars, status, queue, events, clock>>

EndBattleground(b) ==
    /\ status[b] = "running" /\ inside[b] # {}
    /\ status' = [status EXCEPT ![b] = "ending"]
    /\ UNCHANGED <<playerVars, invited, data, inside, queue, events, clock>>

\* Fault: a battleground nobody is in is deleted.
NobodyInside(b) == inside[b] = {}

Abandoned(b) == inside[b] = {} /\ invited[b] = 0

\* Battleground::Update and BattlegroundMgr::Update
Delete(b) ==
    /\ Exists(b) /\ Abandoned(b)
    /\ status' = [status EXCEPT ![b] = "free"]
    /\ invited' = [invited EXCEPT ![b] = 0]
    /\ data' = [data EXCEPT ![b] = {}]
    /\ UNCHANGED <<playerVars, inside, queue, events, clock>>

-----------------------------------------------------------------------------
Next ==
    \/ \E members \in SUBSET Players : AddGroup(members)
    \/ \E e \in events : RemoveEvent(e)
    \/ Tick
    \/ \E p \in Players :
         \/ PortEnter(p)
         \/ PortLeave(p)
         \/ Arrive(p)
         \/ Logout(p)
         \/ Login(p)
    \/ \E b \in Battlegrounds :
         \/ Fill(b)
         \/ StartBattleground(b)
         \/ EndBattleground(b)
         \/ Delete(b)
         \/ \E p \in Players : RemovePlayerAtLeave(b, p) \/ RemoveOffline(b, p)

Spec == Init /\ [][Next]_vars

-----------------------------------------------------------------------------
(* Properties *)

InvitedTo(b) == UNION {g.players : g \in {h \in queue : h.bg = b}}
LoadingInto(b) == {p \in loading : bgId[p] = b}
Engaged(b) == InvitedTo(b) \cup LoadingInto(b) \cup inside[b]

\* The counter of invited players is the number of those invited, loading
\* and inside, and the matchmaking data names exactly these, also after one
\* logged out while loading or fighting.  One too many and Battleground::Update
\* never deletes the battleground, one too few and it is deleted under its
\* players.
InvitedCountExact ==
    \A b \in Battlegrounds : invited[b] = Cardinality(Engaged(b)) /\ data[b] = Engaged(b)

\* No battleground gets more players than it has room for, although those
\* who are loading are neither in the queue nor inside.
NotOverfilled == \A b \in Battlegrounds : Cardinality(Engaged(b)) <= MaxPlayers

\* A battleground is deleted only when no invitation, no loading player and
\* no queue slot refers to it any more; the instance id is used again.
DeletedUnreferenced ==
    \A b \in Battlegrounds : status[b] = "free" =>
        Engaged(b) = {} /\ \A p \in Players : slot[p] # b

\* The queue slot of a connected player says what the queue and the
\* battlegrounds say: a player whose slot stays taken cannot queue again.
\* No variable leaves its type.
SlotAgrees ==
    TypeOK /\ \A p \in online :
        /\ slot[p] = "queued" <=> Queued(p) /\ GroupInfo(p).bg = None
        /\ \A b \in Battlegrounds : slot[p] = b <=> p \in Engaged(b)

\* An invitation nobody answers does not outlive its deadline.
InvitationExpires == \A g \in queue : g.bg # None => clock <= g.time

\* A remove event never takes away an invitation that came later than the
\* one it was made for, even if it is to the same battleground.
StaleEventHarmless ==
    [][\A e \in events \ events' :
         Queued(e.player) /\ ~Queued(e.player)'
           => GroupInfo(e.player).bg = e.bg /\ GroupInfo(e.player).time <= clock]_vars
=============================================================================
