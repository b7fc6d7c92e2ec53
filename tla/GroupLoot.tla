------------------------------ MODULE GroupLoot ------------------------------
(***************************************************************************)
(* The rolls of a group on the loot of one corpse: Group::RollId, the      *)
(* votes of the members, the timer of the corpse, and everything that can  *)
(* happen to the group and the corpse before the timer runs out.           *)
(*                                                                         *)
(* Votes, members and groups are handled on the world thread, the corpse   *)
(* and its loot on the thread of the map; the two never run at the same    *)
(* time (module MapBarrier), so a handler is one step.                     *)
(***************************************************************************)
EXTENDS Integers, FiniteSets, FiniteSetsExt, Sequences, SequencesExt

CONSTANTS
    Players,    \* the GUIDs, numbers: playerVote is ordered by them
    Items,      \* the items of the corpse that are rolled for
    QuestItems, \* those in Loot::quest_items, with follow_loot_rules
    QuestCounts,\* how often FillQuestLoot may count one of them: once, or once
                \* for every member under group loot, where it does not block it
    None,
    MaxVotes,   \* bound: the votes counted on two items together
    Unreliable, \* bound: the players whose connection may be lost
    Looters     \* bound: the players who take items from the loot window

ASSUME GroupLootAssumption ==
    /\ Players \subseteq Nat /\ IsFiniteSet(Players)
    /\ IsFiniteSet(Items) /\ QuestItems \subseteq Items
    /\ QuestCounts \subseteq Nat
    /\ None \notin Players
    /\ MaxVotes \in Nat
    /\ Unreliable \subseteq Players /\ Looters \subseteq Players

\* RollVote
PASS == "pass"
NEED == "need"
GREED == "greed"
DISENCHANT == "disenchant"
NOT_EMITED_YET == "not emitted yet"
NOT_VALID == "not valid"
RollType == {PASS, NEED, GREED, DISENCHANT}

VARIABLES
    online,   \* connected players
    group,    \* m_memberSlots, {} once the group is disbanded
    corpse,   \* "fresh", "looted at" once somebody opened it, "decayed", "despawned"
    attended, \* a player is near: Map::Update visits the cell of the corpse
    unlooted, \* Loot::unlootedCount, a uint8
    timer,    \* m_groupLootTimer # 0
    roll,     \* the Roll of each item in RollId, None if there is none
    blocked,  \* items with is_blocked
    looted,   \* items with is_looted
    got,      \* history: the players who were given each item, in order
    revoted   \* history: items on which a player voted twice

vars == <<online, group, corpse, attended, unlooted, timer, roll, blocked, looted, got, revoted>>

Votes == UNION {[V -> RollType \cup {NOT_EMITED_YET}] : V \in SUBSET Players}
Rolls == [vote : Votes, rolling : Nat, need : Nat, greed : Nat, pass : Nat]

ASSUME NoRollAssumption == None \notin Rolls

TypeOK ==
    /\ online \subseteq Players
    /\ group \subseteq Players
    /\ corpse \in {"fresh", "looted at", "decayed", "despawned"}
    /\ attended \in BOOLEAN
    /\ unlooted \in 0..255
    /\ timer \in BOOLEAN
    /\ roll \in [Items -> Rolls \cup {None}]
    /\ blocked \subseteq Items
    /\ looted \subseteq Items
    /\ got \in [Items -> Seq(Players)]
    /\ revoted \subseteq Items

Init ==
    /\ online = Players
    /\ group \in {g \in SUBSET Players : Cardinality(g) >= 2}
    /\ corpse = "fresh"
    /\ attended = TRUE
    /\ \E each \in QuestCounts :
         unlooted = (Cardinality(Items \ QuestItems) + each * Cardinality(QuestItems)) % 256
    /\ timer = FALSE
    /\ roll = [i \in Items |-> None]
    /\ blocked = {}
    /\ looted = {}
    /\ got = [i \in Items |-> <<>>]
    /\ revoted = {}

Rolling(i) == roll[i] # None
LootExists == corpse \in {"fresh", "looted at"}
Voted(votes, choices) == {p \in DOMAIN votes : votes[p] \in choices}

-----------------------------------------------------------------------------
(* Group::GroupLoot and Group::NeedBeforeGreed *)

\* The members near the corpse take part; those with "pass on loot" have
\* passed already, except on a quest item.
NewRoll(near, passing) ==
    [vote |-> [p \in near |-> IF p \in passing THEN PASS ELSE NOT_EMITED_YET],
     rolling |-> Cardinality(near), need |-> 0, greed |-> 0,
     pass |-> Cardinality(near \cap passing)]

\* Player::SendLoot: the first one to open the corpse starts the rolls, if
\* the corpse belongs to a group.
StartRolls ==
    /\ corpse = "fresh" /\ attended
    /\ corpse' = "looted at"
    /\ \E near \in SUBSET (group \cap online), passing \in SUBSET Players :
         /\ passing \subseteq near
         /\ LET items == IF near = {} THEN {} ELSE Items
            IN /\ roll' = [i \in Items |->
                    IF i \in items
                    THEN NewRoll(near, IF i \in QuestItems THEN {} ELSE passing)
                    ELSE None]
               /\ blocked' = items
               /\ timer' = (items # {})
    /\ UNCHANGED <<online, group, attended, unlooted, looted, got, revoted>>

-----------------------------------------------------------------------------
(* Group::CountTheRoll *)

\* Fault: a greed roll may beat a need roll.
AnyCandidate(r) == Voted(r.vote, {NEED, GREED, DISENCHANT})

Candidates(r) == IF r.need > 0 THEN Voted(r.vote, {NEED})
                               ELSE Voted(r.vote, {GREED, DISENCHANT})

\* The winner starts as the first of playerVote and is replaced by whoever
\* rolls highest; with no candidate he stays, and no vote won.
Winners(r) ==
    IF DOMAIN r.vote = {} THEN {}
    ELSE IF Candidates(r) = {}
         THEN {[player |-> Min(DOMAIN r.vote),
                with |-> IF r.need > 0 THEN NEED ELSE NOT_VALID]}
         ELSE {[player |-> p, with |-> r.vote[p]] : p \in Candidates(r)}

Stored(p) == [to |-> p, unblock |-> FALSE]     \* is_looted
Unblocked == [to |-> None, unblock |-> TRUE]   \* is_blocked = false
LeftBlocked == [to |-> None, unblock |-> FALSE]

\* A disenchanted item counts as given to its winner.
Awarded(w) ==
    IF w.player \notin online \/ w.with = NOT_VALID THEN {LeftBlocked}
    ELSE IF w.with = DISENCHANT THEN {Stored(w.player)}
                                ELSE {Stored(w.player), Unblocked}

\* Fault: an item everybody passed on stays blocked.
PassedKeepsBlock == {LeftBlocked}

AllPassed == {Unblocked}

CountTheRoll(r) ==
    IF r.need + r.greed = 0 THEN AllPassed
    ELSE IF Winners(r) = {} THEN {LeftBlocked}
    ELSE UNION {Awarded(w) : w \in Winners(r)}

\* The rolls of done (items with their final Roll) end with outcome.
\* RollId.erase: a roll whose loot is gone only disappears.
Finish(done, outcome) ==
    LET given == {i \in done : outcome[i].to # None}
    IN /\ roll' = [i \in Items |-> IF i \in done THEN None ELSE roll[i]]
       /\ blocked' = blocked \ {i \in done : outcome[i].unblock}
       /\ looted' = looted \cup given
       /\ unlooted' = (unlooted - Cardinality(given)) % 256
       /\ got' = [i \in Items |-> IF i \in given THEN Append(got[i], outcome[i].to)
                                                  ELSE got[i]]

Outcomes(r) == IF LootExists THEN CountTheRoll(r) ELSE {LeftBlocked}

-----------------------------------------------------------------------------
(* Group::CountRollVote *)

Counted(r, p, c) ==
    [vote |-> [r.vote EXCEPT ![p] = c],
     rolling |-> r.rolling,
     need |-> r.need + (IF c = NEED THEN 1 ELSE 0),
     greed |-> r.greed + (IF c \in {GREED, DISENCHANT} THEN 1 ELSE 0),
     pass |-> r.pass + (IF c = PASS THEN 1 ELSE 0)]

Total(r) == IF r = None THEN 0 ELSE r.pass + r.need + r.greed

\* Fault: the roll ends one vote too early.
AllButOneVoted(r) == Total(r) + 1 >= r.rolling

AllVoted(r) == Total(r) >= r.rolling

\* A player may vote any number of times, each vote is counted.  The bound
\* MaxVotes is not in the code.  A vote on loot without ordinary items is
\* dropped.
HandleLootRoll(p, i, c) ==
    /\ p \in group \cap online
    /\ Rolling(i) /\ p \in DOMAIN roll[i].vote
    /\ LootExists => Items # QuestItems   \* items.empty()
    /\ LET r == Counted(roll[i], p, c)
       IN /\ \A j \in Items \ {i} : Total(r) + Total(roll[j]) <= MaxVotes
          /\ IF AllVoted(r)
             THEN \E o \in Outcomes(r) : Finish({i}, [j \in {i} |-> o])
             ELSE /\ roll' = [roll EXCEPT ![i] = r]
                  /\ UNCHANGED <<blocked, looted, unlooted, got>>
    /\ revoted' = IF roll[i].vote[p] = NOT_EMITED_YET THEN revoted ELSE revoted \cup {i}
    /\ UNCHANGED <<online, group, corpse, attended, timer>>

-----------------------------------------------------------------------------
(* Membership *)

\* Fault: the number of voters goes down, the vote still counts.
WithoutVoter(r, p) ==
    IF r = None \/ p \notin DOMAIN r.vote THEN r
    ELSE [r EXCEPT !.vote = [q \in DOMAIN r.vote \ {p} |-> r.vote[q]],
                   !.rolling = @ - 1]

\* The vote of a player who leaves is taken back.  CountRollVote is called
\* afterwards, but no longer finds the player: the roll stays open although
\* all the others may have voted.
Without(r, p) ==
    IF r = None \/ p \notin DOMAIN r.vote THEN r
    ELSE LET v == r.vote[p]
         IN [vote |-> [q \in DOMAIN r.vote \ {p} |-> r.vote[q]],
             rolling |-> r.rolling - 1,
             need |-> r.need - (IF v = NEED THEN 1 ELSE 0),
             greed |-> r.greed - (IF v \in {GREED, DISENCHANT} THEN 1 ELSE 0),
             pass |-> r.pass - (IF v = PASS THEN 1 ELSE 0)]

\* RollId.clear(): nobody unblocks the items.
Disband ==
    /\ group' = {}
    /\ roll' = [i \in Items |-> None]

\* A group of two is disbanded, and one left with less than two connected
\* members.
RemoveMember(p) ==
    /\ p \in group
    /\ IF Cardinality(group) > 2 /\ Cardinality((group \ {p}) \cap online) >= 2
       THEN /\ group' = group \ {p}
            /\ roll' = [i \in Items |-> Without(roll[i], p)]
       ELSE Disband
    /\ UNCHANGED <<online, corpse, attended, unlooted, timer, blocked, looted, got, revoted>>

AddMember(p) ==
    /\ group # {} /\ p \in online \ group
    /\ group' = group \cup {p}
    /\ UNCHANGED <<online, corpse, attended, unlooted, timer, roll, blocked, looted, got, revoted>>

\* A lost connection keeps the player in the group.
Disconnect(p) ==
    /\ p \in online \cap Unreliable
    /\ online' = online \ {p}
    /\ UNCHANGED <<group, corpse, attended, unlooted, timer, roll, blocked, looted, got, revoted>>

Login(p) ==
    /\ p \in Players \ online
    /\ online' = online \cup {p}
    /\ UNCHANGED <<group, corpse, attended, unlooted, timer, roll, blocked, looted, got, revoted>>

-----------------------------------------------------------------------------
(* The corpse: Creature::Update, Player::StoreLootItem, DoLootRelease *)

\* Fault: the timer stands still while somebody who may vote is not connected.
TimerDueConnected ==
    /\ corpse = "looted at" /\ attended /\ timer
    /\ \A i \in Items : Rolling(i) => DOMAIN roll[i].vote \subseteq online

\* Creature::Update is not called while no player is near.
TimerDue == corpse = "looted at" /\ attended /\ timer

\* EndRoll: who has not voted passes.
GroupLootTimer ==
    /\ TimerDue
    /\ timer' = FALSE
    /\ LET open == {i \in Items : Rolling(i)}
       IN \E outcome \in [open -> UNION {Outcomes(roll[i]) : i \in open}] :
            /\ \A i \in open : outcome[i] \in Outcomes(roll[i])
            /\ Finish(open, outcome)
    /\ UNCHANGED <<online, group, corpse, attended, revoted>>

\* Fault: is_blocked is not looked at.
NotLooted(i) == i \notin looted

\* A quest item may be taken while it is being rolled for.
Lootable(i) == i \notin looted /\ (i \in QuestItems \/ i \notin blocked)

StoreLootItem(p, i) ==
    /\ corpse = "looted at" /\ attended /\ p \in online \cap Looters
    /\ Lootable(i)
    /\ looted' = looted \cup {i}
    /\ unlooted' = (unlooted - 1) % 256
    /\ got' = [got EXCEPT ![i] = Append(@, p)]
    /\ UNCHANGED <<online, group, corpse, attended, timer, roll, blocked, revoted>>

MayDecay == ~timer

RemoveCorpse ==
    /\ LootExists /\ attended /\ MayDecay
    /\ corpse' = "decayed"
    /\ UNCHANGED <<online, group, attended, unlooted, timer, roll, blocked, looted, got, revoted>>

\* The last item is gone by the count, and the window is closed: Loot::clear.
\* A quest item given twice is counted twice, and the count may reach zero
\* while another item is still rolled for.
ReleaseLooted ==
    /\ corpse = "looted at" /\ attended /\ unlooted = 0
    /\ corpse' = "decayed"
    /\ UNCHANGED <<online, group, attended, unlooted, timer, roll, blocked, looted, got, revoted>>

\* Scripts remove creatures whenever they like.
Despawn ==
    /\ LootExists
    /\ corpse' = "despawned"
    /\ UNCHANGED <<online, group, attended, unlooted, timer, roll, blocked, looted, got, revoted>>

\* The last player near the corpse walks away, or one comes back.
Wander ==
    /\ LootExists
    /\ attended' = ~attended
    /\ UNCHANGED <<online, group, corpse, unlooted, timer, roll, blocked, looted, got, revoted>>

-----------------------------------------------------------------------------
Next ==
    \/ StartRolls
    \/ GroupLootTimer
    \/ RemoveCorpse
    \/ ReleaseLooted
    \/ Despawn
    \/ Wander
    \/ \E p \in Players :
         \/ RemoveMember(p)
         \/ AddMember(p)
         \/ Disconnect(p)
         \/ Login(p)
         \/ \E i \in Items :
              \/ StoreLootItem(p, i)
              \/ \E c \in RollType : HandleLootRoll(p, i, c)

\* While a player is near, the map updates the corpse in every tick, and every
\* tick brings the timer closer to its end.
Fairness == WF_vars(GroupLootTimer)

Spec == Init /\ [][Next]_vars /\ Fairness

-----------------------------------------------------------------------------
(* Properties *)

\* No item is given to a second player, be it by the roll or from the loot
\* window: CountTheRoll does not look at is_looted, it relies on nobody having
\* taken the item while the roll was open.  That fails for a quest item, which
\* StoreLootItem gives out although it is blocked: it may be given once from
\* the window and once more by the roll, and never a third time.
AwardedOnce == \A i \in Items : Len(got[i]) <= IF i \in QuestItems THEN 2 ELSE 1

\* The totals of a roll are those of its votes, also after members left, as
\* long as nobody voted twice.  A roll that counts wrong never ends before
\* the timer, or ends while players are still choosing.  No variable leaves
\* its type.
TotalsMatchVotes ==
    TypeOK /\ \A i \in Items : Rolling(i) =>
        LET r == roll[i]
        IN /\ r.rolling = Cardinality(DOMAIN r.vote)
           /\ i \notin revoted =>
                /\ r.pass = Cardinality(Voted(r.vote, {PASS}))
                /\ r.need = Cardinality(Voted(r.vote, {NEED}))
                /\ r.greed = Cardinality(Voted(r.vote, {GREED, DISENCHANT}))

\* Nobody is cut off: before the timer runs out, a roll of a group that goes
\* on ends only with the vote of the last player who had not voted, unless
\* somebody voted twice.
NobodyCutOff ==
    [][\A i \in Items :
         Rolling(i) /\ roll'[i] = None /\ timer' = timer /\ group' # {} /\ i \notin revoted'
           => Cardinality(Voted(roll[i].vote, {NOT_EMITED_YET})) <= 1]_vars

\* Whoever passed never wins, and who chose greed or disenchant loses to
\* everybody who chose need, unless somebody voted twice: then the player
\* with the lowest GUID may win without a vote that counts.
NeedWins ==
    [][\A i \in Items \ revoted' :
         Rolling(i) /\ roll'[i] = None /\ got'[i] # got[i]
           => LET vote == roll[i].vote
                  winner == Last(got'[i])
              IN /\ vote[winner] # PASS
                 /\ Voted(vote, {NEED}) # {} => vote[winner] \in {NEED, NOT_EMITED_YET}]_vars

\* An item whose roll is over is given away or may be looted by all, unless
\* the group was disbanded or one of those rolling for it is not connected:
\* then it stays blocked until the corpse decays.
NotLeftBlocked ==
    [][\A i \in Items \ revoted' :
         Rolling(i) /\ roll'[i] = None /\ LootExists /\ group' # {}
           => \/ i \in looted' \/ i \notin blocked'
              \/ ~(DOMAIN roll[i].vote \subseteq online)]_vars

\* A roll ends, whatever the players do, if in the end one of them stays near
\* the corpse, unless the loot is gone before: a script takes the corpse away,
\* or a quest item given twice lets it be released early.  Then the roll stays
\* in RollId until somebody votes.
RollEnds ==
    <>[]attended => \A i \in Items : Rolling(i) ~> (~Rolling(i) \/ ~LootExists)
=============================================================================
