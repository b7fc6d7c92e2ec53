---------------------------- MODULE DungeonFinder ----------------------------
(***************************************************************************)
(* The dungeon finder: LFGMgr with its queue (LFGQueue), and the groups    *)
(* that its hooks (LFGScripts) keep it informed of.  A player or a group   *)
(* goes from the role check to the queue, to a proposal and to a dungeon,  *)
(* while members join, leave, log out or lose their connection.            *)
(*                                                                         *)
(* Handlers run on the world thread after UpdateFinish, so that they never *)
(* meet a search that is still running: a handler is one step, and so is a *)
(* tick.  Handlers call each other through the hooks; each operator below  *)
(* takes the state of the manager and returns the next one.                *)
(***************************************************************************)
EXTENDS Integers, FiniteSets, FiniteSetsExt, Folds

CONSTANTS
    Players,      \* GUIDs, numbers: maps are ordered by them
    Groups,       \* GUIDs of groups
    None,
    GroupSize,    \* MAXGROUPSIZE
    Unreliable,   \* bound: players who log out or lose the connection
    MaxProposals, \* bound: proposals at a time
    MaxJoins,     \* bound: requests to join
    MaxRaces      \* bound: kinds of race, and premades that are stuck, at a time

ASSUME DungeonFinderAssumption ==
    /\ Players \subseteq Nat /\ Groups \subseteq Nat /\ Players \cap Groups = {}
    /\ IsFiniteSet(Players) /\ IsFiniteSet(Groups)
    /\ None \notin Players \cup Groups
    /\ Unreliable \subseteq Players
    /\ GroupSize \in Nat /\ MaxProposals \in Nat /\ MaxJoins \in Nat /\ MaxRaces \in Nat

Ids == Players \cup Groups
Slots == 1 .. MaxProposals

\* LfgState
NONE == "none"
ROLECHECK == "rolecheck"
QUEUED == "queued"
PROPOSAL == "proposal"
DUNGEON == "dungeon"
FINISHED == "finished"
States == {NONE, ROLECHECK, QUEUED, PROPOSAL, DUNGEON, FINISHED}

VARIABLES
    joins,    \* requests to join, so far
    online,   \* connected players
    races,    \* history: what happened to whom while the finder was busy with him
    stuck,    \* history: premades that were taken out of the queue and are still QUEUED:
              \* by a request to join again that is then turned down, or because the
              \* search has found their data incompatible
    mgr       \* the stores of LFGMgr and LFGQueue, and the groups

vars == <<joins, online, races, stuck, mgr>>

\* What the handlers do not provide for:
\*   rejoined    somebody asks to join while he is in a proposal
\*   finished    the last boss dies while the group is queued for more players
\*   partied     somebody joins a group while one of them is in a proposal, or the
\*               group in a role check
\*   befriended  somebody is invited into a dungeon group, without a dungeon selected
\*   absent      somebody has agreed and is gone when the group is made
Races == {"rejoined", "finished", "partied", "befriended", "absent"}

RoleChecks == [asked : SUBSET Players, chosen : SUBSET Players]
QueueData == [players : SUBSET Players, lfg : BOOLEAN]
Answers == {"pending", "agree", "deny"}
Proposals ==
    [queues : SUBSET Ids, leader : Players, group : Groups \cup {None},
     accept : UNION {[P -> Answers] : P \in SUBSET Players},
     of : UNION {[P -> Groups \cup {None}] : P \in SUBSET Players}]

\* An entry that is there is not mistaken for one that is not.
ASSUME EntryAssumption == None \notin RoleChecks \cup QueueData \cup Proposals

Stores ==
    [group : [Players -> Groups \cup {None}],     \* Player::GetGroup, m_Group
     invite : [Players -> Players \cup {None}],   \* who asked for a new group
     leader : [Groups -> Players \cup {None}],    \* None: there is no such group
     born : SUBSET Groups,                        \* those that ever were
     lfg : SUBSET Groups,                         \* isLFGGroup
     state : [Ids -> States],                     \* m_State
     old : [Ids -> {NONE, DUNGEON, FINISHED}],    \* m_OldState
     selected : SUBSET Players,                   \* m_SelectedDungeons is not empty
     check : [Groups -> RoleChecks \cup {None}],  \* RoleChecksStore
     data : [Ids -> QueueData \cup {None}],       \* queueDataStore
     new : SUBSET Ids,                            \* newToQueue
     queue : SUBSET Ids,                          \* queue, allCombinations
     proposal : [Slots -> Proposals \cup {None}]] \* ProposalsStore

TypeOK ==
    /\ joins \in 0 .. MaxJoins
    /\ online \subseteq Players
    /\ races \subseteq Races
    /\ stuck \subseteq Ids
    /\ mgr \in Stores

Init ==
    /\ joins = 0
    /\ online = Players
    /\ races = {}
    /\ stuck = {}
    /\ mgr = [group |-> [p \in Players |-> None],
              invite |-> [p \in Players |-> None],
              leader |-> [g \in Groups |-> None],
              born |-> {},
              lfg |-> {},
              state |-> [i \in Ids |-> NONE],
              old |-> [i \in Ids |-> NONE],
              selected |-> {},
              check |-> [g \in Groups |-> None],
              data |-> [i \in Ids |-> None],
              new |-> {},
              queue |-> {},
              proposal |-> [n \in Slots |-> None]]

Members(s, g) == {p \in Players : s.group[p] = g}
Having(s, n) == DOMAIN s.proposal[n].accept

-----------------------------------------------------------------------------
(* LfgPlayerData and LfgGroupData.  The entry that operator[] makes of a group *)
(* which is gone is never read.                                               *)

Stored(s, ids) == {i \in ids : i \in Groups => s.leader[i] # None}

FaultClearsSelection(s, ids, st) ==
    [s EXCEPT
       !.state = [i \in Ids |-> IF i \in Stored(s, ids) THEN st ELSE @[i]],
       !.old = [i \in Ids |-> IF i \in Stored(s, ids) /\ st \in {NONE, DUNGEON, FINISHED}
                              THEN st ELSE @[i]],
       !.selected = IF st \in {NONE, DUNGEON, FINISHED} THEN @ \ ids ELSE @]
SetState(s, ids, st) ==
    [s EXCEPT
       !.state = [i \in Ids |-> IF i \in Stored(s, ids) THEN st ELSE @[i]],
       !.old = [i \in Ids |-> IF i \in Stored(s, ids) /\ st \in {NONE, DUNGEON, FINISHED}
                              THEN st ELSE @[i]],
       !.selected = IF st \in {NONE, FINISHED} THEN @ \ ids ELSE @]

RestoreState(s, ids) ==
    [s EXCEPT
       !.state = [i \in Ids |-> IF i \in Stored(s, ids) THEN s.old[i] ELSE @[i]],
       !.selected = @ \ {i \in ids : s.old[i] = NONE}]

-----------------------------------------------------------------------------
(* LFGQueue *)

AddNewToQueue(s, i, players, lfg) ==
    [s EXCEPT !.data = [@ EXCEPT ![i] = [players |-> players, lfg |-> lfg]],
              !.new = @ \cup {i},
              !.queue = @ \ {i}]

\* Every caller has looked for the data: the archive is never needed.
FaultAddOldToQueue(s, ids) == [s EXCEPT !.queue = @ \ ids]
AddOldToQueue(s, ids) == [s EXCEPT !.new = @ \cup ids, !.queue = @ \ ids]

RemoveFromSystem(s, ids) ==
    [s EXCEPT !.data = [i \in Ids |-> IF i \in ids THEN None ELSE @[i]],
              !.new = @ \ ids,
              !.queue = @ \ ids]

PlayersOf(s, ids) == UNION {s.data[i].players : i \in ids}

\* COMBINATION_COMPLETE, as far as numbers go
Complete(s, ids) ==
    /\ Cardinality(PlayersOf(s, ids)) = GroupSize
    /\ Cardinality({i \in ids : s.data[i].lfg}) <= 1

\* The group that queues from its dungeon answers nothing: it has agreed.
BuildProposal(s, ids, lead) ==
    LET ps == PlayersOf(s, ids)
        from == {i \in ids : s.data[i].lfg}
        grp == IF from = {} THEN None ELSE CHOOSE i \in from : TRUE
        continues == grp # None /\ s.old[grp] = DUNGEON
    IN [queues |-> ids, leader |-> lead, group |-> grp,
        accept |-> [p \in ps |-> IF continues /\ s.group[p] = grp THEN "agree"
                                                                 ELSE "pending"],
        of |-> [p \in ps |-> s.group[p]]]

FreeSlot(s) == {n \in Slots : s.proposal[n] = None}

\* The combined premades leave the queue: RemoveFromQueue, AddProposal
Propose(s, ids, lead) ==
    [s EXCEPT !.queue = @ \ ids,
              !.proposal = [@ EXCEPT ![Min(FreeSlot(s))] = BuildProposal(s, ids, lead)]]

\* An outcome of the search, and the premades that it has found incompatible
Outcome(t, unfit) == [s |-> t, unfit |-> unfit]

\* FindGroup of one premade.  Alone it is COMBINATION_INVALID (no roles that fit, or
\* every dungeon still delayed): then it is new no longer and does not wait either.
\* Otherwise it is complete alone, completes some of those that wait (whose roles and
\* dungeons fit or not), or waits.
FindGroup(s, i) ==
    LET rest == [s EXCEPT !.new = @ \ {i}]
        found == IF Complete(s, {i}) THEN {{i}}
                 ELSE {ids \in {J \cup {i} : J \in SUBSET s.queue} : Complete(s, ids)}
        waits == IF Complete(s, {i}) THEN {} ELSE {[rest EXCEPT !.queue = @ \cup {i}]}
        proposed == UNION {{Propose(rest, ids, lead) : lead \in PlayersOf(s, ids)} :
                             ids \in IF FreeSlot(s) = {} THEN {} ELSE found}
    IN {Outcome(rest, {i})} \cup {Outcome(t, {}) : t \in waits \cup proposed}

\* Those who wait and for whom a delayed dungeon has become open are new again; then a
\* single one is searched for.  UpdateStart has set _isUpdating by then, which the
\* assertion of AddOldToQueue denies: this is the release build, without assertions.
FindGroups(s) ==
    LET search(u) == IF u.new = {} THEN {Outcome(u, {})}
                     ELSE UNION {FindGroup(u, i) : i \in u.new}
    IN UNION {search(AddOldToQueue(s, J)) : J \in SUBSET s.queue}

-----------------------------------------------------------------------------
(* Role checks *)

\* Everything but LFG_ROLECHECK_FINISHED, for the groups C
FaultEndRoleChecks(s, C) ==
    LET open == {g \in C : s.check[g] # None}
    IN [RestoreState(s, UNION {s.check[g].asked : g \in open})
          EXCEPT !.check = [g \in Groups |-> IF g \in C THEN None ELSE @[g]]]
EndRoleChecks(s, C) ==
    LET open == {g \in C : s.check[g] # None}
    IN [RestoreState(s, open \cup UNION {s.check[g].asked : g \in open})
          EXCEPT !.check = [g \in Groups |-> IF g \in C THEN None ELSE @[g]]]

\* UpdateRoleCheck with a role
UpdateRoleCheck(s, g, p, fit) ==
    IF s.check[g] = None THEN s
    ELSE LET c == [asked |-> s.check[g].asked \cup {p},
                   chosen |-> s.check[g].chosen \cup {p}]
             t == [s EXCEPT !.check = [@ EXCEPT ![g] = c]]
         IN IF c.asked # c.chosen THEN t
            ELSE IF ~fit THEN EndRoleChecks(t, {g})
            ELSE [AddNewToQueue(SetState(t, c.asked \cup {g}, QUEUED),
                                g, c.asked, s.old[g] # NONE)
                    EXCEPT !.check = [@ EXCEPT ![g] = None]]

-----------------------------------------------------------------------------
(* Proposals *)

RemoveProposal(s, n, expired) ==
    LET r == s.proposal[n]
        ps == Having(s, n)
        unit(p) == IF r.of[p] = None THEN p ELSE r.of[p]
        refusing == {p \in ps : r.accept[p] = "deny" \/ (expired /\ r.accept[p] = "pending")}
        toRemove == {unit(p) : p \in refusing} \cup {i \in r.queues : s.data[i] = None}
        out == {p \in ps : unit(p) \in toRemove}
        t == RestoreState(s, out \cup {unit(p) : p \in out})
        u == SetState(t, (ps \ out) \cup {unit(p) : p \in ps \ out}, QUEUED)
    IN [AddOldToQueue(RemoveFromSystem(u, toRemove), r.queues \ toRemove)
          EXCEPT !.proposal = [@ EXCEPT ![n] = None]]

\* The answer of one player
Answer(s, n, p, answer) ==
    LET r == s.proposal[n]
        answered == [r EXCEPT !.accept = [r.accept EXCEPT ![p] = answer]]
    IN [s EXCEPT !.proposal = [@ EXCEPT ![n] = answered]]

\* Those that are out of time, in the order of ProposalsStore
RemoveProposals(s, N) ==
    MapThenFoldSet(LAMBDA n, u : RemoveProposal(u, n, TRUE), s, LAMBDA n : n,
                   LAMBDA M : Max(M), N)

Containing(s, p) == {n \in Slots : s.proposal[n] # None /\ p \in Having(s, n)}

LeaveLfg(s, guid) ==
    LET g == IF guid \in Groups THEN guid ELSE s.group[guid]
        p == IF guid \in Groups THEN s.leader[g] ELSE guid
    IN CASE s.state[guid] = QUEUED /\ g # None ->
              RestoreState(RemoveFromSystem(s, {g}), {g} \cup Members(s, g))
         [] s.state[guid] = QUEUED /\ g = None ->
              SetState(RemoveFromSystem(s, {guid}), {guid}, NONE)
         [] s.state[guid] = ROLECHECK -> IF g = None THEN s ELSE EndRoleChecks(s, {g})
         [] s.state[guid] = PROPOSAL ->
              IF Containing(s, p) = {} THEN s
              ELSE LET n == Min(Containing(s, p))
                   IN RemoveProposal(Answer(s, n, p, "deny"), n, FALSE)
         [] s.state[guid] \in {DUNGEON, FINISHED} ->
              IF guid \in Players THEN SetState(s, {guid}, NONE) ELSE s
         [] OTHER -> s

\* LeaveAllLfgQueues of a player and, unless g is None, of a group
LeaveAllLfgQueues(s, p, g) ==
    LET t == RemoveFromSystem(s, {p, g} \cap Ids)
    IN CASE g = None /\ s.state[p] = QUEUED -> SetState(t, {p}, NONE)
         [] g # None /\ s.state[g] = QUEUED -> SetState(t, {g} \cup Members(s, g), NONE)
         [] OTHER -> t

-----------------------------------------------------------------------------
(* Groups and the hooks of LFGScripts *)

FaultOnAddMember(s, g, p) ==
    LET lead == s.leader[g]
        t == IF p # lead /\ s.state[p] = QUEUED THEN LeaveLfg(s, p) ELSE s
        v == IF g \in s.lfg THEN t
             ELSE LeaveAllLfgQueues(LeaveAllLfgQueues(t, lead, g), p, None)
    IN [v EXCEPT !.group = [@ EXCEPT ![p] = g], !.invite = [@ EXCEPT ![p] = None]]
OnAddMember(s, g, p) ==
    LET lead == s.leader[g]
        t == IF p # lead /\ s.state[p] = QUEUED THEN LeaveLfg(s, p) ELSE s
        u == IF p # lead /\ s.state[g] = QUEUED THEN LeaveLfg(t, g) ELSE t
        v == IF g \in s.lfg THEN u
             ELSE LeaveAllLfgQueues(LeaveAllLfgQueues(u, lead, g), p, None)
    IN [v EXCEPT !.group = [@ EXCEPT ![p] = g], !.invite = [@ EXCEPT ![p] = None]]

OnRemoveMember(s, g, p, byDefault) ==
    LET left == IF s.state[g] = PROPOSAL /\ byDefault THEN s
                ELSE LeaveAllLfgQueues(LeaveLfg(s, p), p, g)
    IN [left EXCEPT !.group = [@ EXCEPT ![p] = None]]

\* OnDisband: RemoveGroupData.  Then the group is gone.
Disband(s, g) ==
    LET ps == Members(s, g)
        t == [s EXCEPT !.group = [p \in Players |-> IF p \in ps THEN None ELSE @[p]]]
        u == IF s.state[g] = PROPOSAL THEN t ELSE SetState(t, ps, NONE)
    IN [SetState(u, {g}, NONE) EXCEPT !.leader = [@ EXCEPT ![g] = None], !.lfg = @ \ {g}]

\* The places that the players P can have in the lists of their groups: they came in
\* any order.  Nobody else inherits a group.
Lists(P) ==
    LET orders == {f \in [P -> 1 .. Cardinality(P)] : \A p, q \in P : f[p] = f[q] => p = q}
    IN {[p \in Players |-> IF p \in P THEN f[p] ELSE 0] : f \in orders}
First(list, P) == CHOOSE p \in P : list[p] = Min({list[q] : q \in P})

\* Group::RemoveMember: the first connected member in the list is the new leader.
\* inside says whether the last one of a dungeon group is still in the dungeon.
RemoveMember(s, g, p, byDefault, inside, list) ==
    LET least == IF g \in s.lfg THEN 1 ELSE 2
        t == OnRemoveMember(s, g, p, byDefault)
        heirs == Members(t, g) \cap online
        u == IF s.leader[g] = p /\ heirs # {}
             THEN [t EXCEPT !.leader = [@ EXCEPT ![g] = First(list, heirs)]]
             ELSE t
        alone == g \in s.lfg /\ Cardinality(Members(s, g)) = 2
    IN IF \/ Cardinality(Members(s, g)) <= least
          \/ alone /\ ~(inside /\ u.leader[g] \in online)
          \/ Cardinality(heirs) < least
       THEN Disband(u, g) ELSE u

-----------------------------------------------------------------------------
(* MakeNewGroup *)

\* GUIDs are never used again.
Fresh(s) == Groups \ s.born

Create(s, g, p) == [s EXCEPT !.leader = [@ EXCEPT ![g] = p], !.born = @ \cup {g}]

Depart(s, p, grp, list) ==
    IF s.group[p] \in {None, grp} THEN s ELSE RemoveMember(s, s.group[p], p, TRUE, TRUE, list)

Start(s, g, p) ==
    OnAddMember(SetState([Create(s, g, p) EXCEPT !.lfg = @ \cup {g}], {g}, PROPOSAL), g, p)

Enter(s, grp, p) ==
    CASE grp = None -> [s |-> Start(s, Min(Fresh(s)), p), grp |-> Min(Fresh(s))]
      [] grp # None /\ s.group[p] = grp -> [s |-> s, grp |-> grp]
      [] OTHER -> [s |-> OnAddMember(s, grp, p), grp |-> grp]

\* Those who are not connected are left out.
Take(acc, p, list) ==
    IF p \notin online THEN acc ELSE Enter(Depart(acc.s, p, acc.grp, list), acc.grp, p)

\* The group that has queued from its dungeon, if it still exists
Continued(s, n) ==
    LET g == s.proposal[n].group
    IN IF g = None THEN None ELSE IF s.leader[g] = None THEN None ELSE g

\* The leader first, then one player after the other
Gather(s, n, list) ==
    LET first == Take([s |-> s, grp |-> Continued(s, n)], s.proposal[n].leader, list)
    IN MapThenFoldSet(LAMBDA p, acc : Take(acc, p, list), first, LAMBDA p : p,
                      LAMBDA P : Max(P), Having(s, n) \ {s.proposal[n].leader})

FaultMakeNewGroup(s, n, list) == Gather(s, n, list).s
MakeNewGroup(s, n, list) ==
    LET made == Gather(s, n, list) IN SetState(made.s, {made.grp}, DUNGEON)

UpdateProposal(s, n, p, accept, list) ==
    LET t == Answer(s, n, p, IF accept THEN "agree" ELSE "deny")
        r == t.proposal[n]
    IN IF ~accept THEN RemoveProposal(t, n, FALSE)
       ELSE IF \E q \in Having(s, n) : r.accept[q] # "agree" THEN t
       ELSE [MakeNewGroup(RemoveFromSystem(SetState(t, Having(s, n), DUNGEON), r.queues), n, list)
               EXCEPT !.proposal = [@ EXCEPT ![n] = None]]

-----------------------------------------------------------------------------
(* Handlers *)

Unit(p) == IF mgr.group[p] = None THEN p ELSE mgr.group[p]
Followers(g) == Members(mgr, g) \ {mgr.leader[g]}   \* those who may inherit it
Asking(p) == \E q \in Players : mgr.invite[q] = p
Answering == UNION {Having(mgr, n) : n \in {m \in Slots : mgr.proposal[m] # None}}

\* History only, with its bound
Room == Cardinality(races) + Cardinality(stuck) < MaxRaces
Mark(race, happens) ==
    /\ happens => race \in races \/ Room
    /\ races' = IF happens THEN races \cup {race} ELSE races
MarkStuck(ids) ==
    /\ ids \subseteq stuck \/ Room
    /\ stuck' = stuck \cup ids

\* Whoever is queued already is taken out first, even if then refused.
JoinLfg(p) ==
    LET g == mgr.group[p]
        i == Unit(p)
        ps == IF g = None THEN {p} ELSE Members(mgr, g)
        continues == g \in mgr.lfg /\ mgr.state[g] = DUNGEON
        out == IF mgr.state[i] = QUEUED THEN RemoveFromSystem(mgr, {i}) ELSE mgr
        chosen == [out EXCEPT !.selected = IF continues THEN @ ELSE @ \cup ps]
        check == [SetState(chosen, {g} \cup ps, ROLECHECK)
                    EXCEPT !.check = [@ EXCEPT ![g] = [asked |-> ps, chosen |-> {}]]]
    IN /\ p \in online
       /\ joins < MaxJoins /\ joins' = joins + 1
       /\ g # None /\ mgr.leader[g] # p =>
            g \in mgr.lfg /\ Cardinality(ps) # GroupSize
       /\ \/ /\ mgr' = out
             /\ MarkStuck(IF mgr.state[i] = QUEUED THEN {i} ELSE {})
             /\ UNCHANGED races
          \/ /\ g = None
             /\ stuck' = stuck \ {i}
             /\ mgr' = SetState(AddNewToQueue(chosen, p, {p}, FALSE), {p}, QUEUED)
             /\ Mark("rejoined", p \in Answering)
          \/ /\ g # None /\ ps \subseteq online
             /\ stuck' = stuck \ {i}
             /\ Mark("rejoined", ps \cap Answering # {})
             /\ Cardinality(ps) <= GroupSize
             /\ continues => Cardinality(ps) # GroupSize
             /\ \/ mgr' = EndRoleChecks(check, {g})
                \/ \E fit \in BOOLEAN : mgr' = UpdateRoleCheck(check, g, p, fit)
       /\ UNCHANGED online

HandleLfgSetRoles(p) ==
    LET g == mgr.group[p]
    IN /\ p \in online /\ g # None
       /\ \/ mgr' = EndRoleChecks(mgr, {g})
          \/ \E fit \in BOOLEAN : mgr' = UpdateRoleCheck(mgr, g, p, fit)
       /\ UNCHANGED <<joins, online, races, stuck>>

HandleLfgLeave(p) ==
    LET g == mgr.group[p]
    IN /\ p \in online
       /\ g # None => mgr.leader[g] = p \/ g \in mgr.lfg
       /\ mgr' = LeaveAllLfgQueues(LeaveLfg(mgr, Unit(p)), p, g)
       /\ UNCHANGED <<joins, online, races, stuck>>

HandleLfgProposalResult(p, n) ==
    /\ p \in online
    /\ mgr.proposal[n] # None /\ p \in Having(mgr, n)
    /\ \E accept \in BOOLEAN, list \in Lists(UNION {Followers(g) : g \in Groups}) :
         /\ accept /\ Continued(mgr, n) = None => Fresh(mgr) # {}
         /\ mgr' = UpdateProposal(mgr, n, p, accept, list)
         /\ Mark("absent", /\ accept /\ mgr'.proposal[n] = None
                           /\ ~(Having(mgr, n) \subseteq online))
    /\ UNCHANGED <<joins, online, stuck>>

\* The first invitation takes the one who asks out of the dungeon finder.
HandleGroupInvite(p, q) ==
    /\ {p, q} \subseteq online /\ p # q
    /\ \A r \in {p, q} : mgr.group[r] = None /\ mgr.invite[r] = None
    /\ ~Asking(q)
    /\ mgr' = [LeaveAllLfgQueues(LeaveLfg(mgr, p), p, None)
                EXCEPT !.invite = [@ EXCEPT ![q] = p]]
    /\ UNCHANGED <<joins, online, races, stuck>>

HandleGroupDecline(p) ==
    /\ p \in online /\ mgr.invite[p] # None
    /\ mgr' = [mgr EXCEPT !.invite = [@ EXCEPT ![p] = None]]
    /\ UNCHANGED <<joins, online, races, stuck>>

\* The group that the one who asks is to lead ...
AcceptFirst(p) ==
    LET q == mgr.invite[p]
        g == Min(Fresh(mgr))
    IN /\ q # None /\ mgr.group[q] = None /\ Fresh(mgr) # {}
       /\ mgr' = OnAddMember(OnAddMember(Create(mgr, g, q), g, q), g, p)
       /\ Mark("partied", {p, q} \cap Answering # {})

\* ... or one that exists and is not full
AcceptNext(p, g) ==
    LET busy == p \in Answering \/ mgr.state[g] \in {ROLECHECK, PROPOSAL}
    IN /\ mgr.invite[p] = None /\ ~Asking(p)
       /\ mgr.leader[g] # None /\ Cardinality(Members(mgr, g)) < GroupSize
       /\ mgr' = OnAddMember(mgr, g, p)
       /\ Mark(IF busy THEN "partied" ELSE "befriended", busy \/ g \in mgr.lfg)

HandleGroupAccept(p) ==
    /\ p \in online /\ mgr.group[p] = None
    /\ AcceptFirst(p) \/ \E g \in Groups : AcceptNext(p, g)
    /\ UNCHANGED <<joins, online, stuck>>

\* Leaving, being kicked or voted out by somebody who is there
HandleGroupDisband(p) ==
    /\ mgr.group[p] # None
    /\ Members(mgr, mgr.group[p]) \cap online # {}
    /\ \E inside \in BOOLEAN, list \in Lists(Followers(mgr.group[p]) \ {p}) :
         mgr' = RemoveMember(mgr, mgr.group[p], p, FALSE, inside, list)
    /\ UNCHANGED <<joins, online, races, stuck>>

\* Only a player who asks for it leaves the group when he logs out.
LogoutPlayer(p) ==
    LET out(s) == IF s.group[p] # None THEN s
                  ELSE LeaveAllLfgQueues(LeaveLfg(s, p), p, None)
        uninvited(s) == [s EXCEPT !.invite = [q \in Players |->
                                                IF q = p \/ @[q] = p THEN None ELSE @[q]]]
    IN /\ p \in online \cap Unreliable
       /\ online' = online \ {p} /\ UNCHANGED <<joins, races, stuck>>
       /\ \/ mgr' = out(uninvited(mgr))
          \/ /\ mgr.group[p] # None
             /\ \E inside \in BOOLEAN, list \in Lists(Followers(mgr.group[p]) \ {p}) :
                  mgr' = out(uninvited(RemoveMember(mgr, mgr.group[p], p, TRUE, inside, list)))

Login(p) ==
    /\ p \notin online
    /\ online' = online \cup {p}
    /\ UNCHANGED <<joins, races, stuck, mgr>>

\* The last one of a group goes somewhere else.
OnMapChanged(p) ==
    LET g == mgr.group[p]
    IN /\ p \in online /\ g # None /\ Cardinality(Members(mgr, g)) = 1
       /\ mgr' = Disband(LeaveLfg(mgr, g), g)
       /\ UNCHANGED <<joins, online, races, stuck>>

FinishDungeon(g) ==
    /\ mgr.leader[g] # None
    /\ mgr.old[g] = DUNGEON
    /\ mgr' = SetState(mgr, {g} \cup Members(mgr, g), FINISHED)
    /\ Mark("finished", mgr.state[g] # DUNGEON)
    /\ UNCHANGED <<joins, online, stuck>>

-----------------------------------------------------------------------------
(* UpdateStart, UpdateQueues and UpdateFinish *)

\* Only what the search has just found
SendProposal(s, found) ==
    LET ps == UNION {Having(s, n) : n \in found}
    IN SetState(s, ps \cup ({s.group[p] : p \in ps} \ {None}), PROPOSAL)

\* The search, then the role checks and the proposals that are out of time,
\* then the proposal that was found
Update ==
    \E f \in FindGroups(mgr) :
      \E C \in SUBSET {g \in Groups : f.s.check[g] # None},
         N \in SUBSET {n \in Slots : mgr.proposal[n] # None} :
        LET expired == RemoveProposals(EndRoleChecks(f.s, C), N)
        IN /\ mgr' = SendProposal(expired, {n \in Slots : f.s.proposal[n] # mgr.proposal[n]})
           /\ MarkStuck(f.unfit)
           /\ UNCHANGED <<joins, online, races>>

Next ==
    \/ \E p \in Players :
         \/ JoinLfg(p) \/ HandleLfgSetRoles(p) \/ HandleLfgLeave(p)
         \/ \E n \in Slots : HandleLfgProposalResult(p, n)
         \/ \E q \in Players : HandleGroupInvite(p, q)
         \/ HandleGroupDecline(p) \/ HandleGroupAccept(p) \/ HandleGroupDisband(p)
         \/ LogoutPlayer(p) \/ Login(p) \/ OnMapChanged(p)
    \/ \E g \in Groups : FinishDungeon(g)
    \/ Update

Spec == Init /\ [][Next]_vars

-----------------------------------------------------------------------------
(* Properties *)

Waiting == mgr.new \cup mgr.queue
Proposed == {n \in Slots : mgr.proposal[n] # None}
Premade(i) == IF i \in Players THEN Unit(i) ELSE i

After(R) == races \cap R # {}

\* After these the stores disagree for good.
Derailing == {"rejoined", "finished", "partied"}

\* Whoever is told that he is queued is searched for or proposed to somebody: nobody
\* is "stuck in queue forever" (LFGQueue.cpp, AddOldToQueue), whatever members, parties,
\* refusals and timeouts do.  The exception is the premade that has been taken out since it
\* last joined: JoinLfg has turned its second request down, or FindGroup has found its data
\* incompatible.  What happened to it changes nothing for the others.  No variable leaves
\* its type.
QueuedIsSearched ==
    TypeOK /\ \A i \in Ids : mgr.state[i] = QUEUED =>
        \/ Premade(i) \in Waiting \/ \E n \in Proposed : Premade(i) \in mgr.proposal[n].queues
        \/ Premade(i) \in stuck
        \/ After(Derailing)

\* Nobody, and no group, stays in the state of a proposal that is over.  The exception is
\* a party whose members had all agreed and were gone when MakeNewGroup looked for them.
ProposedIsAsked ==
    \A i \in Ids : mgr.state[i] = PROPOSAL =>
        \/ \E n \in Proposed : i \in Having(mgr, n) \cup mgr.proposal[n].queues
        \/ After(Derailing \cup {"absent"})

\* Who is in the state of a role check is in a group for which one is open, so that the
\* timeout of UpdateFinish or the next answer gets him out of it.
RoleCheckIsOpen ==
    \A i \in Ids : mgr.state[i] = ROLECHECK =>
        \/ Premade(i) \in Groups /\ mgr.check[Premade(i)] # None
        \/ After(Derailing)

\* What waits in the queue is QUEUED and has exactly the members that the group has now:
\* whoever joins, leaves or logs out takes the group out of the queue (OnAddMember,
\* OnRemoveMember), so that no proposal is made of members who have gone.  None of them
\* answers a proposal at the same time: FindGroup takes those it has combined out of the
\* queue and RemoveProposal puts them back, once.
QueueMatchesGroups ==
    \/ After(Derailing)
    \/ \A i \in Waiting : /\ mgr.state[i] = QUEUED
                         /\ mgr.data[i].players = {p \in Players : Unit(p) = i}
                         /\ mgr.data[i].players \cap Answering = {}

\* UpdateProposal reads *GetSelectedDungeons(pguid).begin() of everybody who has agreed:
\* until then nothing has cleared what he selected.  The exception is the friend who
\* was invited into a dungeon group that then queues for more.
DungeonsStillSelected ==
    \/ After(Derailing \cup {"befriended"})
    \/ Answering \subseteq mgr.selected

=============================================================================
