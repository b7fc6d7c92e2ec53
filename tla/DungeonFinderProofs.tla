------------------------ MODULE DungeonFinderProofs ------------------------
(***************************************************************************)
(* The dungeon finder for any number of players, groups, proposals and     *)
(* requests to join.                                                       *)
(*                                                                         *)
(* Inv says how the stores of LFGMgr and LFGQueue fit together between two *)
(* handlers.  A premade is a player without a group or a group; its state, *)
(* that of its members, the queue, the role checks and the proposals say   *)
(* the same about it.  Inv has three parameters: F, the proposals that are *)
(* found and not yet sent (nobody but Update sees them); R, the races that *)
(* have happened, as the last two parts of Inv hold only until the race    *)
(* that breaks them; and D, the premades that are stuck, which are QUEUED  *)
(* and not in the queue.  The races of Derailing break the rest.           *)
(*                                                                         *)
(* A handler is a chain of calls that each change a few stores.  The proof *)
(* has three layers: what each call does to the stores (the lemmas called  *)
(* ...Effect), five shapes of change under which Inv is kept whatever      *)
(* produced them (Moved, Left, Joins, Engaged, Making), and for every      *)
(* handler that it is a chain of such changes (the lemmas called ...Keeps).*)
(***************************************************************************)
EXTENDS DungeonFinder, FiniteSums

\* The states in which the finder still has something to do
Busy == {ROLECHECK, QUEUED, PROPOSAL}
\* The premade to which a player, or a group, belongs
Head(s, i) == IF i \in Groups THEN i ELSE IF s.group[i] = None THEN i ELSE s.group[i]
\* The players of a premade
Crew(s, i) == {p \in Players : Head(s, p) = i}
\* What waits: LFGQueue::newToQueue and currentQueue
InQueue(s) == s.new \cup s.queue
\* The proposals of ProposalsStore
Open(s) == {n \in Slots : s.proposal[n] # None}
\* The premades that FindGroup has combined in a proposal
Combined(s, n) == s.proposal[n].queues

\* The stores have their types, nothing is in the queue twice, everything in the
\* queue has its data, and only a group continues a dungeon.
Typed(s) == /\ s \in Stores
            /\ s.new \cap s.queue = {}
            /\ \A i \in InQueue(s) : s.data[i] # None
            /\ \A p \in Players : s.data[p] # None => s.data[p].lfg = FALSE

\* A group with members has a leader who is one of them; a group without is in no
\* state.  Only a group of the finder (isLFGGroup) has a state to be restored.
Formed(s) ==
    /\ \A p \in Players : s.group[p] # None => s.leader[s.group[p]] # None
    /\ \A g \in Groups : s.leader[g] # None => g \in s.born /\ s.group[s.leader[g]] = g
    /\ \A g \in Groups : s.leader[g] = None =>
         g \notin s.lfg /\ s.state[g] = NONE /\ s.check[g] = None
    /\ \A g \in Groups : s.old[g] # NONE => g \in s.lfg

\* Whoever is not busy is in the state that RestoreState would bring back.
Resting(s) == \A i \in Ids : s.state[i] \notin Busy => s.old[i] = s.state[i]

\* The members of a group are in its state.
Agreeing(s) ==
    \A p \in Players :
      /\ s.state[p] \in Busy => s.state[Head(s, p)] = s.state[p]
      /\ s.state[Head(s, p)] \in {ROLECHECK, QUEUED} => s.state[p] = s.state[Head(s, p)]

\* A group is in the state of a role check if and only if one is open, and
\* everybody in the group is asked.
Checking(s) ==
    /\ \A p \in Players : s.state[p] = ROLECHECK => s.group[p] # None
    /\ \A g \in Groups : s.state[g] = ROLECHECK <=> s.check[g] # None
    /\ \A g \in Groups : s.check[g] # None => s.check[g].asked = Members(s, g)

\* The queue data of a premade have the players that it has now, and they continue
\* a dungeon only if the group is one of the finder.
Placed(s, i) ==
    /\ s.data[i] # None /\ Head(s, i) = i /\ s.data[i].players = Crew(s, i)
    /\ s.data[i].lfg => i \in s.lfg

\* What waits in the queue is QUEUED.
Queueing(s) == \A i \in InQueue(s) : s.state[i] = QUEUED /\ Placed(s, i)

\* What a proposal says of the premades in it is still so: they are in the state of
\* the proposal (or QUEUED as long as it is not sent), they are in no other
\* proposal and not in the queue, and the players who are asked are exactly their
\* members.
Proposing(s, F) ==
    \A n \in Open(s) :
      /\ \A i \in Combined(s, n) :
           /\ s.state[i] = (IF n \in F THEN QUEUED ELSE PROPOSAL)
           /\ Placed(s, i) /\ i \notin InQueue(s)
           /\ \A p \in Crew(s, i) : s.state[p] = s.state[i] /\ p \in Having(s, n)
           /\ \A m \in Open(s) : i \in Combined(s, m) => m = n
      /\ \A p \in Having(s, n) : Head(s, p) \in Combined(s, n)
                                   /\ s.proposal[n].of[p] = s.group[p]
      /\ s.proposal[n].leader \in Having(s, n)
      /\ s.proposal[n].group # None => s.proposal[n].group \in Combined(s, n) \cap s.lfg

\* Whoever is in the state of a proposal is asked in one.
Answered(s) ==
    \A p \in Players : s.state[p] = PROPOSAL => \E n \in Open(s) : p \in Having(s, n)

\* Whatever is QUEUED is searched for, except the premades D that are stuck.
Searched(s, F, D) ==
    \A i \in Ids : s.state[i] = QUEUED /\ Head(s, i) = i =>
      i \in InQueue(s) \/ i \in D \/ \E n \in Open(s) \cap F : i \in Combined(s, n)

\* No group is left over in the state of a proposal.  A member who has agreed and
\* is gone when the group is made breaks this.
Asked(s) ==
    \A g \in Groups : s.state[g] = PROPOSAL => \E n \in Open(s) : g \in Combined(s, n)

\* Everybody who is to enter a dungeon has one selected.  A friend who is invited
\* into a dungeon group breaks this.
Chosen(s) ==
    /\ \A p \in Players :
         \/ s.state[Head(s, p)] \in {ROLECHECK, QUEUED}
         \/ \E n \in Open(s) : p \in Having(s, n)
         \/ s.old[p] = DUNGEON
         => p \in s.selected
    /\ \A p \in Players : s.group[p] # None =>
         (s.old[s.group[p]] = DUNGEON => s.old[p] = DUNGEON)

\* The invariant of the stores between two calls
Inv(s, F, R, D) ==
    /\ Formed(s) /\ Resting(s) /\ Agreeing(s) /\ Checking(s)
    /\ Queueing(s) /\ Proposing(s, F) /\ Answered(s)
    /\ Searched(s, F, D)
    /\ "absent" \notin R => Asked(s)
    /\ "befriended" \notin R => Chosen(s)

USE DEF NONE, ROLECHECK, QUEUED, PROPOSAL, DUNGEON, FINISHED

-----------------------------------------------------------------------------
\* The stores that a step leaves alone, in four parts: the groups
SameParty(s, t) ==
    t.group = s.group /\ t.leader = s.leader /\ t.lfg = s.lfg /\ t.born = s.born
\* the queue and its data,
SameQueue(s, t) == t.data = s.data /\ t.new = s.new /\ t.queue = s.queue
\* the states and the selected dungeons,
SameState(s, t) == t.state = s.state /\ t.old = s.old /\ t.selected = s.selected
\* the role checks and the proposals
SameRest(s, t) == t.check = s.check /\ t.proposal = s.proposal

\* SetState writes the state of those who have an entry; NONE and FINISHED clear
\* the selection.
LEMMA SetStateEffect ==
    ASSUME NEW s \in Stores, NEW ids, NEW st \in States
    PROVE  LET t == SetState(s, ids, st) IN
           /\ t \in Stores
           /\ SameParty(s, t) /\ SameQueue(s, t) /\ SameRest(s, t)
           /\ \A i \in Ids : t.state[i] = IF i \in Stored(s, ids) THEN st ELSE s.state[i]
           /\ \A i \in Ids : t.old[i] = IF i \in Stored(s, ids) /\ st \notin Busy
                                        THEN st ELSE s.old[i]
           /\ t.selected = IF st \in {NONE, FINISHED} THEN s.selected \ ids ELSE s.selected
BY DEF SetState, Stores, States, Busy, SameParty, SameQueue, SameRest

\* RestoreState brings back oldState, and clears the selection when that is NONE.
LEMMA RestoreStateEffect ==
    ASSUME NEW s \in Stores, NEW ids
    PROVE  LET t == RestoreState(s, ids) IN
           /\ t \in Stores
           /\ SameParty(s, t) /\ SameQueue(s, t) /\ SameRest(s, t)
           /\ t.old = s.old
           /\ \A i \in Ids : t.state[i] = IF i \in Stored(s, ids) THEN s.old[i] ELSE s.state[i]
           /\ t.selected = s.selected \ {i \in ids : s.old[i] = NONE}
BY DEF RestoreState, Stores, States, SameParty, SameQueue, SameRest

\* RemoveFromSystem takes the entries and their data out of the queue.
LEMMA RemoveFromSystemEffect ==
    ASSUME NEW s \in Stores, NEW ids
    PROVE  LET t == RemoveFromSystem(s, ids) IN
           /\ t \in Stores
           /\ SameParty(s, t) /\ SameState(s, t) /\ SameRest(s, t)
           /\ \A i \in Ids : t.data[i] = IF i \in ids THEN None ELSE s.data[i]
           /\ t.new = s.new \ ids /\ t.queue = s.queue \ ids
BY DEF RemoveFromSystem, Stores, SameParty, SameState, SameRest

\* AddOldToQueue makes the entries new ones again and keeps their data.
LEMMA AddOldToQueueEffect ==
    ASSUME NEW s \in Stores, NEW ids \in SUBSET Ids
    PROVE  LET t == AddOldToQueue(s, ids) IN
           /\ t \in Stores
           /\ SameParty(s, t) /\ SameState(s, t) /\ SameRest(s, t)
           /\ t.data = s.data
           /\ t.new = s.new \cup ids /\ t.queue = s.queue \ ids
BY DEF AddOldToQueue, Stores, SameParty, SameState, SameRest

\* The data of a queue entry
Datum(P, lfg) == [players |-> P, lfg |-> lfg]

\* The data of a queue entry have their type and are there.
LEMMA DatumFacts ==
    ASSUME NEW P \in SUBSET Players, NEW lfg \in BOOLEAN
    PROVE  Datum(P, lfg) \in QueueData /\ Datum(P, lfg).players = P /\ Datum(P, lfg).lfg = lfg
           /\ Datum(P, lfg) # None
<1>1. Datum(P, lfg) \in QueueData
  BY DEF Datum, QueueData
<1>2. Datum(P, lfg).players = P /\ Datum(P, lfg).lfg = lfg
  BY DEF Datum
<1> QED BY <1>1, <1>2, EntryAssumption

\* What AddToQueue does, with the data as a parameter
Added(s, i, d) == [s EXCEPT !.data = [@ EXCEPT ![i] = d], !.new = @ \cup {i}, !.queue = @ \ {i}]

\* AddToQueue adds one entry with its data and changes nothing else.
LEMMA AddedEffect ==
    ASSUME NEW s \in Stores, NEW i \in Ids, NEW d \in QueueData
    PROVE  LET t == Added(s, i, d) IN
           /\ t \in Stores
           /\ SameParty(s, t) /\ SameState(s, t) /\ SameRest(s, t)
           /\ \A j \in Ids : t.data[j] = IF j = i THEN d ELSE s.data[j]
           /\ t.new = s.new \cup {i} /\ t.queue = s.queue \ {i}
BY DEF Added, Stores, SameParty, SameState, SameRest

\* The end of role checks restores the groups and everybody who was asked.
LEMMA EndRoleChecksEffect ==
    ASSUME NEW s \in Stores, NEW C
    PROVE  LET t == EndRoleChecks(s, C)
               open == {g \in C : s.check[g] # None}
               ids == open \cup UNION {s.check[g].asked : g \in open}
           IN
           /\ t \in Stores
           /\ SameParty(s, t) /\ SameQueue(s, t)
           /\ t.proposal = s.proposal
           /\ \A g \in Groups : t.check[g] = IF g \in C THEN None ELSE s.check[g]
           /\ t.old = s.old
           /\ \A i \in Ids : t.state[i] = IF i \in Stored(s, ids) THEN s.old[i] ELSE s.state[i]
           /\ t.selected = s.selected \ {i \in ids : s.old[i] = NONE}
<1> DEFINE open == {g \in C : s.check[g] # None}
           ids == open \cup UNION {s.check[g].asked : g \in open}
           u == RestoreState(s, ids)
<1>1. EndRoleChecks(s, C) = [u EXCEPT !.check = [g \in Groups |-> IF g \in C THEN None ELSE @[g]]]
  BY DEF EndRoleChecks
<1> HIDE DEF ids
<1>2. /\ u \in Stores
      /\ SameParty(s, u) /\ SameQueue(s, u) /\ SameRest(s, u)
      /\ u.old = s.old
      /\ \A i \in Ids : u.state[i] = IF i \in Stored(s, ids) THEN s.old[i] ELSE s.state[i]
      /\ u.selected = s.selected \ {i \in ids : s.old[i] = NONE}
  BY RestoreStateEffect
<1> HIDE DEF u
<1> DEFINE t == [u EXCEPT !.check = [g \in Groups |-> IF g \in C THEN None ELSE @[g]]]
<1>3. /\ t \in Stores
      /\ SameParty(s, t) /\ SameQueue(s, t)
      /\ t.proposal = s.proposal
      /\ \A g \in Groups : t.check[g] = IF g \in C THEN None ELSE s.check[g]
      /\ t.old = s.old
      /\ t.state = u.state
      /\ t.selected = u.selected
  BY <1>2 DEF Stores, SameParty, SameQueue, SameRest
<1> HIDE DEF t
<1>4. EndRoleChecks(s, C) = t
  BY <1>1 DEF t
<1> HIDE DEF open
<1>5. /\ t \in Stores
      /\ SameParty(s, t) /\ SameQueue(s, t)
      /\ t.proposal = s.proposal
      /\ \A g \in Groups : t.check[g] = IF g \in C THEN None ELSE s.check[g]
      /\ t.old = s.old
      /\ \A i \in Ids : t.state[i] = IF i \in Stored(s, ids) THEN s.old[i] ELSE s.state[i]
      /\ t.selected = s.selected \ {i \in ids : s.old[i] = NONE}
  BY <1>2, <1>3
<1> QED BY <1>4, <1>5 DEF ids, open

\* t is s with the answer a of p to proposal n.
AnswerTo(s, t, n, p, a) ==
    /\ SameParty(s, t) /\ SameQueue(s, t) /\ SameState(s, t)
    /\ t.check = s.check
    /\ \A m \in Slots : m # n => t.proposal[m] = s.proposal[m]
    /\ t.proposal[n] # None /\ t.proposal[n].queues = s.proposal[n].queues
    /\ t.proposal[n].of = s.proposal[n].of
    /\ t.proposal[n].leader = s.proposal[n].leader
    /\ t.proposal[n].group = s.proposal[n].group
    /\ Having(t, n) = Having(s, n)
    /\ t.proposal[n].accept = [s.proposal[n].accept EXCEPT ![p] = a]

\* Answer writes the answer and nothing else.
LEMMA AnswerEffect ==
    ASSUME NEW s \in Stores, NEW n \in Open(s), NEW p \in Having(s, n), NEW a \in Answers
    PROVE  Answer(s, n, p, a) \in Stores /\ AnswerTo(s, Answer(s, n, p, a), n, p, a)
<1> DEFINE r == s.proposal[n]
           f == [r.accept EXCEPT ![p] = a]
           q == [r EXCEPT !.accept = f]
           t == Answer(s, n, p, a)
<1>1. r \in Proposals
  BY DEF Stores, Open
<1>2. PICK P \in SUBSET Players : r.accept \in [P -> Answers]
  BY <1>1 DEF Proposals
<1>3. f \in [P -> Answers] /\ DOMAIN f = DOMAIN r.accept
  BY <1>2
<1> HIDE DEF f
<1>4. /\ q \in Proposals
      /\ q.queues = r.queues /\ q.of = r.of /\ q.leader = r.leader /\ q.group = r.group
      /\ q.accept = f
  BY <1>1, <1>3 DEF Proposals
<1>5. q # None
  BY <1>4, EntryAssumption
<1>6. t = [s EXCEPT !.proposal = [@ EXCEPT ![n] = q]]
  BY DEF Answer, f
<1> HIDE DEF q, r, t
<1>7. n \in Slots /\ q \in Proposals \cup {None}
  BY <1>4 DEF Open
<1>8. /\ t \in Stores
      /\ SameParty(s, t) /\ SameQueue(s, t) /\ SameState(s, t)
      /\ t.check = s.check
      /\ \A m \in Slots : m # n => t.proposal[m] = s.proposal[m]
      /\ t.proposal[n] = q
  BY <1>6, <1>7 DEF Stores, SameParty, SameQueue, SameState
<1>9. AnswerTo(s, t, n, p, a)
  BY <1>3, <1>4, <1>5, <1>8 DEF AnswerTo, r, f, Having
<1> QED BY <1>8, <1>9 DEF t

\* The premade of a player as the proposal recorded it
UnitIn(s, n, p) == IF s.proposal[n].of[p] = None THEN p ELSE s.proposal[n].of[p]
\* The premades of some of the players of a proposal
Units(s, n, P) == {UnitIn(s, n, p) : p \in P}
\* Those who have refused, or have not answered in time
Refusing(s, n, expired) ==
    {p \in Having(s, n) : \/ s.proposal[n].accept[p] = "deny"
                          \/ expired /\ s.proposal[n].accept[p] = "pending"}
\* The premades that RemoveProposal takes out of the finder: those of whoever has
\* refused, and those without data
ToRemove(s, n, expired) ==
    Units(s, n, Refusing(s, n, expired)) \cup {i \in s.proposal[n].queues : s.data[i] = None}
\* The players of these premades
OutOf(s, n, expired) == {p \in Having(s, n) : UnitIn(s, n, p) \in ToRemove(s, n, expired)}

\* t is s without proposal n: the premades of ToRemove are restored and out of the
\* queue, the others are QUEUED and new in the queue.
RemovalOf(s, t, n, expired) ==
    LET gone == ToRemove(s, n, expired)
        out == OutOf(s, n, expired) \cup Units(s, n, OutOf(s, n, expired))
        rest == Having(s, n) \ OutOf(s, n, expired)
        back == rest \cup Units(s, n, rest)
    IN /\ SameParty(s, t)
       /\ t.check = s.check
       /\ t.proposal[n] = None /\ \A m \in Slots : m # n => t.proposal[m] = s.proposal[m]
       /\ t.old = s.old
       /\ \A i \in Ids : t.state[i] = IF i \in Stored(s, back) THEN QUEUED
                                      ELSE IF i \in Stored(s, out) THEN s.old[i] ELSE s.state[i]
       /\ t.selected = s.selected \ {i \in out : s.old[i] = NONE}
       /\ \A i \in Ids : t.data[i] = IF i \in gone THEN None ELSE s.data[i]
       /\ t.new = (s.new \ gone) \cup (s.proposal[n].queues \ gone)
       /\ t.queue = (s.queue \ gone) \ (s.proposal[n].queues \ gone)

\* RemoveProposal does what RemovalOf says.
LEMMA RemoveProposalEffect ==
    ASSUME NEW s \in Stores, NEW n \in Open(s), NEW expired \in BOOLEAN
    PROVE  /\ RemoveProposal(s, n, expired) \in Stores
           /\ RemovalOf(s, RemoveProposal(s, n, expired), n, expired)
<1> DEFINE gone == ToRemove(s, n, expired)
           out == OutOf(s, n, expired) \cup Units(s, n, OutOf(s, n, expired))
           rest == Having(s, n) \ OutOf(s, n, expired)
           back == rest \cup Units(s, n, rest)
           q == s.proposal[n].queues
           a == RestoreState(s, out)
           b == SetState(a, back, QUEUED)
           c == RemoveFromSystem(b, gone)
           d == AddOldToQueue(c, q \ gone)
           t == RemoveProposal(s, n, expired)
<1>1. t = [d EXCEPT !.proposal = [@ EXCEPT ![n] = None]]
  BY DEF RemoveProposal, ToRemove, OutOf, Units, UnitIn, Refusing
<1>2. n \in Slots /\ q \in SUBSET Ids
  BY DEF Open, Stores, Proposals
<1> HIDE DEF gone, out, rest, back, q, t
<1>3. /\ a \in Stores
      /\ SameParty(s, a) /\ SameQueue(s, a) /\ SameRest(s, a)
      /\ a.old = s.old
      /\ \A i \in Ids : a.state[i] = IF i \in Stored(s, out) THEN s.old[i] ELSE s.state[i]
      /\ a.selected = s.selected \ {i \in out : s.old[i] = NONE}
  BY RestoreStateEffect
<1> HIDE DEF a
<1>4. /\ b \in Stores
      /\ SameParty(a, b) /\ SameQueue(a, b) /\ SameRest(a, b)
      /\ \A i \in Ids : b.state[i] = IF i \in Stored(a, back) THEN QUEUED ELSE a.state[i]
      /\ \A i \in Ids : b.old[i] = a.old[i]
      /\ b.selected = a.selected
  BY <1>3, SetStateEffect DEF States, Busy
<1>5. Stored(a, back) = Stored(s, back)
  BY <1>3 DEF Stored, SameParty
<1> HIDE DEF b
<1>6. b.old = a.old
  BY <1>3, <1>4 DEF Stores
<1>7. /\ c \in Stores
      /\ SameParty(b, c) /\ SameState(b, c) /\ SameRest(b, c)
      /\ \A i \in Ids : c.data[i] = IF i \in gone THEN None ELSE b.data[i]
      /\ c.new = b.new \ gone /\ c.queue = b.queue \ gone
  BY <1>4, RemoveFromSystemEffect
<1> HIDE DEF c
<1>8. /\ d \in Stores
      /\ SameParty(c, d) /\ SameState(c, d) /\ SameRest(c, d)
      /\ d.data = c.data
      /\ d.new = c.new \cup (q \ gone) /\ d.queue = c.queue \ (q \ gone)
  <2>1. q \ gone \in SUBSET Ids
    BY <1>2
  <2> QED BY <1>7, <2>1, AddOldToQueueEffect
<1> HIDE DEF d
<1>9. /\ t \in Stores
      /\ SameParty(d, t) /\ SameState(d, t) /\ SameQueue(d, t) /\ t.check = d.check
      /\ t.proposal[n] = None /\ \A m \in Slots : m # n => t.proposal[m] = d.proposal[m]
  BY <1>1, <1>2, <1>8 DEF Stores, SameParty, SameState, SameQueue
<1>10. /\ SameParty(s, t)
       /\ t.check = s.check
       /\ \A m \in Slots : m # n => t.proposal[m] = s.proposal[m]
       /\ t.old = s.old
       /\ t.selected = s.selected \ {i \in out : s.old[i] = NONE}
  BY <1>3, <1>4, <1>6, <1>7, <1>8, <1>9 DEF SameParty, SameState, SameRest
<1>11. \A i \in Ids : t.state[i] = IF i \in Stored(s, back) THEN QUEUED
                                   ELSE IF i \in Stored(s, out) THEN s.old[i] ELSE s.state[i]
  BY <1>3, <1>4, <1>5, <1>7, <1>8, <1>9 DEF SameState
<1>12. /\ \A i \in Ids : t.data[i] = IF i \in gone THEN None ELSE s.data[i]
       /\ t.new = (s.new \ gone) \cup (q \ gone)
       /\ t.queue = (s.queue \ gone) \ (q \ gone)
  BY <1>3, <1>4, <1>7, <1>8, <1>9 DEF SameQueue
<1>13. RemovalOf(s, t, n, expired)
  BY <1>9, <1>10, <1>11, <1>12 DEF RemovalOf, gone, out, back, rest, q
<1> QED BY <1>9, <1>13 DEF t

-----------------------------------------------------------------------------
\* Players, groups and None are different things.
LEMMA Disjoint ==
    /\ Players \cap Groups = {} /\ None \notin Players /\ None \notin Groups /\ None \notin Ids
    /\ Ids = Players \cup Groups
BY DungeonFinderAssumption DEF Ids

\* What the type of the stores says of their parts
LEMMA TypeFacts ==
    ASSUME NEW s \in Stores
    PROVE  /\ \A p \in Players : s.group[p] \in Groups \cup {None}
           /\ \A g \in Groups : s.leader[g] \in Players \cup {None}
           /\ \A i \in Ids : s.state[i] \in States /\ s.old[i] \in {NONE, DUNGEON, FINISHED}
           /\ s.selected \subseteq Players /\ s.lfg \subseteq Groups /\ s.born \subseteq Groups
           /\ s.new \subseteq Ids /\ s.queue \subseteq Ids /\ InQueue(s) \subseteq Ids
           /\ \A n \in Open(s) : /\ n \in Slots /\ s.proposal[n] \in Proposals
                                 /\ Combined(s, n) \subseteq Ids /\ Having(s, n) \subseteq Players
           /\ \A g \in Groups : s.check[g] \in RoleChecks \cup {None}
           /\ \A i \in Ids : s.data[i] \in QueueData \cup {None}
<1>1. ASSUME NEW n \in Open(s)
      PROVE  /\ n \in Slots /\ s.proposal[n] \in Proposals
             /\ Combined(s, n) \subseteq Ids /\ Having(s, n) \subseteq Players
  <2>1. n \in Slots /\ s.proposal[n] \in Proposals
    BY DEF Open, Stores
  <2>2. Combined(s, n) \subseteq Ids
    BY <2>1 DEF Proposals, Combined
  <2>3. PICK P \in SUBSET Players : s.proposal[n].accept \in [P -> Answers]
    BY <2>1 DEF Proposals
  <2> QED BY <2>1, <2>2, <2>3 DEF Having
<1> QED BY <1>1 DEF Stores, InQueue

\* A premade is its own premade, and its players are the members of the group.
LEMMA HeadFacts ==
    ASSUME NEW s \in Stores
    PROVE  /\ \A i \in Ids : Head(s, i) \in Ids /\ Head(s, Head(s, i)) = Head(s, i)
           /\ \A g \in Groups : Head(s, g) = g /\ Crew(s, g) = Members(s, g)
           /\ \A p \in Players : \/ s.group[p] = None /\ Head(s, p) = p
                                 \/ s.group[p] \in Groups /\ Head(s, p) = s.group[p]
           /\ \A i \in Ids : Crew(s, i) \subseteq Players
BY TypeFacts, Disjoint DEF Head, Crew, Members

\* Who belongs to which premade depends on the groups only.
LEMMA SameHeads ==
    ASSUME NEW s, NEW t, t.group = s.group
    PROVE  /\ \A i : Head(t, i) = Head(s, i)
           /\ \A i : Crew(t, i) = Crew(s, i)
           /\ \A g : Members(t, g) = Members(s, g)
BY DEF Head, Crew, Members

\* The first shape of change: the premades of Out leave the finder, those of Back
\* return to the queue, all others keep what they have.  A proposal disappears only
\* as a whole.
Moved(s, t, F, Out, Back) ==
    /\ SameParty(s, t)
    /\ Out \subseteq Ids /\ Back \subseteq Ids /\ Out \cap Back = {}
    /\ \A i \in Out : Head(s, i) = i
    /\ \A i \in Ids : t.state[i] = IF Head(s, i) \in Out THEN t.old[i]
                                   ELSE IF Head(s, i) \in Back THEN QUEUED ELSE s.state[i]
    /\ \A g \in Groups : t.old[g] = s.old[g]
    /\ \A p \in Players : \/ t.old[p] = s.old[p]
                          \/ s.group[p] = None /\ p \in Out /\ t.old[p] = NONE
    /\ \A p \in Players : p \in s.selected /\ (Head(s, p) \notin Out \/ t.old[p] # NONE)
                            => p \in t.selected
    /\ \A i \in Ids : i \in InQueue(t) <=> (i \in InQueue(s) /\ i \notin Out) \/ i \in Back
    /\ \A i \in Ids : i \in InQueue(t) \/ (\E n \in Open(t) : i \in Combined(t, n))
                        => t.data[i] = s.data[i]
    /\ \A g \in Groups : t.check[g] = IF g \in Out THEN None ELSE s.check[g]
    /\ \A n \in Open(t) :
         /\ n \in Open(s) /\ Combined(t, n) = Combined(s, n) /\ Having(t, n) = Having(s, n)
         /\ t.proposal[n].of = s.proposal[n].of
         /\ t.proposal[n].leader = s.proposal[n].leader
         /\ t.proposal[n].group = s.proposal[n].group
         /\ \A i \in Combined(s, n) : i \notin Out /\ i \notin Back
    /\ \A n \in Open(s) : n \notin Open(t) =>
         n \notin F /\ \A i \in Combined(s, n) : i \in Out \/ i \in Back
    /\ \A i \in Back : \E n \in Open(s) : n \notin Open(t) /\ i \in Combined(s, n)

\* Such a change keeps the invariant.
LEMMA Moves ==
    ASSUME NEW s \in Stores, NEW t \in Stores, NEW F, NEW R, NEW D, NEW Out, NEW Back,
           Inv(s, F, R, D), Moved(s, t, F, Out, Back)
    PROVE  Inv(t, F, R, D)
<1>1. /\ \A i : Head(t, i) = Head(s, i)
      /\ \A i : Crew(t, i) = Crew(s, i)
      /\ \A g : Members(t, g) = Members(s, g)
  BY SameHeads DEF Moved, SameParty
<1>2. \A i \in Back : /\ s.state[i] = PROPOSAL /\ Placed(s, i) /\ i \notin InQueue(s)
                      /\ \A p \in Crew(s, i) : \E n \in Open(s) : p \in Having(s, n)
  BY DEF Inv, Proposing, Moved
<1>3. Formed(t)
  BY <1>2, TypeFacts, Disjoint, HeadFacts DEF Inv, Formed, Resting, Moved, SameParty
<1>4. Resting(t)
  BY TypeFacts, Disjoint, HeadFacts DEF Inv, Resting, Moved, Busy
<1>5. Agreeing(t)
  BY <1>1, TypeFacts, Disjoint, HeadFacts DEF Inv, Agreeing, Moved, Busy
<1>6. Checking(t)
  BY <1>1, <1>2, TypeFacts, Disjoint, HeadFacts DEF Inv, Checking, Moved, SameParty
<1>7. Queueing(t)
  BY <1>1, <1>2, TypeFacts, Disjoint, HeadFacts DEF Inv, Queueing, Moved, Placed, SameParty
<1>8. Proposing(t, F)
  BY <1>1, <1>2, TypeFacts, Disjoint, HeadFacts DEF Inv, Proposing, Moved, Placed, Crew,
       SameParty
<1>9. Answered(t)
  BY <1>1, TypeFacts, Disjoint, HeadFacts DEF Inv, Answered, Proposing, Moved
<1>10. Searched(t, F, D)
  BY <1>1, <1>2, TypeFacts, Disjoint, HeadFacts DEF Inv, Searched, Moved
<1>11. "absent" \notin R => Asked(t)
  BY <1>1, <1>2, TypeFacts, Disjoint, HeadFacts DEF Inv, Asked, Moved
<1>12. ASSUME "befriended" \notin R PROVE Chosen(t)
  <2> USE <1>12 DEF Inv
  <2>1. \A p \in Players : s.group[p] # None =>
          (t.old[s.group[p]] = DUNGEON => t.old[p] = DUNGEON)
    BY TypeFacts DEF Chosen, Moved
  <2>2. ASSUME NEW p \in Players, t.old[p] = DUNGEON PROVE p \in t.selected
    BY <2>2 DEF Chosen, Moved
  <2>3. ASSUME NEW p \in Players, NEW n \in Open(t), p \in Having(t, n) PROVE p \in t.selected
    <3>1. n \in Open(s) /\ p \in Having(s, n) /\ Head(s, p) \notin Out
      BY <2>3 DEF Moved, Proposing
    <3> QED BY <3>1 DEF Moved, Chosen
  <2>4. ASSUME NEW p \in Players, t.state[Head(s, p)] \in {ROLECHECK, QUEUED}
        PROVE  p \in t.selected
    <3>1. Head(s, p) \in Ids /\ Head(s, Head(s, p)) = Head(s, p) /\ p \in Crew(s, Head(s, p))
      BY HeadFacts, Disjoint DEF Crew
    <3>2. Head(s, p) \notin Out
      BY <2>4, <3>1, TypeFacts DEF Moved
    <3>3. p \in s.selected
      BY <1>2, <2>4, <3>1, <3>2 DEF Moved, Chosen
    <3> QED BY <3>2, <3>3 DEF Moved
  <2> QED BY <1>1, <2>1, <2>2, <2>3, <2>4 DEF Chosen, Moved, SameParty
<1> QED BY <1>3, <1>4, <1>5, <1>6, <1>7, <1>8, <1>9, <1>10, <1>11, <1>12 DEF Inv

\* An answer by itself moves no premade.
LEMMA AnswerMoves ==
    ASSUME NEW s \in Stores, NEW n \in Open(s), NEW p \in Having(s, n), NEW a \in Answers, NEW F
    PROVE  Moved(s, Answer(s, n, p, a), F, {}, {})
<1> DEFINE t == Answer(s, n, p, a)
<1>0. AnswerTo(s, t, n, p, a)
  BY AnswerEffect
<1> HIDE DEF t
<1>1. /\ SameParty(s, t) /\ SameQueue(s, t) /\ SameState(s, t)
      /\ t.check = s.check
      /\ \A m \in Slots : m # n => t.proposal[m] = s.proposal[m]
      /\ t.proposal[n] # None /\ t.proposal[n].queues = s.proposal[n].queues
      /\ t.proposal[n].of = s.proposal[n].of
      /\ t.proposal[n].leader = s.proposal[n].leader
      /\ t.proposal[n].group = s.proposal[n].group
      /\ Having(t, n) = Having(s, n)
  BY <1>0 DEF AnswerTo
<1>2. \A m \in Open(t) :
         /\ m \in Open(s) /\ Combined(t, m) = Combined(s, m) /\ Having(t, m) = Having(s, m)
         /\ t.proposal[m].of = s.proposal[m].of
         /\ t.proposal[m].leader = s.proposal[m].leader
         /\ t.proposal[m].group = s.proposal[m].group
  BY <1>1 DEF Open, Having, Combined
<1>3. \A m \in Open(s) : m \in Open(t)
  BY <1>1 DEF Open
<1>4. Moved(s, t, F, {}, {})
  BY <1>1, <1>2, <1>3 DEF Moved, SameQueue, SameState, InQueue
<1> QED BY <1>4 DEF t

\* The end of role checks takes the groups they were open for out of the finder.
LEMMA EndRoleChecksMoves ==
    ASSUME NEW s \in Stores, NEW C \in SUBSET Groups, NEW F, NEW R, NEW D, Inv(s, F, R, D)
    PROVE  Moved(s, EndRoleChecks(s, C), F, {g \in C : s.check[g] # None}, {})
<1> DEFINE t == EndRoleChecks(s, C)
           open == {g \in C : s.check[g] # None}
           ids == open \cup UNION {s.check[g].asked : g \in open}
<1>1. /\ t \in Stores
      /\ SameParty(s, t) /\ SameQueue(s, t)
      /\ t.proposal = s.proposal
      /\ \A g \in Groups : t.check[g] = IF g \in C THEN None ELSE s.check[g]
      /\ t.old = s.old
      /\ \A i \in Ids : t.state[i] = IF i \in Stored(s, ids) THEN s.old[i] ELSE s.state[i]
      /\ t.selected = s.selected \ {i \in ids : s.old[i] = NONE}
  BY EndRoleChecksEffect
<1>2. \A g \in open : /\ g \in Groups /\ s.check[g].asked = Members(s, g)
                      /\ s.leader[g] # None /\ s.state[g] = ROLECHECK
  BY DEF Inv, Checking, Formed
<1>3. \A i : i \in ids <=> i \in open \/ \E g \in open : i \in Members(s, g)
  BY <1>2
<1> HIDE DEF t, ids
<1>4. \A i \in Ids : i \in Stored(s, ids) <=> Head(s, i) \in open
  BY <1>2, <1>3, HeadFacts, Disjoint DEF Stored, Members
<1>5. \A i \in open : i \notin InQueue(s) /\ \A n \in Open(s) : i \notin Combined(s, n)
  BY <1>2 DEF Inv, Queueing, Proposing
<1>6. \A i \in ids : i \in Ids /\ Head(s, i) \in open
  BY <1>2, <1>3, HeadFacts, Disjoint DEF Members
<1>7. \A p \in Players : p \in s.selected /\ (Head(s, p) \notin open \/ t.old[p] # NONE)
                            => p \in t.selected
  BY <1>1, <1>6
<1>8. /\ Open(t) = Open(s)
      /\ \A n : Having(t, n) = Having(s, n) /\ Combined(t, n) = Combined(s, n)
  BY <1>1 DEF Open, Having, Combined
<1>9. \A i \in Ids : t.state[i] = IF Head(s, i) \in open THEN t.old[i] ELSE s.state[i]
  BY <1>1, <1>4
<1>10. \A i \in open : i \in Ids /\ Head(s, i) = i
  BY <1>2, HeadFacts, Disjoint
<1>11. Moved(s, t, F, open, {})
  BY <1>1, <1>5, <1>7, <1>8, <1>9, <1>10 DEF Moved, SameQueue, InQueue
<1> QED BY <1>11 DEF t

\* RemoveProposal takes some premades of the proposal out and puts all others back
\* into the queue.
LEMMA RemoveProposalMoves ==
    ASSUME NEW s \in Stores, NEW F, NEW R, NEW D, Inv(s, F, R, D),
           NEW n \in Open(s), n \notin F, NEW expired \in BOOLEAN
    PROVE  Moved(s, RemoveProposal(s, n, expired), F,
                 ToRemove(s, n, expired), Combined(s, n) \ ToRemove(s, n, expired))
<1> DEFINE t == RemoveProposal(s, n, expired)
           gone == ToRemove(s, n, expired)
           left == OutOf(s, n, expired)
           out == left \cup Units(s, n, left)
           rest == Having(s, n) \ left
           back == rest \cup Units(s, n, rest)
           Back == Combined(s, n) \ gone
<1>0. t \in Stores /\ RemovalOf(s, t, n, expired)
  BY RemoveProposalEffect
<1> HIDE DEF t
<1>1. /\ t \in Stores
      /\ SameParty(s, t)
      /\ t.check = s.check
      /\ t.proposal[n] = None /\ \A m \in Slots : m # n => t.proposal[m] = s.proposal[m]
      /\ t.old = s.old
      /\ \A i \in Ids : t.state[i] = IF i \in Stored(s, back) THEN QUEUED
                                     ELSE IF i \in Stored(s, out) THEN s.old[i] ELSE s.state[i]
      /\ t.selected = s.selected \ {i \in out : s.old[i] = NONE}
      /\ \A i \in Ids : t.data[i] = IF i \in gone THEN None ELSE s.data[i]
      /\ t.new = (s.new \ gone) \cup (s.proposal[n].queues \ gone)
      /\ t.queue = (s.queue \ gone) \ (s.proposal[n].queues \ gone)
  BY <1>0 DEF RemovalOf
<1>2. \A p \in Having(s, n) : /\ UnitIn(s, n, p) = Head(s, p) /\ Head(s, p) \in Combined(s, n)
                              /\ p \in Players /\ p \notin Groups
  BY TypeFacts, Disjoint DEF Inv, Proposing, UnitIn, Head
<1>3. \A i \in Combined(s, n) :
        /\ i \in Ids /\ Head(s, i) = i /\ s.data[i] # None /\ i \notin InQueue(s)
        /\ (i \in Groups => s.leader[i] # None /\ s.check[i] = None)
        /\ Crew(s, i) \subseteq Having(s, n)
        /\ \A m \in Open(s) : i \in Combined(s, m) => m = n
  BY TypeFacts DEF Inv, Proposing, Placed, Formed, Checking
<1>4. gone \subseteq Combined(s, n)
  BY <1>2 DEF ToRemove, Units, Refusing, Combined
<1>5. \A p \in Players : p \in Having(s, n) <=> Head(s, p) \in Combined(s, n)
  BY <1>2, <1>3, HeadFacts, Disjoint DEF Crew
<1>6. \A p : p \in left <=> p \in Having(s, n) /\ Head(s, p) \in gone
  BY <1>2 DEF OutOf
<1>7. \A p : p \in rest <=> p \in Having(s, n) /\ Head(s, p) \in Back
  BY <1>2, <1>6
<1>8. \A i \in Combined(s, n) : \E p \in Having(s, n) : Head(s, p) = i
  <2> TAKE i \in Combined(s, n)
  <2>1. CASE i \in Groups
    BY <1>3, <2>1, TypeFacts, Disjoint DEF Inv, Formed, Head, Crew
  <2>2. CASE i \in Players
    BY <1>3, <2>2, Disjoint DEF Crew
  <2> QED BY <1>3, <2>1, <2>2, Disjoint
<1>9. Units(s, n, left) = gone /\ Units(s, n, rest) = Back
  BY <1>2, <1>4, <1>6, <1>7, <1>8 DEF Units
<1> HIDE DEF left, rest, gone, t, Back
<1>10. \A i \in Ids : /\ i \in Stored(s, back) <=> Head(s, i) \in Back
                      /\ i \in Stored(s, out) <=> Head(s, i) \in gone
  <2> TAKE i \in Ids
  <2>0. Back \subseteq Combined(s, n)
    BY DEF Back
  <2>1. CASE i \in Groups
    BY <1>2, <1>3, <1>4, <1>6, <1>7, <1>9, <2>0, <2>1, HeadFacts, Disjoint DEF Stored
  <2>2. CASE i \in Players
    BY <1>3, <1>4, <1>5, <1>6, <1>7, <1>9, <2>0, <2>2, HeadFacts, Disjoint DEF Stored
  <2> QED BY <2>1, <2>2, Disjoint
<1>11. gone \cap Back = {} /\ Back \subseteq Combined(s, n) /\ Combined(s, n) \subseteq Ids
       /\ \A i \in Combined(s, n) : i \in gone \/ i \in Back
  BY <1>3 DEF Back
<1>12. \A i \in Ids : t.state[i] = IF Head(s, i) \in gone THEN t.old[i]
                                   ELSE IF Head(s, i) \in Back THEN QUEUED ELSE s.state[i]
  BY <1>1, <1>10, <1>11
<1>13. \A p \in Players : p \in s.selected /\ (Head(s, p) \notin gone \/ t.old[p] # NONE)
                            => p \in t.selected
  <2>1. \A p \in out : p \in Players => Head(s, p) \in gone
    BY <1>3, <1>4, <1>6, <1>9
  <2> QED BY <1>1, <2>1
<1>14. \A m \in Open(t) :
         /\ m \in Open(s) /\ Combined(t, m) = Combined(s, m) /\ Having(t, m) = Having(s, m)
         /\ t.proposal[m].of = s.proposal[m].of
         /\ t.proposal[m].leader = s.proposal[m].leader
         /\ t.proposal[m].group = s.proposal[m].group
         /\ \A i \in Combined(s, m) : i \notin gone /\ i \notin Back
  BY <1>1, <1>3, <1>4, <1>11 DEF Open, Combined, Having
<1>15. /\ n \notin Open(t) /\ \A m \in Open(s) : m \notin Open(t) => m = n
  BY <1>1 DEF Open
<1>16. \A i \in Ids : i \in InQueue(t) <=> (i \in InQueue(s) /\ i \notin gone) \/ i \in Back
  BY <1>1, <1>11 DEF InQueue, Combined, Back
<1>17. \A i \in Ids : i \in InQueue(t) \/ (\E m \in Open(t) : i \in Combined(t, m))
                        => t.data[i] = s.data[i]
  BY <1>1, <1>11, <1>14, <1>16
<1>18. \A g \in Groups : t.check[g] = IF g \in gone THEN None ELSE s.check[g]
  BY <1>1, <1>3, <1>4
<1>19. Moved(s, t, F, gone, Back)
  BY <1>1, <1>3, <1>4, <1>11, <1>12, <1>13, <1>14, <1>15, <1>16, <1>17, <1>18 DEF Moved
<1> QED BY <1>19 DEF t, gone, Back

-----------------------------------------------------------------------------
\* A set of numbers that is not empty has a least element.
LEMMA MinIsIn ==
    ASSUME NEW S \in SUBSET Nat, S # {}
    PROVE  Min(S) \in S
BY Least DEF Min

\* The places of players in the list of their group
Places == [Players -> Nat]

\* Every order of some players gives each of them a place.
LEMMA ListsArePlaces ==
    ASSUME NEW P \in SUBSET Players, NEW list \in Lists(P)
    PROVE  list \in Places
<1>1. IsFiniteSet(P)
  BY DungeonFinderAssumption, FS_Subset
<1>2. Cardinality(P) \in Nat
  BY <1>1, FS_CardinalityType
<1>3. PICK f \in [P -> 1 .. Cardinality(P)] : list = [p \in Players |-> IF p \in P THEN f[p] ELSE 0]
  BY DEF Lists
<1> QED BY <1>2, <1>3 DEF Places

\* The first of some players in a list is one of them.
LEMMA FirstIsIn ==
    ASSUME NEW list \in Places, NEW P \in SUBSET Players, P # {}
    PROVE  First(list, P) \in P
<1> DEFINE S == {list[q] : q \in P}
<1>1. S \in SUBSET Nat /\ S # {}
  BY DEF Places
<1>2. Min(S) \in S
  BY <1>1, MinIsIn
<1>3. \E q \in P : list[q] = Min(S)
  BY <1>2
<1> QED BY <1>3 DEF First

\* The finder is not busy with the premade u.  The state of a proposal may have
\* been left behind.
Free(s, u) ==
    /\ s.state[u] \notin {ROLECHECK, QUEUED}
    /\ \A n \in Open(s) : u \notin Combined(s, n)

\* Then it is not busy with any of the members either.
LEMMA FreeFacts ==
    ASSUME NEW s \in Stores, NEW R, NEW D, Inv(s, {}, R, D), NEW u \in Ids, Head(s, u) = u, Free(s, u)
    PROVE  /\ u \notin InQueue(s)
           /\ u \in Groups => s.check[u] = None
           /\ \A p \in Crew(s, u) : /\ s.state[p] \notin Busy
                                    /\ \A n \in Open(s) : p \notin Having(s, n)
<1>1. u \notin InQueue(s)
  BY DEF Inv, Free, Queueing
<1>2. u \in Groups => s.check[u] = None
  BY DEF Inv, Free, Checking
<1>3. ASSUME NEW p \in Crew(s, u) PROVE \A n \in Open(s) : p \notin Having(s, n)
  BY DEF Inv, Free, Proposing, Crew
<1>4. ASSUME NEW p \in Crew(s, u) PROVE s.state[p] \notin Busy
  <2>1. p \in Players /\ Head(s, p) = u
    BY DEF Crew
  <2>2. s.state[p] # PROPOSAL
    BY <1>3, <2>1 DEF Inv, Answered
  <2> QED BY <2>1, <2>2 DEF Inv, Agreeing, Free, Busy
<1> QED BY <1>1, <1>2, <1>3, <1>4

\* A player without a group is dismissed.
LEMMA DismissPlayer ==
    ASSUME NEW s \in Stores, NEW u \in Stores, NEW F, NEW R, NEW D, Inv(s, F, R, D), NEW p \in Players,
           s.group[p] = None, \A n \in Open(s) : p \notin Combined(s, n),
           u = s \/ u = RemoveFromSystem(s, {p}), u = s => p \notin InQueue(s)
    PROVE  Moved(s, SetState(u, {p}, NONE), F, {p}, {})
<1> DEFINE t == SetState(u, {p}, NONE)
<1>1. /\ u \in Stores
      /\ SameParty(s, u) /\ SameState(s, u) /\ SameRest(s, u)
      /\ \A i \in Ids : i # p => u.data[i] = s.data[i]
      /\ InQueue(u) = InQueue(s) \ {p}
  <2>1. CASE u = s
    BY <2>1 DEF SameParty, SameState, SameRest
  <2>2. CASE u = RemoveFromSystem(s, {p})
    <3>1. /\ u \in Stores
          /\ SameParty(s, u) /\ SameState(s, u) /\ SameRest(s, u)
          /\ \A i \in Ids : u.data[i] = IF i \in {p} THEN None ELSE s.data[i]
          /\ u.new = s.new \ {p} /\ u.queue = s.queue \ {p}
      BY <2>2, RemoveFromSystemEffect
    <3> QED BY <3>1 DEF InQueue
  <2> QED BY <2>1, <2>2
<1>2. /\ t \in Stores
      /\ SameParty(u, t) /\ SameQueue(u, t) /\ SameRest(u, t)
      /\ \A i \in Ids : t.state[i] = IF i \in Stored(u, {p}) THEN NONE ELSE u.state[i]
      /\ \A i \in Ids : t.old[i] = IF i \in Stored(u, {p}) THEN NONE ELSE u.old[i]
      /\ t.selected = u.selected \ {p}
  BY <1>1, SetStateEffect DEF States, Busy
<1> HIDE DEF t
<1>3. \A i \in Ids : /\ i \in Stored(u, {p}) <=> i = p
                     /\ i = p <=> Head(s, i) = p
  BY Disjoint, HeadFacts DEF Stored
<1>4. /\ Open(t) = Open(s)
      /\ \A n : Having(t, n) = Having(s, n) /\ Combined(t, n) = Combined(s, n)
      /\ t.proposal = s.proposal /\ t.check = s.check
  BY <1>1, <1>2 DEF Open, Having, Combined, SameRest
<1>5. SameParty(s, t) /\ InQueue(t) = InQueue(s) \ {p}
  BY <1>1, <1>2 DEF SameParty, SameQueue, InQueue
<1>6. /\ \A i \in Ids : t.state[i] = IF Head(s, i) = p THEN t.old[i] ELSE s.state[i]
      /\ \A i \in Ids : t.old[i] = IF i = p THEN NONE ELSE s.old[i]
      /\ t.selected = s.selected \ {p}
  BY <1>1, <1>2, <1>3 DEF SameState
<1>7. \A i \in Ids : i # p => t.data[i] = s.data[i]
  BY <1>1, <1>2 DEF SameQueue
<1>8. p \in Ids /\ p \notin Groups /\ Head(s, p) = p
  BY <1>3, Disjoint
<1>9. Groups \subseteq Ids /\ Players \subseteq Ids
  BY Disjoint
<1>10. Moved(s, t, F, {p}, {})
  BY <1>3, <1>4, <1>5, <1>6, <1>7, <1>8, <1>9 DEF Moved
<1> QED BY <1>10 DEF t

\* A group is dismissed.
LEMMA DismissGroup ==
    ASSUME NEW s \in Stores, NEW F, NEW R, NEW D, Inv(s, F, R, D), NEW g \in Groups,
           s.leader[g] # None, s.check[g] = None, \A n \in Open(s) : g \notin Combined(s, n)
    PROVE  Moved(s, RestoreState(RemoveFromSystem(s, {g}), {g} \cup Members(s, g)), F, {g}, {})
<1> DEFINE u == RemoveFromSystem(s, {g})
           ids == {g} \cup Members(s, g)
           t == RestoreState(u, ids)
<1>1. /\ u \in Stores
      /\ SameParty(s, u) /\ SameState(s, u) /\ SameRest(s, u)
      /\ \A i \in Ids : u.data[i] = IF i \in {g} THEN None ELSE s.data[i]
      /\ u.new = s.new \ {g} /\ u.queue = s.queue \ {g}
  BY RemoveFromSystemEffect
<1> HIDE DEF u
<1>2. /\ t \in Stores
      /\ SameParty(u, t) /\ SameQueue(u, t) /\ SameRest(u, t)
      /\ t.old = u.old
      /\ \A i \in Ids : t.state[i] = IF i \in Stored(u, ids) THEN u.old[i] ELSE u.state[i]
      /\ t.selected = u.selected \ {i \in ids : u.old[i] = NONE}
  BY <1>1, RestoreStateEffect
<1> HIDE DEF t
<1>3. \A i \in Ids : (i \in Stored(u, ids) <=> Head(s, i) = g) /\ (i \in ids <=> Head(s, i) = g)
  BY <1>1, Disjoint, HeadFacts DEF Stored, Members, SameParty
<1> HIDE DEF ids
<1>4. /\ Open(t) = Open(s)
      /\ \A n : Having(t, n) = Having(s, n) /\ Combined(t, n) = Combined(s, n)
      /\ t.proposal = s.proposal /\ t.check = s.check
  BY <1>1, <1>2 DEF Open, Having, Combined, SameRest
<1>5. SameParty(s, t) /\ InQueue(t) = InQueue(s) \ {g}
  BY <1>1, <1>2 DEF SameParty, SameQueue, InQueue
<1>6. /\ \A i \in Ids : t.state[i] = IF Head(s, i) = g THEN t.old[i] ELSE s.state[i]
      /\ t.old = s.old
  BY <1>1, <1>2, <1>3 DEF SameState
<1>7. \A i \in Ids : i # g => t.data[i] = s.data[i]
  BY <1>1, <1>2 DEF SameQueue
<1>8. Groups \subseteq Ids /\ Players \subseteq Ids /\ Head(s, g) = g
  BY Disjoint, HeadFacts
<1>9. \A p \in Players : p \in s.selected /\ (Head(s, p) # g \/ t.old[p] # NONE)
                           => p \in t.selected
  BY <1>1, <1>2, <1>3, <1>8 DEF SameState
<1>10. Moved(s, t, F, {g}, {})
  BY <1>4, <1>5, <1>6, <1>7, <1>8, <1>9 DEF Moved
<1> QED BY <1>10 DEF t, u, ids

\* A premade that has left the finder is free.
LEMMA MovedFree ==
    ASSUME NEW s \in Stores, NEW t \in Stores, NEW Out, NEW Back, NEW u,
           Moved(s, t, {}, Out, Back), u \in Out
    PROVE  Free(t, u)
BY TypeFacts DEF Moved, Free

\* The player denies the proposal that he is asked about.
LEMMA DenyMoves ==
    ASSUME NEW s \in Stores, NEW R, NEW D, Inv(s, {}, R, D), NEW n \in Open(s), NEW p \in Having(s, n)
    PROVE  LET t == RemoveProposal(Answer(s, n, p, "deny"), n, FALSE)
           IN t \in Stores /\ SameParty(s, t) /\ Inv(t, {}, R, D) /\ Free(t, Head(s, p))
<1> DEFINE u == Answer(s, n, p, "deny")
           t == RemoveProposal(u, n, FALSE)
<1>1. u \in Stores /\ AnswerTo(s, u, n, p, "deny")
  BY AnswerEffect DEF Answers
<1>2. Moved(s, u, {}, {}, {})
  BY AnswerMoves DEF Answers
<1> HIDE DEF u
<1>3. Inv(u, {}, R, D) /\ SameParty(s, u)
  <2>1. Inv(u, {}, R, D)
    BY <1>1, <1>2, Moves
  <2> QED BY <1>2, <2>1 DEF Moved
<1>4. n \in Open(u) /\ p \in Having(u, n) /\ p \in Players
  BY <1>1, TypeFacts DEF AnswerTo, Open
<1>5. p \in Refusing(u, n, FALSE)
  <2>1. u.proposal[n].accept[p] = "deny"
    BY <1>1 DEF AnswerTo, Having
  <2> QED BY <1>4, <2>1 DEF Refusing
<1>6. UnitIn(u, n, p) = Head(u, p) /\ Head(u, p) = Head(s, p)
  BY <1>3, <1>4, SameHeads, Disjoint DEF Inv, Proposing, UnitIn, Head, SameParty
<1>7. Head(s, p) \in ToRemove(u, n, FALSE)
  BY <1>5, <1>6 DEF ToRemove, Units
<1>8. t \in Stores
  BY <1>1, <1>4, RemoveProposalEffect
<1>9. Moved(u, t, {}, ToRemove(u, n, FALSE), Combined(u, n) \ ToRemove(u, n, FALSE))
  BY <1>1, <1>3, <1>4, RemoveProposalMoves
<1> HIDE DEF t
<1>10. Inv(t, {}, R, D) /\ SameParty(u, t) /\ Free(t, Head(s, p))
  <2>1. Inv(t, {}, R, D) /\ Free(t, Head(s, p))
    BY <1>1, <1>3, <1>7, <1>8, <1>9, Moves, MovedFree
  <2> QED BY <1>9, <2>1 DEF Moved
<1>11. SameParty(s, t)
  BY <1>3, <1>10 DEF SameParty
<1> QED BY <1>8, <1>10, <1>11 DEF t, u

\* LeaveLfg of a premade that is QUEUED takes it out of the finder.
LEMMA LeaveQueued ==
    ASSUME NEW s \in Stores, NEW R, NEW D, Inv(s, {}, R, D), NEW guid \in Ids, s.state[guid] = QUEUED
    PROVE  LeaveLfg(s, guid) \in Stores /\ Moved(s, LeaveLfg(s, guid), {}, {Head(s, guid)}, {})
<1> DEFINE g == IF guid \in Groups THEN guid ELSE s.group[guid]
           t == LeaveLfg(s, guid)
           u == Head(s, guid)
<1> SUFFICES t \in Stores /\ Moved(s, t, {}, {u}, {})
  OBVIOUS
<1>1. /\ u \in Ids /\ Head(s, u) = u
      /\ s.state[u] = s.state[guid]
      /\ g # None => g = u /\ g \in Groups /\ s.leader[g] # None
      /\ g = None => u = guid /\ guid \in Players /\ guid \notin Groups /\ s.group[guid] = None
  BY HeadFacts, TypeFacts, Disjoint DEF Inv, Formed, Agreeing, Busy
<1>3. \A n \in Open(s) : u \notin Combined(s, n)
  BY <1>1 DEF Inv, Proposing
<1>4. CASE s.state[guid] = QUEUED /\ g # None
  <2>1. t = RestoreState(RemoveFromSystem(s, {g}), {g} \cup Members(s, g))
    BY <1>4 DEF LeaveLfg
  <2>2. t \in Stores
    BY <2>1, RemoveFromSystemEffect, RestoreStateEffect
  <2>3. s.state[g] = QUEUED /\ s.check[g] = None
    BY <1>1, <1>4 DEF Inv, Checking, Busy
  <2>4. Moved(s, t, {}, {u}, {})
    BY <1>1, <1>3, <1>4, <2>1, <2>3, DismissGroup
  <2> QED BY <2>2, <2>4
<1>5. CASE s.state[guid] = QUEUED /\ g = None
  <2>1. t = SetState(RemoveFromSystem(s, {guid}), {guid}, NONE)
    BY <1>5 DEF LeaveLfg
  <2> DEFINE v == RemoveFromSystem(s, {guid})
  <2>2. v \in Stores
    BY RemoveFromSystemEffect
  <2>3. Moved(s, SetState(v, {guid}, NONE), {}, {guid}, {})
    <3>1. v = s => guid \notin InQueue(s)
      <4>1. v.new = s.new \ {guid} /\ v.queue = s.queue \ {guid}
        BY RemoveFromSystemEffect
      <4> QED BY <4>1 DEF InQueue
    <3>2. \A n \in Open(s) : guid \notin Combined(s, n)
      BY <1>1, <1>3, <1>5 DEF Busy
    <3>3. v = RemoveFromSystem(s, {guid})
      OBVIOUS
    <3> HIDE DEF v
    <3> QED BY <1>1, <1>5, <2>2, <3>1, <3>2, <3>3, DismissPlayer
  <2>4. SetState(v, {guid}, NONE) \in Stores
    BY <2>2, SetStateEffect DEF States
  <2> QED BY <1>1, <1>5, <2>1, <2>3, <2>4
<1> QED BY <1>4, <1>5

\* After LeaveLfg the premade of the one who left is free, whatever state it was
\* in.
LEMMA LeaveLfgLeaves ==
    ASSUME NEW s \in Stores, NEW R, NEW D, Inv(s, {}, R, D), NEW guid \in Ids,
           guid \in Groups => s.leader[guid] # None,
           guid \in Players => s.group[guid] = None \/ s.state[guid] \in Busy
    PROVE  LET t == LeaveLfg(s, guid)
           IN t \in Stores /\ SameParty(s, t) /\ Inv(t, {}, R, D) /\ Free(t, Head(s, guid))
<1> DEFINE g == IF guid \in Groups THEN guid ELSE s.group[guid]
           p == IF guid \in Groups THEN s.leader[g] ELSE guid
           t == LeaveLfg(s, guid)
           u == Head(s, guid)
           Good(x) == x \in Stores /\ SameParty(s, x) /\ Inv(x, {}, R, D) /\ Free(x, u)
<1> SUFFICES Good(t)
  OBVIOUS
<1>1. /\ u \in Ids /\ Head(s, u) = u
      /\ g # None => g = u /\ g \in Groups /\ s.leader[g] # None
      /\ g = None => u = guid /\ guid \in Players /\ guid \notin Groups /\ s.group[guid] = None
      /\ s.state[guid] \in Busy => s.state[u] = s.state[guid]
  BY HeadFacts, TypeFacts, Disjoint DEF Inv, Formed, Agreeing
<1>2. ASSUME NEW x \in Stores, NEW Back, Moved(s, x, {}, {u}, Back) PROVE Good(x)
  <2>1. Inv(x, {}, R, D) /\ Free(x, u)
    BY <1>2, Moves, MovedFree
  <2> QED BY <1>2, <2>1 DEF Moved
<1>3. s.state[u] # PROPOSAL => \A n \in Open(s) : u \notin Combined(s, n)
  BY DEF Inv, Proposing
<1>4. CASE s.state[guid] = QUEUED
  <2>1. t \in Stores /\ Moved(s, t, {}, {u}, {})
    BY <1>4, LeaveQueued
  <2> HIDE DEF t, u, Good
  <2> QED BY <1>2, <2>1
<1>6. CASE s.state[guid] = ROLECHECK
  <2>1. s.state[u] = ROLECHECK /\ g # None
    BY <1>1, <1>6 DEF Inv, Checking, Busy
  <2>2. t = EndRoleChecks(s, {g})
    BY <1>6, <2>1 DEF LeaveLfg
  <2>3. t \in Stores
    BY <2>2, EndRoleChecksEffect
  <2>4. {h \in {g} : s.check[h] # None} = {u}
    BY <1>1, <2>1 DEF Inv, Checking
  <2>5. Moved(s, t, {}, {u}, {})
    BY <1>1, <2>1, <2>2, <2>4, EndRoleChecksMoves
  <2> QED BY <1>2, <2>3, <2>5
<1>7. CASE s.state[guid] = PROPOSAL
  <2>0. s.state[u] = PROPOSAL
    BY <1>1, <1>7 DEF Busy
  <2>1. p \in Players /\ Head(s, p) = u
    BY <1>1, TypeFacts, Disjoint, HeadFacts DEF Inv, Formed
  <2>2. t = IF Containing(s, p) = {} THEN s
            ELSE RemoveProposal(Answer(s, Min(Containing(s, p)), p, "deny"), Min(Containing(s, p)), FALSE)
    BY <1>7 DEF LeaveLfg
  <2>3. \A n : n \in Containing(s, p) <=> n \in Open(s) /\ p \in Having(s, n)
    BY DEF Containing, Open
  <2>4. CASE Containing(s, p) = {}
    <3>1. \A n \in Open(s) : u \notin Combined(s, n)
      BY <2>1, <2>3, <2>4 DEF Inv, Proposing, Crew
    <3> QED BY <2>0, <2>2, <2>4, <3>1 DEF SameParty, Free
  <2>5. CASE Containing(s, p) # {}
    <3>1. Min(Containing(s, p)) \in Containing(s, p)
      <4>1. Containing(s, p) \in SUBSET Nat
        BY DungeonFinderAssumption DEF Containing, Slots
      <4> QED BY <2>5, <4>1, MinIsIn
    <3> QED BY <2>1, <2>2, <2>3, <2>5, <3>1, DenyMoves
  <2> QED BY <2>4, <2>5
<1>8. CASE s.state[guid] \in {DUNGEON, FINISHED}
  <2>1. t = IF guid \in Players THEN SetState(s, {guid}, NONE) ELSE s
    BY <1>8 DEF LeaveLfg
  <2>2. CASE guid \in Players
    <3>1. s.group[guid] = None /\ u = guid
      BY <1>1, <1>8, <2>2, Disjoint DEF Busy
    <3>2. guid \notin InQueue(s) /\ \A n \in Open(s) : guid \notin Combined(s, n)
      BY <1>3, <1>8, <3>1 DEF Inv, Queueing
    <3>3. Moved(s, SetState(s, {guid}, NONE), {}, {guid}, {})
      BY <2>2, <3>1, <3>2, DismissPlayer
    <3>4. SetState(s, {guid}, NONE) \in Stores
      BY SetStateEffect DEF States
    <3> QED BY <1>2, <2>1, <2>2, <3>1, <3>3, <3>4
  <2>3. CASE guid \notin Players
    <3>1. u = guid
      BY <1>1, <2>3, HeadFacts, Disjoint
    <3> QED BY <1>3, <1>8, <2>1, <2>3, <3>1 DEF Free, SameParty
  <2> QED BY <2>2, <2>3
<1>9. CASE s.state[guid] = NONE
  <2>1. t = s
    BY <1>9 DEF LeaveLfg
  <2>2. s.state[u] \notin {ROLECHECK, QUEUED}
    <3>1. CASE guid \in Players
      BY <1>9, <3>1 DEF Inv, Agreeing
    <3>2. CASE guid \in Groups
      BY <1>9, <3>2, HeadFacts
    <3> QED BY <3>1, <3>2, Disjoint
  <2>3. \A n \in Open(s) : u \notin Combined(s, n)
    <3>1. CASE guid \in Players
      BY <1>9, <3>1 DEF Inv, Proposing, Crew
    <3>2. CASE guid \in Groups
      BY <1>3, <1>9, <3>2, HeadFacts
    <3> QED BY <3>1, <3>2, Disjoint
  <2> QED BY <2>1, <2>2, <2>3 DEF Free, SameParty
<1>10. s.state[guid] \in States
  BY TypeFacts
<1> HIDE DEF Good, t
<1> QED BY <1>4, <1>6, <1>7, <1>8, <1>9, <1>10 DEF States

\* What is free stays so when others leave.
LEMMA FreeKept ==
    ASSUME NEW s \in Stores, NEW t \in Stores, NEW Out, Moved(s, t, {}, Out, {}),
           NEW u \in Ids, Head(s, u) = u, Free(s, u)
    PROVE  Free(t, u)
BY TypeFacts DEF Moved, Free

\* What neither waits nor is in a proposal may be removed from the queue.
LEMMA RemoveIdle ==
    ASSUME NEW s \in Stores, NEW F, NEW ids,
           \A i \in ids : i \notin InQueue(s) /\ \A n \in Open(s) : i \notin Combined(s, n)
    PROVE  RemoveFromSystem(s, ids) \in Stores /\ Moved(s, RemoveFromSystem(s, ids), F, {}, {})
<1> DEFINE t == RemoveFromSystem(s, ids)
<1>1. /\ t \in Stores
      /\ SameParty(s, t) /\ SameState(s, t) /\ SameRest(s, t)
      /\ \A i \in Ids : t.data[i] = IF i \in ids THEN None ELSE s.data[i]
      /\ t.new = s.new \ ids /\ t.queue = s.queue \ ids
  BY RemoveFromSystemEffect
<1> HIDE DEF t
<1>2. /\ Open(t) = Open(s)
      /\ \A n : Having(t, n) = Having(s, n) /\ Combined(t, n) = Combined(s, n)
      /\ t.proposal = s.proposal /\ t.check = s.check
  BY <1>1 DEF Open, Having, Combined, SameRest
<1>3. InQueue(t) = InQueue(s)
  BY <1>1 DEF InQueue
<1>4. \A i \in Ids : i \in InQueue(t) \/ (\E n \in Open(t) : i \in Combined(t, n))
                        => t.data[i] = s.data[i]
  BY <1>1, <1>2, <1>3
<1>5. Moved(s, t, F, {}, {})
  BY <1>1, <1>2, <1>3, <1>4 DEF Moved, SameState
<1> QED BY <1>1, <1>5 DEF t

\* LeaveAllLfgQueues of a player without a group makes him free.
LEMMA LeaveAllOfPlayer ==
    ASSUME NEW s \in Stores, NEW R, NEW D, Inv(s, {}, R, D), NEW p \in Players, s.group[p] = None,
           \A n \in Open(s) : p \notin Combined(s, n)
    PROVE  LET t == LeaveAllLfgQueues(s, p, None)
           IN t \in Stores /\ Free(t, p) /\ \E Out : Moved(s, t, {}, Out, {})
<1> DEFINE t == LeaveAllLfgQueues(s, p, None)
           v == RemoveFromSystem(s, {p})
<1>0. {p, None} \cap Ids = {p} /\ p \in Ids /\ Head(s, p) = p
  BY Disjoint, HeadFacts
<1>1. t = IF s.state[p] = QUEUED THEN SetState(v, {p}, NONE) ELSE v
  BY <1>0 DEF LeaveAllLfgQueues
<1>2. v \in Stores /\ (v = s => p \notin InQueue(s))
  <2>1. v \in Stores /\ v.new = s.new \ {p} /\ v.queue = s.queue \ {p}
    BY RemoveFromSystemEffect
  <2> QED BY <2>1 DEF InQueue
<1>3. CASE s.state[p] = QUEUED
  <2>1. v = RemoveFromSystem(s, {p})
    OBVIOUS
  <2> HIDE DEF v
  <2>2. Moved(s, SetState(v, {p}, NONE), {}, {p}, {})
    BY <1>2, <2>1, DismissPlayer
  <2>3. SetState(v, {p}, NONE) \in Stores
    BY <1>2, SetStateEffect DEF States
  <2>4. Free(SetState(v, {p}, NONE), p)
    BY <2>2, <2>3, MovedFree
  <2> QED BY <1>1, <1>3, <2>2, <2>3, <2>4
<1>4. CASE s.state[p] # QUEUED
  <2>1. p \notin InQueue(s)
    BY <1>4 DEF Inv, Queueing
  <2>2. v \in Stores /\ Moved(s, v, {}, {}, {})
    BY <2>1, RemoveIdle
  <2>3. Free(s, p)
    BY <1>4 DEF Free, Inv, Checking
  <2>4. Free(v, p)
    <3> HIDE DEF v
    <3> QED BY <1>0, <2>2, <2>3, FreeKept
  <2> QED BY <1>1, <1>4, <2>2, <2>4
<1> QED BY <1>3, <1>4

\* LeaveAllLfgQueues of a member whose group is free already moves nothing.
LEMMA LeaveAllOfGroup ==
    ASSUME NEW s \in Stores, NEW R, NEW D, Inv(s, {}, R, D), NEW g \in Groups, NEW p \in Players,
           s.group[p] = g, Free(s, g)
    PROVE  LET t == LeaveAllLfgQueues(s, p, g)
           IN t \in Stores /\ Free(t, g) /\ Moved(s, t, {}, {}, {})
<1> DEFINE t == LeaveAllLfgQueues(s, p, g)
           ids == {p, g} \cap Ids
<1>1. g # None /\ s.state[g] # QUEUED /\ Head(s, p) = g /\ Head(s, g) = g /\ p # g /\ g \in Ids
  BY Disjoint, HeadFacts DEF Free
<1>2. t = RemoveFromSystem(s, ids)
  BY <1>1 DEF LeaveAllLfgQueues
<1>3. \A i \in ids : i \notin InQueue(s) /\ \A n \in Open(s) : i \notin Combined(s, n)
  BY <1>1, FreeFacts DEF Free, Inv, Queueing, Proposing, Placed
<1>4. t \in Stores /\ Moved(s, t, {}, {}, {})
  <2> HIDE DEF ids
  <2> QED BY <1>2, <1>3, RemoveIdle
<1> HIDE DEF t
<1>5. Free(t, g)
  BY <1>1, <1>4, FreeKept
<1> QED BY <1>4, <1>5 DEF t

-----------------------------------------------------------------------------
\* The queue, and the data of what is in the queue or in a proposal, stay.
SameWaiting(s, t) ==
    /\ InQueue(t) = InQueue(s)
    /\ \A i \in Ids : i \in InQueue(s) \/ (\E n \in Open(s) : i \in Combined(s, n))
                        => t.data[i] = s.data[i]

\* What is proposed to whom depends on the proposals only.
LEMMA SameProposals ==
    ASSUME NEW s, NEW t, t.proposal = s.proposal
    PROVE  /\ Open(t) = Open(s)
           /\ \A n : Having(t, n) = Having(s, n) /\ Combined(t, n) = Combined(s, n)
BY DEF Open, Having, Combined

\* A player without a group joins one.
LEMMA Joins ==
    ASSUME NEW s \in Stores, NEW t \in Stores, NEW R, NEW D, Inv(s, {}, R, D),
           NEW p \in Players, NEW g \in Groups, s.group[p] = None, Free(s, p),
           SameState(s, t), SameWaiting(s, t), SameRest(s, t), t.lfg = s.lfg,
           \A q \in Players : t.group[q] = IF q = p THEN g ELSE s.group[q],
           \/ s.leader[g] # None /\ Free(s, g) /\ t.leader = s.leader /\ t.born = s.born
           \/ /\ s.leader[g] = None /\ t.born = s.born \cup {g}
              /\ \A h \in Groups : t.leader[h] = IF h = g THEN p ELSE s.leader[h],
           "befriended" \notin R => (s.old[g] = DUNGEON => s.old[p] = DUNGEON)
    PROVE  Inv(t, {}, R, D)
<1>1. Free(s, g)
  BY DEF Inv, Formed, Free, Proposing
<1>2. /\ Open(t) = Open(s)
      /\ \A n : Having(t, n) = Having(s, n) /\ Combined(t, n) = Combined(s, n)
      /\ t.proposal = s.proposal /\ t.check = s.check
  BY SameProposals DEF SameRest
<1>3. p \in Ids /\ g \in Ids /\ p # g /\ p # None /\ g # None /\ Head(s, p) = p /\ Head(s, g) = g
  BY Disjoint, HeadFacts
<1>4. /\ \A i \in Ids : Head(t, i) = IF i = p THEN g ELSE Head(s, i)
      /\ \A i \in Ids : i # p /\ i # g => Crew(t, i) = Crew(s, i)
  <2>1. \A i \in Ids : Head(t, i) = IF i = p THEN g ELSE Head(s, i)
    BY <1>3, Disjoint DEF Head
  <2>2. \A i \in Ids : i # p /\ i # g => Crew(t, i) = Crew(s, i)
    BY <1>3, <2>1, Disjoint DEF Crew
  <2> QED BY <2>1, <2>2
<1>5. /\ p \notin InQueue(s) /\ g \notin InQueue(s) /\ s.check[g] = None
      /\ \A q \in Crew(s, g) : s.state[q] \notin Busy /\ \A n \in Open(s) : q \notin Having(s, n)
      /\ s.state[p] \notin Busy /\ \A n \in Open(s) : p \notin Having(s, n)
  <2>1. p \in Crew(s, p)
    BY <1>3 DEF Crew
  <2> QED BY <1>1, <1>3, <2>1, FreeFacts
<1>6. Formed(t)
  <2>1. \A q \in Players : t.group[q] # None => t.leader[t.group[q]] # None
    BY <1>3, TypeFacts DEF Inv, Formed
  <2>2. \A h \in Groups : t.leader[h] # None => h \in t.born /\ t.group[t.leader[h]] = h
    <3>1. \A h \in Groups : h # None /\ s.leader[h] \in Players \cup {None}
      BY Disjoint, TypeFacts
    <3>2. \A h \in Groups : s.leader[h] # None => h \in s.born /\ s.group[s.leader[h]] = h
      BY DEF Inv, Formed
    <3> QED BY <1>3, <3>1, <3>2
  <2>3. \A h \in Groups : t.leader[h] = None =>
          h \notin t.lfg /\ t.state[h] = NONE /\ t.check[h] = None
    BY <1>2, <1>3 DEF Inv, Formed, SameState
  <2>4. \A h \in Groups : t.old[h] # NONE => h \in t.lfg
    BY DEF Inv, Formed, SameState
  <2> QED BY <2>1, <2>2, <2>3, <2>4 DEF Formed
<1>7. Resting(t)
  BY DEF Inv, Resting, SameState
<1>8. Agreeing(t)
  BY <1>1, <1>3, <1>4, <1>5, Disjoint DEF Inv, Agreeing, SameState, Free
<1>9. Checking(t)
  <2>1. \A h \in Groups : h # g => Members(t, h) = Members(s, h)
    BY <1>3, Disjoint DEF Members
  <2>2. \A q \in Players : t.state[q] = ROLECHECK => t.group[q] # None
    BY <1>3 DEF Inv, Checking, SameState
  <2> QED BY <1>2, <1>5, <2>1, <2>2 DEF Inv, Checking, SameState
<1>10. \A i \in Ids : i # p /\ i # g /\ Placed(s, i) /\ t.data[i] = s.data[i] => Placed(t, i)
  BY <1>4 DEF Placed
<1>11. Queueing(t)
  BY <1>5, <1>10, TypeFacts DEF Inv, Queueing, SameState, SameWaiting
<1>12. Proposing(t, {})
  <2> SUFFICES ASSUME NEW n \in Open(s)
               PROVE  /\ \A i \in Combined(s, n) :
                           /\ s.state[i] = PROPOSAL
                           /\ Placed(t, i) /\ i \notin InQueue(s)
                           /\ \A q \in Crew(t, i) : s.state[q] = s.state[i] /\ q \in Having(s, n)
                           /\ \A m \in Open(s) : i \in Combined(s, m) => m = n
                      /\ \A q \in Having(s, n) : Head(t, q) \in Combined(s, n)
                                                   /\ s.proposal[n].of[q] = t.group[q]
                      /\ s.proposal[n].leader \in Having(s, n)
                      /\ s.proposal[n].group # None => s.proposal[n].group \in Combined(s, n) \cap s.lfg
    BY <1>2 DEF Proposing, SameState, SameWaiting
  <2>1. \A i \in Combined(s, n) : i \in Ids /\ i # p /\ i # g
    BY <1>1, TypeFacts DEF Free
  <2>2. \A q \in Having(s, n) : q \in Players /\ q \in Ids /\ q # p
    BY <1>5, TypeFacts, Disjoint
  <2> QED BY <1>4, <1>10, <2>1, <2>2 DEF Inv, Proposing, SameWaiting
<1>13. Answered(t)
  BY <1>2 DEF Inv, Answered, SameState
<1>14. Searched(t, {}, D)
  BY <1>1, <1>2, <1>3, <1>4 DEF Inv, Searched, SameState, SameWaiting
<1>15. "absent" \notin R => Asked(t)
  BY <1>2 DEF Inv, Asked, SameState
<1>16. ASSUME "befriended" \notin R PROVE Chosen(t)
  BY <1>1, <1>2, <1>3, <1>4, <1>5, <1>16, Disjoint DEF Inv, Chosen, SameState, Free
<1> QED BY <1>6, <1>7, <1>8, <1>9, <1>11, <1>12, <1>13, <1>14, <1>15, <1>16 DEF Inv

\* Members leave a group, or it is disbanded.
Left(s, t, g) ==
    /\ t.born = s.born
    /\ \A q \in Players : IF s.group[q] = g THEN t.group[q] \in {g, None}
                                            ELSE t.group[q] = s.group[q]
    /\ \A h \in Groups : h # g => /\ t.leader[h] = s.leader[h] /\ (h \in t.lfg <=> h \in s.lfg)
                                  /\ t.state[h] = s.state[h] /\ t.old[h] = s.old[h]
    /\ \/ /\ t.leader[g] \in Players /\ t.group[t.leader[g]] = g
          /\ g \in t.lfg <=> g \in s.lfg
          /\ t.state[g] = s.state[g] /\ t.old[g] = s.old[g]
       \/ /\ t.leader[g] = None /\ g \notin t.lfg /\ \A q \in Players : t.group[q] # g
          /\ t.state[g] = NONE /\ t.old[g] = NONE
    /\ \A q \in Players :
         \/ t.state[q] = s.state[q] /\ t.old[q] = s.old[q] /\ (q \in t.selected <=> q \in s.selected)
         \/ s.group[q] = g /\ t.group[q] = None /\ t.state[q] = NONE /\ t.old[q] = NONE
    /\ SameWaiting(s, t) /\ SameRest(s, t)

\* Whoever leaves a free group (the shape Left) keeps the invariant.
LEMMA Leaves ==
    ASSUME NEW s \in Stores, NEW t \in Stores, NEW R, NEW D, Inv(s, {}, R, D),
           NEW g \in Groups, s.leader[g] # None, Free(s, g), Left(s, t, g)
    PROVE  Inv(t, {}, R, D)
<1>2. /\ Open(t) = Open(s)
      /\ \A n : Having(t, n) = Having(s, n) /\ Combined(t, n) = Combined(s, n)
      /\ t.proposal = s.proposal /\ t.check = s.check
  BY SameProposals DEF SameRest, Left
<1>3. g \in Ids /\ g # None /\ Head(s, g) = g /\ Crew(s, g) = Members(s, g)
  BY Disjoint, HeadFacts
<1>5. /\ g \notin InQueue(s) /\ s.check[g] = None
      /\ \A q \in Players : s.group[q] = g =>
           s.state[q] \notin Busy /\ \A n \in Open(s) : q \notin Having(s, n)
  <2>1. /\ g \notin InQueue(s) /\ s.check[g] = None
        /\ \A q \in Members(s, g) : s.state[q] \notin Busy /\ \A n \in Open(s) : q \notin Having(s, n)
    BY <1>3, FreeFacts
  <2> QED BY <2>1 DEF Members
<1>4. /\ \A q \in Players : s.group[q] # g => t.group[q] = s.group[q] /\ Head(t, q) = Head(s, q)
      /\ \A q \in Players : s.group[q] = g => Head(t, q) \in {q, g} /\ t.group[q] \in {g, None}
      /\ \A h \in Groups : Head(t, h) = h
  BY <1>3, Disjoint DEF Head, Left
<1>6. Formed(t)
  <2>1. /\ \A p \in Players : t.group[p] # None => t.leader[t.group[p]] # None
        /\ \A h \in Groups : t.leader[h] # None => h \in t.born /\ t.group[t.leader[h]] = h
    BY <1>3, TypeFacts, Disjoint DEF Inv, Formed, Left
  <2>2. /\ \A h \in Groups : t.leader[h] = None =>
             h \notin t.lfg /\ t.state[h] = NONE /\ t.check[h] = None
        /\ \A h \in Groups : t.old[h] # NONE => h \in t.lfg
    BY <1>2, <1>5, Disjoint DEF Inv, Formed, Left
  <2> QED BY <2>1, <2>2 DEF Formed
<1>7. Resting(t)
  BY Disjoint DEF Inv, Resting, Left
<1>8. Agreeing(t)
  <2> SUFFICES ASSUME NEW p \in Players
               PROVE  /\ t.state[p] \in Busy => t.state[Head(t, p)] = t.state[p]
                      /\ t.state[Head(t, p)] \in {ROLECHECK, QUEUED} => t.state[p] = t.state[Head(t, p)]
    BY DEF Agreeing
  <2>1. CASE s.group[p] = g
    <3>1. t.state[p] \notin Busy
      BY <1>5, <2>1 DEF Left, Busy
    <3>2. t.state[g] \notin {ROLECHECK, QUEUED}
      BY DEF Left, Free
    <3> QED BY <1>4, <2>1, <3>1, <3>2 DEF Busy
  <2>2. CASE s.group[p] # g
    <3>1. t.state[p] = s.state[p] /\ Head(t, p) = Head(s, p)
      BY <1>4, <2>2 DEF Left
    <3>2. t.state[Head(t, p)] = s.state[Head(s, p)]
      BY <2>2, <3>1, HeadFacts, Disjoint DEF Left
    <3> QED BY <3>1, <3>2 DEF Inv, Agreeing
  <2> QED BY <2>1, <2>2
<1>9. Checking(t)
  <2>1. \A h \in Groups : h # g => Members(t, h) = Members(s, h)
    BY <1>3, Disjoint DEF Members, Left
  <2>2. \A q \in Players : t.state[q] = ROLECHECK => t.group[q] # None
    BY <1>4, <1>5 DEF Inv, Checking, Left, Busy
  <2>3. \A h \in Groups : t.state[h] = ROLECHECK <=> t.check[h] # None
    BY <1>2, <1>5 DEF Inv, Checking, Left, Free
  <2> QED BY <1>2, <1>5, <2>1, <2>2, <2>3 DEF Inv, Checking
<1>10. ASSUME NEW i \in Ids, i # g, Placed(s, i), t.data[i] = s.data[i]
       PROVE  Placed(t, i) /\ Crew(t, i) = Crew(s, i)
  <2>1. i \in Players => s.group[i] = None
    BY <1>10, HeadFacts, Disjoint DEF Placed
  <2>2. Crew(t, i) = Crew(s, i) /\ Head(t, i) = i
    BY <1>3, <1>4, <1>10, <2>1, Disjoint, HeadFacts DEF Crew, Head
  <2>3. i \in s.lfg => i \in t.lfg
    BY <1>10, TypeFacts DEF Left
  <2> QED BY <1>10, <2>2, <2>3 DEF Placed
<1>20. \A i \in Ids : i # g /\ (i \in Players => s.group[i] = None) => t.state[i] = s.state[i]
  BY <1>3, Disjoint DEF Left
<1>11. Queueing(t)
  <2>1. \A i \in InQueue(s) : i \in Ids /\ i # g /\ Placed(s, i) /\ t.data[i] = s.data[i]
    BY <1>5, TypeFacts DEF Inv, Queueing, Left, SameWaiting
  <2>2. \A i \in InQueue(s) : i \in Players => s.group[i] = None
    BY <2>1, HeadFacts, Disjoint DEF Placed
  <2> QED BY <1>10, <1>20, <2>1, <2>2 DEF Inv, Queueing, Left, SameWaiting
<1>12. Proposing(t, {})
  <2> SUFFICES ASSUME NEW n \in Open(s)
               PROVE  /\ \A i \in Combined(s, n) :
                           /\ t.state[i] = PROPOSAL
                           /\ Placed(t, i) /\ i \notin InQueue(s)
                           /\ \A q \in Crew(t, i) : t.state[q] = t.state[i] /\ q \in Having(s, n)
                           /\ \A m \in Open(s) : i \in Combined(s, m) => m = n
                      /\ \A q \in Having(s, n) : Head(t, q) \in Combined(s, n)
                                                   /\ s.proposal[n].of[q] = t.group[q]
                      /\ s.proposal[n].leader \in Having(s, n)
                      /\ s.proposal[n].group # None => s.proposal[n].group \in Combined(s, n) \cap t.lfg
    BY <1>2 DEF Proposing, Left, SameWaiting
  <2>1. \A i \in Combined(s, n) : i \in Ids /\ i # g /\ Placed(s, i) /\ t.data[i] = s.data[i]
    BY TypeFacts DEF Free, Inv, Proposing, Left, SameWaiting
  <2>2. \A q \in Having(s, n) : q \in Players /\ s.group[q] # g /\ t.state[q] = s.state[q]
    BY <1>5, TypeFacts DEF Left
  <2>3. \A i \in Combined(s, n) : t.state[i] = s.state[i]
    BY <1>20, <2>1, HeadFacts, Disjoint DEF Placed
  <2>4. \A i \in Combined(s, n) : Placed(t, i) /\ Crew(t, i) = Crew(s, i)
    BY <1>10, <2>1
  <2>5. s.proposal[n].group # None => s.proposal[n].group \in Combined(s, n) \cap t.lfg
    BY <2>1, TypeFacts DEF Inv, Proposing, Left
  <2> QED BY <1>4, <2>1, <2>2, <2>3, <2>4, <2>5 DEF Inv, Proposing
<1>13. Answered(t)
  BY <1>2 DEF Inv, Answered, Left
<1>14. Searched(t, {}, D)
  <2> SUFFICES ASSUME NEW i \in Ids, t.state[i] = QUEUED, Head(t, i) = i
               PROVE  i \in InQueue(s) \/ i \in D
    BY DEF Searched, Left, SameWaiting
  <2>1. i # g /\ (i \in Players => s.group[i] # g)
    BY <1>5, Disjoint DEF Left, Free, Busy
  <2>2. t.state[i] = s.state[i] /\ Head(s, i) = i
    BY <1>4, <2>1, Disjoint, HeadFacts DEF Left
  <2> QED BY <2>2 DEF Inv, Searched
<1>15. "absent" \notin R => Asked(t)
  BY <1>2 DEF Inv, Asked, Left
<1>16. ASSUME "befriended" \notin R PROVE Chosen(t)
  <2>0. Chosen(s)
    BY <1>16 DEF Inv
  <2>1. \A p \in Players : t.group[p] # None =>
          (t.old[t.group[p]] = DUNGEON => t.old[p] = DUNGEON)
    BY <1>3, <2>0, TypeFacts DEF Chosen, Left
  <2>2. ASSUME NEW p \in Players, t.old[p] = DUNGEON PROVE p \in t.selected
    BY <2>0, <2>2 DEF Chosen, Left
  <2>3. ASSUME NEW p \in Players, NEW n \in Open(s), p \in Having(s, n) PROVE p \in t.selected
    BY <1>5, <2>0, <2>3 DEF Chosen, Left
  <2>4. ASSUME NEW p \in Players, t.state[Head(t, p)] \in {ROLECHECK, QUEUED}
        PROVE  p \in t.selected
    <3>1. s.group[p] # g
      BY <1>4, <1>5, <2>4 DEF Left, Free, Busy
    <3>2. t.state[Head(t, p)] = s.state[Head(s, p)]
      BY <1>4, <3>1, HeadFacts, Disjoint DEF Left
    <3> QED BY <2>0, <2>4, <3>1, <3>2 DEF Chosen, Left
  <2> QED BY <1>2, <2>1, <2>2, <2>3, <2>4 DEF Chosen
<1> QED BY <1>6, <1>7, <1>8, <1>9, <1>11, <1>12, <1>13, <1>14, <1>15, <1>16 DEF Inv

-----------------------------------------------------------------------------
\* The last lines of Group::AddMember.
LEMMA EnterEffect ==
    ASSUME NEW v \in Stores, NEW g \in Groups, NEW p \in Players
    PROVE  LET t == [v EXCEPT !.group = [@ EXCEPT ![p] = g], !.invite = [@ EXCEPT ![p] = None]] IN
           /\ t \in Stores
           /\ SameState(v, t) /\ SameQueue(v, t) /\ SameRest(v, t)
           /\ t.lfg = v.lfg /\ t.leader = v.leader /\ t.born = v.born
           /\ \A q \in Players : t.group[q] = IF q = p THEN g ELSE v.group[q]
BY DEF Stores, SameState, SameQueue, SameRest

\* The same queue is the same waiting.
LEMMA SameQueueWaiting ==
    ASSUME NEW s, NEW t, SameQueue(s, t)
    PROVE  SameWaiting(s, t)
BY DEF SameQueue, SameWaiting, InQueue

\* Who waits alone, or does nothing, leaves the finder.
LEMMA OnAddMemberJoins ==
    ASSUME NEW s \in Stores, NEW R, NEW D, Inv(s, {}, R, D), NEW g \in Groups, NEW p \in Players,
           s.leader[g] # None, s.group[p] = None, \A n \in Open(s) : p \notin Having(s, n),
           s.state[g] \notin {ROLECHECK, PROPOSAL}, "befriended" \notin R => g \notin s.lfg
    PROVE  OnAddMember(s, g, p) \in Stores /\ Inv(OnAddMember(s, g, p), {}, R, D)
<1> DEFINE lead == s.leader[g]
           t == IF p # lead /\ s.state[p] = QUEUED THEN LeaveLfg(s, p) ELSE s
           u == IF p # lead /\ s.state[g] = QUEUED THEN LeaveLfg(t, g) ELSE t
           w == LeaveAllLfgQueues(u, lead, g)
           v == IF g \in s.lfg THEN u ELSE LeaveAllLfgQueues(w, p, None)
           e == [v EXCEPT !.group = [@ EXCEPT ![p] = g], !.invite = [@ EXCEPT ![p] = None]]
           Ready(x) == x \in Stores /\ Inv(x, {}, R, D) /\ SameParty(s, x) /\ Free(x, p)
<1>1. OnAddMember(s, g, p) = e
  BY DEF OnAddMember
<1>2. /\ lead \in Players /\ s.group[lead] = g /\ p # lead /\ p \in Ids /\ g \in Ids /\ p # g
      /\ \A x : SameParty(s, x) => /\ Head(x, p) = p /\ Head(x, g) = g
                                   /\ x.group[p] = None /\ x.leader[g] = lead
                                   /\ x.group[lead] = g
  <2>1. lead \in Players /\ s.group[lead] = g /\ p # lead /\ p \in Ids /\ g \in Ids /\ p # g
    BY TypeFacts, Disjoint DEF Inv, Formed
  <2> QED BY <2>1, Disjoint DEF SameParty, Head
<1>3. ASSUME NEW x \in Stores, NEW y \in Stores, NEW Out, Ready(x), Moved(x, y, {}, Out, {})
      PROVE  Ready(y) /\ (Free(x, g) => Free(y, g))
  <2>1. Inv(y, {}, R, D)
    BY <1>3, Moves
  <2>2. SameParty(s, y)
    BY <1>3 DEF Moved, SameParty
  <2>3. Head(x, p) = p /\ Head(x, g) = g
    BY <1>2, <1>3
  <2>4. Free(y, p) /\ (Free(x, g) => Free(y, g))
    BY <1>2, <1>3, <2>3, FreeKept
  <2> QED BY <2>1, <2>2, <2>4
<1>4. Ready(t) /\ t.state[g] = s.state[g]
  <2>0. SameParty(s, s) /\ Head(s, p) = p /\ Head(s, g) = g
    BY <1>2 DEF SameParty
  <2>1. CASE s.state[p] = QUEUED
    <3>1. t = LeaveLfg(s, p)
      BY <1>2, <2>1
    <3>2. t \in Stores /\ Moved(s, t, {}, {p}, {})
      BY <1>2, <2>0, <2>1, <3>1, LeaveQueued
    <3> HIDE DEF t
    <3>3. Inv(t, {}, R, D) /\ Free(t, p)
      BY <3>2, Moves, MovedFree
    <3>4. SameParty(s, t) /\ t.state[g] = s.state[g]
      BY <1>2, <2>0, <3>2 DEF Moved
    <3> QED BY <3>2, <3>3, <3>4
  <2>2. CASE s.state[p] # QUEUED
    <3>1. t = s
      BY <2>2
    <3>2. s.state[p] # ROLECHECK
      BY DEF Inv, Checking
    <3>3. \A n \in Open(s) : p \notin Combined(s, n)
      <4>1. p \in Crew(s, p)
        BY <2>0 DEF Crew
      <4> QED BY <4>1 DEF Inv, Proposing
    <3> QED BY <2>0, <2>2, <3>1, <3>2, <3>3 DEF Free
  <2> QED BY <2>1, <2>2
<1> HIDE DEF t
<1>5. Ready(u) /\ Free(u, g)
  <2>1. CASE s.state[g] = QUEUED
    <3>1. u = LeaveLfg(t, g)
      BY <1>2, <2>1
    <3>2. u \in Stores /\ Moved(t, u, {}, {g}, {})
      BY <1>2, <1>4, <2>1, <3>1, LeaveQueued
    <3> HIDE DEF u
    <3>3. Free(u, g)
      BY <1>4, <3>2, MovedFree
    <3> QED BY <1>3, <1>4, <3>2, <3>3
  <2>2. CASE s.state[g] # QUEUED
    <3>1. u = t
      BY <2>2
    <3>2. Free(t, g)
      BY <1>4, <2>2 DEF Free, Inv, Proposing
    <3> QED BY <1>4, <3>1, <3>2
  <2> QED BY <2>1, <2>2
<1> HIDE DEF u
<1>6. Ready(v) /\ Free(v, g)
  <2>1. CASE g \in s.lfg
    BY <1>5, <2>1
  <2>2. CASE g \notin s.lfg
    <3>0. u.group[lead] = g /\ v = LeaveAllLfgQueues(w, p, None)
      BY <1>2, <1>5, <2>2
    <3>1. w \in Stores /\ Moved(u, w, {}, {}, {})
      BY <1>2, <1>5, <3>0, LeaveAllOfGroup
    <3> HIDE DEF w, v
    <3>2. Ready(w) /\ Free(w, g)
      BY <1>3, <1>5, <3>1
    <3>3. w.group[p] = None /\ \A n \in Open(w) : p \notin Combined(w, n)
      BY <1>2, <3>2 DEF Free
    <3>4. v \in Stores /\ \E Out : Moved(w, v, {}, Out, {})
      BY <3>0, <3>2, <3>3, LeaveAllOfPlayer
    <3>5. PICK Out : Moved(w, v, {}, Out, {})
      BY <3>4
    <3> QED BY <1>3, <3>2, <3>4, <3>5
  <2> QED BY <2>1, <2>2
<1> HIDE DEF v
<1>7. /\ e \in Stores
      /\ SameState(v, e) /\ SameQueue(v, e) /\ SameRest(v, e)
      /\ e.lfg = v.lfg /\ e.leader = v.leader /\ e.born = v.born
      /\ \A q \in Players : e.group[q] = IF q = p THEN g ELSE v.group[q]
  BY <1>6, EnterEffect
<1> HIDE DEF e
<1>8. v.group[p] = None /\ v.leader[g] # None /\ SameWaiting(v, e)
  BY <1>2, <1>6, <1>7, SameQueueWaiting, Disjoint
<1>9. "befriended" \notin R => (v.old[g] = DUNGEON => v.old[p] = DUNGEON)
  BY <1>6 DEF Inv, Formed, SameParty
<1>10. Inv(e, {}, R, D)
  BY <1>6, <1>7, <1>8, <1>9, Joins
<1> QED BY <1>1, <1>7, <1>10

\* t is s with the player p out of the queue, and in no state if he was QUEUED.
OutAlone(s, t, p) ==
    /\ SameParty(s, t) /\ SameRest(s, t)
    /\ \A i \in Ids : t.state[i] = IF i = p /\ s.state[p] = QUEUED THEN NONE ELSE s.state[i]
    /\ \A i \in Ids : t.old[i] = IF i = p /\ s.state[p] = QUEUED THEN NONE ELSE s.old[i]
    /\ t.selected = IF s.state[p] = QUEUED THEN s.selected \ {p} ELSE s.selected
    /\ \A i \in Ids : t.data[i] = IF i = p THEN None ELSE s.data[i]
    /\ t.new = s.new \ {p} /\ t.queue = s.queue \ {p}

\* That is what LeaveAllLfgQueues does for a player without a group.
LEMMA LeaveAllAloneEffect ==
    ASSUME NEW s \in Stores, NEW p \in Players
    PROVE  LeaveAllLfgQueues(s, p, None) \in Stores /\ OutAlone(s, LeaveAllLfgQueues(s, p, None), p)
<1> DEFINE t == LeaveAllLfgQueues(s, p, None)
           v == RemoveFromSystem(s, {p})
<1>0. {p, None} \cap Ids = {p} /\ p \in Ids /\ p \notin Groups
  BY Disjoint
<1>1. t = IF s.state[p] = QUEUED THEN SetState(v, {p}, NONE) ELSE v
  BY <1>0 DEF LeaveAllLfgQueues
<1>2. /\ v \in Stores
      /\ SameParty(s, v) /\ SameState(s, v) /\ SameRest(s, v)
      /\ \A i \in Ids : v.data[i] = IF i \in {p} THEN None ELSE s.data[i]
      /\ v.new = s.new \ {p} /\ v.queue = s.queue \ {p}
  BY RemoveFromSystemEffect
<1> HIDE DEF v, t
<1>3. CASE s.state[p] = QUEUED
  <2>0. t = SetState(v, {p}, NONE)
    BY <1>1, <1>3
  <2>1. /\ t \in Stores
        /\ SameParty(v, t) /\ SameQueue(v, t) /\ SameRest(v, t)
        /\ \A i \in Ids : t.state[i] = IF i \in Stored(v, {p}) THEN NONE ELSE v.state[i]
        /\ \A i \in Ids : t.old[i] = IF i \in Stored(v, {p}) THEN NONE ELSE v.old[i]
        /\ t.selected = v.selected \ {p}
    BY <1>2, <2>0, SetStateEffect DEF States, Busy
  <2>2. \A i \in Ids : i \in Stored(v, {p}) <=> i = p
    BY <1>0 DEF Stored
  <2>3. SameParty(s, t) /\ SameRest(s, t)
    BY <1>2, <2>1 DEF SameParty, SameRest
  <2> QED BY <1>2, <1>3, <2>1, <2>2, <2>3 DEF OutAlone, SameState, SameQueue, t
<1>4. CASE s.state[p] # QUEUED
  BY <1>1, <1>2, <1>4 DEF OutAlone, SameState, t
<1> QED BY <1>3, <1>4

\* Group::Create gives the group a leader, and nobody is in it yet.
LEMMA CreateEffect ==
    ASSUME NEW s \in Stores, NEW g \in Groups, NEW p \in Players
    PROVE  LET t == Create(s, g, p) IN
           /\ t \in Stores
           /\ SameState(s, t) /\ SameQueue(s, t) /\ SameRest(s, t)
           /\ t.group = s.group /\ t.lfg = s.lfg /\ t.born = s.born \cup {g}
           /\ \A h \in Groups : t.leader[h] = IF h = g THEN p ELSE s.leader[h]
BY DEF Create, Stores, SameState, SameQueue, SameRest

\* The one who asks for the group is its first member.
LEMMA OnAddMemberFounds ==
    ASSUME NEW s \in Stores, NEW R, NEW D, Inv(s, {}, R, D), NEW g \in Groups, NEW q \in Players,
           g \notin s.born, s.group[q] = None, \A n \in Open(s) : q \notin Having(s, n)
    PROVE  LET t == OnAddMember(Create(s, g, q), g, q) IN
           /\ t \in Stores /\ Inv(t, {}, R, D)
           /\ t.leader[g] = q /\ t.lfg = s.lfg /\ g \notin t.lfg /\ t.state[g] = NONE
           /\ \A p \in Players : t.group[p] = IF p = q THEN g ELSE s.group[p]
           /\ t.proposal = s.proposal
<1> DEFINE c == Create(s, g, q)
           w == LeaveAllLfgQueues(c, q, g)
           v == LeaveAllLfgQueues(w, q, None)
           y == LeaveAllLfgQueues(s, q, None)
           e == [v EXCEPT !.group = [@ EXCEPT ![q] = g], !.invite = [@ EXCEPT ![q] = None]]
<1>1. /\ s.leader[g] = None /\ g \notin s.lfg /\ s.state[g] = NONE /\ g \notin InQueue(s)
      /\ \A n \in Open(s) : g \notin Combined(s, n) /\ q \notin Combined(s, n)
  <2>1. s.leader[g] = None /\ g \notin s.lfg /\ s.state[g] = NONE
    BY DEF Inv, Formed
  <2>2. g \notin InQueue(s)
    BY <2>1 DEF Inv, Queueing
  <2>3. q \in Crew(s, q)
    BY HeadFacts, Disjoint DEF Crew
  <2> QED BY <2>1, <2>2, <2>3 DEF Inv, Proposing
<1>2. /\ c \in Stores
      /\ SameState(s, c) /\ SameQueue(s, c) /\ SameRest(s, c)
      /\ c.group = s.group /\ c.lfg = s.lfg /\ c.born = s.born \cup {g}
      /\ \A h \in Groups : c.leader[h] = IF h = g THEN q ELSE s.leader[h]
  BY CreateEffect
<1> HIDE DEF c
<1>3. OnAddMember(c, g, q) = e
  BY <1>1, <1>2 DEF OnAddMember
<1>4. {q, g} \cap Ids = {q, g} /\ g # None /\ q # g /\ q \in Ids /\ g \in Ids
  BY Disjoint
<1>5. w = RemoveFromSystem(c, {q, g})
  BY <1>1, <1>2, <1>4 DEF LeaveAllLfgQueues, SameState
<1>6. /\ w \in Stores
      /\ SameParty(c, w) /\ SameState(c, w) /\ SameRest(c, w)
      /\ \A i \in Ids : w.data[i] = IF i \in {q, g} THEN None ELSE c.data[i]
      /\ w.new = c.new \ {q, g} /\ w.queue = c.queue \ {q, g}
  BY <1>2, <1>5, RemoveFromSystemEffect
<1> HIDE DEF w
<1>7. v \in Stores /\ OutAlone(w, v, q) /\ y \in Stores /\ OutAlone(s, y, q)
  BY <1>6, LeaveAllAloneEffect
<1>8. Free(y, q) /\ \E Out : Moved(s, y, {}, Out, {})
  BY <1>1, LeaveAllOfPlayer
<1> HIDE DEF v, y
<1>9. Inv(y, {}, R, D)
  BY <1>7, <1>8, Moves
<1>10. /\ e \in Stores
       /\ SameState(v, e) /\ SameQueue(v, e) /\ SameRest(v, e)
       /\ e.lfg = v.lfg /\ e.leader = v.leader /\ e.born = v.born
       /\ \A p \in Players : e.group[p] = IF p = q THEN g ELSE v.group[p]
  BY <1>7, EnterEffect
<1> HIDE DEF e
<1>11. /\ e.lfg = s.lfg /\ e.born = s.born \cup {g}
       /\ \A h \in Groups : e.leader[h] = IF h = g THEN q ELSE s.leader[h]
       /\ \A p \in Players : e.group[p] = IF p = q THEN g ELSE s.group[p]
       /\ e.proposal = s.proposal /\ e.check = s.check
  BY <1>2, <1>6, <1>7, <1>10 DEF OutAlone, SameParty, SameRest
<1>12. SameParty(s, y) /\ SameRest(s, y)
  BY <1>7 DEF OutAlone
<1>13. /\ \A i \in Ids : e.state[i] = y.state[i] /\ e.old[i] = y.old[i]
       /\ e.selected = y.selected
       /\ e.state[g] = NONE
  BY <1>1, <1>2, <1>4, <1>6, <1>7, <1>10 DEF OutAlone, SameState
<1>14. SameState(y, e)
  BY <1>7, <1>10, <1>13 DEF Stores, SameState
<1>15. SameWaiting(y, e)
  <2>1. InQueue(e) = InQueue(y)
    BY <1>1, <1>2, <1>6, <1>7, <1>10 DEF InQueue, OutAlone, SameQueue
  <2>2. \A i \in Ids : i # g => e.data[i] = y.data[i]
    BY <1>2, <1>6, <1>7, <1>10 DEF OutAlone, SameQueue
  <2>3. g \notin InQueue(y)
    BY <1>1, <1>7 DEF InQueue, OutAlone
  <2>4. \A n \in Open(y) : g \notin Combined(y, n)
    BY <1>1, <1>12, SameProposals DEF SameRest
  <2> QED BY <2>1, <2>2, <2>3, <2>4 DEF SameWaiting
<1>16. SameRest(y, e)
  BY <1>11, <1>12 DEF SameRest
<1>17. y.group[q] = None /\ y.leader[g] = None /\ y.old[g] # DUNGEON
  BY <1>1, <1>9, <1>12 DEF SameParty, Inv, Formed
<1>18. Inv(e, {}, R, D)
  BY <1>7, <1>8, <1>9, <1>10, <1>11, <1>12, <1>14, <1>15, <1>16, <1>17, Joins DEF SameParty
<1> QED BY <1>1, <1>3, <1>10, <1>11, <1>13, <1>18 DEF c

\* Who leads the group already
LEMMA OnAddMemberAgain ==
    ASSUME NEW s \in Stores, NEW R, NEW D, Inv(s, {}, R, D), NEW g \in Groups, NEW p \in Players,
           s.leader[g] = p, g \notin s.lfg, s.state[g] = NONE
    PROVE  OnAddMember(s, g, p) \in Stores /\ Inv(OnAddMember(s, g, p), {}, R, D)
<1> DEFINE w == LeaveAllLfgQueues(s, p, g)
           v == LeaveAllLfgQueues(w, p, None)
           e == [v EXCEPT !.group = [@ EXCEPT ![p] = g], !.invite = [@ EXCEPT ![p] = None]]
<1>1. OnAddMember(s, g, p) = e
  BY DEF OnAddMember
<1>2. s.group[p] = g /\ Free(s, g) /\ p # g /\ p \in Ids /\ g \in Ids
  BY Disjoint DEF Inv, Formed, Free, Proposing
<1>3. w \in Stores /\ Free(w, g) /\ Moved(s, w, {}, {}, {})
  BY <1>2, LeaveAllOfGroup
<1> HIDE DEF w
<1>4. Inv(w, {}, R, D) /\ w.group[p] = g /\ Head(w, p) = g /\ Head(w, g) = g
  <2>1. Inv(w, {}, R, D)
    BY <1>3, Moves
  <2>2. w.group[p] = g
    BY <1>2, <1>3 DEF Moved, SameParty
  <2> QED BY <2>1, <2>2, <1>3, HeadFacts, Disjoint
<1>5. w.state[p] # QUEUED /\ p \notin InQueue(w) /\ \A n \in Open(w) : p \notin Combined(w, n)
  BY <1>2, <1>3, <1>4 DEF Inv, Queueing, Proposing, Placed, Agreeing, Free, Busy
<1>6. v = RemoveFromSystem(w, {p})
  <2>1. {p, None} \cap Ids = {p}
    BY Disjoint
  <2> QED BY <1>5, <2>1 DEF LeaveAllLfgQueues
<1>7. v \in Stores /\ Moved(w, v, {}, {}, {})
  BY <1>3, <1>5, <1>6, RemoveIdle
<1> HIDE DEF v
<1>8. Inv(v, {}, R, D)
  BY <1>3, <1>4, <1>7, Moves
<1>9. /\ e \in Stores
      /\ SameState(v, e) /\ SameQueue(v, e) /\ SameRest(v, e)
      /\ e.lfg = v.lfg /\ e.leader = v.leader /\ e.born = v.born
      /\ \A q \in Players : e.group[q] = IF q = p THEN g ELSE v.group[q]
  BY <1>7, EnterEffect
<1> HIDE DEF e
<1>10. e.group = v.group
  BY <1>4, <1>7, <1>9 DEF Stores, Moved, SameParty
<1>11. /\ Open(e) = Open(v)
       /\ \A n : Having(e, n) = Having(v, n) /\ Combined(e, n) = Combined(v, n)
  BY <1>9, SameProposals DEF SameRest
<1>12. Moved(v, e, {}, {}, {})
  BY <1>9, <1>10, <1>11 DEF Moved, SameParty, SameState, SameQueue, SameRest, InQueue
<1>13. Inv(e, {}, R, D)
  BY <1>7, <1>8, <1>9, <1>12, Moves
<1> QED BY <1>1, <1>9, <1>13

-----------------------------------------------------------------------------
\* RemoveGroupData, for a group that is not in a proposal and one that is.
LEMMA DisbandEffect ==
    ASSUME NEW s \in Stores, NEW g \in Groups, s.leader[g] # None
    PROVE  LET t == Disband(s, g) IN
           /\ t \in Stores /\ Left(s, t, g) /\ SameQueue(s, t) /\ t.leader[g] = None
           /\ s.state[g] = PROPOSAL => \A q \in Players :
                t.state[q] = s.state[q] /\ t.old[q] = s.old[q] /\ (q \in t.selected <=> q \in s.selected)
<1> DEFINE ps == Members(s, g)
           a == [s EXCEPT !.group = [q \in Players |-> IF q \in ps THEN None ELSE @[q]]]
           u == IF s.state[g] = PROPOSAL THEN a ELSE SetState(a, ps, NONE)
           b == SetState(u, {g}, NONE)
           t == [b EXCEPT !.leader = [@ EXCEPT ![g] = None], !.lfg = @ \ {g}]
<1>0. Disband(s, g) = t
  BY DEF Disband
<1>1. \A q \in Players : q \in ps <=> s.group[q] = g
  BY DEF Members
<1>2. ps \subseteq Players
  BY DEF Members
<1> HIDE DEF ps
<1>3. /\ a \in Stores
      /\ SameState(s, a) /\ SameQueue(s, a) /\ SameRest(s, a)
      /\ a.lfg = s.lfg /\ a.leader = s.leader /\ a.born = s.born
      /\ \A q \in Players : a.group[q] = IF q \in ps THEN None ELSE s.group[q]
  BY DEF Stores, SameState, SameQueue, SameRest
<1> HIDE DEF a
<1>4. /\ u \in Stores /\ SameParty(a, u) /\ SameQueue(a, u) /\ SameRest(a, u)
      /\ \A h \in Groups : u.state[h] = s.state[h] /\ u.old[h] = s.old[h]
      /\ \A q \in Players :
           \/ u.state[q] = s.state[q] /\ u.old[q] = s.old[q] /\ (q \in u.selected <=> q \in s.selected)
           \/ s.state[g] # PROPOSAL /\ q \in ps /\ u.state[q] = NONE /\ u.old[q] = NONE
  <2>1. CASE s.state[g] = PROPOSAL
    <3>1. u = a
      BY <2>1
    <3> QED BY <1>3, <3>1 DEF SameParty, SameQueue, SameRest, SameState
  <2>2. CASE s.state[g] # PROPOSAL
    <3>1. u = SetState(a, ps, NONE)
      BY <2>2
    <3>2. /\ u \in Stores
          /\ SameParty(a, u) /\ SameQueue(a, u) /\ SameRest(a, u)
          /\ \A i \in Ids : u.state[i] = IF i \in Stored(a, ps) THEN NONE ELSE a.state[i]
          /\ \A i \in Ids : u.old[i] = IF i \in Stored(a, ps) THEN NONE ELSE a.old[i]
          /\ u.selected = a.selected \ ps
      BY <1>3, <3>1, SetStateEffect DEF States, Busy
    <3>3. \A i \in Ids : i \in Stored(a, ps) <=> i \in ps
      BY <1>2, Disjoint DEF Stored
    <3> HIDE DEF u
    <3> QED BY <1>2, <1>3, <2>2, <3>2, <3>3, Disjoint DEF SameState
  <2> QED BY <2>1, <2>2
<1> HIDE DEF u
<1>5. /\ b \in Stores
      /\ SameParty(u, b) /\ SameQueue(u, b) /\ SameRest(u, b)
      /\ \A i \in Ids : b.state[i] = IF i \in Stored(u, {g}) THEN NONE ELSE u.state[i]
      /\ \A i \in Ids : b.old[i] = IF i \in Stored(u, {g}) THEN NONE ELSE u.old[i]
      /\ b.selected = u.selected \ {g}
  BY <1>4, SetStateEffect DEF States, Busy
<1>6. \A i \in Ids : i \in Stored(u, {g}) <=> i = g
  BY <1>3, <1>4 DEF Stored, SameParty
<1> HIDE DEF b
<1>7. /\ t \in Stores
      /\ SameState(b, t) /\ SameQueue(b, t) /\ SameRest(b, t)
      /\ t.group = b.group /\ t.born = b.born /\ t.lfg = b.lfg \ {g}
      /\ \A h \in Groups : t.leader[h] = IF h = g THEN None ELSE b.leader[h]
  BY <1>5 DEF Stores, SameState, SameQueue, SameRest
<1> HIDE DEF t
<1>8. g \notin Players /\ g # None /\ g \in Ids /\ Players \subseteq Ids /\ Groups \subseteq Ids
  BY Disjoint
<1>9. SameQueue(s, t) /\ SameRest(s, t) /\ SameWaiting(s, t)
  <2>1. SameQueue(s, t) /\ SameRest(s, t)
    BY <1>3, <1>4, <1>5, <1>7 DEF SameQueue, SameRest
  <2> QED BY <2>1, SameQueueWaiting
<1>10. /\ t.born = s.born /\ t.leader[g] = None /\ g \notin t.lfg
       /\ \A q \in Players : t.group[q] = IF s.group[q] = g THEN None ELSE s.group[q]
       /\ \A h \in Groups : h # g => t.leader[h] = s.leader[h] /\ (h \in t.lfg <=> h \in s.lfg)
  BY <1>1, <1>3, <1>4, <1>5, <1>7 DEF SameParty
<1>11. /\ \A h \in Groups : h # g => t.state[h] = s.state[h] /\ t.old[h] = s.old[h]
       /\ t.state[g] = NONE /\ t.old[g] = NONE
       /\ \A q \in Players : t.state[q] = u.state[q] /\ t.old[q] = u.old[q] /\ (q \in t.selected <=> q \in u.selected)
  BY <1>4, <1>5, <1>6, <1>7, <1>8 DEF SameState
<1>12. Left(s, t, g)
  BY <1>1, <1>4, <1>8, <1>9, <1>10, <1>11 DEF Left
<1> QED BY <1>0, <1>4, <1>7, <1>9, <1>10, <1>11, <1>12

\* Group::RemoveMember after the hooks
Parted(left, r, g, p) ==
    /\ Left(left, r, g) /\ SameQueue(left, r) /\ r.group[p] = None
    /\ left.state[g] = PROPOSAL => \A q \in Players :
         r.state[q] = left.state[q] /\ r.old[q] = left.old[q] /\ (q \in r.selected <=> q \in left.selected)

\* What OnRemoveMember does to the finder before the member is taken out
LeftFinder(s, g, p, byDefault) ==
    IF s.state[g] = PROPOSAL /\ byDefault THEN s ELSE LeaveAllLfgQueues(LeaveLfg(s, p), p, g)

\* RemoveMember then takes the member out of the group, or disbands it.
LEMMA RemoveMemberEffect ==
    ASSUME NEW s \in Stores, NEW g \in Groups, NEW p \in Players, NEW byDefault \in BOOLEAN,
           NEW inside \in BOOLEAN, NEW list \in Places, s.group[p] = g, s.leader[g] # None, s.group[s.leader[g]] = g,
           LeftFinder(s, g, p, byDefault) \in Stores, SameParty(s, LeftFinder(s, g, p, byDefault))
    PROVE  /\ RemoveMember(s, g, p, byDefault, inside, list) \in Stores
           /\ Parted(LeftFinder(s, g, p, byDefault), RemoveMember(s, g, p, byDefault, inside, list), g, p)
<1> DEFINE left == LeftFinder(s, g, p, byDefault)
           least == IF g \in s.lfg THEN 1 ELSE 2
           t == [left EXCEPT !.group = [@ EXCEPT ![p] = None]]
           heirs == Members(t, g) \cap online
           u == IF s.leader[g] = p /\ heirs # {}
                THEN [t EXCEPT !.leader = [@ EXCEPT ![g] = First(list, heirs)]] ELSE t
           alone == g \in s.lfg /\ Cardinality(Members(s, g)) = 2
           ends == \/ Cardinality(Members(s, g)) <= least
                   \/ alone /\ ~(inside /\ u.leader[g] \in online)
                   \/ Cardinality(heirs) < least
           r == RemoveMember(s, g, p, byDefault, inside, list)
<1>1. r = IF ends THEN Disband(u, g) ELSE u
  BY DEF RemoveMember, OnRemoveMember, LeftFinder
<1> HIDE DEF left, ends, r
<1>2. left \in Stores /\ SameParty(s, left)
  BY DEF left
<1>3. /\ t \in Stores
      /\ SameState(left, t) /\ SameQueue(left, t) /\ SameRest(left, t)
      /\ t.lfg = left.lfg /\ t.leader = left.leader /\ t.born = left.born
      /\ \A q \in Players : t.group[q] = IF q = p THEN None ELSE left.group[q]
  BY <1>2 DEF Stores, SameState, SameQueue, SameRest
<1> HIDE DEF t
<1>4. heirs # {} => First(list, heirs) \in heirs /\ First(list, heirs) \in Players
  <2>1. heirs \in SUBSET Players
    BY DEF Members
  <2> HIDE DEF heirs
  <2> QED BY <2>1, FirstIsIn
<1>5. heirs = {} => ends
  <2>1. heirs = {} => Cardinality(heirs) = 0
    BY FS_EmptySet
  <2> HIDE DEF heirs
  <2> QED BY <2>1 DEF ends
<1>6. /\ u \in Stores
      /\ SameState(t, u) /\ SameQueue(t, u) /\ SameRest(t, u)
      /\ u.group = t.group /\ u.lfg = t.lfg /\ u.born = t.born
      /\ \A h \in Groups : h # g => u.leader[h] = t.leader[h]
      /\ u.leader[g] \in Players
      /\ heirs # {} => u.group[u.leader[g]] = g
  <2>0. s.leader[g] \in Players /\ t.leader[g] = s.leader[g]
    BY <1>2, <1>3, TypeFacts DEF SameParty
  <2>1. CASE s.leader[g] = p /\ heirs # {}
    <3>1. u = [t EXCEPT !.leader = [@ EXCEPT ![g] = First(list, heirs)]]
      BY <2>1
    <3>2. First(list, heirs) \in Players /\ t.group[First(list, heirs)] = g
      BY <1>4, <2>1 DEF Members
    <3> HIDE DEF heirs, u
    <3> QED BY <1>3, <3>1, <3>2 DEF Stores, SameState, SameQueue, SameRest
  <2>2. CASE ~(s.leader[g] = p /\ heirs # {})
    <3>1. u = t
      BY <2>2
    <3>2. heirs # {} => t.group[t.leader[g]] = g
      BY <1>2, <1>3, <2>0, <2>2 DEF SameParty
    <3> HIDE DEF heirs, u
    <3> QED BY <1>3, <2>0, <3>1, <3>2 DEF Stores, SameState, SameQueue, SameRest
  <2> QED BY <2>1, <2>2
<1> HIDE DEF u, heirs
<1>7. /\ left.group[p] = g /\ g # None /\ g \notin Players /\ g \in Ids
      /\ Players \subseteq Ids /\ Groups \subseteq Ids
  BY <1>2, Disjoint DEF SameParty
<1>8. /\ SameQueue(left, u) /\ SameRest(left, u) /\ SameState(left, u)
      /\ u.lfg = left.lfg /\ u.born = left.born
      /\ \A h \in Groups : h # g => u.leader[h] = left.leader[h]
      /\ \A q \in Players : u.group[q] = IF q = p THEN None ELSE left.group[q]
  BY <1>3, <1>6 DEF SameQueue, SameRest, SameState
<1>9. CASE ~ends
  <2>1. r = u /\ heirs # {}
    BY <1>1, <1>5, <1>9
  <2>2. SameWaiting(left, u)
    BY <1>8, SameQueueWaiting
  <2>3. Left(left, u, g)
    BY <1>6, <1>7, <1>8, <2>1, <2>2 DEF Left, SameState
  <2>4. Parted(left, r, g, p)
    BY <1>8, <2>1, <2>3 DEF Parted, SameState
  <2> QED BY <1>6, <2>1, <2>4 DEF r, left
<1>10. CASE ends
  <2>1. r = Disband(u, g)
    BY <1>1, <1>10
  <2>2. u.leader[g] # None
    BY <1>6, Disjoint
  <2>3. /\ r \in Stores /\ Left(u, r, g) /\ SameQueue(u, r) /\ r.leader[g] = None
        /\ u.state[g] = PROPOSAL => \A q \in Players :
             r.state[q] = u.state[q] /\ r.old[q] = u.old[q] /\ (q \in r.selected <=> q \in u.selected)
    BY <1>6, <2>1, <2>2, DisbandEffect
  <2>4. SameQueue(left, r) /\ SameRest(left, r)
    BY <1>8, <2>3 DEF SameQueue, Left, SameRest
  <2>5. SameWaiting(left, r)
    BY <2>4, SameQueueWaiting
  <2>6. r.group[p] = None
    BY <1>7, <1>8, <2>3 DEF Left
  <2>7. r.leader[g] \notin Players
    BY <2>3, Disjoint
  <2>8. /\ \A q \in Players : IF left.group[q] = g THEN r.group[q] \in {g, None}
                                                   ELSE r.group[q] = left.group[q]
        /\ r.born = left.born
        /\ \A h \in Groups : h # g =>
             /\ r.leader[h] = left.leader[h] /\ (h \in r.lfg <=> h \in left.lfg)
             /\ r.state[h] = left.state[h] /\ r.old[h] = left.old[h]
    BY <1>7, <1>8, <2>3 DEF Left, SameState
  <2>9. /\ r.leader[g] = None /\ g \notin r.lfg /\ \A q \in Players : r.group[q] # g
        /\ r.state[g] = NONE /\ r.old[g] = NONE
    BY <2>3, <2>7 DEF Left
  <2>10. \A q \in Players :
         \/ r.state[q] = left.state[q] /\ r.old[q] = left.old[q] /\ (q \in r.selected <=> q \in left.selected)
         \/ left.group[q] = g /\ r.group[q] = None /\ r.state[q] = NONE /\ r.old[q] = NONE
    BY <1>7, <1>8, <2>3 DEF Left, SameState
  <2>11. Left(left, r, g)
    BY <2>4, <2>5, <2>8, <2>9, <2>10 DEF Left
  <2>12. Parted(left, r, g, p)
    BY <1>8, <2>3, <2>4, <2>6, <2>11 DEF Parted, SameState
  <2> QED BY <2>3, <2>12 DEF r, left
<1> QED BY <1>9, <1>10

\* left is x in which at most p has been put out of every state.
Leaving(x, left, p) ==
    /\ SameParty(x, left) /\ SameRest(x, left) /\ SameWaiting(x, left)
    /\ \A h \in Groups : left.state[h] = x.state[h] /\ left.old[h] = x.old[h]
    /\ \A q \in Players :
         \/ left.state[q] = x.state[q] /\ left.old[q] = x.old[q] /\ (q \in left.selected <=> q \in x.selected)
         \/ q = p /\ left.state[q] = NONE /\ left.old[q] = NONE

\* Before the member is taken out, the group is free but for his own state.
LEMMA LeftFinderLeaves ==
    ASSUME NEW s \in Stores, NEW R, NEW D, Inv(s, {}, R, D), NEW g \in Groups, NEW p \in Players,
           NEW byDefault \in BOOLEAN, s.group[p] = g,
           s.state[g] = PROPOSAL /\ byDefault => Free(s, g)
    PROVE  LET left == LeftFinder(s, g, p, byDefault) IN
           /\ left \in Stores /\ SameParty(s, left)
           /\ \E x \in Stores : Inv(x, {}, R, D) /\ Free(x, g) /\ Leaving(x, left, p)
<1> DEFINE left == LeftFinder(s, g, p, byDefault)
           u == LeaveLfg(s, p)
<1>0. /\ Head(s, p) = g /\ p \in Ids /\ g \in Ids /\ p \notin Groups /\ g \notin Players /\ p # g
      /\ Players \subseteq Ids /\ Groups \subseteq Ids /\ g # None /\ p # None
      /\ s.leader[g] # None
  BY HeadFacts, Disjoint DEF Inv, Formed
<1>1. CASE s.state[g] = PROPOSAL /\ byDefault
  <2>1. left = s
    BY <1>1 DEF LeftFinder
  <2>2. Leaving(s, s, p) /\ SameParty(s, s)
    BY DEF Leaving, SameParty, SameRest, SameWaiting
  <2> QED BY <1>1, <2>1, <2>2
<1>2. CASE ~(s.state[g] = PROPOSAL /\ byDefault)
  <2>0. left = LeaveAllLfgQueues(u, p, g)
    BY <1>2 DEF LeftFinder
  <2>1. CASE s.state[p] \in Busy
    <3>1. u \in Stores /\ SameParty(s, u) /\ Inv(u, {}, R, D) /\ Free(u, g)
      BY <1>0, <2>1, LeaveLfgLeaves
    <3> HIDE DEF u, left
    <3>2. u.group[p] = g
      BY <3>1 DEF SameParty
    <3>3. left \in Stores /\ Free(left, g) /\ Moved(u, left, {}, {}, {})
      BY <2>0, <3>1, <3>2, LeaveAllOfGroup
    <3>4. Inv(left, {}, R, D)
      BY <3>1, <3>3, Moves
    <3>5. SameParty(s, left)
      BY <3>1, <3>3 DEF Moved, SameParty
    <3>6. Leaving(left, left, p)
      BY DEF Leaving, SameParty, SameRest, SameWaiting
    <3> QED BY <3>3, <3>4, <3>5, <3>6 DEF left
  <2>2. CASE s.state[p] \notin Busy
    <3>1. /\ s.state[g] \notin {ROLECHECK, QUEUED} /\ \A n \in Open(s) : g \notin Combined(s, n)
      <4>1. s.state[g] \notin {ROLECHECK, QUEUED}
        BY <1>0, <2>2 DEF Inv, Agreeing, Busy
      <4>2. \A n \in Open(s) : g \notin Combined(s, n)
        <5>1. p \in Crew(s, g)
          BY <1>0 DEF Crew
        <5> QED BY <2>2, <5>1 DEF Inv, Proposing, Busy
      <4> QED BY <4>1, <4>2
    <3>2. Free(s, g)
      BY <3>1 DEF Free
    <3>3. /\ u \in Stores /\ SameParty(s, u) /\ SameQueue(s, u) /\ SameRest(s, u)
          /\ \A h \in Groups : u.state[h] = s.state[h] /\ u.old[h] = s.old[h]
          /\ \A q \in Players :
               \/ u.state[q] = s.state[q] /\ u.old[q] = s.old[q] /\ (q \in u.selected <=> q \in s.selected)
               \/ q = p /\ u.state[q] = NONE /\ u.old[q] = NONE
      <4>1. CASE s.state[p] \in {DUNGEON, FINISHED}
        <5>1. u = SetState(s, {p}, NONE)
          BY <1>0, <4>1 DEF LeaveLfg
        <5>2. /\ u \in Stores
              /\ SameParty(s, u) /\ SameQueue(s, u) /\ SameRest(s, u)
              /\ \A i \in Ids : u.state[i] = IF i \in Stored(s, {p}) THEN NONE ELSE s.state[i]
              /\ \A i \in Ids : u.old[i] = IF i \in Stored(s, {p}) THEN NONE ELSE s.old[i]
              /\ u.selected = s.selected \ {p}
          BY <5>1, SetStateEffect DEF States, Busy
        <5>3. \A i \in Ids : i \in Stored(s, {p}) <=> i = p
          BY <1>0 DEF Stored
        <5> HIDE DEF u
        <5> QED BY <1>0, <5>2, <5>3
      <4>2. CASE s.state[p] = NONE
        <5>1. u = s
          BY <1>0, <4>2 DEF LeaveLfg
        <5> QED BY <5>1 DEF SameParty, SameQueue, SameRest
      <4>3. s.state[p] \in States
        BY <1>0, TypeFacts
      <4> QED BY <2>2, <4>1, <4>2, <4>3 DEF States, Busy
    <3> HIDE DEF u
    <3>4. left = RemoveFromSystem(u, {p, g})
      <4>1. {p, g} \cap Ids = {p, g}
        BY <1>0
      <4> QED BY <1>0, <2>0, <3>1, <3>3, <4>1 DEF LeaveAllLfgQueues
    <3>5. /\ left \in Stores
          /\ SameParty(u, left) /\ SameState(u, left) /\ SameRest(u, left)
          /\ \A i \in Ids : left.data[i] = IF i \in {p, g} THEN None ELSE u.data[i]
          /\ left.new = u.new \ {p, g} /\ left.queue = u.queue \ {p, g}
      BY <3>3, <3>4, RemoveFromSystemEffect
    <3> HIDE DEF left
    <3>6. p \notin InQueue(s) /\ g \notin InQueue(s) /\ \A n \in Open(s) : p \notin Combined(s, n)
      BY <1>0, <3>1, <3>2 DEF Inv, Queueing, Proposing, Placed
    <3>7. SameWaiting(s, left)
      BY <3>1, <3>3, <3>5, <3>6 DEF SameWaiting, InQueue, SameQueue
    <3>8. SameParty(s, left) /\ SameRest(s, left)
      BY <3>3, <3>5 DEF SameParty, SameRest
    <3>9. Leaving(s, left, p)
      BY <3>3, <3>5, <3>7, <3>8 DEF Leaving, SameState
    <3> QED BY <3>2, <3>5, <3>8, <3>9 DEF left
  <2> QED BY <2>1, <2>2
<1> QED BY <1>1, <1>2

\* RemoveMember keeps the invariant, and the member is in no group afterwards.
LEMMA RemoveMemberLeaves ==
    ASSUME NEW s \in Stores, NEW R, NEW D, Inv(s, {}, R, D), NEW g \in Groups, NEW p \in Players,
           NEW byDefault \in BOOLEAN, NEW inside \in BOOLEAN, NEW list \in Places, s.group[p] = g,
           s.state[g] = PROPOSAL /\ byDefault => Free(s, g)
    PROVE  LET r == RemoveMember(s, g, p, byDefault, inside, list)
           IN r \in Stores /\ Inv(r, {}, R, D) /\ r.group[p] = None
<1> DEFINE left == LeftFinder(s, g, p, byDefault)
           r == RemoveMember(s, g, p, byDefault, inside, list)
<1>1. /\ left \in Stores /\ SameParty(s, left)
      /\ \E x \in Stores : Inv(x, {}, R, D) /\ Free(x, g) /\ Leaving(x, left, p)
  BY LeftFinderLeaves
<1>2. s.leader[g] # None /\ s.group[s.leader[g]] = g
  BY Disjoint DEF Inv, Formed
<1>3. r \in Stores /\ Parted(left, r, g, p)
  BY <1>1, <1>2, RemoveMemberEffect
<1> HIDE DEF left, r
<1>4. PICK x \in Stores : Inv(x, {}, R, D) /\ Free(x, g) /\ Leaving(x, left, p)
  BY <1>1
<1>5. /\ x.leader[g] # None /\ x.group = left.group /\ x.leader = left.leader /\ x.lfg = left.lfg
      /\ x.born = left.born /\ left.group[p] = g
  BY <1>1, <1>2, <1>4 DEF Leaving, SameParty
<1>6. SameRest(x, r) /\ SameWaiting(x, r)
  <2>1. SameRest(x, left) /\ SameWaiting(x, left) /\ SameRest(left, r) /\ SameQueue(left, r)
    BY <1>3, <1>4 DEF Leaving, Parted, Left
  <2>2. SameRest(x, r)
    BY <2>1 DEF SameRest
  <2>3. SameWaiting(x, r)
    BY <2>1 DEF SameWaiting, SameQueue, InQueue
  <2> QED BY <2>2, <2>3
<1>7. Left(x, r, g)
  BY <1>3, <1>4, <1>5, <1>6 DEF Left, Parted, Leaving
<1>8. Inv(r, {}, R, D)
  BY <1>3, <1>4, <1>5, <1>7, Leaves
<1> QED BY <1>3, <1>8 DEF r, Parted

-----------------------------------------------------------------------------
\* Whoever logs out of a group that answers a proposal leaves the group first and the
\* proposal then: as if he had left the proposal first.
LEMMA LeaveAfterParting ==
    ASSUME NEW s \in Stores, NEW R, NEW D, Inv(s, {}, R, D), NEW g \in Groups, NEW p \in Players,
           s.group[p] = g, NEW n \in Open(s), g \in Combined(s, n),
           NEW x \in Stores, Left(s, x, g), x.group[p] = None, SameQueue(s, x),
           \A q \in Players : x.state[q] = s.state[q] /\ x.old[q] = s.old[q]
                                /\ (q \in x.selected <=> q \in s.selected)
    PROVE  LET t == LeaveLfg(x, p) IN
           /\ t \in Stores /\ Inv(t, {}, R, D) /\ t.group[p] = None
           /\ \A k \in Open(t) : p \notin Combined(t, k)
<1> DEFINE m == Min(Containing(s, p))
           za == Answer(s, m, p, "deny")
           xa == Answer(x, m, p, "deny")
           z == RemoveProposal(za, m, FALSE)
           y == RemoveProposal(xa, m, FALSE)
<1>1. /\ Head(s, p) = g /\ p \in Crew(s, g) /\ p \in Having(s, n) /\ s.state[p] = PROPOSAL
      /\ g \in Ids /\ p \in Ids /\ g \notin Players /\ p \notin Groups /\ g # None /\ p # g
      /\ Players \subseteq Ids /\ Groups \subseteq Ids /\ s.leader[g] # None
  <2>1. Head(s, p) = g /\ p \in Crew(s, g)
    BY HeadFacts, Disjoint DEF Crew
  <2> QED BY <2>1, Disjoint DEF Inv, Proposing, Formed
<1>2. x.proposal = s.proposal /\ x.check = s.check
  BY DEF Left, SameRest
<1>3. /\ \A k : k \in Containing(s, p) <=> k \in Open(s) /\ p \in Having(s, k)
      /\ Containing(x, p) = Containing(s, p) /\ Containing(s, p) # {}
  BY <1>1, <1>2 DEF Containing, Open, Having
<1>4. m \in Open(s) /\ p \in Having(s, m)
  <2>1. Containing(s, p) \in SUBSET Nat
    BY DungeonFinderAssumption DEF Containing, Slots
  <2> QED BY <1>3, <2>1, MinIsIn
<1>5. m \in Open(x) /\ p \in Having(x, m) /\ Having(x, m) = Having(s, m)
  BY <1>2, <1>4 DEF Open, Having
<1>6. LeaveLfg(x, p) = y
  <2>1. x.state[p] = PROPOSAL
    BY <1>1
  <2> QED BY <1>1, <1>3, <2>1 DEF LeaveLfg
<1>7. z \in Stores /\ SameParty(s, z) /\ Inv(z, {}, R, D) /\ Free(z, g)
  <2> HIDE DEF m
  <2> QED BY <1>1, <1>4, DenyMoves
<1> HIDE DEF m
<1>8. za \in Stores /\ AnswerTo(s, za, m, p, "deny") /\ xa \in Stores /\ AnswerTo(x, xa, m, p, "deny")
  BY <1>4, <1>5, AnswerEffect DEF Answers
<1> HIDE DEF za, xa
<1>9. m \in Open(za) /\ m \in Open(xa)
  BY <1>4, <1>5, <1>8 DEF Open, AnswerTo
<1>10. RemovalOf(za, z, m, FALSE) /\ y \in Stores /\ RemovalOf(xa, y, m, FALSE)
  BY <1>8, <1>9, RemoveProposalEffect
<1> HIDE DEF z, y
<1> DEFINE gone == ToRemove(za, m, FALSE)
           outof == OutOf(za, m, FALSE)
           out == outof \cup Units(za, m, outof)
           rest == Having(za, m) \ outof
           back == rest \cup Units(za, m, rest)
<1>11. /\ Having(xa, m) = Having(za, m)
       /\ xa.proposal[m].of = za.proposal[m].of
       /\ xa.proposal[m].accept = za.proposal[m].accept
       /\ xa.proposal[m].queues = za.proposal[m].queues
       /\ xa.data = za.data /\ xa.new = za.new /\ xa.queue = za.queue
       /\ \A k \in Slots : k # m => xa.proposal[k] = za.proposal[k]
       /\ xa.check = za.check
  BY <1>2, <1>5, <1>8 DEF AnswerTo, SameQueue
<1>12. \A q : UnitIn(xa, m, q) = UnitIn(za, m, q)
  BY <1>11 DEF UnitIn
<1>13. \A Q : Units(xa, m, Q) = Units(za, m, Q)
  BY <1>12 DEF Units
<1>14. Refusing(xa, m, FALSE) = Refusing(za, m, FALSE)
  BY <1>11 DEF Refusing
<1>15. ToRemove(xa, m, FALSE) = gone
  BY <1>11, <1>13, <1>14 DEF ToRemove
<1>16. OutOf(xa, m, FALSE) = outof
  <2>1. OutOf(xa, m, FALSE) = {q \in Having(xa, m) : UnitIn(xa, m, q) \in ToRemove(xa, m, FALSE)}
    BY DEF OutOf
  <2>2. outof = {q \in Having(za, m) : UnitIn(za, m, q) \in gone}
    BY DEF OutOf
  <2> HIDE DEF gone, outof
  <2>3. \A q : q \in OutOf(xa, m, FALSE) <=> q \in Having(xa, m) /\ UnitIn(xa, m, q) \in ToRemove(xa, m, FALSE)
    BY <2>1
  <2>4. \A q : q \in outof <=> q \in Having(za, m) /\ UnitIn(za, m, q) \in gone
    BY <2>2
  <2>5. \A q : q \in OutOf(xa, m, FALSE) <=> q \in outof
    BY <1>11, <1>12, <1>15, <2>3, <2>4
  <2> QED BY <2>5
<1>17. p \in Refusing(za, m, FALSE) /\ UnitIn(za, m, p) = g
  <2>1. za.proposal[m].accept[p] = "deny" /\ p \in Having(za, m)
    BY <1>4, <1>8 DEF AnswerTo, Having
  <2>2. za.proposal[m].of[p] = g
    BY <1>4, <1>8 DEF AnswerTo, Inv, Proposing
  <2> QED BY <1>1, <2>1, <2>2 DEF Refusing, UnitIn
<1>18. g \in gone /\ g \in out /\ g \notin back
  <2>1. g \in gone
    BY <1>17 DEF ToRemove, Units
  <2>2. p \in outof
    BY <1>17, <2>1 DEF OutOf, Refusing
  <2>3. g \in out
    BY <1>17, <2>2 DEF Units
  <2>4. g \notin rest
    BY <1>1, <1>8, <1>9, TypeFacts
  <2>5. g \notin Units(za, m, rest)
    BY <2>1 DEF Units, OutOf
  <2> QED BY <2>1, <2>3, <2>4, <2>5
<1>19. /\ SameParty(za, z) /\ z.check = za.check
       /\ z.proposal[m] = None /\ \A k \in Slots : k # m => z.proposal[k] = za.proposal[k]
       /\ z.old = za.old
       /\ \A i \in Ids : z.state[i] = IF i \in Stored(za, back) THEN QUEUED
                                      ELSE IF i \in Stored(za, out) THEN za.old[i] ELSE za.state[i]
       /\ z.selected = za.selected \ {i \in out : za.old[i] = NONE}
       /\ \A i \in Ids : z.data[i] = IF i \in gone THEN None ELSE za.data[i]
       /\ z.new = (za.new \ gone) \cup (za.proposal[m].queues \ gone)
       /\ z.queue = (za.queue \ gone) \ (za.proposal[m].queues \ gone)
  BY <1>10 DEF RemovalOf
<1>20. /\ SameParty(xa, y) /\ y.check = xa.check
       /\ y.proposal[m] = None /\ \A k \in Slots : k # m => y.proposal[k] = xa.proposal[k]
       /\ y.old = xa.old
       /\ \A i \in Ids : y.state[i] = IF i \in Stored(xa, back) THEN QUEUED
                                      ELSE IF i \in Stored(xa, out) THEN xa.old[i] ELSE xa.state[i]
       /\ y.selected = xa.selected \ {i \in out : xa.old[i] = NONE}
       /\ \A i \in Ids : y.data[i] = IF i \in gone THEN None ELSE xa.data[i]
       /\ y.new = (xa.new \ gone) \cup (xa.proposal[m].queues \ gone)
       /\ y.queue = (xa.queue \ gone) \ (xa.proposal[m].queues \ gone)
  <2> DEFINE xg == ToRemove(xa, m, FALSE)
             xof == OutOf(xa, m, FALSE)
             xout == xof \cup Units(xa, m, xof)
             xrest == Having(xa, m) \ xof
             xback == xrest \cup Units(xa, m, xrest)
  <2>1. /\ SameParty(xa, y) /\ y.check = xa.check
        /\ y.proposal[m] = None /\ \A k \in Slots : k # m => y.proposal[k] = xa.proposal[k]
        /\ y.old = xa.old
        /\ \A i \in Ids : y.state[i] = IF i \in Stored(xa, xback) THEN QUEUED
                                       ELSE IF i \in Stored(xa, xout) THEN xa.old[i] ELSE xa.state[i]
        /\ y.selected = xa.selected \ {i \in xout : xa.old[i] = NONE}
        /\ \A i \in Ids : y.data[i] = IF i \in xg THEN None ELSE xa.data[i]
        /\ y.new = (xa.new \ xg) \cup (xa.proposal[m].queues \ xg)
        /\ y.queue = (xa.queue \ xg) \ (xa.proposal[m].queues \ xg)
    BY <1>10 DEF RemovalOf
  <2>2. xg = gone /\ xof = outof
    BY <1>15, <1>16
  <2> HIDE DEF xg, xof, gone, outof
  <2>3. xout = out /\ xrest = rest
    BY <1>11, <1>13, <2>2
  <2> HIDE DEF xout, xrest, out, rest
  <2>4. xback = back
    BY <1>13, <2>3
  <2> HIDE DEF xback, back
  <2> QED BY <2>1, <2>2, <2>3, <2>4
<1> HIDE DEF gone, out, outof, rest, back
<1>21. SameRest(z, y)
  <2>1. \A k \in Slots : y.proposal[k] = z.proposal[k]
    BY <1>11, <1>19, <1>20
  <2>2. y.proposal = z.proposal
    BY <1>7, <1>10, <2>1 DEF Stores
  <2> QED BY <1>11, <1>19, <1>20, <2>2 DEF SameRest
<1>22. SameQueue(z, y)
  <2>1. \A i \in Ids : y.data[i] = z.data[i]
    BY <1>11, <1>19, <1>20
  <2>2. y.data = z.data
    BY <1>7, <1>10, <2>1 DEF Stores
  <2> QED BY <1>11, <1>19, <1>20, <2>2 DEF SameQueue
<1>23. /\ y.group = x.group /\ y.leader = x.leader /\ y.lfg = x.lfg /\ y.born = x.born
       /\ z.group = s.group /\ z.leader = s.leader /\ z.lfg = s.lfg /\ z.born = s.born
       /\ xa.leader = x.leader /\ za.leader = s.leader
       /\ SameState(x, xa) /\ SameState(s, za)
  BY <1>8, <1>19, <1>20 DEF SameParty, AnswerTo
<1>24. \A ids : \A i \in Ids : i # g => (i \in Stored(xa, ids) <=> i \in Stored(za, ids))
  BY <1>23 DEF Stored, Left
<1>25. \A i \in Ids : i # g => xa.old[i] = za.old[i] /\ xa.state[i] = za.state[i]
  BY <1>23, Disjoint DEF SameState, Left
<1>26. \A i \in Ids : i # g => y.state[i] = z.state[i] /\ y.old[i] = z.old[i]
  BY <1>19, <1>20, <1>24, <1>25
<1>27. \A q \in Players : q \in y.selected <=> q \in z.selected
  BY <1>1, <1>19, <1>20, <1>23, <1>25 DEF SameState
<1>28. y.state[g] = (IF x.leader[g] = None THEN x.state[g] ELSE x.old[g]) /\ y.old[g] = x.old[g]
  BY <1>1, <1>18, <1>20, <1>23 DEF Stored, SameState
<1>29. z.state[g] = s.old[g] /\ z.old[g] = s.old[g]
  BY <1>1, <1>18, <1>19, <1>23 DEF Stored, SameState
<1>30. SameWaiting(z, y)
  BY <1>22, SameQueueWaiting
<1>31. \/ /\ y.leader[g] \in Players /\ y.group[y.leader[g]] = g
          /\ g \in y.lfg <=> g \in z.lfg
          /\ y.state[g] = z.state[g] /\ y.old[g] = z.old[g]
       \/ /\ y.leader[g] = None /\ g \notin y.lfg /\ \A q \in Players : y.group[q] # g
          /\ y.state[g] = NONE /\ y.old[g] = NONE
  BY <1>23, <1>28, <1>29, Disjoint DEF Left
<1>32. Left(z, y, g)
  BY <1>1, <1>21, <1>23, <1>26, <1>27, <1>30, <1>31 DEF Left
<1>33. Inv(y, {}, R, D)
  BY <1>1, <1>7, <1>10, <1>23, <1>32, Leaves
<1>34. \A k \in Open(y) : p \notin Combined(y, k)
  <2>1. Head(z, p) # p
    BY <1>1, <1>23 DEF Head
  <2>2. \A k \in Open(z) : p \notin Combined(z, k)
    BY <1>7, <2>1 DEF Inv, Proposing, Placed
  <2> QED BY <1>21, <2>2, SameProposals DEF SameRest
<1> QED BY <1>6, <1>10, <1>23, <1>33, <1>34

-----------------------------------------------------------------------------
\* The fold of RemoveProposals over the subsets of N, as a function: its value at
\* M,
Removing(s, f, M) == IF M = {} THEN s ELSE RemoveProposal(f[M \ {Max(M)}], Max(M), TRUE)
\* the equation that defines it,
Removes(s, N, f) == f = [M \in SUBSET N |-> Removing(s, f, M)]
\* and the function itself
Removed(s, N) == CHOOSE f : Removes(s, N, f)

\* RemoveProposals is that function at N.
LEMMA RemoveProposalsIs ==
    ASSUME NEW s, NEW N
    PROVE  RemoveProposals(s, N) = Removed(s, N)[N]
BY DEF RemoveProposals, MapThenFoldSet, Removed, Removes, Removing

\* Without its greatest element a finite set has one element less.
LEMMA TakeMax ==
    ASSUME NEW S \in SUBSET Nat, IsFiniteSet(S), NEW M \in SUBSET S, M # {}
    PROVE  /\ Max(M) \in M /\ M \ {Max(M)} \in SUBSET S
           /\ Cardinality(M) \in Nat /\ Cardinality(M \ {Max(M)}) = Cardinality(M) - 1
<1>1. IsFiniteSet(M)
  BY FS_Subset
<1>2. Max(M) \in M
  BY <1>1, MaxIsIn
<1> QED BY <1>1, <1>2, FS_RemoveElement, FS_CardinalityType

\* The recursion in RemoveProposals defines a function.
LEMMA RemovedIs ==
    ASSUME NEW s, NEW N \in SUBSET Nat, IsFiniteSet(N)
    PROVE  \A M \in SUBSET N : Removed(s, N)[M] = Removing(s, Removed(s, N), M)
<1> DEFINE Upto(n, f) == \A M \in SUBSET N : Cardinality(M) <= n => f[M] = Removing(s, f, M)
           T == {n \in Nat : \E f : Upto(n, f)}
<1>0. \A M \in SUBSET N : IsFiniteSet(M) /\ Cardinality(M) \in Nat /\ (Cardinality(M) = 0 <=> M = {})
  BY FS_Subset, FS_CardinalityType, FS_EmptySet
<1>1. 0 \in T
  <2> DEFINE z == [M \in SUBSET N |-> s]
  <2>1. ASSUME NEW M \in SUBSET N, Cardinality(M) <= 0 PROVE z[M] = Removing(s, z, M)
    <3>1. M = {}
      BY <1>0, <2>1
    <3> QED BY <3>1 DEF Removing
  <2>2. Upto(0, z)
    BY <2>1
  <2> HIDE DEF Upto, z
  <2> QED BY <2>2
<1>2. ASSUME NEW n \in T PROVE n + 1 \in T
  <2>1. n \in Nat /\ \E f : Upto(n, f)
    BY <1>2
  <2>2. PICK f : Upto(n, f)
    BY <2>1
  <2> DEFINE h == [M \in SUBSET N |-> Removing(s, f, M)]
  <2>3. ASSUME NEW M \in SUBSET N, Cardinality(M) <= n + 1 PROVE h[M] = Removing(s, h, M)
    <3>1. CASE M = {}
      BY <3>1 DEF Removing
    <3>2. CASE M # {}
      <4> DEFINE r == M \ {Max(M)}
      <4>1. r \in SUBSET N /\ Cardinality(r) <= n
        <5>1. r \in SUBSET N /\ Cardinality(M) \in Nat /\ Cardinality(r) = Cardinality(M) - 1
          BY <3>2, TakeMax
        <5> QED BY <2>1, <2>3, <5>1
      <4>2. f[r] = Removing(s, f, r)
        BY <2>2, <4>1
      <4>3. h[r] = f[r]
        BY <4>1, <4>2
      <4>4. h[M] = RemoveProposal(f[r], Max(M), TRUE)
        BY <3>2 DEF Removing
      <4>5. Removing(s, h, M) = RemoveProposal(h[r], Max(M), TRUE)
        BY <3>2 DEF Removing
      <4> QED BY <4>3, <4>4, <4>5
    <3> QED BY <3>1, <3>2
  <2>4. Upto(n + 1, h)
    BY <2>3
  <2> HIDE DEF Upto, h
  <2> QED BY <2>1, <2>4
<1>3. T = Nat
  <2>1. T \in SUBSET Nat
    OBVIOUS
  <2> HIDE DEF T
  <2> QED BY <1>1, <1>2, <2>1, CountingUp
<1>4. PICK f : Upto(Cardinality(N), f)
  <2>1. Cardinality(N) \in T
    BY <1>0, <1>3
  <2> HIDE DEF Upto
  <2> QED BY <2>1
<1>5. \A M \in SUBSET N : f[M] = Removing(s, f, M)
  <2>1. \A M \in SUBSET N : Cardinality(M) <= Cardinality(N)
    BY FS_Subset
  <2> QED BY <1>4, <2>1
<1> DEFINE h == [M \in SUBSET N |-> Removing(s, f, M)]
<1>6. ASSUME NEW M \in SUBSET N PROVE Removing(s, f, M) = Removing(s, h, M)
  <2>1. CASE M = {}
    BY <2>1 DEF Removing
  <2>2. CASE M # {}
    <3>1. M \ {Max(M)} \in SUBSET N
      OBVIOUS
    <3>2. h[M \ {Max(M)}] = f[M \ {Max(M)}]
      BY <1>5, <3>1
    <3> HIDE DEF h
    <3> QED BY <2>2, <3>2 DEF Removing
  <2> QED BY <2>1, <2>2
<1>7. Removes(s, N, h)
  <2>1. h = [M \in SUBSET N |-> Removing(s, h, M)]
    BY <1>6
  <2> HIDE DEF h
  <2> QED BY <2>1 DEF Removes
<1>8. Removes(s, N, Removed(s, N))
  <2> HIDE DEF h
  <2> QED BY <1>7 DEF Removed
<1> DEFINE D == Removed(s, N)
<1>9. D = [M \in SUBSET N |-> Removing(s, D, M)]
  BY <1>8 DEF Removes
<1> HIDE DEF D
<1>10. \A M \in SUBSET N : D[M] = Removing(s, D, M)
  BY <1>9
<1> QED BY <1>10 DEF D

-----------------------------------------------------------------------------
\* A step that only drops queue data keeps the types.
LEMMA TypedKept ==
    ASSUME NEW s, Typed(s), NEW t \in Stores, \A i \in Ids : t.data[i] \in {s.data[i], None},
           \A i \in InQueue(t) : t.data[i] # None, t.new \cap t.queue = {}
    PROVE  Typed(t)
BY Disjoint DEF Typed

\* So does a step that leaves the queue alone.
LEMMA SameQueueTyped ==
    ASSUME NEW s, Typed(s), NEW t \in Stores, SameQueue(s, t)
    PROVE  Typed(t)
BY TypedKept DEF SameQueue, InQueue, Typed

\* Two steps that leave the groups alone leave them alone together.
LEMMA PartyKept ==
    ASSUME NEW s, NEW t, NEW u, SameParty(s, t), SameParty(t, u)
    PROVE  SameParty(s, u)
BY DEF SameParty

\* SetState keeps the types and the groups.
LEMMA SetStateTyped ==
    ASSUME NEW s, Typed(s), NEW ids, NEW st \in States
    PROVE  Typed(SetState(s, ids, st)) /\ SameParty(s, SetState(s, ids, st))
<1>1. s \in Stores
  BY DEF Typed
<1>2. /\ SetState(s, ids, st) \in Stores /\ SameQueue(s, SetState(s, ids, st))
      /\ SameParty(s, SetState(s, ids, st))
  BY <1>1, SetStateEffect
<1> QED BY <1>2, SameQueueTyped

\* RestoreState keeps the types and the groups.
LEMMA RestoreStateTyped ==
    ASSUME NEW s, Typed(s), NEW ids
    PROVE  Typed(RestoreState(s, ids)) /\ SameParty(s, RestoreState(s, ids))
<1>1. s \in Stores
  BY DEF Typed
<1>2. /\ RestoreState(s, ids) \in Stores /\ SameQueue(s, RestoreState(s, ids))
      /\ SameParty(s, RestoreState(s, ids))
  BY <1>1, RestoreStateEffect
<1> QED BY <1>2, SameQueueTyped

\* The end of role checks keeps the types and the groups.
LEMMA EndRoleChecksTyped ==
    ASSUME NEW s, Typed(s), NEW C
    PROVE  Typed(EndRoleChecks(s, C)) /\ SameParty(s, EndRoleChecks(s, C))
<1>1. s \in Stores
  BY DEF Typed
<1>2. /\ EndRoleChecks(s, C) \in Stores /\ SameQueue(s, EndRoleChecks(s, C))
      /\ SameParty(s, EndRoleChecks(s, C))
  BY <1>1, EndRoleChecksEffect
<1> QED BY <1>2, SameQueueTyped

\* RemoveFromSystem keeps the types and the groups.
LEMMA RemoveFromSystemTyped ==
    ASSUME NEW s, Typed(s), NEW ids
    PROVE  Typed(RemoveFromSystem(s, ids)) /\ SameParty(s, RemoveFromSystem(s, ids))
<1> DEFINE t == RemoveFromSystem(s, ids)
<1>1. s \in Stores
  BY DEF Typed
<1>2. /\ t \in Stores /\ SameParty(s, t)
      /\ \A i \in Ids : t.data[i] = IF i \in ids THEN None ELSE s.data[i]
      /\ t.new = s.new \ ids /\ t.queue = s.queue \ ids
  BY <1>1, RemoveFromSystemEffect
<1> HIDE DEF t
<1>3. \A i \in InQueue(t) : i \in Ids /\ i \in InQueue(s) /\ i \notin ids
  BY <1>1, <1>2, TypeFacts DEF InQueue
<1>4. \A i \in InQueue(t) : t.data[i] # None
  BY <1>2, <1>3 DEF Typed
<1>5. Typed(t)
  <2>1. t.new \cap t.queue = {}
    BY <1>2 DEF Typed
  <2> QED BY <1>2, <1>4, <2>1, TypedKept
<1> QED BY <1>2, <1>5 DEF t

\* AddToQueue keeps the types and the groups.
LEMMA AddedTyped ==
    ASSUME NEW s, Typed(s), NEW i \in Ids, NEW d \in QueueData, i \in Players => d.lfg = FALSE
    PROVE  Typed(Added(s, i, d)) /\ SameParty(s, Added(s, i, d))
<1> DEFINE t == Added(s, i, d)
<1>1. s \in Stores
  BY DEF Typed
<1>2. /\ t \in Stores /\ SameParty(s, t)
      /\ \A j \in Ids : t.data[j] = IF j = i THEN d ELSE s.data[j]
      /\ t.new = s.new \cup {i} /\ t.queue = s.queue \ {i}
  BY <1>1, AddedEffect
<1>3. d # None
  BY EntryAssumption
<1> HIDE DEF t
<1>4. \A j \in InQueue(t) : j \in Ids /\ (j = i \/ j \in InQueue(s))
  BY <1>1, <1>2, TypeFacts DEF InQueue
<1>5. Typed(t)
  BY <1>2, <1>3, <1>4, Disjoint DEF Typed
<1> QED BY <1>2, <1>5 DEF t

\* An answer keeps the types and the groups.
LEMMA AnswerTyped ==
    ASSUME NEW s, Typed(s), NEW n \in Open(s), NEW p \in Having(s, n), NEW a \in Answers
    PROVE  Typed(Answer(s, n, p, a)) /\ SameParty(s, Answer(s, n, p, a))
<1>1. s \in Stores
  BY DEF Typed
<1>2. Answer(s, n, p, a) \in Stores /\ AnswerTo(s, Answer(s, n, p, a), n, p, a)
  BY <1>1, AnswerEffect
<1>3. SameQueue(s, Answer(s, n, p, a)) /\ SameParty(s, Answer(s, n, p, a))
  BY <1>2 DEF AnswerTo
<1> QED BY <1>2, <1>3, SameQueueTyped

\* RemoveProposal keeps the types and the groups.
LEMMA RemoveProposalTyped ==
    ASSUME NEW s, Typed(s), NEW n \in Open(s), NEW expired \in BOOLEAN
    PROVE  Typed(RemoveProposal(s, n, expired)) /\ SameParty(s, RemoveProposal(s, n, expired))
<1> DEFINE t == RemoveProposal(s, n, expired)
           gone == ToRemove(s, n, expired)
<1>1. s \in Stores
  BY DEF Typed
<1>2. t \in Stores /\ RemovalOf(s, t, n, expired)
  BY <1>1, RemoveProposalEffect
<1> HIDE DEF t
<1>3. /\ \A i \in Ids : t.data[i] = IF i \in gone THEN None ELSE s.data[i]
      /\ t.new = (s.new \ gone) \cup (s.proposal[n].queues \ gone)
      /\ t.queue = (s.queue \ gone) \ (s.proposal[n].queues \ gone)
      /\ SameParty(s, t)
  BY <1>2 DEF RemovalOf
<1>4. \A i \in s.proposal[n].queues : i \in Ids /\ (i \notin gone => s.data[i] # None)
  BY <1>1, TypeFacts DEF ToRemove, Combined
<1> HIDE DEF gone
<1>5. \A i \in InQueue(t) : i \in Ids /\ i \notin gone /\ s.data[i] # None
  BY <1>1, <1>3, <1>4, TypeFacts DEF InQueue, Typed
<1>6. Typed(t)
  <2>1. t.new \cap t.queue = {}
    BY <1>3 DEF Typed
  <2> QED BY <1>2, <1>3, <1>5, <2>1, TypedKept
<1> QED BY <1>3, <1>6 DEF t

\* LeaveLfg keeps the types and the groups.
LEMMA LeaveLfgTyped ==
    ASSUME NEW s, Typed(s), NEW guid \in Ids
    PROVE  Typed(LeaveLfg(s, guid)) /\ SameParty(s, LeaveLfg(s, guid))
<1> DEFINE g == IF guid \in Groups THEN guid ELSE s.group[guid]
           p == IF guid \in Groups THEN s.leader[g] ELSE guid
           Good(t) == Typed(t) /\ SameParty(s, t)
<1>1. s \in Stores
  BY DEF Typed
<1>0. Good(s)
  BY DEF SameParty
<1> SUFFICES Good(LeaveLfg(s, guid))
  OBVIOUS
<1>2. CASE s.state[guid] = QUEUED /\ g # None
  <2> DEFINE a == RemoveFromSystem(s, {g})
             b == RestoreState(a, {g} \cup Members(s, g))
  <2>1. LeaveLfg(s, guid) = b
    BY <1>2 DEF LeaveLfg
  <2>2. Typed(a) /\ SameParty(s, a)
    BY RemoveFromSystemTyped
  <2> HIDE DEF a
  <2>3. Typed(b) /\ SameParty(a, b)
    BY <2>2, RestoreStateTyped
  <2> QED BY <2>1, <2>2, <2>3, PartyKept
<1>3. CASE s.state[guid] = QUEUED /\ g = None
  <2> DEFINE a == RemoveFromSystem(s, {guid})
             b == SetState(a, {guid}, NONE)
  <2>1. LeaveLfg(s, guid) = b
    BY <1>3 DEF LeaveLfg
  <2>2. Typed(a) /\ SameParty(s, a)
    BY RemoveFromSystemTyped
  <2> HIDE DEF a
  <2>3. Typed(b) /\ SameParty(a, b)
    BY <2>2, SetStateTyped DEF States
  <2> QED BY <2>1, <2>2, <2>3, PartyKept
<1>4. CASE s.state[guid] = ROLECHECK
  <2>1. LeaveLfg(s, guid) = IF g = None THEN s ELSE EndRoleChecks(s, {g})
    BY <1>4 DEF LeaveLfg
  <2> QED BY <1>0, <2>1, EndRoleChecksTyped
<1>5. CASE s.state[guid] = PROPOSAL
  <2> DEFINE n == Min(Containing(s, p))
             t == RemoveProposal(Answer(s, n, p, "deny"), n, FALSE)
  <2>1. LeaveLfg(s, guid) = IF Containing(s, p) = {} THEN s ELSE t
    BY <1>5 DEF LeaveLfg
  <2>2. CASE Containing(s, p) # {}
    <3> HIDE DEF p
    <3>1. Containing(s, p) \in SUBSET Nat
      BY DungeonFinderAssumption DEF Containing, Slots
    <3>2. n \in Containing(s, p)
      BY <2>2, <3>1, MinIsIn
    <3> HIDE DEF n
    <3>3. n \in Open(s) /\ p \in Having(s, n)
      BY <3>2 DEF Containing, Open
    <3> DEFINE a == Answer(s, n, p, "deny")
               b == RemoveProposal(a, n, FALSE)
    <3>4. a \in Stores /\ AnswerTo(s, a, n, p, "deny") /\ Typed(a) /\ SameParty(s, a)
      BY <1>1, <3>3, AnswerEffect, AnswerTyped DEF Answers
    <3> HIDE DEF a
    <3>5. n \in Open(a)
      BY <3>3, <3>4 DEF AnswerTo, Open
    <3>6. Typed(b) /\ SameParty(a, b)
      BY <3>4, <3>5, RemoveProposalTyped
    <3>7. Good(b)
      BY <3>4, <3>6, PartyKept
    <3> QED BY <2>1, <2>2, <3>7 DEF a
  <2> QED BY <1>0, <2>1, <2>2
<1>6. CASE s.state[guid] \in {DUNGEON, FINISHED}
  <2>1. LeaveLfg(s, guid) = IF guid \in Players THEN SetState(s, {guid}, NONE) ELSE s
    BY <1>6 DEF LeaveLfg
  <2> QED BY <1>0, <2>1, SetStateTyped DEF States
<1>7. CASE s.state[guid] \notin {QUEUED, ROLECHECK, PROPOSAL, DUNGEON, FINISHED}
  <2>1. LeaveLfg(s, guid) = s
    BY <1>7 DEF LeaveLfg
  <2> QED BY <1>0, <2>1
<1> QED BY <1>2, <1>3, <1>4, <1>5, <1>6, <1>7

\* LeaveAllLfgQueues keeps the types and the groups.
LEMMA LeaveAllTyped ==
    ASSUME NEW s, Typed(s), NEW p, NEW g
    PROVE  Typed(LeaveAllLfgQueues(s, p, g)) /\ SameParty(s, LeaveAllLfgQueues(s, p, g))
<1> DEFINE t == RemoveFromSystem(s, {p, g} \cap Ids)
           a == SetState(t, {p}, NONE)
           b == SetState(t, {g} \cup Members(s, g), NONE)
<1>1. Typed(t) /\ SameParty(s, t)
  BY RemoveFromSystemTyped
<1>2. LeaveAllLfgQueues(s, p, g) \in {t, a, b}
  BY DEF LeaveAllLfgQueues
<1> HIDE DEF t
<1>3. Typed(a) /\ SameParty(t, a) /\ Typed(b) /\ SameParty(t, b)
  BY <1>1, SetStateTyped DEF States
<1> HIDE DEF a, b
<1>4. SameParty(s, a) /\ SameParty(s, b)
  BY <1>1, <1>3, PartyKept
<1> QED BY <1>1, <1>2, <1>3, <1>4

\* A player who enters a group keeps the types.
LEMMA EnterTyped ==
    ASSUME NEW v, Typed(v), NEW g \in Groups, NEW p \in Players
    PROVE  LET t == [v EXCEPT !.group = [@ EXCEPT ![p] = g], !.invite = [@ EXCEPT ![p] = None]]
           IN Typed(t) /\ t.born = v.born
<1> DEFINE t == [v EXCEPT !.group = [@ EXCEPT ![p] = g], !.invite = [@ EXCEPT ![p] = None]]
<1>1. v \in Stores
  BY DEF Typed
<1>2. t \in Stores /\ SameQueue(v, t) /\ t.born = v.born
  BY <1>1, EnterEffect
<1> QED BY <1>2, SameQueueTyped

\* OnAddMember keeps the types.
LEMMA OnAddMemberTyped ==
    ASSUME NEW s, Typed(s), NEW g \in Groups, NEW p \in Players
    PROVE  Typed(OnAddMember(s, g, p)) /\ OnAddMember(s, g, p).born = s.born
<1> DEFINE lead == s.leader[g]
           t == IF p # lead /\ s.state[p] = QUEUED THEN LeaveLfg(s, p) ELSE s
           u == IF p # lead /\ s.state[g] = QUEUED THEN LeaveLfg(t, g) ELSE t
           w == LeaveAllLfgQueues(u, lead, g)
           v == IF g \in s.lfg THEN u ELSE LeaveAllLfgQueues(w, p, None)
<1>1. p \in Ids /\ g \in Ids
  BY Disjoint
<1>2. Typed(t) /\ t.born = s.born
  BY <1>1, LeaveLfgTyped DEF SameParty
<1>3. OnAddMember(s, g, p) = [v EXCEPT !.group = [@ EXCEPT ![p] = g], !.invite = [@ EXCEPT ![p] = None]]
  BY DEF OnAddMember
<1> HIDE DEF t
<1>4. Typed(u) /\ u.born = s.born
  BY <1>1, <1>2, LeaveLfgTyped DEF SameParty
<1> HIDE DEF u
<1>5. Typed(w) /\ w.born = s.born
  BY <1>4, LeaveAllTyped DEF SameParty
<1> HIDE DEF w
<1>6. Typed(v) /\ v.born = s.born
  BY <1>4, <1>5, LeaveAllTyped DEF SameParty
<1> HIDE DEF v
<1> DEFINE e == [v EXCEPT !.group = [@ EXCEPT ![p] = g], !.invite = [@ EXCEPT ![p] = None]]
<1>7. Typed(e) /\ e.born = v.born
  BY <1>6, EnterTyped
<1>8. OnAddMember(s, g, p) = e
  BY <1>3
<1> HIDE DEF e
<1> QED BY <1>6, <1>7, <1>8

\* Disband keeps the types.
LEMMA DisbandTyped ==
    ASSUME NEW s, Typed(s), NEW g \in Groups
    PROVE  Typed(Disband(s, g)) /\ Disband(s, g).born = s.born
<1> DEFINE ps == Members(s, g)
           t == [s EXCEPT !.group = [p \in Players |-> IF p \in ps THEN None ELSE @[p]]]
           u == IF s.state[g] = PROPOSAL THEN t ELSE SetState(t, ps, NONE)
           v == SetState(u, {g}, NONE)
           w == [v EXCEPT !.leader = [@ EXCEPT ![g] = None], !.lfg = @ \ {g}]
<1>1. Disband(s, g) = w
  BY DEF Disband
<1> HIDE DEF ps
<1>2. Typed(t) /\ t.born = s.born
  <2>1. s \in Stores
    BY DEF Typed
  <2>2. t \in Stores /\ SameQueue(s, t) /\ t.born = s.born
    BY <2>1 DEF Stores, SameQueue
  <2> HIDE DEF t
  <2> QED BY <2>2, SameQueueTyped
<1> HIDE DEF t
<1>3. Typed(u) /\ u.born = s.born
  BY <1>2, SetStateTyped DEF SameParty, States
<1> HIDE DEF u
<1>4. Typed(v) /\ v.born = s.born
  BY <1>3, SetStateTyped DEF SameParty, States
<1> HIDE DEF v
<1>5. Typed(w) /\ w.born = s.born
  <2>1. v \in Stores
    BY <1>4 DEF Typed
  <2>2. w \in Stores /\ SameQueue(v, w) /\ w.born = v.born
    BY <2>1 DEF Stores, SameQueue
  <2> HIDE DEF w
  <2> QED BY <1>4, <2>2, SameQueueTyped
<1> QED BY <1>1, <1>5

\* RemoveMember keeps the types, in every state of the finder.
LEMMA RemoveMemberTyped ==
    ASSUME NEW s, Typed(s), NEW g \in Groups, NEW p \in Players,
           NEW byDefault \in BOOLEAN, NEW inside \in BOOLEAN, NEW list \in Places
    PROVE  LET t == RemoveMember(s, g, p, byDefault, inside, list)
           IN Typed(t) /\ t.born = s.born
<1> DEFINE left == IF s.state[g] = PROPOSAL /\ byDefault THEN s
                   ELSE LeaveAllLfgQueues(LeaveLfg(s, p), p, g)
           t == [left EXCEPT !.group = [@ EXCEPT ![p] = None]]
           heirs == Members(t, g) \cap online
           u == IF s.leader[g] = p /\ heirs # {}
                THEN [t EXCEPT !.leader = [@ EXCEPT ![g] = First(list, heirs)]] ELSE t
<1>1. RemoveMember(s, g, p, byDefault, inside, list) \in {u, Disband(u, g)}
  BY DEF RemoveMember, OnRemoveMember
<1>2. Typed(left) /\ left.born = s.born
  BY LeaveLfgTyped, LeaveAllTyped, Disjoint DEF SameParty
<1> HIDE DEF left
<1>3. Typed(t) /\ t.born = s.born
  <2>1. left \in Stores
    BY <1>2 DEF Typed
  <2>2. t \in Stores /\ SameQueue(left, t) /\ t.born = left.born
    BY <2>1 DEF Stores, SameQueue
  <2> HIDE DEF t
  <2> QED BY <1>2, <2>2, SameQueueTyped
<1>4. heirs # {} => First(list, heirs) \in Players
  <2>1. heirs \in SUBSET Players
    BY DEF Members
  <2> HIDE DEF heirs
  <2> QED BY <2>1, FirstIsIn
<1> HIDE DEF t, heirs
<1>5. Typed(u) /\ u.born = s.born
  <2> DEFINE h == First(list, heirs)
             y == [t EXCEPT !.leader = [@ EXCEPT ![g] = h]]
  <2>1. t \in Stores
    BY <1>3 DEF Typed
  <2> HIDE DEF h
  <2>2. ASSUME h \in Players PROVE Typed(y) /\ y.born = t.born
    <3>1. y \in Stores /\ SameQueue(t, y) /\ y.born = t.born
      BY <2>1, <2>2 DEF Stores, SameQueue
    <3> HIDE DEF y
    <3> QED BY <1>3, <3>1, SameQueueTyped
  <2> QED BY <1>3, <1>4, <2>2 DEF h
<1> HIDE DEF u
<1> QED BY <1>1, <1>5, DisbandTyped

-----------------------------------------------------------------------------
\* The fold of MakeNewGroup over the players, as a function: its value at M,
Gathering(first, list, f, M) == IF M = {} THEN first ELSE Take(f[M \ {Max(M)}], Max(M), list)
\* the equation that defines it,
Gathers(first, list, N, f) == f = [M \in SUBSET N |-> Gathering(first, list, f, M)]
\* and the function itself
Gathered(first, list, N) == CHOOSE f : Gathers(first, list, N, f)
\* The first player is the leader of the proposal,
Foremost(s, n, list) == Take([s |-> s, grp |-> Continued(s, n)], s.proposal[n].leader, list)
\* and these come after him.
Others(s, n) == Having(s, n) \ {s.proposal[n].leader}

\* Gather is that function at all the others.
LEMMA GatherIs ==
    ASSUME NEW s, NEW n, NEW list
    PROVE  Gather(s, n, list) = Gathered(Foremost(s, n, list), list, Others(s, n))[Others(s, n)]
BY DEF Gather, MapThenFoldSet, Gathered, Gathers, Gathering, Foremost, Others

\* The recursion in Gather defines a function.
LEMMA GatheredIs ==
    ASSUME NEW first, NEW list, NEW N \in SUBSET Nat, IsFiniteSet(N)
    PROVE  \A M \in SUBSET N : Gathered(first, list, N)[M] = Gathering(first, list, Gathered(first, list, N), M)
<1> DEFINE Upto(n, f) == \A M \in SUBSET N : Cardinality(M) <= n => f[M] = Gathering(first, list, f, M)
           T == {n \in Nat : \E f : Upto(n, f)}
<1>0. \A M \in SUBSET N : IsFiniteSet(M) /\ Cardinality(M) \in Nat /\ (Cardinality(M) = 0 <=> M = {})
  BY FS_Subset, FS_CardinalityType, FS_EmptySet
<1>1. 0 \in T
  <2> DEFINE z == [M \in SUBSET N |-> first]
  <2>1. ASSUME NEW M \in SUBSET N, Cardinality(M) <= 0 PROVE z[M] = Gathering(first, list, z, M)
    <3>1. M = {}
      BY <1>0, <2>1
    <3> QED BY <3>1 DEF Gathering
  <2>2. Upto(0, z)
    BY <2>1
  <2> HIDE DEF Upto, z
  <2> QED BY <2>2
<1>2. ASSUME NEW n \in T PROVE n + 1 \in T
  <2>1. n \in Nat /\ \E f : Upto(n, f)
    BY <1>2
  <2>2. PICK f : Upto(n, f)
    BY <2>1
  <2> DEFINE h == [M \in SUBSET N |-> Gathering(first, list, f, M)]
  <2>3. ASSUME NEW M \in SUBSET N, Cardinality(M) <= n + 1 PROVE h[M] = Gathering(first, list, h, M)
    <3>1. CASE M = {}
      BY <3>1 DEF Gathering
    <3>2. CASE M # {}
      <4> DEFINE r == M \ {Max(M)}
      <4>1. r \in SUBSET N /\ Cardinality(r) <= n
        <5>1. r \in SUBSET N /\ Cardinality(M) \in Nat /\ Cardinality(r) = Cardinality(M) - 1
          BY <3>2, TakeMax
        <5> QED BY <2>1, <2>3, <5>1
      <4>2. f[r] = Gathering(first, list, f, r)
        BY <2>2, <4>1
      <4>3. h[r] = f[r]
        BY <4>1, <4>2
      <4>4. h[M] = Take(f[r], Max(M), list)
        BY <3>2 DEF Gathering
      <4>5. Gathering(first, list, h, M) = Take(h[r], Max(M), list)
        BY <3>2 DEF Gathering
      <4> QED BY <4>3, <4>4, <4>5
    <3> QED BY <3>1, <3>2
  <2>4. Upto(n + 1, h)
    BY <2>3
  <2> HIDE DEF Upto, h
  <2> QED BY <2>1, <2>4
<1>3. T = Nat
  <2>1. T \in SUBSET Nat
    OBVIOUS
  <2> HIDE DEF T
  <2> QED BY <1>1, <1>2, <2>1, CountingUp
<1>4. PICK f : Upto(Cardinality(N), f)
  <2>1. Cardinality(N) \in T
    BY <1>0, <1>3
  <2> HIDE DEF Upto
  <2> QED BY <2>1
<1>5. \A M \in SUBSET N : f[M] = Gathering(first, list, f, M)
  <2>1. \A M \in SUBSET N : Cardinality(M) <= Cardinality(N)
    BY FS_Subset
  <2> QED BY <1>4, <2>1
<1> DEFINE h == [M \in SUBSET N |-> Gathering(first, list, f, M)]
<1>6. ASSUME NEW M \in SUBSET N PROVE Gathering(first, list, f, M) = Gathering(first, list, h, M)
  <2>1. CASE M = {}
    BY <2>1 DEF Gathering
  <2>2. CASE M # {}
    <3>1. M \ {Max(M)} \in SUBSET N
      OBVIOUS
    <3>2. h[M \ {Max(M)}] = f[M \ {Max(M)}]
      BY <1>5, <3>1
    <3> HIDE DEF h
    <3> QED BY <2>2, <3>2 DEF Gathering
  <2> QED BY <2>1, <2>2
<1>7. Gathers(first, list, N, h)
  <2>1. h = [M \in SUBSET N |-> Gathering(first, list, h, M)]
    BY <1>6
  <2> HIDE DEF h
  <2> QED BY <2>1 DEF Gathers
<1>8. Gathers(first, list, N, Gathered(first, list, N))
  <2> HIDE DEF h
  <2> QED BY <1>7 DEF Gathered
<1> DEFINE D == Gathered(first, list, N)
<1>9. D = [M \in SUBSET N |-> Gathering(first, list, D, M)]
  BY <1>8 DEF Gathers
<1> HIDE DEF D
<1>10. \A M \in SUBSET N : D[M] = Gathering(first, list, D, M)
  BY <1>9
<1> QED BY <1>10 DEF D

\* Every player who is there is put into the group, which exists from the first one on.
Ready(acc) == /\ Typed(acc.s) /\ acc.grp \in Groups \cup {None}
              /\ acc.grp = None => Fresh(acc.s) # {}

\* A new group of the finder keeps the types.
LEMMA StartTyped ==
    ASSUME NEW s, Typed(s), NEW g \in Groups, NEW p \in Players
    PROVE  Typed(Start(s, g, p))
<1> DEFINE a == Create(s, g, p)
           b == [a EXCEPT !.lfg = @ \cup {g}]
           c == SetState(b, {g}, PROPOSAL)
<1>1. Start(s, g, p) = OnAddMember(c, g, p)
  BY DEF Start
<1>2. s \in Stores
  BY DEF Typed
<1>3. a \in Stores /\ SameQueue(s, a)
  BY <1>2, CreateEffect
<1> HIDE DEF a
<1>4. b \in Stores /\ SameQueue(s, b)
  BY <1>3 DEF Stores, SameQueue
<1> HIDE DEF b
<1>5. Typed(b)
  BY <1>4, SameQueueTyped
<1>6. Typed(c)
  BY <1>5, SetStateTyped DEF States
<1> HIDE DEF c
<1> QED BY <1>1, <1>6, OnAddMemberTyped

\* One more player taken into the group keeps the types.
LEMMA TakeTyped ==
    ASSUME NEW acc, Ready(acc), NEW p \in Players, NEW list \in Places
    PROVE  Ready(Take(acc, p, list))
<1> DEFINE d == Depart(acc.s, p, acc.grp, list)
           e == Enter(d, acc.grp, p)
<1>1. CASE p \notin online
  BY <1>1 DEF Take
<1>2. CASE p \in online
  <2>1. Take(acc, p, list) = e
    BY <1>2 DEF Take
  <2>2. Typed(d) /\ d.born = acc.s.born
    <3>1. acc.s.group[p] \in Groups \cup {None}
      BY TypeFacts DEF Ready, Typed
    <3> DEFINE h == acc.s.group[p]
               m == RemoveMember(acc.s, h, p, TRUE, TRUE, list)
    <3>2. d = IF h \in {None, acc.grp} THEN acc.s ELSE m
      BY DEF Depart
    <3>3. Typed(acc.s)
      BY DEF Ready
    <3> HIDE DEF h
    <3>4. h \in Groups => Typed(m) /\ m.born = acc.s.born
      BY <3>3, RemoveMemberTyped
    <3> HIDE DEF m, d
    <3> QED BY <3>1, <3>2, <3>3, <3>4 DEF h
  <2> HIDE DEF d
  <2> DEFINE g == Min(Fresh(d))
  <2>3. CASE acc.grp = None
    <3>1. g \in Groups
      <4>1. Fresh(d) # {} /\ Fresh(d) \in SUBSET Groups /\ Fresh(d) \in SUBSET Nat
        BY <2>2, <2>3, DungeonFinderAssumption DEF Fresh, Ready
      <4> QED BY <4>1, MinIsIn
    <3>2. e = [s |-> Start(d, g, p), grp |-> g]
      BY <2>3 DEF Enter
    <3> HIDE DEF g
    <3>3. e.s = Start(d, g, p) /\ e.grp = g
      BY <3>2
    <3> QED BY <2>1, <2>2, <3>1, <3>3, StartTyped, Disjoint DEF Ready
  <2>4. CASE acc.grp # None
    <3> DEFINE h == acc.grp
    <3>1. h \in Groups /\ h # None
      BY <2>4 DEF Ready
    <3>2. e \in {[s |-> d, grp |-> h], [s |-> OnAddMember(d, h, p), grp |-> h]}
      BY <2>4 DEF Enter
    <3> HIDE DEF h, e
    <3>3. e.grp = h /\ (e.s = d \/ e.s = OnAddMember(d, h, p))
      BY <3>2
    <3> QED BY <2>1, <2>2, <3>1, <3>3, OnAddMemberTyped DEF Ready
  <2> QED BY <2>3, <2>4
<1> QED BY <1>1, <1>2

\* So do all of them, and there is a group in the end.
LEMMA GatherTyped ==
    ASSUME NEW s, Typed(s), NEW n \in Open(s), Continued(s, n) = None => Fresh(s) # {},
           NEW list \in Places
    PROVE  Ready(Gather(s, n, list))
<1> DEFINE first == Foremost(s, n, list)
           N == Others(s, n)
           f == Gathered(first, list, N)
           z == [s |-> s, grp |-> Continued(s, n)]
           G == {M \in SUBSET N : Ready(f[M])}
<1>1. s \in Stores
  BY DEF Typed
<1>2. s.proposal[n] \in Proposals /\ Having(s, n) \subseteq Players
  BY <1>1, TypeFacts
<1>3. s.proposal[n].leader \in Players /\ s.proposal[n].group \in Groups \cup {None}
  BY <1>2 DEF Proposals
<1>4. Ready(z)
  <2>1. z.s = s /\ z.grp = Continued(s, n)
    OBVIOUS
  <2>2. Continued(s, n) \in Groups \cup {None}
    BY <1>3 DEF Continued
  <2> HIDE DEF z
  <2> QED BY <2>1, <2>2 DEF Ready
<1>5. Ready(first)
  <2> HIDE DEF z
  <2>1. first = Take(z, s.proposal[n].leader, list)
    BY DEF Foremost, z
  <2> QED BY <1>3, <1>4, <2>1, TakeTyped
<1>6. N \subseteq Players /\ N \in SUBSET Nat /\ IsFiniteSet(N)
  BY <1>2, DungeonFinderAssumption, FS_Subset DEF Others
<1> HIDE DEF first, N
<1>7. \A M \in SUBSET N : f[M] = Gathering(first, list, f, M)
  BY <1>6, GatheredIs
<1> HIDE DEF f
<1>8. {} \in G
  BY <1>5, <1>7 DEF Gathering
<1>9. ASSUME NEW M \in SUBSET N, M # {}, \A x \in M : M \ {x} \in G
      PROVE  M \in G
  <2>1. Max(M) \in M
    BY <1>6, <1>9, TakeMax
  <2>2. f[M] = Take(f[M \ {Max(M)}], Max(M), list)
    BY <1>7, <1>9 DEF Gathering
  <2>3. Ready(f[M \ {Max(M)}])
    BY <1>9, <2>1
  <2> QED BY <1>6, <2>1, <2>2, <2>3, TakeTyped
<1> HIDE DEF G
<1>10. N \in G
  <2>1. G \in SUBSET SUBSET N
    BY DEF G
  <2> QED BY <1>6, <1>8, <1>9, <2>1, SubsetInduction
<1>11. Ready(f[N])
  BY <1>10 DEF G
<1> QED BY <1>11, GatherIs DEF f, N, first

\* UpdateProposal keeps the types, whatever the answer and whoever is connected.
LEMMA UpdateProposalTyped ==
    ASSUME NEW s, Typed(s), NEW n \in Open(s), NEW p \in Having(s, n), NEW accept \in BOOLEAN,
           NEW list \in Places,
           accept /\ Continued(s, n) = None => Fresh(s) # {}
    PROVE  Typed(UpdateProposal(s, n, p, accept, list))
<1> DEFINE ans == IF accept THEN "agree" ELSE "deny"
           t == Answer(s, n, p, ans)
           a == SetState(t, Having(s, n), DUNGEON)
           b == RemoveFromSystem(a, t.proposal[n].queues)
           made == Gather(b, n, list)
           d == SetState(made.s, {made.grp}, DUNGEON)
           e == [d EXCEPT !.proposal = [@ EXCEPT ![n] = None]]
<1>1. s \in Stores
  BY DEF Typed
<1>2. ans \in Answers
  BY DEF Answers
<1> HIDE DEF ans
<1>3. t \in Stores /\ AnswerTo(s, t, n, p, ans) /\ Typed(t)
  BY <1>1, <1>2, AnswerEffect, AnswerTyped
<1>4. UpdateProposal(s, n, p, accept, list) \in {RemoveProposal(t, n, FALSE), t} \/ (accept /\ UpdateProposal(s, n, p, accept, list) = e)
  BY DEF UpdateProposal, MakeNewGroup, ans
<1> HIDE DEF t
<1>5. n \in Open(t) /\ n \in Slots
  BY <1>3 DEF AnswerTo, Open
<1>6. Typed(RemoveProposal(t, n, FALSE))
  BY <1>3, <1>5, RemoveProposalTyped
<1>7. ASSUME accept PROVE Typed(e)
  <2>1. a \in Stores /\ SameParty(t, a) /\ a.proposal = t.proposal /\ Typed(a)
    BY <1>3, SetStateEffect, SetStateTyped DEF States, SameRest
  <2> HIDE DEF a
  <2>2. b \in Stores /\ SameParty(a, b) /\ b.proposal = a.proposal /\ Typed(b)
    BY <2>1, RemoveFromSystemEffect, RemoveFromSystemTyped DEF SameRest
  <2> HIDE DEF b
  <2>3. n \in Open(b)
    BY <1>5, <2>1, <2>2 DEF Open
  <2>4. b.proposal[n].group = s.proposal[n].group /\ b.leader = s.leader /\ b.born = s.born
    BY <1>3, <2>1, <2>2 DEF AnswerTo, SameParty
  <2>5. Continued(b, n) = None => Fresh(b) # {}
    BY <1>7, <2>4 DEF Continued, Fresh
  <2>6. Ready(made)
    BY <2>2, <2>3, <2>5, GatherTyped
  <2> HIDE DEF made
  <2>7. Typed(d)
    BY <2>6, SetStateTyped DEF States, Ready
  <2> HIDE DEF d
  <2>8. d \in Stores
    BY <2>7 DEF Typed
  <2>9. e \in Stores /\ SameQueue(d, e)
    BY <1>5, <2>8 DEF Stores, SameQueue
  <2> HIDE DEF e
  <2> QED BY <2>7, <2>9, SameQueueTyped
<1> HIDE DEF e
<1> QED BY <1>3, <1>4, <1>6, <1>7

-----------------------------------------------------------------------------
\* Removing any number of proposals, one after the other, keeps the types and the
\* invariant and leaves all other proposals alone.
LEMMA RemoveProposalsEffect ==
    ASSUME NEW s, Typed(s), NEW N \in SUBSET Open(s), NEW F, NEW R, NEW D
    PROVE  LET t == RemoveProposals(s, N) IN
           /\ Typed(t) /\ SameParty(s, t)
           /\ \A k \in Slots : k \notin N => t.proposal[k] = s.proposal[k]
           /\ Inv(s, F, R, D) /\ N \cap F = {} => Inv(t, F, R, D)
<1> DEFINE f == Removed(s, N)
           Good(M) == /\ Typed(f[M]) /\ SameParty(s, f[M])
                      /\ \A k \in Slots : k \notin M => f[M].proposal[k] = s.proposal[k]
                      /\ Inv(s, F, R, D) /\ N \cap F = {} => Inv(f[M], F, R, D)
           G == {M \in SUBSET N : Good(M)}
<1>1. N \in SUBSET Nat /\ IsFiniteSet(N) /\ N \subseteq Slots
  <2>1. N \subseteq Slots /\ Slots \subseteq Nat /\ MaxProposals \in Int
    BY DungeonFinderAssumption DEF Open, Slots
  <2>2. IsFiniteSet(Slots)
    BY <2>1, FS_Interval DEF Slots
  <2> QED BY <2>1, <2>2, FS_Subset
<1>2. \A M \in SUBSET N : f[M] = Removing(s, f, M)
  BY <1>1, RemovedIs
<1> HIDE DEF f
<1>3. {} \in G
  BY <1>2 DEF Removing, SameParty
<1>4. ASSUME NEW M \in SUBSET N, M # {}, \A x \in M : M \ {x} \in G
      PROVE  M \in G
  <2> DEFINE m == Max(M)
             a == f[M \ {m}]
  <2>1. m \in M
    BY <1>1, <1>4, TakeMax
  <2>2. f[M] = RemoveProposal(a, m, TRUE)
    BY <1>2, <1>4 DEF Removing
  <2> HIDE DEF m
  <2>3. /\ Typed(a) /\ SameParty(s, a)
        /\ \A k \in Slots : k \notin M \ {m} => a.proposal[k] = s.proposal[k]
        /\ Inv(s, F, R, D) /\ N \cap F = {} => Inv(a, F, R, D)
    BY <1>4, <2>1
  <2> HIDE DEF a
  <2> DEFINE b == RemoveProposal(a, m, TRUE)
  <2>4. m \in Open(a) /\ m \in Slots /\ m \in N /\ a \in Stores
    BY <1>1, <2>1, <2>3 DEF Open, Typed
  <2>5. Typed(b) /\ SameParty(a, b)
    BY <2>3, <2>4, RemoveProposalTyped
  <2>6. \A k \in Slots : k # m => b.proposal[k] = a.proposal[k]
    <3>1. RemovalOf(a, b, m, TRUE)
      BY <2>4, RemoveProposalEffect
    <3> HIDE DEF b
    <3> QED BY <3>1 DEF RemovalOf
  <2>7. ASSUME Inv(s, F, R, D), N \cap F = {} PROVE Inv(b, F, R, D)
    <3>1. Inv(a, F, R, D) /\ m \notin F
      BY <2>3, <2>4, <2>7
    <3>2. Moved(a, b, F, ToRemove(a, m, TRUE), Combined(a, m) \ ToRemove(a, m, TRUE))
      BY <2>4, <3>1, RemoveProposalMoves
    <3> HIDE DEF b
    <3>3. b \in Stores
      BY <2>5 DEF Typed
    <3> QED BY <2>4, <3>1, <3>2, <3>3, Moves
  <2> HIDE DEF b
  <2>8. SameParty(s, b)
    BY <2>3, <2>5, PartyKept
  <2>9. \A k \in Slots : k \notin M => b.proposal[k] = s.proposal[k]
    BY <2>1, <2>3, <2>6
  <2>10. f[M] = b
    BY <2>2 DEF b
  <2> QED BY <2>5, <2>7, <2>8, <2>9, <2>10
<1>5. G \in SUBSET SUBSET N
  OBVIOUS
<1> HIDE DEF G
<1>6. N \in G
  BY <1>1, <1>3, <1>4, <1>5, SubsetInduction
<1>7. Good(N)
  BY <1>6 DEF G
<1>8. RemoveProposals(s, N) = f[N]
  BY RemoveProposalsIs DEF f
<1> QED BY <1>7, <1>8

\* What waits is only put from one list to the other.
LEMMA Requeues ==
    ASSUME NEW s \in Stores, NEW t \in Stores, NEW F, NEW R, NEW D, Inv(s, F, R, D), SameParty(s, t),
           SameState(s, t), SameRest(s, t), t.data = s.data, InQueue(t) = InQueue(s)
    PROVE  Inv(t, F, R, D)
<1>1. Open(t) = Open(s) /\ \A n : Having(t, n) = Having(s, n) /\ Combined(t, n) = Combined(s, n)
  BY SameProposals DEF SameRest
<1>2. Moved(s, t, F, {}, {})
  BY <1>1 DEF Moved, SameState, SameRest
<1> QED BY <1>2, Moves

\* A new proposal takes the combined premades out of the queue, keeps their data
\* and asks exactly their players.
LEMMA ProposeEffect ==
    ASSUME NEW s, Typed(s), NEW ids \in SUBSET InQueue(s), NEW lead \in PlayersOf(s, ids),
           NEW n \in Slots, NEW i \in ids, ids \subseteq s.queue \cup {i}
    PROVE  LET rest == [s EXCEPT !.new = @ \ {i}]
               r == BuildProposal(rest, ids, lead)
               t == [rest EXCEPT !.queue = @ \ ids, !.proposal = [@ EXCEPT ![n] = r]]
           IN /\ Typed(t) /\ SameParty(s, t) /\ SameState(s, t) /\ t.data = s.data /\ t.check = s.check
              /\ InQueue(t) = InQueue(s) \ ids
              /\ \A k \in Slots : t.proposal[k] = IF k = n THEN r ELSE s.proposal[k]
              /\ r # None /\ r.queues = ids /\ DOMAIN r.accept = PlayersOf(s, ids) /\ r.leader = lead
              /\ \A p \in PlayersOf(s, ids) : r.of[p] = s.group[p]
              /\ r.group # None => r.group \in ids /\ s.data[r.group].lfg
<1> DEFINE rest == [s EXCEPT !.new = @ \ {i}]
           r == BuildProposal(rest, ids, lead)
           t == [rest EXCEPT !.queue = @ \ ids, !.proposal = [@ EXCEPT ![n] = r]]
           ps == PlayersOf(s, ids)
           from == {j \in ids : s.data[j].lfg}
           grp == IF from = {} THEN None ELSE CHOOSE j \in from : TRUE
           continues == grp # None /\ s.old[grp] = DUNGEON
           accept == [p \in ps |-> IF continues /\ s.group[p] = grp THEN "agree" ELSE "pending"]
           of == [p \in ps |-> s.group[p]]
<1>1. s \in Stores /\ ids \subseteq Ids /\ \A j \in ids : s.data[j] \in QueueData
  BY TypeFacts DEF Typed
<1>2. rest \in Stores
  BY <1>1 DEF Stores
<1>3. /\ rest.data = s.data /\ rest.old = s.old /\ rest.group = s.group
      /\ rest.new = s.new \ {i} /\ rest.queue = s.queue /\ rest.proposal = s.proposal
      /\ SameParty(s, rest) /\ SameState(s, rest) /\ rest.check = s.check
  BY <1>1 DEF Stores, SameParty, SameState
<1>4. r = [queues |-> ids, leader |-> lead, group |-> grp, accept |-> accept, of |-> of]
  <2>1. PlayersOf(rest, ids) = ps
    BY <1>3 DEF PlayersOf
  <2> HIDE DEF rest, ps
  <2> QED BY <1>3, <2>1 DEF BuildProposal
<1> HIDE DEF rest
<1>5. ps \subseteq Players
  BY <1>1 DEF PlayersOf, QueueData
<1>6. grp # None => grp \in ids /\ s.data[grp].lfg
  BY <1>1, Disjoint
<1>7. grp \in Groups \cup {None}
  <2>1. ASSUME grp # None PROVE grp \in Groups
    <3>1. grp \in Ids /\ s.data[grp].lfg /\ s.data[grp] # None
      BY <1>1, <1>6, <2>1 DEF Typed
    <3> QED BY <3>1, Disjoint DEF Typed
  <2> QED BY <2>1
<1> HIDE DEF grp, ps
<1>8. accept \in [ps -> Answers] /\ of \in [ps -> Groups \cup {None}]
  BY <1>1, <1>5, TypeFacts DEF Answers
<1>9. DOMAIN accept = ps /\ \A p \in ps : of[p] = s.group[p]
  OBVIOUS
<1> HIDE DEF accept, of, r
<1>10. lead \in Players
  BY <1>5 DEF ps
<1>11. r \in Proposals
  BY <1>1, <1>4, <1>5, <1>7, <1>8, <1>10 DEF Proposals
<1>12. r # None
  BY <1>11, EntryAssumption
<1>13. t \in Stores
  BY <1>2, <1>11 DEF Stores
<1>14. /\ SameParty(rest, t) /\ SameState(rest, t) /\ t.data = s.data /\ t.check = s.check
       /\ t.new = s.new \ {i} /\ t.queue = s.queue \ ids
       /\ \A k \in Slots : t.proposal[k] = IF k = n THEN r ELSE s.proposal[k]
  BY <1>2, <1>3 DEF Stores, SameParty, SameState
<1> HIDE DEF t
<1>15. SameParty(s, t) /\ SameState(s, t)
  BY <1>3, <1>14 DEF SameParty, SameState
<1>16. InQueue(t) = InQueue(s) \ ids
  BY <1>14 DEF InQueue, Typed
<1>17. Typed(t)
  <2>1. \A j \in InQueue(t) : t.data[j] # None
    BY <1>14, <1>16 DEF Typed
  <2>2. t.new \cap t.queue = {}
    BY <1>14 DEF Typed
  <2> QED BY <1>13, <1>14, <2>1, <2>2, TypedKept
<1>18. /\ r.queues = ids /\ DOMAIN r.accept = ps /\ r.leader = lead /\ r.group = grp
       /\ \A p \in ps : r.of[p] = s.group[p]
  BY <1>4, <1>9
<1> QED BY <1>6, <1>12, <1>14, <1>15, <1>16, <1>17, <1>18 DEF t, rest, r, ps

\* A new proposal, which SendProposal has not told anybody of.
NewProposal(s, t, n, ids) ==
    /\ SameParty(s, t) /\ SameState(s, t) /\ t.data = s.data /\ t.check = s.check
    /\ InQueue(t) = InQueue(s) \ ids
    /\ \A k \in Slots : k # n => t.proposal[k] = s.proposal[k]
    /\ t.proposal[n] # None /\ Combined(t, n) = ids /\ Having(t, n) = PlayersOf(s, ids)
    /\ t.proposal[n].leader \in PlayersOf(s, ids)
    /\ \A p \in PlayersOf(s, ids) : t.proposal[n].of[p] = s.group[p]
    /\ t.proposal[n].group # None => t.proposal[n].group \in ids /\ s.data[t.proposal[n].group].lfg

\* A new proposal keeps the invariant, with the proposal as the one that is not yet
\* sent.
LEMMA Proposes ==
    ASSUME NEW s \in Stores, NEW t \in Stores, NEW R, NEW D, Inv(s, {}, R, D), NEW n \in Slots,
           s.proposal[n] = None, NEW ids \in SUBSET InQueue(s), NewProposal(s, t, n, ids)
    PROVE  Inv(t, {n}, R, D)
<1>1. /\ \A i : Head(t, i) = Head(s, i)
      /\ \A i : Crew(t, i) = Crew(s, i)
      /\ \A g : Members(t, g) = Members(s, g)
  BY SameHeads DEF NewProposal, SameParty
<1>2. Open(t) = Open(s) \cup {n} /\ n \notin Open(s)
  BY DEF Open, NewProposal
<1>3. \A m \in Open(s) : m # n /\ Having(t, m) = Having(s, m) /\ Combined(t, m) = Combined(s, m)
                           /\ t.proposal[m] = s.proposal[m]
  BY DEF Open, Having, Combined, NewProposal
<1>4. /\ SameParty(s, t) /\ SameState(s, t) /\ t.data = s.data /\ t.check = s.check
      /\ InQueue(t) = InQueue(s) \ ids
  BY DEF NewProposal
<1>5. \A p : p \in PlayersOf(s, ids) <=> \E i \in ids : p \in Crew(s, i)
  <2>1. \A i \in ids : s.data[i].players = Crew(s, i)
    BY DEF Inv, Queueing, Placed
  <2> QED BY <2>1 DEF PlayersOf
<1>6. \A p \in PlayersOf(s, ids) : p \in Players /\ Head(s, p) \in ids /\ s.state[p] = QUEUED
                                     /\ s.state[Head(s, p)] = QUEUED
  <2>1. \A p \in PlayersOf(s, ids) : p \in Players /\ Head(s, p) \in ids
    BY <1>5 DEF Crew
  <2>2. \A p \in PlayersOf(s, ids) : s.state[Head(s, p)] = QUEUED
    BY <2>1 DEF Inv, Queueing
  <2> QED BY <2>1, <2>2 DEF Inv, Agreeing
<1>7. Formed(t) /\ Resting(t) /\ Agreeing(t) /\ Checking(t)
  BY <1>1, <1>4 DEF Inv, Formed, Resting, Agreeing, Checking, SameParty, SameState
<1>8. \A i : Placed(s, i) => Placed(t, i)
  BY <1>1, <1>4 DEF Placed, SameParty
<1>9. Queueing(t)
  BY <1>4, <1>8 DEF Inv, Queueing, SameState
<1>10. Proposing(t, {n})
  <2> SUFFICES ASSUME NEW m \in Open(t)
               PROVE  /\ \A i \in Combined(t, m) :
                           /\ t.state[i] = (IF m \in {n} THEN QUEUED ELSE PROPOSAL)
                           /\ Placed(t, i) /\ i \notin InQueue(t)
                           /\ \A p \in Crew(t, i) : t.state[p] = t.state[i] /\ p \in Having(t, m)
                           /\ \A k \in Open(t) : i \in Combined(t, k) => k = m
                      /\ \A p \in Having(t, m) : Head(t, p) \in Combined(t, m)
                                                   /\ t.proposal[m].of[p] = t.group[p]
                      /\ t.proposal[m].leader \in Having(t, m)
                      /\ t.proposal[m].group # None => t.proposal[m].group \in Combined(t, m) \cap t.lfg
    BY DEF Proposing
  <2>0. \A k \in Open(s) : \A i \in Combined(s, k) : i \notin ids
    BY DEF Inv, Proposing
  <2>1. CASE m = n
    <3>1. Combined(t, m) = ids /\ Having(t, m) = PlayersOf(s, ids)
      BY <2>1 DEF NewProposal
    <3>2. ASSUME NEW i \in ids
          PROVE  /\ t.state[i] = QUEUED /\ Placed(t, i) /\ i \notin InQueue(t)
                 /\ \A p \in Crew(t, i) : t.state[p] = QUEUED /\ p \in PlayersOf(s, ids)
      <4>1. s.state[i] = QUEUED /\ Placed(s, i)
        BY DEF Inv, Queueing
      <4>2. \A p \in Crew(s, i) : p \in PlayersOf(s, ids) /\ s.state[p] = QUEUED
        BY <1>5, <1>6
      <4> QED BY <1>1, <1>4, <1>8, <4>1, <4>2 DEF SameState
    <3>3. \A i \in ids : \A k \in Open(t) : i \in Combined(t, k) => k = n
      BY <1>2, <1>3, <2>0
    <3>4. \A p \in PlayersOf(s, ids) : Head(t, p) \in ids /\ t.proposal[n].of[p] = t.group[p]
      BY <1>1, <1>4, <1>6 DEF NewProposal, SameParty
    <3>5. t.proposal[n].group # None => t.proposal[n].group \in ids \cap t.lfg
      BY <1>4 DEF NewProposal, Inv, Queueing, Placed, SameParty
    <3>6. t.proposal[n].leader \in PlayersOf(s, ids)
      BY DEF NewProposal
    <3> QED BY <2>1, <3>1, <3>2, <3>3, <3>4, <3>5, <3>6
  <2>2. CASE m # n
    <3>1. m \in Open(s)
      BY <1>2, <2>2
    <3>2. Combined(t, n) = ids
      BY DEF NewProposal
    <3>3. \A i \in Combined(s, m) : \A k \in Open(t) : i \in Combined(t, k) => k = m
      BY <1>2, <1>3, <2>0, <3>1, <3>2 DEF Inv, Proposing
    <3> QED BY <1>1, <1>3, <1>4, <1>8, <2>2, <3>1, <3>3 DEF Inv, Proposing, SameState,
         SameParty
  <2> QED BY <2>1, <2>2
<1>11. Answered(t)
  BY <1>2, <1>3, <1>4 DEF Inv, Answered, SameState
<1>12. Searched(t, {n}, D)
  <2>1. Combined(t, n) = ids
    BY DEF NewProposal
  <2> QED BY <1>1, <1>2, <1>4, <2>1 DEF Inv, Searched, SameState
<1>13. "absent" \notin R => Asked(t)
  BY <1>2, <1>3, <1>4 DEF Inv, Asked, SameState
<1>14. "befriended" \notin R => Chosen(t)
  <2>1. Having(t, n) = PlayersOf(s, ids)
    BY DEF NewProposal
  <2> QED BY <1>1, <1>2, <1>3, <1>4, <1>6, <2>1 DEF Inv, Chosen, SameState, SameParty
<1> QED BY <1>7, <1>9, <1>10, <1>11, <1>12, <1>13, <1>14 DEF Inv

\* Everybody who is proposed to is told, and his group with him.
LEMMA SendProposalTyped ==
    ASSUME NEW s, Typed(s), NEW found
    PROVE  Typed(SendProposal(s, found))
BY SetStateTyped DEF SendProposal, States

\* Nothing to send changes nothing.
LEMMA SendsNothing ==
    ASSUME NEW s \in Stores, NEW R, NEW D, Inv(s, {}, R, D)
    PROVE  Inv(SendProposal(s, {}), {}, R, D)
<1> DEFINE t == SendProposal(s, {})
<1>1. t = SetState(s, {}, PROPOSAL)
  BY DEF SendProposal
<1>2. /\ t \in Stores /\ SameParty(s, t) /\ SameQueue(s, t) /\ SameRest(s, t)
      /\ t.selected = s.selected
      /\ \A i \in Ids : t.state[i] = IF i \in Stored(s, {}) THEN PROPOSAL ELSE s.state[i]
      /\ \A i \in Ids : t.old[i] = s.old[i]
  BY <1>1, SetStateEffect DEF States, Busy
<1> HIDE DEF t
<1>3. t.state = s.state /\ t.old = s.old
  BY <1>2 DEF Stores, Stored
<1>4. Inv(t, {}, R, D)
  BY <1>2, <1>3, Requeues DEF SameState, SameQueue, InQueue
<1> QED BY <1>4 DEF t

\* The state of a proposal is written without oldState and without the selection.
LEMMA ToldEffect ==
    ASSUME NEW s \in Stores, NEW ids
    PROVE  LET t == SetState(s, ids, PROPOSAL) IN
           /\ t \in Stores /\ SameParty(s, t) /\ SameQueue(s, t) /\ SameRest(s, t)
           /\ \A i \in Ids : t.old[i] = s.old[i]
           /\ t.selected = s.selected
           /\ \A i \in Ids : t.state[i] = IF i \in Stored(s, ids) THEN PROPOSAL ELSE s.state[i]
BY SetStateEffect DEF States, Busy

\* Sending the proposal that was found makes the invariant hold without exception
\* again.
LEMMA Sends ==
    ASSUME NEW s \in Stores, NEW R, NEW D, NEW n \in Open(s), Inv(s, {n}, R, D)
    PROVE  Inv(SendProposal(s, {n}), {}, R, D)
<1> DEFINE ps == UNION {Having(s, k) : k \in {n}}
           told == ps \cup ({s.group[p] : p \in ps} \ {None})
           t == SendProposal(s, {n})
<1>1. t = SetState(s, told, PROPOSAL)
  BY DEF SendProposal
<1>2. ps = Having(s, n) /\ Having(s, n) \subseteq Players /\ Combined(s, n) \subseteq Ids
  BY TypeFacts
<1> HIDE DEF ps
<1>3. \A i \in Combined(s, n) : s.state[i] = QUEUED /\ Head(s, i) = i
  BY DEF Inv, Proposing, Placed
<1>4. \A i \in Ids : i \in told <=> i \in Having(s, n) \/ i \in Combined(s, n)
  <2>1. ASSUME NEW i \in told, i \in Ids PROVE i \in Having(s, n) \/ i \in Combined(s, n)
    <3>1. ASSUME NEW p \in Having(s, n), i = s.group[p], i # None PROVE i \in Combined(s, n)
      BY <1>2, <3>1, HeadFacts DEF Inv, Proposing
    <3> QED BY <1>2, <2>1, <3>1
  <2>2. ASSUME NEW g \in Groups, g \in Combined(s, n) PROVE g \in told
    <3>1. s.leader[g] # None
      BY <1>3, <2>2 DEF Inv, Formed
    <3>2. s.leader[g] \in Players /\ s.group[s.leader[g]] = g
      BY <3>1, TypeFacts DEF Inv, Formed
    <3>3. s.leader[g] \in Crew(s, g)
      BY <3>2, HeadFacts DEF Members
    <3>4. s.leader[g] \in Having(s, n)
      BY <2>2, <3>3 DEF Inv, Proposing
    <3> QED BY <1>2, <3>2, <3>4, Disjoint
  <2>3. ASSUME NEW p \in Players, p \in Combined(s, n) PROVE p \in told
    <3>1. p \in Crew(s, p)
      BY <1>3, <2>3 DEF Crew
    <3> QED BY <1>2, <2>3, <3>1 DEF Inv, Proposing
  <2> QED BY <1>2, <2>1, <2>2, <2>3, Disjoint
<1>5. \A i \in Ids : i \in Stored(s, told) <=> i \in Having(s, n) \/ i \in Combined(s, n)
  BY <1>2, <1>3, <1>4, Disjoint DEF Stored, Inv, Formed
<1> HIDE DEF told, t
<1>6. /\ t \in Stores /\ SameParty(s, t) /\ SameQueue(s, t) /\ SameRest(s, t)
      /\ \A i \in Ids : t.old[i] = s.old[i]
      /\ t.selected = s.selected
      /\ \A i \in Ids : t.state[i] = IF i \in Stored(s, told) THEN PROPOSAL ELSE s.state[i]
  BY <1>1, ToldEffect
<1>7. \A i \in Ids : t.state[i] = IF i \in Having(s, n) \/ i \in Combined(s, n) THEN PROPOSAL ELSE s.state[i]
  BY <1>5, <1>6
<1>8. /\ \A i : Head(t, i) = Head(s, i)
      /\ \A i : Crew(t, i) = Crew(s, i)
      /\ \A g : Members(t, g) = Members(s, g)
      /\ Open(t) = Open(s)
      /\ \A k : Having(t, k) = Having(s, k) /\ Combined(t, k) = Combined(s, k)
      /\ InQueue(t) = InQueue(s)
  BY <1>6, SameHeads, SameProposals DEF SameParty, SameRest, SameQueue, InQueue
<1>9. \A p \in Having(s, n) : p \in Players /\ Head(s, p) \in Combined(s, n) /\ s.state[p] = QUEUED
  <2>1. \A p \in Having(s, n) : p \in Players /\ Head(s, p) \in Combined(s, n)
    BY <1>2 DEF Inv, Proposing
  <2> QED BY <1>3, <2>1 DEF Inv, Agreeing
<1>10. \A p \in Players : Head(s, p) \in Combined(s, n) => p \in Having(s, n)
  BY DEF Inv, Proposing, Crew
<1>11. Formed(t)
  BY <1>3, <1>6, <1>7, Disjoint, TypeFacts DEF Inv, Formed, SameParty, SameRest
<1>12. Resting(t)
  BY <1>6, <1>7 DEF Inv, Resting, Busy
<1>13. Agreeing(t)
  <2> SUFFICES ASSUME NEW p \in Players
               PROVE  /\ t.state[p] \in Busy => t.state[Head(s, p)] = t.state[p]
                      /\ t.state[Head(s, p)] \in {ROLECHECK, QUEUED} => t.state[p] = t.state[Head(s, p)]
    BY <1>8 DEF Agreeing
  <2>1. Head(s, p) \in Ids /\ p \in Ids
    BY HeadFacts, Disjoint
  <2>2. CASE Head(s, p) \in Combined(s, n)
    BY <1>7, <1>10, <2>1, <2>2
  <2>3. CASE Head(s, p) \notin Combined(s, n)
    <3>1. p \notin Having(s, n) /\ Head(s, p) \notin Having(s, n) /\ p \notin Combined(s, n)
      <4>1. p \notin Having(s, n) /\ p \notin Combined(s, n)
        BY <1>3, <1>9, <2>3
      <4>2. Head(s, p) = p \/ Head(s, p) \in Groups
        BY HeadFacts
      <4> QED BY <1>2, <4>1, <4>2, Disjoint
    <3> QED BY <1>7, <2>1, <2>3, <3>1 DEF Inv, Agreeing
  <2> QED BY <2>2, <2>3
<1>14. Checking(t)
  BY <1>2, <1>3, <1>6, <1>7, <1>8, Disjoint DEF Inv, Checking, SameParty, SameRest
<1>15. \A i : Placed(s, i) => Placed(t, i)
  BY <1>6, <1>8 DEF Placed, SameQueue, SameParty
<1>16. \A i \in InQueue(s) : i \in Ids /\ i \notin Combined(s, n) /\ i \notin Having(s, n)
  <2>1. \A i \in InQueue(s) : i \in Ids /\ i \notin Combined(s, n) /\ Head(s, i) = i
    BY TypeFacts DEF Inv, Proposing, Queueing, Placed
  <2> QED BY <1>9, <2>1
<1>17. Queueing(t)
  BY <1>7, <1>8, <1>15, <1>16 DEF Inv, Queueing
<1>18. Proposing(t, {})
  <2> SUFFICES ASSUME NEW m \in Open(s)
               PROVE  /\ \A i \in Combined(s, m) :
                           /\ t.state[i] = PROPOSAL
                           /\ Placed(t, i) /\ i \notin InQueue(s)
                           /\ \A p \in Crew(s, i) : t.state[p] = t.state[i] /\ p \in Having(s, m)
                           /\ \A k \in Open(s) : i \in Combined(s, k) => k = m
                      /\ \A p \in Having(s, m) : Head(s, p) \in Combined(s, m)
                                                   /\ t.proposal[m].of[p] = t.group[p]
                      /\ t.proposal[m].leader \in Having(s, m)
                      /\ t.proposal[m].group # None => t.proposal[m].group \in Combined(s, m) \cap t.lfg
    BY <1>8 DEF Proposing
  <2>1. ASSUME NEW i \in Combined(s, m)
        PROVE  t.state[i] = PROPOSAL /\ \A p \in Crew(s, i) : t.state[p] = PROPOSAL
    <3>1. i \in Ids /\ Crew(s, i) \subseteq Ids
      BY TypeFacts, Disjoint DEF Crew
    <3>2. CASE m = n
      BY <1>7, <3>1, <3>2 DEF Inv, Proposing
    <3>3. CASE m # n
      BY <1>7, <3>1, <3>3 DEF Inv, Proposing
    <3> QED BY <3>2, <3>3
  <2> QED BY <1>6, <1>15, <2>1 DEF Inv, Proposing, SameParty, SameRest
<1>19. Answered(t)
  BY <1>2, <1>3, <1>7, <1>8, <1>10, Disjoint DEF Inv, Answered
<1>20. Searched(t, {}, D)
  BY <1>7, <1>8 DEF Inv, Searched
<1>21. "absent" \notin R => Asked(t)
  BY <1>2, <1>7, <1>8, Disjoint DEF Inv, Asked
<1>22. ASSUME "befriended" \notin R PROVE Chosen(t)
  <2>1. \A p \in Players : t.state[Head(s, p)] \in {ROLECHECK, QUEUED} => s.state[Head(s, p)] = t.state[Head(s, p)]
    BY <1>7, HeadFacts, Disjoint
  <2>2. \A p \in Players : p \in Ids /\ (s.group[p] # None => s.group[p] \in Ids)
    BY TypeFacts, Disjoint
  <2> QED BY <1>6, <1>8, <1>22, <2>1, <2>2 DEF Inv, Chosen, SameParty
<1>23. Inv(t, {}, R, D)
  BY <1>11, <1>12, <1>13, <1>14, <1>17, <1>18, <1>19, <1>20, <1>21, <1>22 DEF Inv
<1> QED BY <1>23 DEF t

-----------------------------------------------------------------------------
\* The search finds nothing, or one proposal that nobody knows of yet.  The premades D are
\* stuck before it, E after it.
Found(s, t, R, D, E) ==
    \/ t.proposal = s.proposal /\ (Inv(s, {}, R, D) => Inv(t, {}, R, E))
    \/ \E n \in Slots : /\ s.proposal[n] = None /\ t.proposal[n] # None
                        /\ \A k \in Slots : k # n => t.proposal[k] = s.proposal[k]
                        /\ Inv(s, {}, R, D) => Inv(t, {n}, R, E)

\* t is s with the QUEUED premade u out of the queue, and everything else as it was.
DroppedFrom(s, t, u) ==
    /\ SameParty(s, t) /\ SameState(s, t) /\ SameRest(s, t)
    /\ \A i \in Ids : i # u => t.data[i] = s.data[i]
    /\ InQueue(t) = InQueue(s) \ {u}

\* Then u is stuck, and nobody else is.
LEMMA Drops ==
    ASSUME NEW s \in Stores, NEW t \in Stores, NEW R, NEW D, Inv(s, {}, R, D), NEW u \in Ids,
           s.state[u] = QUEUED, DroppedFrom(s, t, u)
    PROVE  Inv(t, {}, R, D \cup {u})
<1>1. /\ SameParty(s, t) /\ SameState(s, t) /\ SameRest(s, t)
      /\ \A i \in Ids : i # u => t.data[i] = s.data[i]
      /\ InQueue(t) = InQueue(s) \ {u}
  BY DEF DroppedFrom
<1>2. \A i : Head(t, i) = Head(s, i) /\ Crew(t, i) = Crew(s, i) /\ Members(t, i) = Members(s, i)
  BY <1>1, SameHeads DEF SameParty
<1>3. /\ Open(t) = Open(s)
      /\ \A n : Having(t, n) = Having(s, n) /\ Combined(t, n) = Combined(s, n)
  BY <1>1, SameProposals DEF SameRest
<1>4. /\ t.group = s.group /\ t.leader = s.leader /\ t.lfg = s.lfg /\ t.born = s.born
      /\ t.check = s.check /\ t.proposal = s.proposal
      /\ t.state = s.state /\ t.old = s.old /\ t.selected = s.selected
  BY <1>1 DEF SameParty, SameRest, SameState
<1>5. \A i \in Ids : i # u /\ Placed(s, i) => Placed(t, i)
  BY <1>1, <1>2, <1>4 DEF Placed
<1>6. Formed(t) /\ Resting(t)
  BY <1>4 DEF Inv, Formed, Resting
<1>7. Agreeing(t)
  BY <1>2, <1>4 DEF Inv, Agreeing
<1>8. Checking(t)
  BY <1>2, <1>4 DEF Inv, Checking
<1>9. Queueing(t)
  BY <1>1, <1>4, <1>5, TypeFacts DEF Inv, Queueing
<1>10. Proposing(t, {})
  <2> SUFFICES ASSUME NEW n \in Open(s)
               PROVE  /\ \A i \in Combined(s, n) :
                           /\ s.state[i] = PROPOSAL
                           /\ Placed(t, i) /\ i \notin InQueue(t)
                           /\ \A p \in Crew(s, i) : s.state[p] = s.state[i] /\ p \in Having(s, n)
                           /\ \A m \in Open(s) : i \in Combined(s, m) => m = n
                      /\ \A p \in Having(s, n) : Head(s, p) \in Combined(s, n)
                                                   /\ s.proposal[n].of[p] = s.group[p]
                      /\ s.proposal[n].leader \in Having(s, n)
                      /\ s.proposal[n].group # None => s.proposal[n].group \in Combined(s, n) \cap s.lfg
    BY <1>2, <1>3, <1>4 DEF Proposing
  <2>1. \A i \in Combined(s, n) : i \in Ids /\ i # u /\ s.state[i] = PROPOSAL /\ Placed(s, i) /\ i \notin InQueue(s)
    BY TypeFacts DEF Inv, Proposing
  <2>2. \A i \in Combined(s, n) : Placed(t, i) /\ i \notin InQueue(t)
    BY <1>1, <1>5, <2>1
  <2> QED BY <2>1, <2>2 DEF Inv, Proposing
<1>11. Answered(t) /\ ("absent" \notin R => Asked(t))
  BY <1>3, <1>4 DEF Inv, Answered, Asked
<1>12. "befriended" \notin R => Chosen(t)
  BY <1>2, <1>3, <1>4 DEF Inv, Chosen
<1>13. Searched(t, {}, D \cup {u})
  BY <1>1, <1>2, <1>4 DEF Inv, Searched
<1> QED BY <1>6, <1>7, <1>8, <1>9, <1>10, <1>11, <1>12, <1>13 DEF Inv

\* Propose leads to a state that is Found.
LEMMA ProposeFinds ==
    ASSUME NEW s, Typed(s), NEW R, NEW D, NEW i \in s.new, NEW ids, i \in ids, ids \subseteq s.queue \cup {i},
           NEW lead \in PlayersOf(s, ids), FreeSlot(s) # {}
    PROVE  LET t == Propose([s EXCEPT !.new = @ \ {i}], ids, lead) IN Typed(t) /\ Found(s, t, R, D, D)
<1> DEFINE rest == [s EXCEPT !.new = @ \ {i}]
           n == Min(FreeSlot(s))
           r == BuildProposal(rest, ids, lead)
           t == [rest EXCEPT !.queue = @ \ ids, !.proposal = [@ EXCEPT ![n] = r]]
<1>1. s \in Stores
  BY DEF Typed
<1>2. n \in Slots /\ s.proposal[n] = None
  <2>1. FreeSlot(s) \in SUBSET Nat
    BY DungeonFinderAssumption DEF FreeSlot, Slots
  <2>2. n \in FreeSlot(s)
    BY <2>1, MinIsIn
  <2> HIDE DEF n
  <2> QED BY <2>2 DEF FreeSlot
<1>3. Propose(rest, ids, lead) = t
  <2>1. rest.proposal = s.proposal
    BY <1>1 DEF Stores
  <2>2. FreeSlot(rest) = FreeSlot(s)
    BY <2>1 DEF FreeSlot
  <2> HIDE DEF rest
  <2> QED BY <2>2 DEF Propose
<1> HIDE DEF n
<1>4. ids \in SUBSET InQueue(s)
  BY DEF InQueue
<1>5. /\ Typed(t) /\ SameParty(s, t) /\ SameState(s, t) /\ t.data = s.data /\ t.check = s.check
      /\ InQueue(t) = InQueue(s) \ ids
      /\ \A k \in Slots : t.proposal[k] = IF k = n THEN r ELSE s.proposal[k]
      /\ r # None /\ r.queues = ids /\ DOMAIN r.accept = PlayersOf(s, ids) /\ r.leader = lead
      /\ \A p \in PlayersOf(s, ids) : r.of[p] = s.group[p]
      /\ r.group # None => r.group \in ids /\ s.data[r.group].lfg
  BY <1>2, <1>4, ProposeEffect
<1> HIDE DEF t, r, rest
<1>6. NewProposal(s, t, n, ids)
  BY <1>2, <1>5 DEF NewProposal, Combined, Having
<1>7. t \in Stores
  BY <1>5 DEF Typed
<1>8. Inv(s, {}, R, D) => Inv(t, {n}, R, D)
  BY <1>1, <1>2, <1>4, <1>6, <1>7, Proposes
<1>9. t.proposal[n] # None /\ \A k \in Slots : k # n => t.proposal[k] = s.proposal[k]
  BY <1>2, <1>5
<1>10. Found(s, t, R, D, D)
  BY <1>2, <1>8, <1>9 DEF Found
<1> QED BY <1>3, <1>5, <1>10 DEF rest

\* So does every outcome of FindGroup.
LEMMA FindGroupFinds ==
    ASSUME NEW s, Typed(s), NEW R, NEW D, NEW i \in s.new, NEW o \in FindGroup(s, i)
    PROVE  Typed(o.s) /\ o.unfit \subseteq Ids /\ Found(s, o.s, R, D, D \cup o.unfit)
<1> DEFINE rest == [s EXCEPT !.new = @ \ {i}]
           found == IF Complete(s, {i}) THEN {{i}}
                    ELSE {ids \in {J \cup {i} : J \in SUBSET s.queue} : Complete(s, ids)}
           w == [rest EXCEPT !.queue = @ \cup {i}]
<1>0. s \in Stores /\ i \in Ids
  BY TypeFacts DEF Typed
<1>a. \/ o.s = rest /\ o.unfit = {i}
      \/ o.unfit = {} /\ (o.s = w \/ \E ids \in IF FreeSlot(s) = {} THEN {} ELSE found :
                                        \E lead \in PlayersOf(s, ids) : o.s = Propose(rest, ids, lead))
  <2> DEFINE waits == IF Complete(s, {i}) THEN {} ELSE {w}
             choice == IF FreeSlot(s) = {} THEN {} ELSE found
             all == UNION {{Propose(rest, ids, lead) : lead \in PlayersOf(s, ids)} : ids \in choice}
  <2>1. FindGroup(s, i) = {Outcome(rest, {i})} \cup {Outcome(x, {}) : x \in waits \cup all}
    BY DEF FindGroup
  <2> HIDE DEF all, found, w, rest
  <2>2. \/ o = Outcome(rest, {i})
        \/ \E x \in {w} \cup all : o = Outcome(x, {})
    BY <2>1
  <2> HIDE DEF choice
  <2>3. \A x \in all : \E ids \in choice : \E lead \in PlayersOf(s, ids) : x = Propose(rest, ids, lead)
    BY DEF all
  <2>4. CASE o = Outcome(rest, {i})
    BY <2>4 DEF Outcome
  <2>5. ASSUME NEW x \in {w} \cup all, o = Outcome(x, {})
        PROVE  o.unfit = {} /\ o.s = x
    BY <2>5 DEF Outcome
  <2> QED BY <2>2, <2>3, <2>4, <2>5 DEF choice
<1> DEFINE t == o.s
<1>b. CASE t = rest /\ o.unfit = {i}
  <2>1. /\ rest \in Stores /\ SameParty(s, rest) /\ SameState(s, rest) /\ SameRest(s, rest) /\ rest.data = s.data
        /\ rest.new = s.new \ {i} /\ rest.queue = s.queue
    BY <1>0 DEF Stores, SameParty, SameState, SameRest
  <2> HIDE DEF rest
  <2>2. InQueue(rest) = InQueue(s) \ {i} /\ rest.new \cap rest.queue = {}
    BY <2>1 DEF InQueue, Typed
  <2>3. Typed(rest)
    <3>1. \A j \in InQueue(rest) : rest.data[j] # None
      BY <2>1, <2>2 DEF Typed
    <3> QED BY <2>1, <2>2, <3>1, TypedKept
  <2>4. DroppedFrom(s, rest, i)
    BY <2>1, <2>2 DEF DroppedFrom
  <2>5. Inv(s, {}, R, D) => s.state[i] = QUEUED
    BY DEF Inv, Queueing, InQueue
  <2>6. Inv(s, {}, R, D) => Inv(rest, {}, R, D \cup {i})
    BY <1>0, <2>1, <2>4, <2>5, Drops
  <2> QED BY <1>0, <1>b, <2>1, <2>3, <2>6 DEF Found, SameRest
<1> SUFFICES ASSUME o.unfit = {}, t = w \/ \E ids \in IF FreeSlot(s) = {} THEN {} ELSE found :
                                    \E lead \in PlayersOf(s, ids) : t = Propose(rest, ids, lead)
             PROVE  Typed(t) /\ Found(s, t, R, D, D)
  <2> HIDE DEF w, rest, found
  <2>1. D \cup {} = D
    OBVIOUS
  <2> QED BY <1>a, <1>b, <2>1
<1> HIDE DEF t
<1>1. t = w \/ \E ids \in IF FreeSlot(s) = {} THEN {} ELSE found :
                  \E lead \in PlayersOf(s, ids) : t = Propose(rest, ids, lead)
  OBVIOUS
<1>2. CASE t = w
  <2>1. rest \in Stores
    BY <1>0 DEF Stores
  <2>2. /\ w \in Stores /\ SameParty(s, w) /\ SameState(s, w) /\ SameRest(s, w) /\ w.data = s.data
        /\ w.new = s.new \ {i} /\ w.queue = s.queue \cup {i}
    BY <1>0 DEF Stores, SameParty, SameState, SameRest
  <2> HIDE DEF w
  <2>3. InQueue(w) = InQueue(s) /\ w.new \cap w.queue = {}
    BY <2>2 DEF InQueue, Typed
  <2>4. Typed(w)
    <3>1. \A j \in InQueue(w) : w.data[j] # None
      BY <2>2, <2>3 DEF Typed
    <3> QED BY <2>2, <2>3, <3>1, TypedKept
  <2>5. Inv(s, {}, R, D) => Inv(w, {}, R, D)
    BY <1>0, <2>2, <2>3, Requeues
  <2>6. Found(s, w, R, D, D)
    BY <2>2, <2>5 DEF Found, SameRest
  <2> QED BY <1>2, <2>4, <2>6
<1>3. CASE t # w
  <2>0. PICK ids \in found : FreeSlot(s) # {} /\ \E lead \in PlayersOf(s, ids) : t = Propose(rest, ids, lead)
    <3> HIDE DEF found, w, rest
    <3> QED BY <1>1, <1>3
  <2>1. PICK lead \in PlayersOf(s, ids) : t = Propose(rest, ids, lead)
    BY <2>0
  <2>2. i \in ids /\ ids \subseteq s.queue \cup {i}
    OBVIOUS
  <2> HIDE DEF found
  <2> QED BY <2>0, <2>1, <2>2, ProposeFinds
<1> QED BY <1>2, <1>3

\* Entries that become new again are still in the queue.
LEMMA AddOldToQueueRequeues ==
    ASSUME NEW s, Typed(s), NEW R, NEW D, NEW J \in SUBSET s.queue
    PROVE  LET u == AddOldToQueue(s, J) IN
           Typed(u) /\ u.proposal = s.proposal /\ (Inv(s, {}, R, D) => Inv(u, {}, R, D))
<1> DEFINE u == AddOldToQueue(s, J)
<1>1. s \in Stores /\ J \in SUBSET Ids
  BY TypeFacts DEF Typed
<1>2. /\ u \in Stores /\ SameParty(s, u) /\ SameState(s, u) /\ SameRest(s, u)
      /\ u.data = s.data /\ u.new = s.new \cup J /\ u.queue = s.queue \ J
  BY <1>1, AddOldToQueueEffect
<1> HIDE DEF u
<1>3. InQueue(u) = InQueue(s) /\ u.new \cap u.queue = {}
  BY <1>2 DEF InQueue, Typed
<1>4. Typed(u)
  <2>1. \A j \in InQueue(u) : u.data[j] # None
    BY <1>2, <1>3 DEF Typed
  <2> QED BY <1>2, <1>3, <2>1, TypedKept
<1>5. Inv(s, {}, R, D) => Inv(u, {}, R, D)
  BY <1>1, <1>2, <1>3, Requeues
<1> QED BY <1>2, <1>4, <1>5 DEF u, SameRest

\* LFGQueue::FindGroups finds at most one group, and what it found is Found.
LEMMA FindGroupsFinds ==
    ASSUME NEW s, Typed(s), NEW R, NEW D, NEW o \in FindGroups(s)
    PROVE  Typed(o.s) /\ o.unfit \subseteq Ids /\ Found(s, o.s, R, D, D \cup o.unfit)
<1>1. PICK J \in SUBSET s.queue :
         LET u == AddOldToQueue(s, J)
         IN o \in IF u.new = {} THEN {Outcome(u, {})} ELSE UNION {FindGroup(u, i) : i \in u.new}
  BY DEF FindGroups
<1> DEFINE u == AddOldToQueue(s, J)
<1>2. Typed(u) /\ u.proposal = s.proposal /\ (Inv(s, {}, R, D) => Inv(u, {}, R, D))
  BY AddOldToQueueRequeues
<1>3. o = Outcome(u, {}) \/ \E i \in u.new : o \in FindGroup(u, i)
  BY <1>1
<1> HIDE DEF u
<1>4. CASE o = Outcome(u, {})
  <2>1. o.s = u /\ o.unfit = {} /\ D \cup {} = D
    BY <1>4 DEF Outcome
  <2> QED BY <1>2, <2>1 DEF Found
<1>5. ASSUME NEW i \in u.new, o \in FindGroup(u, i)
      PROVE  Typed(o.s) /\ o.unfit \subseteq Ids /\ Found(s, o.s, R, D, D \cup o.unfit)
  <2>1. Typed(o.s) /\ o.unfit \subseteq Ids /\ Found(u, o.s, R, D, D \cup o.unfit)
    BY <1>2, <1>5, FindGroupFinds
  <2> QED BY <1>2, <2>1 DEF Found
<1> QED BY <1>3, <1>4, <1>5

-----------------------------------------------------------------------------
\* The invariant, as long as no race has derailed the finder
Sound == races \cap Derailing = {} => Inv(mgr, {}, races, stuck)

\* The end of role checks keeps types and invariant.
LEMMA EndRoleChecksKeeps ==
    ASSUME NEW s, Typed(s), NEW C \in SUBSET Groups, NEW F, NEW R, NEW D
    PROVE  LET t == EndRoleChecks(s, C) IN
           Typed(t) /\ t.proposal = s.proposal /\ (Inv(s, F, R, D) => Inv(t, F, R, D))
<1> DEFINE t == EndRoleChecks(s, C)
<1>1. s \in Stores
  BY DEF Typed
<1>2. Typed(t) /\ t \in Stores /\ t.proposal = s.proposal
  BY <1>1, EndRoleChecksTyped, EndRoleChecksEffect
<1>3. ASSUME Inv(s, F, R, D) PROVE Inv(t, F, R, D)
  <2>1. Moved(s, t, F, {g \in C : s.check[g] # None}, {})
    BY <1>1, <1>3, EndRoleChecksMoves
  <2> HIDE DEF t
  <2> QED BY <1>1, <1>2, <1>3, <2>1, Moves
<1> QED BY <1>2, <1>3

\* LFGMgr::Update: timeouts of role checks and proposals, the search, and the new
\* proposal that is sent.
LEMMA UpdateKeeps ==
    ASSUME Typed(mgr), Sound, Update
    PROVE  Typed(mgr') /\ Sound'
<1>1. PICK o \in FindGroups(mgr), C \in SUBSET Groups, N \in SUBSET Slots :
         /\ \A n \in N : mgr.proposal[n] # None
         /\ mgr' = SendProposal(RemoveProposals(EndRoleChecks(o.s, C), N),
                                {n \in Slots : o.s.proposal[n] # mgr.proposal[n]})
         /\ races' = races /\ stuck' = stuck \cup o.unfit
  <2>1. PICK o \in FindGroups(mgr) :
          \E C \in SUBSET {g \in Groups : o.s.check[g] # None},
             N \in SUBSET {n \in Slots : mgr.proposal[n] # None} :
             /\ mgr' = SendProposal(RemoveProposals(EndRoleChecks(o.s, C), N),
                                    {n \in Slots : o.s.proposal[n] # mgr.proposal[n]})
             /\ races' = races /\ stuck' = stuck \cup o.unfit
    BY DEF Update, MarkStuck
  <2>2. PICK C \in SUBSET {g \in Groups : o.s.check[g] # None},
             N \in SUBSET {n \in Slots : mgr.proposal[n] # None} :
             /\ mgr' = SendProposal(RemoveProposals(EndRoleChecks(o.s, C), N),
                                    {n \in Slots : o.s.proposal[n] # mgr.proposal[n]})
             /\ races' = races /\ stuck' = stuck \cup o.unfit
    BY <2>1
  <2>3. C \in SUBSET Groups /\ N \in SUBSET Slots /\ \A n \in N : mgr.proposal[n] # None
    OBVIOUS
  <2> QED BY <2>2, <2>3
<1> DEFINE R == races
           s == o.s
           E == stuck \cup o.unfit
           m == mgr
           found == {n \in Slots : s.proposal[n] # mgr.proposal[n]}
           x == EndRoleChecks(s, C)
           y == RemoveProposals(x, N)
           z == SendProposal(y, found)
<1>2. Typed(s) /\ o.unfit \subseteq Ids /\ Found(mgr, s, R, stuck, E)
  BY FindGroupsFinds
<1> HIDE DEF s, E
<1>3. PICK F : /\ F = found /\ F \cap N = {} /\ (F = {} \/ \E n \in Slots : F = {n} /\ s.proposal[n] # None)
               /\ Inv(mgr, {}, R, stuck) => Inv(s, F, R, E)
               /\ \A n \in N : s.proposal[n] # None
  <2>1. CASE s.proposal = mgr.proposal /\ (Inv(mgr, {}, R, stuck) => Inv(s, {}, R, E))
    <3>1. found = {}
      BY <2>1
    <3> QED BY <1>1, <2>1, <3>1
  <2>2. ASSUME NEW n \in Slots, mgr.proposal[n] = None, s.proposal[n] # None,
               \A k \in Slots : k # n => s.proposal[k] = mgr.proposal[k],
               Inv(mgr, {}, R, stuck) => Inv(s, {n}, R, E)
        PROVE  /\ found \cap N = {} /\ (\E k \in Slots : found = {k} /\ s.proposal[k] # None)
               /\ Inv(mgr, {}, R, stuck) => Inv(s, found, R, E)
               /\ \A k \in N : s.proposal[k] # None
    <3>1. found = {n}
      BY <2>2
    <3>2. n \notin N
      BY <1>1, <2>2
    <3> HIDE DEF found
    <3> QED BY <1>1, <2>2, <3>1, <3>2
  <2> HIDE DEF found
  <2> QED BY <1>2, <2>1, <2>2 DEF Found
<1>4. Typed(x) /\ x.proposal = s.proposal /\ (Inv(s, F, R, E) => Inv(x, F, R, E))
  BY <1>2, EndRoleChecksKeeps
<1> HIDE DEF x
<1>5. N \in SUBSET Open(x)
  BY <1>3, <1>4 DEF Open
<1>6. /\ Typed(y)
      /\ \A k \in Slots : k \notin N => y.proposal[k] = x.proposal[k]
      /\ Inv(x, F, R, E) /\ N \cap F = {} => Inv(y, F, R, E)
  BY <1>4, <1>5, RemoveProposalsEffect
<1> HIDE DEF y
<1>7. Typed(z) /\ y \in Stores
  <2>1. Typed(z)
    BY <1>6, SendProposalTyped
  <2> QED BY <1>6, <2>1 DEF Typed
<1>8. Inv(mgr, {}, R, stuck) => Inv(y, F, R, E)
  BY <1>3, <1>4, <1>6
<1>9. ASSUME Inv(mgr, {}, R, stuck) PROVE Inv(z, {}, R, E)
  <2> HIDE DEF found
  <2>1. CASE F = {}
    BY <1>3, <1>7, <1>8, <1>9, <2>1, SendsNothing
  <2>2. ASSUME NEW n \in Slots, F = {n}, s.proposal[n] # None PROVE Inv(z, {}, R, E)
    <3>1. n \in Open(y)
      BY <1>3, <1>4, <1>6, <2>2 DEF Open
    <3> QED BY <1>3, <1>7, <1>8, <1>9, <2>2, <3>1, Sends
  <2> QED BY <1>3, <2>1, <2>2
<1>10. mgr' = z /\ races' = races /\ stuck' = E
  BY <1>1 DEF x, y, s, E
<1> HIDE DEF z
<1>11. Typed(mgr')
  BY <1>7, <1>10
<1>12. Sound'
  BY <1>9, <1>10 DEF Sound
<1> QED BY <1>11, <1>12

-----------------------------------------------------------------------------
\* Of a premade whose members have agreed: the group goes on with those who are left,
\* or is gone.
Shrunk(b, c, h) ==
    \/ /\ c.leader[h] \in Players /\ c.group[c.leader[h]] = h
       /\ c.state[h] = PROPOSAL /\ c.old[h] = b.old[h] /\ (h \in c.lfg <=> h \in b.lfg)
    \/ /\ c.leader[h] = None /\ h \notin c.lfg /\ c.state[h] = NONE /\ c.old[h] = NONE
       /\ \A q \in Players : c.group[q] # h

\* While MakeNewGroup puts the players P of the premades Q into the group grp.
Making(b, c, grp, P, Q) ==
    /\ SameQueue(b, c) /\ SameRest(b, c)
    /\ \A q \in Players : c.state[q] = b.state[q] /\ c.old[q] = b.old[q]
                            /\ (q \in c.selected <=> q \in b.selected)
    /\ \A q \in Players : q \notin P => c.group[q] = b.group[q]
    /\ \A q \in P : c.group[q] \in {None, b.group[q], grp}
    /\ \A h \in Groups : h \notin Q /\ h # grp =>
         /\ c.leader[h] = b.leader[h] /\ (h \in c.lfg <=> h \in b.lfg)
         /\ c.state[h] = b.state[h] /\ c.old[h] = b.old[h]
    /\ \A h \in Groups : h \in Q /\ h # grp => Shrunk(b, c, h)
    /\ b.born \subseteq c.born
    /\ IF grp = None THEN c.born = b.born
       ELSE /\ grp \in Groups /\ (grp \in Q \/ grp \notin b.born) /\ grp \in c.born
            /\ c.leader[grp] \in Players /\ c.group[c.leader[grp]] = grp
            /\ c.state[grp] = PROPOSAL /\ grp \in c.lfg

\* Before: everybody of the premades has agreed.
Agreed(b, P, Q) ==
    /\ b \in Stores /\ P \subseteq Players /\ Q \subseteq Ids
    /\ \A p \in P : b.state[p] = DUNGEON /\ b.old[p] = DUNGEON /\ Head(b, p) \in Q
    /\ \A q \in Players : Head(b, q) \in Q => q \in P
    /\ \A h \in Groups : h \in Q => h \in b.born

\* MakeNewGroup: one player leaves the group he came with.
LEMMA DepartMakes ==
    ASSUME NEW b, NEW P, NEW Q, Agreed(b, P, Q), NEW c \in Stores, NEW grp, Making(b, c, grp, P, Q),
           NEW p \in P, NEW list \in Places
    PROVE  LET d == Depart(c, p, grp, list) IN
           /\ d \in Stores /\ Making(b, d, grp, P, Q) /\ d.group[p] \in {None, grp}
           /\ \A q \in Players : c.group[q] = grp => d.group[q] = grp
<1> DEFINE d == Depart(c, p, grp, list)
           h == c.group[p]
<1>1. p \in Players
  BY DEF Agreed
<1>2. CASE h \in {None, grp}
  BY <1>2 DEF Depart
<1>3. CASE h \notin {None, grp}
  <2>1. d = RemoveMember(c, h, p, TRUE, TRUE, list)
    BY <1>3 DEF Depart
  <2>2. h \in Groups /\ h = b.group[p] /\ h \in Q
    <3>1. h \in Groups /\ h = b.group[p]
      BY <1>1, <1>3, TypeFacts DEF Making
    <3>2. Head(b, p) = h
      BY <1>1, <3>1, Disjoint DEF Head
    <3> QED BY <3>1, <3>2 DEF Agreed
  <2>3. c.leader[h] \in Players /\ c.group[c.leader[h]] = h /\ c.state[h] = PROPOSAL
        /\ c.old[h] = b.old[h] /\ (h \in c.lfg <=> h \in b.lfg)
    BY <1>1, <1>3, <2>2 DEF Making, Shrunk
  <2>4. LeftFinder(c, h, p, TRUE) = c
    BY <2>3 DEF LeftFinder
  <2> HIDE DEF h
  <2>5. d \in Stores /\ Parted(c, d, h, p)
    <3>1. c.group[p] = h /\ c.leader[h] # None
      BY <2>3, Disjoint DEF h
    <3>2. SameParty(c, c)
      BY DEF SameParty
    <3> HIDE DEF d
    <3> QED BY <1>1, <2>1, <2>2, <2>3, <2>4, <3>1, <3>2, RemoveMemberEffect
  <2> HIDE DEF d
  <2>6. /\ Left(c, d, h) /\ SameQueue(c, d) /\ d.group[p] = None
        /\ \A q \in Players : d.state[q] = c.state[q] /\ d.old[q] = c.old[q] /\ (q \in d.selected <=> q \in c.selected)
    BY <2>3, <2>5 DEF Parted
  <2>7. /\ d.born = c.born
        /\ \A q \in Players : IF c.group[q] = h THEN d.group[q] \in {h, None} ELSE d.group[q] = c.group[q]
        /\ \A k \in Groups : k # h => /\ d.leader[k] = c.leader[k] /\ (k \in d.lfg <=> k \in c.lfg)
                                      /\ d.state[k] = c.state[k] /\ d.old[k] = c.old[k]
        /\ \/ /\ d.leader[h] \in Players /\ d.group[d.leader[h]] = h
              /\ h \in d.lfg <=> h \in c.lfg
              /\ d.state[h] = c.state[h] /\ d.old[h] = c.old[h]
           \/ /\ d.leader[h] = None /\ h \notin d.lfg /\ \A q \in Players : d.group[q] # h
              /\ d.state[h] = NONE /\ d.old[h] = NONE
        /\ SameRest(c, d)
    BY <2>6 DEF Left
  <2>8. \A q \in Players : c.group[q] = grp => d.group[q] = grp
    BY <1>3, <2>7 DEF h
  <2>9. \A q \in Players : c.group[q] = h => q \in P /\ b.group[q] = h
    <3>1. \A q \in Players : b.group[q] = h => q \in P
      BY <2>2, Disjoint DEF Agreed, Head
    <3> QED BY <1>3, <2>2, <3>1, Disjoint DEF Making, h
  <2>10. SameQueue(b, d) /\ SameRest(b, d)
    BY <2>6, <2>7 DEF Making, SameQueue, SameRest
  <2>11. \A q \in Players : d.state[q] = b.state[q] /\ d.old[q] = b.old[q]
                              /\ (q \in d.selected <=> q \in b.selected)
    BY <2>6 DEF Making
  <2>12. \A q \in Players : q \notin P => d.group[q] = b.group[q]
    BY <2>7, <2>9 DEF Making
  <2>13. \A q \in P : d.group[q] \in {None, b.group[q], grp}
    BY <2>7, <2>9 DEF Making, Agreed
  <2>14. \A k \in Groups : k \notin Q /\ k # grp =>
           /\ d.leader[k] = b.leader[k] /\ (k \in d.lfg <=> k \in b.lfg)
           /\ d.state[k] = b.state[k] /\ d.old[k] = b.old[k]
    BY <2>2, <2>7 DEF Making
  <2>15. ASSUME NEW k \in Groups, k \in Q, k # grp PROVE Shrunk(b, d, k)
    <3>1. CASE k = h
      BY <2>3, <2>7, <3>1 DEF Shrunk
    <3>2. CASE k # h
      <4>1. Shrunk(b, c, k)
        BY <2>15 DEF Making
      <4>2. \A q \in Players : c.group[q] = k <=> d.group[q] = k
        BY <2>7, <3>2, <2>15, Disjoint
      <4> QED BY <2>7, <3>2, <4>1, <4>2 DEF Shrunk
    <3> QED BY <3>1, <3>2
  <2>16. /\ b.born \subseteq d.born
         /\ IF grp = None THEN d.born = b.born
            ELSE /\ grp \in Groups /\ (grp \in Q \/ grp \notin b.born) /\ grp \in d.born
                 /\ d.leader[grp] \in Players /\ d.group[d.leader[grp]] = grp
                 /\ d.state[grp] = PROPOSAL /\ grp \in d.lfg
    BY <1>3, <2>7, <2>8 DEF Making, h
  <2>17. Making(b, d, grp, P, Q)
    BY <2>10, <2>11, <2>12, <2>13, <2>14, <2>15, <2>16 DEF Making
  <2> QED BY <2>5, <2>6, <2>8, <2>17 DEF d
<1> QED BY <1>2, <1>3

\* MakeNewGroup: the first player founds the new group.
LEMMA StartMakes ==
    ASSUME NEW b, NEW P, NEW Q, Agreed(b, P, Q), NEW c \in Stores, Making(b, c, None, P, Q),
           NEW p \in P, c.group[p] = None, NEW g \in Groups, g \notin c.born
    PROVE  LET d == Start(c, g, p) IN
           d \in Stores /\ Making(b, d, g, P, Q) /\ d.group[p] = g
<1> DEFINE a == Create(c, g, p)
           e == [a EXCEPT !.lfg = @ \cup {g}]
           f == SetState(e, {g}, PROPOSAL)
           d == [f EXCEPT !.group = [@ EXCEPT ![p] = g], !.invite = [@ EXCEPT ![p] = None]]
<1>0. p \in Players /\ g \in Ids /\ p \in Ids /\ g # None
  BY Disjoint DEF Agreed
<1>1. /\ a \in Stores
      /\ SameState(c, a) /\ SameQueue(c, a) /\ SameRest(c, a)
      /\ a.group = c.group /\ a.lfg = c.lfg /\ a.born = c.born \cup {g}
      /\ \A h \in Groups : a.leader[h] = IF h = g THEN p ELSE c.leader[h]
  BY <1>0, CreateEffect
<1>2. Start(c, g, p) = OnAddMember(f, g, p)
  BY DEF Start
<1> HIDE DEF a
<1>3. /\ e \in Stores
      /\ SameState(a, e) /\ SameQueue(a, e) /\ SameRest(a, e)
      /\ e.group = a.group /\ e.lfg = a.lfg \cup {g} /\ e.born = a.born /\ e.leader = a.leader
  BY <1>1 DEF Stores, SameState, SameQueue, SameRest
<1> HIDE DEF e
<1>4. /\ f \in Stores /\ SameParty(e, f) /\ SameQueue(e, f) /\ SameRest(e, f)
      /\ \A i \in Ids : f.old[i] = e.old[i]
      /\ f.selected = e.selected
      /\ \A i \in Ids : f.state[i] = IF i \in Stored(e, {g}) THEN PROPOSAL ELSE e.state[i]
  BY <1>3, ToldEffect
<1> HIDE DEF f
<1>5. \A i \in Ids : f.state[i] = IF i = g THEN PROPOSAL ELSE c.state[i]
  <2>1. e.leader[g] # None
    BY <1>0, <1>1, <1>3, Disjoint
  <2>2. \A i : i \in Stored(e, {g}) <=> i = g
    BY <2>1 DEF Stored
  <2>3. e.state = c.state
    BY <1>1, <1>3 DEF SameState
  <2> QED BY <1>4, <2>2, <2>3
<1>6. OnAddMember(f, g, p) = d
  <2>1. f.leader[g] = p /\ g \in f.lfg
    BY <1>1, <1>3, <1>4 DEF SameParty
  <2> QED BY <2>1 DEF OnAddMember
<1>7. /\ d \in Stores
      /\ SameState(f, d) /\ SameQueue(f, d) /\ SameRest(f, d)
      /\ d.lfg = f.lfg /\ d.leader = f.leader /\ d.born = f.born
      /\ \A q \in Players : d.group[q] = IF q = p THEN g ELSE f.group[q]
  BY <1>0, <1>4, EnterEffect
<1> HIDE DEF d
<1>8. /\ SameQueue(c, d) /\ SameRest(c, d)
      /\ \A q \in Players : d.group[q] = IF q = p THEN g ELSE c.group[q]
      /\ \A h \in Groups : d.leader[h] = IF h = g THEN p ELSE c.leader[h]
      /\ d.born = c.born \cup {g} /\ d.lfg = c.lfg \cup {g}
      /\ d.selected = c.selected
      /\ \A i \in Ids : d.state[i] = IF i = g THEN PROPOSAL ELSE c.state[i]
      /\ \A i \in Ids : d.old[i] = c.old[i]
  <2>1. SameQueue(c, d)
    BY <1>1, <1>3, <1>4, <1>7 DEF SameQueue
  <2>2. SameRest(c, d)
    BY <1>1, <1>3, <1>4, <1>7 DEF SameRest
  <2>3. /\ \A q \in Players : d.group[q] = IF q = p THEN g ELSE c.group[q]
        /\ \A h \in Groups : d.leader[h] = IF h = g THEN p ELSE c.leader[h]
        /\ d.born = c.born \cup {g} /\ d.lfg = c.lfg \cup {g}
    BY <1>1, <1>3, <1>4, <1>7 DEF SameParty
  <2>4. /\ d.selected = c.selected
        /\ \A i \in Ids : d.state[i] = IF i = g THEN PROPOSAL ELSE c.state[i]
        /\ \A i \in Ids : d.old[i] = c.old[i]
    BY <1>1, <1>3, <1>4, <1>5, <1>7 DEF SameState
  <2> QED BY <2>1, <2>2, <2>3, <2>4
<1>9. g \notin Q /\ g \notin b.born /\ c.born = b.born
  BY DEF Agreed, Making
<1>10. SameQueue(b, d) /\ SameRest(b, d)
  BY <1>8 DEF Making, SameQueue, SameRest
<1>11. \A q \in Players : d.state[q] = b.state[q] /\ d.old[q] = b.old[q]
                              /\ (q \in d.selected <=> q \in b.selected)
  BY <1>8, Disjoint DEF Making
<1>12. \A q \in Players : q \notin P => d.group[q] = b.group[q]
  BY <1>8 DEF Making
<1>13. \A q \in P : d.group[q] \in {None, b.group[q], g}
  BY <1>8 DEF Making, Agreed
<1>14. \A k \in Groups : k \notin Q /\ k # g =>
         /\ d.leader[k] = b.leader[k] /\ (k \in d.lfg <=> k \in b.lfg)
         /\ d.state[k] = b.state[k] /\ d.old[k] = b.old[k]
  BY <1>8, Disjoint DEF Making
<1>15. ASSUME NEW k \in Groups, k \in Q, k # g PROVE Shrunk(b, d, k)
  <2>1. Shrunk(b, c, k) /\ k \in Ids
    BY <1>15, Disjoint DEF Making
  <2>2. \A q \in Players : c.group[q] = k <=> d.group[q] = k
    BY <1>8, <1>15, Disjoint
  <2> QED BY <1>8, <1>15, <2>1, <2>2 DEF Shrunk
<1>16. /\ b.born \subseteq d.born
       /\ g \in d.born /\ d.leader[g] \in Players /\ d.group[d.leader[g]] = g
       /\ d.state[g] = PROPOSAL /\ g \in d.lfg
  BY <1>0, <1>8, <1>9
<1>17. Making(b, d, g, P, Q)
  BY <1>0, <1>9, <1>10, <1>11, <1>12, <1>13, <1>14, <1>15, <1>16 DEF Making
<1>18. d.group[p] = g
  BY <1>0, <1>8
<1> QED BY <1>2, <1>6, <1>7, <1>17, <1>18

\* MakeNewGroup: a player enters the new group.
LEMMA JoinMakes ==
    ASSUME NEW b, NEW P, NEW Q, Agreed(b, P, Q), NEW c \in Stores, NEW grp \in Groups,
           Making(b, c, grp, P, Q), NEW p \in P, c.group[p] = None
    PROVE  LET d == OnAddMember(c, grp, p) IN
           /\ d \in Stores /\ Making(b, d, grp, P, Q) /\ d.group[p] = grp
           /\ \A q \in Players : c.group[q] = grp => d.group[q] = grp
<1> DEFINE d == [c EXCEPT !.group = [@ EXCEPT ![p] = grp], !.invite = [@ EXCEPT ![p] = None]]
<1>0. p \in Players /\ p \in Ids /\ grp # None /\ grp \in Ids
  BY Disjoint DEF Agreed
<1>1. OnAddMember(c, grp, p) = d
  <2>1. c.state[p] = DUNGEON /\ c.state[grp] = PROPOSAL /\ grp \in c.lfg
    BY <1>0 DEF Making, Agreed
  <2> QED BY <2>1 DEF OnAddMember
<1>2. /\ d \in Stores
      /\ SameState(c, d) /\ SameQueue(c, d) /\ SameRest(c, d)
      /\ d.lfg = c.lfg /\ d.leader = c.leader /\ d.born = c.born
      /\ \A q \in Players : d.group[q] = IF q = p THEN grp ELSE c.group[q]
  BY <1>0, EnterEffect
<1> HIDE DEF d
<1>3. SameQueue(b, d) /\ SameRest(b, d)
  BY <1>2 DEF Making, SameQueue, SameRest
<1>4. \A q \in Players : d.state[q] = b.state[q] /\ d.old[q] = b.old[q]
                            /\ (q \in d.selected <=> q \in b.selected)
  BY <1>2 DEF Making, SameState
<1>5. \A q \in Players : q \notin P => d.group[q] = b.group[q]
  BY <1>2 DEF Making
<1>6. \A q \in P : d.group[q] \in {None, b.group[q], grp}
  BY <1>2 DEF Making, Agreed
<1>7. \A k \in Groups : k \notin Q /\ k # grp =>
         /\ d.leader[k] = b.leader[k] /\ (k \in d.lfg <=> k \in b.lfg)
         /\ d.state[k] = b.state[k] /\ d.old[k] = b.old[k]
  BY <1>2 DEF Making, SameState
<1>8. ASSUME NEW k \in Groups, k \in Q, k # grp PROVE Shrunk(b, d, k)
  <2>1. Shrunk(b, c, k)
    BY <1>8 DEF Making
  <2>2. \A q \in Players : c.group[q] = k <=> d.group[q] = k
    BY <1>2, <1>8, Disjoint
  <2> QED BY <1>2, <1>8, <2>1, <2>2 DEF Shrunk, SameState
<1>9. /\ b.born \subseteq d.born
      /\ (grp \in Q \/ grp \notin b.born) /\ grp \in d.born
      /\ d.leader[grp] \in Players /\ d.group[d.leader[grp]] = grp
      /\ d.state[grp] = PROPOSAL /\ grp \in d.lfg
  BY <1>0, <1>2 DEF Making, SameState
<1>10. Making(b, d, grp, P, Q)
  BY <1>0, <1>3, <1>4, <1>5, <1>6, <1>7, <1>8, <1>9 DEF Making
<1>11. d.group[p] = grp /\ \A q \in Players : c.group[q] = grp => d.group[q] = grp
  BY <1>0, <1>2
<1> QED BY <1>1, <1>2, <1>10, <1>11

\* One player after the other
GatheredFrom(acc, b, P, Q, M) ==
    /\ acc.s \in Stores /\ Making(b, acc.s, acc.grp, P, Q)
    /\ \A q \in M : q \in online => acc.grp # None /\ acc.s.group[q] = acc.grp

\* MakeNewGroup: one turn of the loop over the players.
LEMMA TakeMakes ==
    ASSUME NEW b, NEW P, NEW Q, Agreed(b, P, Q), NEW acc, NEW M \in SUBSET P, GatheredFrom(acc, b, P, Q, M),
           NEW p \in P, acc.grp = None => Fresh(acc.s) # {}, NEW list \in Places
    PROVE  GatheredFrom(Take(acc, p, list), b, P, Q, M \cup {p})
<1> DEFINE c == acc.s
           grp == acc.grp
           d == Depart(c, p, grp, list)
           e == Enter(d, grp, p)
<1>1. CASE p \notin online
  BY <1>1 DEF Take, GatheredFrom
<1>2. CASE p \in online
  <2>1. Take(acc, p, list) = e
    BY <1>2 DEF Take
  <2>2. c \in Stores /\ Making(b, c, grp, P, Q) /\ p \in Players
    BY DEF GatheredFrom, Agreed
  <2>3. \A q \in M : q \in Players /\ (q \in online => grp # None /\ c.group[q] = grp)
    BY DEF GatheredFrom, Agreed
  <2>4. grp = None => Fresh(c) # {}
    OBVIOUS
  <2> HIDE DEF c, grp
  <2>5. /\ d \in Stores /\ Making(b, d, grp, P, Q) /\ d.group[p] \in {None, grp}
        /\ \A q \in Players : c.group[q] = grp => d.group[q] = grp
    BY <2>2, DepartMakes
  <2> HIDE DEF d
  <2>6. CASE grp = None
    <3> DEFINE g == Min(Fresh(d))
    <3>1. g \in Fresh(d)
      <4>1. Fresh(d) = Fresh(c)
        BY <2>2, <2>5, <2>6 DEF Making, Fresh
      <4>2. Fresh(d) \in SUBSET Nat /\ Fresh(d) # {}
        BY <2>4, <2>6, <4>1, DungeonFinderAssumption DEF Fresh
      <4> QED BY <4>2, MinIsIn
    <3>2. e = [s |-> Start(d, g, p), grp |-> g]
      BY <2>6 DEF Enter
    <3> HIDE DEF g
    <3>3. g \in Groups /\ g \notin d.born /\ g # None
      BY <3>1, Disjoint DEF Fresh
    <3> DEFINE f == Start(d, g, p)
    <3>4. f \in Stores /\ Making(b, f, g, P, Q) /\ f.group[p] = g
      BY <2>5, <2>6, <3>3, StartMakes
    <3> HIDE DEF f
    <3>5. e.s = f /\ e.grp = g
      BY <3>2 DEF f
    <3>6. \A q \in M : q \notin online
      BY <2>3, <2>6
    <3> QED BY <2>1, <3>3, <3>4, <3>5, <3>6 DEF GatheredFrom
  <2>7. CASE grp # None /\ d.group[p] = grp
    <3>1. e = [s |-> d, grp |-> grp]
      BY <2>7 DEF Enter
    <3>2. e.s = d /\ e.grp = grp
      BY <3>1
    <3> QED BY <2>1, <2>3, <2>5, <2>7, <3>2 DEF GatheredFrom
  <2>8. CASE grp # None /\ d.group[p] # grp
    <3> DEFINE f == OnAddMember(d, grp, p)
    <3>1. e = [s |-> f, grp |-> grp]
      BY <2>8 DEF Enter
    <3>2. grp \in Groups
      BY <2>8, <2>5 DEF Making
    <3>3. /\ f \in Stores /\ Making(b, f, grp, P, Q) /\ f.group[p] = grp
          /\ \A q \in Players : d.group[q] = grp => f.group[q] = grp
      BY <2>5, <2>8, <3>2, JoinMakes
    <3> HIDE DEF f
    <3>4. e.s = f /\ e.grp = grp
      BY <3>1
    <3> QED BY <2>1, <2>3, <2>5, <2>8, <3>3, <3>4 DEF GatheredFrom
  <2> QED BY <2>6, <2>7, <2>8
<1> QED BY <1>1, <1>2

\* MakeNewGroup: the whole loop, by induction over the players who have had their
\* turn.
LEMMA GatherMakes ==
    ASSUME NEW b, Typed(b), NEW n \in Open(b), Agreed(b, Having(b, n), Combined(b, n)),
           Continued(b, n) = None => Fresh(b) # {}, NEW list \in Places,
           b.proposal[n].leader \in Having(b, n),
           \A h \in Groups : h \in Combined(b, n) =>
              b.leader[h] \in Players /\ b.group[b.leader[h]] = h /\ b.state[h] = PROPOSAL,
           b.proposal[n].group # None => b.proposal[n].group \in Combined(b, n) \cap b.lfg
    PROVE  GatheredFrom(Gather(b, n, list), b, Having(b, n), Combined(b, n), Having(b, n))
<1> DEFINE P == Having(b, n)
           Q == Combined(b, n)
           lead == b.proposal[n].leader
           first == Foremost(b, n, list)
           N == Others(b, n)
           f == Gathered(first, list, N)
           z == [s |-> b, grp |-> Continued(b, n)]
           G == {M \in SUBSET N : Ready(f[M]) /\ GatheredFrom(f[M], b, P, Q, M \cup {lead})}
<1>1. b \in Stores /\ P \subseteq Players
  BY DEF Agreed
<1>2. Ready(z) /\ GatheredFrom(z, b, P, Q, {})
  <2>1. z.s = b /\ z.grp = Continued(b, n)
    OBVIOUS
  <2>2. Continued(b, n) # None => Continued(b, n) \in Q \cap b.lfg /\ b.leader[Continued(b, n)] # None
    BY DEF Continued
  <2>3. Continued(b, n) # None => Continued(b, n) \in Groups
    BY <1>1, <2>2, TypeFacts
  <2>4. Ready(z)
    <3> HIDE DEF z
    <3> QED BY <2>1, <2>3 DEF Ready
  <2> DEFINE g == Continued(b, n)
  <2> HIDE DEF g, z, P, Q
  <2>5. \A h \in Groups : h \in Q => Shrunk(b, b, h) /\ h \in b.born
    BY DEF Agreed, Shrunk, P, Q
  <2>6. g # None => g \in Groups /\ g \in Q /\ g \in b.lfg /\ b.leader[g] \in Players
                      /\ b.group[b.leader[g]] = g /\ b.state[g] = PROPOSAL
    BY <2>2, <2>3 DEF g, Q
  <2>7. Making(b, b, g, P, Q)
    BY <2>5, <2>6 DEF Making, SameQueue, SameRest
  <2> QED BY <1>1, <2>1, <2>4, <2>7 DEF GatheredFrom, g
<1>3. lead \in P
  OBVIOUS
<1>4. first = Take(z, lead, list)
  BY DEF Foremost
<1>5. N \subseteq P /\ N \in SUBSET Nat /\ IsFiniteSet(N) /\ N = P \ {lead}
  BY <1>1, DungeonFinderAssumption, FS_Subset DEF Others
<1>6. Agreed(b, P, Q)
  OBVIOUS
<1> HIDE DEF P, Q, lead, z, first, N
<1>7. Ready(first) /\ GatheredFrom(first, b, P, Q, {lead})
  <2>1. Ready(first)
    BY <1>1, <1>2, <1>3, <1>4, TakeTyped
  <2>2. z.grp = None => Fresh(z.s) # {}
    BY <1>2 DEF Ready
  <2>3. GatheredFrom(first, b, P, Q, {} \cup {lead})
    BY <1>2, <1>3, <1>4, <1>6, <2>2, TakeMakes
  <2>4. {} \cup {lead} = {lead}
    OBVIOUS
  <2> QED BY <2>1, <2>3, <2>4
<1>8. \A M \in SUBSET N : f[M] = Gathering(first, list, f, M)
  BY <1>5, GatheredIs
<1> HIDE DEF f
<1>9. {} \in G
  <2>1. f[{}] = first
    BY <1>8 DEF Gathering
  <2>2. {} \cup {lead} = {lead}
    OBVIOUS
  <2> QED BY <1>7, <2>1, <2>2
<1>10. ASSUME NEW M \in SUBSET N, M # {}, \A x \in M : M \ {x} \in G
       PROVE  M \in G
  <2> DEFINE m == Max(M)
             a == f[M \ {m}]
             L == (M \ {m}) \cup {lead}
  <2>1. m \in M
    BY <1>5, <1>10, TakeMax
  <2>2. f[M] = Take(a, m, list)
    BY <1>8, <1>10 DEF Gathering
  <2>3. Ready(a) /\ GatheredFrom(a, b, P, Q, L)
    BY <1>10, <2>1
  <2> HIDE DEF m, a
  <2>4. m \in P /\ L \in SUBSET P /\ m \in Players
    BY <1>1, <1>3, <1>5, <2>1
  <2>5. a.grp = None => Fresh(a.s) # {}
    BY <2>3 DEF Ready
  <2>6. L \cup {m} = M \cup {lead}
    BY <2>1
  <2> HIDE DEF L
  <2>7. GatheredFrom(Take(a, m, list), b, P, Q, L \cup {m})
    BY <1>6, <2>3, <2>4, <2>5, TakeMakes
  <2>8. Ready(Take(a, m, list))
    BY <2>3, <2>4, TakeTyped
  <2> QED BY <2>2, <2>6, <2>7, <2>8
<1>11. G \in SUBSET SUBSET N
  OBVIOUS
<1> HIDE DEF G
<1>12. N \in G
  <2>1. \A M \in SUBSET N : M # {} /\ (\A x \in M : M \ {x} \in G) => M \in G
    BY <1>10
  <2>2. \A M \in SUBSET N : M \in G
    <3>1. IsFiniteSet(N)
      BY <1>5
    <3> QED BY <1>9, <1>11, <2>1, <3>1, SubsetInduction, Zenon
  <2> QED BY <2>2
<1>13. GatheredFrom(f[N], b, P, Q, N \cup {lead})
  BY <1>12 DEF G
<1>14. N \cup {lead} = P
  BY <1>3, <1>5
<1>15. Gather(b, n, list) = f[N]
  BY GatherIs DEF f, N, first
<1>16. GatheredFrom(Gather(b, n, list), b, P, Q, P)
  BY <1>13, <1>14, <1>15
<1> QED BY <1>16 DEF P, Q

\* The last answer, before MakeNewGroup
Agreement(t, b, n) ==
    /\ SameParty(t, b) /\ SameRest(t, b) /\ b.selected = t.selected
    /\ \A i \in Ids : /\ b.state[i] = IF i \in Having(t, n) THEN DUNGEON ELSE t.state[i]
                      /\ b.old[i] = IF i \in Having(t, n) THEN DUNGEON ELSE t.old[i]
                      /\ i \notin Combined(t, n) => b.data[i] = t.data[i]
    /\ InQueue(b) = InQueue(t)

\* The players and the premades of a proposal belong to each other, whole.
LEMMA PremadesOf ==
    ASSUME NEW t \in Stores, NEW R, NEW D, Inv(t, {}, R, D), NEW n \in Open(t)
    PROVE  /\ Having(t, n) \subseteq Players /\ Combined(t, n) \subseteq Ids
           /\ \A p \in Having(t, n) : Head(t, p) \in Combined(t, n) /\ t.state[p] = PROPOSAL
           /\ \A p \in Players : Head(t, p) \in Combined(t, n) => p \in Having(t, n)
           /\ \A p \in Players : p \in Combined(t, n) => p \in Having(t, n) /\ t.group[p] = None
           /\ \A i \in Combined(t, n) : t.state[i] = PROPOSAL /\ i \notin InQueue(t)
           /\ \A h \in Groups : h \in Combined(t, n) =>
                /\ t.leader[h] \in Players /\ t.group[t.leader[h]] = h
                /\ h \in t.born /\ t.check[h] = None
           /\ \A i \in InQueue(t) : i \notin Combined(t, n) /\ i \notin Having(t, n)
<1>1. Having(t, n) \subseteq Players /\ Combined(t, n) \subseteq Ids
  BY TypeFacts
<1>2. \A i \in Combined(t, n) : t.state[i] = PROPOSAL /\ i \notin InQueue(t) /\ Head(t, i) = i
  BY DEF Inv, Proposing, Placed
<1>3. \A p \in Players : Head(t, p) \in Combined(t, n) => p \in Having(t, n) /\ t.state[p] = PROPOSAL
  BY <1>2 DEF Inv, Proposing, Crew
<1>4. \A p \in Having(t, n) : Head(t, p) \in Combined(t, n)
  BY DEF Inv, Proposing
<1>5. \A p \in Players : p \in Combined(t, n) => p \in Having(t, n) /\ t.group[p] = None
  BY <1>2, <1>3, HeadFacts, Disjoint
<1>6. \A h \in Groups : h \in Combined(t, n) =>
                /\ t.leader[h] \in Players /\ t.group[t.leader[h]] = h
                /\ h \in t.born /\ t.check[h] = None
  BY <1>2, TypeFacts DEF Inv, Formed, Checking
<1>7. \A i \in InQueue(t) : i \notin Combined(t, n) /\ i \notin Having(t, n)
  BY <1>1, <1>2, <1>3, <1>4 DEF Inv, Queueing
<1> QED BY <1>1, <1>2, <1>3, <1>4, <1>5, <1>6, <1>7

\* When the last one has agreed, the players of the proposal are in the dungeon, its
\* premades are in no queue, and nothing else is touched.
LEMMA AgreementAgreed ==
    ASSUME NEW t \in Stores, NEW R, NEW D, Inv(t, {}, R, D), NEW n \in Open(t), NEW b \in Stores, Agreement(t, b, n)
    PROVE  /\ n \in Open(b) /\ Having(b, n) = Having(t, n) /\ Combined(b, n) = Combined(t, n)
           /\ Agreed(b, Having(b, n), Combined(b, n))
           /\ b.proposal[n].leader \in Having(b, n)
           /\ \A h \in Groups : h \in Combined(b, n) =>
                b.leader[h] \in Players /\ b.group[b.leader[h]] = h /\ b.state[h] = PROPOSAL
           /\ b.proposal[n].group # None => b.proposal[n].group \in Combined(b, n) \cap b.lfg
<1>1. /\ n \in Open(b) /\ Having(b, n) = Having(t, n) /\ Combined(b, n) = Combined(t, n)
      /\ b.proposal[n] = t.proposal[n]
  BY SameProposals DEF Agreement, SameRest
<1>2. \A i : Head(b, i) = Head(t, i)
  BY SameHeads DEF Agreement, SameParty
<1> DEFINE P == Having(t, n)
           Q == Combined(t, n)
<1>3. /\ P \subseteq Players /\ Q \subseteq Ids
      /\ \A p \in P : Head(t, p) \in Q
      /\ \A p \in Players : Head(t, p) \in Q => p \in P
      /\ \A i \in Q : t.state[i] = PROPOSAL
      /\ \A h \in Groups : h \in Q => t.leader[h] \in Players /\ t.group[t.leader[h]] = h /\ h \in t.born
  BY PremadesOf
<1>4. t.proposal[n].leader \in P /\ (t.proposal[n].group # None => t.proposal[n].group \in Q \cap t.lfg)
  BY DEF Inv, Proposing
<1> HIDE DEF P, Q
<1>5. /\ b.born = t.born /\ b.leader = t.leader /\ b.group = t.group /\ b.lfg = t.lfg
      /\ \A i \in Ids : /\ b.state[i] = IF i \in P THEN DUNGEON ELSE t.state[i]
                        /\ b.old[i] = IF i \in P THEN DUNGEON ELSE t.old[i]
  BY DEF Agreement, SameParty, P
<1>6. Agreed(b, P, Q)
  BY <1>2, <1>3, <1>5, Disjoint DEF Agreed
<1>7. \A h \in Groups : h \in Q => b.leader[h] \in Players /\ b.group[b.leader[h]] = h /\ b.state[h] = PROPOSAL
  BY <1>3, <1>5, Disjoint
<1> QED BY <1>1, <1>4, <1>5, <1>6, <1>7 DEF P, Q

\* The group is in the dungeon and the proposal is over.
InDungeon(c, e, grp, n) ==
    /\ SameParty(c, e) /\ SameQueue(c, e) /\ e.check = c.check /\ e.selected = c.selected
    /\ \A i \in Ids : /\ e.state[i] = IF i = grp THEN DUNGEON ELSE c.state[i]
                      /\ e.old[i] = IF i = grp THEN DUNGEON ELSE c.old[i]
    /\ e.proposal[n] = None /\ \A k \in Slots : k # n => e.proposal[k] = c.proposal[k]

\* The group that MakeNewGroup leaves behind keeps the invariant; if everybody is
\* connected, everybody is in it.
LEMMA MakesGroup ==
    ASSUME NEW t \in Stores, NEW R, NEW D, Inv(t, {}, R, D), NEW n \in Open(t), NEW b \in Stores, Agreement(t, b, n),
           NEW c \in Stores, NEW grp, Making(b, c, grp, Having(t, n), Combined(t, n)), grp # None,
           NEW e \in Stores, InDungeon(c, e, grp, n),
           "absent" \notin R => \A q \in Having(t, n) : c.group[q] = grp
    PROVE  Inv(e, {}, R, D)
<1> DEFINE P == Having(t, n)
           Q == Combined(t, n)
<1>1. /\ P \subseteq Players /\ Q \subseteq Ids
      /\ \A p \in P : Head(t, p) \in Q /\ t.state[p] = PROPOSAL
      /\ \A p \in Players : Head(t, p) \in Q => p \in P
      /\ \A p \in Players : p \in Q => p \in P /\ t.group[p] = None
      /\ \A i \in Q : t.state[i] = PROPOSAL /\ i \notin InQueue(t)
      /\ \A h \in Groups : h \in Q => /\ t.leader[h] \in Players /\ t.group[t.leader[h]] = h
                                      /\ h \in t.born /\ t.check[h] = None
      /\ \A i \in InQueue(t) : i \notin Q /\ i \notin P
  BY PremadesOf
<1>2. Making(b, c, grp, P, Q)
  OBVIOUS
<1>3. /\ b.born = t.born /\ b.leader = t.leader /\ b.group = t.group /\ b.lfg = t.lfg
      /\ b.check = t.check /\ b.proposal = t.proposal /\ b.selected = t.selected
      /\ \A i \in Ids : /\ b.state[i] = IF i \in P THEN DUNGEON ELSE t.state[i]
                        /\ b.old[i] = IF i \in P THEN DUNGEON ELSE t.old[i]
                        /\ i \notin Q => b.data[i] = t.data[i]
      /\ InQueue(b) = InQueue(t)
  BY DEF Agreement, SameParty, SameRest
<1>4. /\ n \in Slots
      /\ "absent" \notin R => \A q \in P : c.group[q] = grp
  BY DEF Open
<1> HIDE DEF P, Q
<1>5. grp \in Groups /\ (grp \in Q \/ grp \notin t.born) /\ grp \in Ids /\ grp \notin Players
  BY <1>2, <1>3, Disjoint DEF Making
\* Who is not concerned
<1>6. \A q \in Players : /\ q \notin P => e.group[q] = t.group[q] /\ e.state[q] = t.state[q] /\ e.old[q] = t.old[q]
                         /\ q \in P => /\ e.group[q] \in {None, t.group[q], grp}
                                       /\ e.state[q] = DUNGEON /\ e.old[q] = DUNGEON
                         /\ q \in e.selected <=> q \in t.selected
  <2>1. \A q \in Players : q \in Ids /\ q # grp
    BY <1>5, Disjoint
  <2>2. e.group = c.group /\ e.selected = c.selected
    BY DEF InDungeon, SameParty
  <2>3. \A q \in Players : e.state[q] = b.state[q] /\ e.old[q] = b.old[q] /\ (q \in c.selected <=> q \in b.selected)
    BY <1>2, <2>1 DEF InDungeon, Making
  <2> QED BY <1>2, <1>3, <2>1, <2>2, <2>3 DEF Making
<1>7. \A h \in Groups : h \notin Q /\ h # grp =>
         /\ e.leader[h] = t.leader[h] /\ (h \in e.lfg <=> h \in t.lfg)
         /\ e.state[h] = t.state[h] /\ e.old[h] = t.old[h]
  <2>1. \A h \in Groups : h \in Ids /\ h \notin P
    BY <1>1, Disjoint
  <2> QED BY <1>2, <1>3, <2>1 DEF InDungeon, Making, SameParty
<1>8. \A h \in Groups : h \in Q /\ h # grp =>
         \/ /\ e.leader[h] \in Players /\ e.group[e.leader[h]] = h
            /\ e.state[h] = PROPOSAL /\ e.old[h] = t.old[h] /\ (h \in e.lfg <=> h \in t.lfg)
         \/ /\ e.leader[h] = None /\ h \notin e.lfg /\ e.state[h] = NONE /\ e.old[h] = NONE
            /\ \A q \in Players : e.group[q] # h
  <2>1. \A h \in Groups : h \in Ids /\ h \notin P
    BY <1>1, Disjoint
  <2> QED BY <1>2, <1>3, <2>1 DEF InDungeon, Making, Shrunk, SameParty
<1>9. /\ e.leader[grp] \in Players /\ e.group[e.leader[grp]] = grp /\ grp \in e.lfg /\ grp \in e.born
      /\ e.state[grp] = DUNGEON /\ e.old[grp] = DUNGEON /\ t.born \subseteq e.born
  BY <1>2, <1>3, <1>5 DEF InDungeon, Making, SameParty
<1>10. /\ e.check = t.check /\ InQueue(e) = InQueue(t)
       /\ \A i \in Ids : i \notin Q => e.data[i] = t.data[i]
  <2>1. e.check = c.check /\ c.check = b.check /\ e.data = c.data /\ c.data = b.data
    BY <1>2 DEF InDungeon, Making, SameQueue, SameRest
  <2>2. InQueue(e) = InQueue(c) /\ InQueue(c) = InQueue(b)
    BY <1>2 DEF InDungeon, Making, SameQueue, InQueue
  <2> QED BY <1>3, <2>1, <2>2
<1>11. /\ Open(e) = Open(t) \ {n}
       /\ \A k \in Open(e) : e.proposal[k] = t.proposal[k] /\ Having(e, k) = Having(t, k)
                               /\ Combined(e, k) = Combined(t, k)
  <2>1. c.proposal = t.proposal
    BY <1>2, <1>3 DEF Making, SameRest
  <2>2. Open(e) = Open(t) \ {n}
    BY <1>4, <2>1 DEF InDungeon, Open
  <2>3. \A k \in Open(e) : e.proposal[k] = t.proposal[k]
    BY <2>1, <2>2 DEF InDungeon, Open
  <2> QED BY <2>2, <2>3 DEF Having, Combined
<1>12. \A k \in Open(t) : k # n =>
          /\ \A i \in Combined(t, k) : i \notin Q /\ i \notin P /\ i # grp
          /\ \A p \in Having(t, k) : p \notin P
  <2>1. \A k \in Open(t) : k # n => \A i \in Combined(t, k) : i \notin Q /\ Head(t, i) = i /\ t.state[i] = PROPOSAL
    BY DEF Inv, Proposing, Placed, Q
  <2>2. \A k \in Open(t) : k # n => \A p \in Having(t, k) : p \notin P
    BY <1>1, <2>1 DEF Inv, Proposing
  <2>3. \A k \in Open(t) : k # n => \A i \in Combined(t, k) : i # grp
    BY <1>5, <2>1 DEF Inv, Formed
  <2> QED BY <1>1, <2>1, <2>2, <2>3
<1>13. \A q \in Players : q \notin P => Head(e, q) = Head(t, q) /\ Head(t, q) \notin Q /\ Head(t, q) # grp
  <2>1. \A q \in Players : q \notin P => Head(e, q) = Head(t, q)
    BY <1>6 DEF Head
  <2>2. \A q \in Players : Head(t, q) = grp => grp \in t.born
    BY <1>5, HeadFacts DEF Inv, Formed
  <2> QED BY <1>1, <1>5, <2>1, <2>2
<1>14. \A q \in P : e.group[q] = grp \/ e.group[q] = None \/ (e.group[q] = t.group[q] /\ t.group[q] \in Q)
  <2>1. \A q \in P : t.group[q] # None => t.group[q] \in Q
    BY <1>1, HeadFacts
  <2> QED BY <1>1, <1>6, <2>1
<1>16. Formed(e)
  <2>1. ASSUME NEW p \in Players, e.group[p] # None PROVE e.leader[e.group[p]] # None
    <3>1. CASE p \notin P
      <4>1. t.group[p] \in Groups /\ t.group[p] \notin Q /\ t.group[p] # grp /\ e.group[p] = t.group[p]
        BY <1>6, <1>13, <2>1, <3>1, HeadFacts
      <4>2. t.leader[t.group[p]] # None
        BY <4>1, Disjoint DEF Inv, Formed
      <4>3. e.leader[t.group[p]] = t.leader[t.group[p]]
        BY <1>7, <4>1
      <4> QED BY <4>1, <4>2, <4>3
    <3>2. CASE p \in P
      <4>1. CASE e.group[p] = grp
        BY <1>9, <4>1, Disjoint
      <4>2. CASE e.group[p] # grp
        <5>1. e.group[p] \in Q /\ e.group[p] \in Groups
          BY <1>14, <2>1, <3>2, <4>2, TypeFacts
        <5> QED BY <1>8, <4>2, <5>1, Disjoint
      <4> QED BY <4>1, <4>2
    <3> QED BY <3>1, <3>2
  <2>2. ASSUME NEW g \in Groups, e.leader[g] # None PROVE g \in e.born /\ e.group[e.leader[g]] = g
    <3>1. CASE g = grp
      BY <1>9, <3>1
    <3>2. CASE g # grp /\ g \in Q
      BY <1>1, <1>8, <1>9, <2>2, <3>2
    <3>3. CASE g # grp /\ g \notin Q
      <4>1. t.leader[g] \in Players /\ t.group[t.leader[g]] = g /\ g \in t.born /\ e.leader[g] = t.leader[g]
        BY <1>7, <2>2, <3>3, TypeFacts DEF Inv, Formed
      <4>2. t.leader[g] \notin P
        BY <1>1, <3>3, <4>1, Disjoint DEF Head
      <4> QED BY <1>6, <1>9, <4>1, <4>2
    <3> QED BY <3>1, <3>2, <3>3
  <2>3. ASSUME NEW g \in Groups, e.leader[g] = None
        PROVE  g \notin e.lfg /\ e.state[g] = NONE /\ e.check[g] = None
    <3>1. g # grp
      BY <1>9, <2>3, Disjoint
    <3>2. CASE g \in Q
      BY <1>1, <1>8, <1>10, <2>3, <3>1, <3>2, Disjoint
    <3>3. CASE g \notin Q
      BY <1>7, <1>10, <2>3, <3>1, <3>3 DEF Inv, Formed
    <3> QED BY <3>2, <3>3
  <2>4. ASSUME NEW g \in Groups, e.old[g] # NONE PROVE g \in e.lfg
    <3>1. CASE g = grp
      BY <1>9, <3>1
    <3>2. CASE g # grp /\ g \in Q
      BY <1>8, <2>4, <3>2 DEF Inv, Formed
    <3>3. CASE g # grp /\ g \notin Q
      BY <1>7, <2>4, <3>3 DEF Inv, Formed
    <3> QED BY <3>1, <3>2, <3>3
  <2> QED BY <2>1, <2>2, <2>3, <2>4 DEF Formed
<1>17. Resting(e)
  <2> SUFFICES ASSUME NEW i \in Ids, e.state[i] \notin Busy PROVE e.old[i] = e.state[i]
    BY DEF Resting
  <2>1. CASE i \in Players
    BY <1>6, <2>1 DEF Inv, Resting, Busy
  <2>2. CASE i \in Groups
    <3>1. CASE i = grp
      BY <1>9, <3>1
    <3>2. CASE i # grp /\ i \in Q
      BY <1>8, <2>2, <3>2 DEF Busy
    <3>3. CASE i # grp /\ i \notin Q
      BY <1>7, <2>2, <3>3 DEF Inv, Resting, Busy
    <3> QED BY <3>1, <3>2, <3>3
  <2> QED BY <2>1, <2>2, Disjoint
\* The state of a head that is not concerned
<1>18. \A q \in Players : q \notin P => e.state[Head(t, q)] = t.state[Head(t, q)]
  <2> SUFFICES ASSUME NEW q \in Players, q \notin P PROVE e.state[Head(t, q)] = t.state[Head(t, q)]
    OBVIOUS
  <2>1. CASE Head(t, q) = q
    BY <1>6, <2>1
  <2>2. CASE Head(t, q) \in Groups
    BY <1>7, <1>13, <2>2
  <2> QED BY <2>1, <2>2, HeadFacts
<1>19. \A q \in P : e.state[Head(e, q)] \notin {ROLECHECK, QUEUED}
  <2> SUFFICES ASSUME NEW q \in P PROVE e.state[Head(e, q)] \notin {ROLECHECK, QUEUED}
    OBVIOUS
  <2>0. q \in Players
    BY <1>1
  <2>1. CASE e.group[q] = None
    <3>1. Head(e, q) = q
      BY <2>0, <2>1, HeadFacts, Disjoint
    <3>2. e.state[q] = DUNGEON
      BY <1>6, <2>0
    <3> QED BY <3>1, <3>2
  <2>2. CASE e.group[q] = grp
    BY <1>5, <1>9, <2>0, <2>2, HeadFacts, Disjoint
  <2>3. CASE e.group[q] # None /\ e.group[q] # grp
    <3>1. e.group[q] \in Groups /\ e.group[q] \in Q /\ Head(e, q) = e.group[q]
      BY <1>14, <2>0, <2>3, HeadFacts
    <3> QED BY <1>8, <2>3, <3>1
  <2> QED BY <2>1, <2>2, <2>3
<1>20. Agreeing(e)
  <2> SUFFICES ASSUME NEW p \in Players
               PROVE  /\ e.state[p] \in Busy => e.state[Head(e, p)] = e.state[p]
                      /\ e.state[Head(e, p)] \in {ROLECHECK, QUEUED} => e.state[p] = e.state[Head(e, p)]
    BY DEF Agreeing
  <2>1. CASE p \in P
    BY <1>6, <1>19, <2>1 DEF Busy
  <2>2. CASE p \notin P
    BY <1>6, <1>13, <1>18, <2>2 DEF Inv, Agreeing
  <2> QED BY <2>1, <2>2
<1>21. \A i \in Ids : i \notin Q /\ i \notin P /\ i # grp => Crew(e, i) = Crew(t, i)
  <2> SUFFICES ASSUME NEW i \in Ids, i \notin Q, i \notin P, i # grp, NEW q \in Players
               PROVE  Head(e, q) = i <=> Head(t, q) = i
    BY DEF Crew
  <2>1. CASE q \notin P
    BY <1>13, <2>1
  <2>2. CASE q \in P
    <3>1. Head(t, q) # i
      BY <1>1, <2>2
    <3>2. Head(e, q) = q \/ Head(e, q) = grp \/ Head(e, q) \in Q
      <4>1. q \in Players /\ q \notin Groups
        BY <1>1, <2>2, Disjoint
      <4>2. e.group[q] = grp \/ e.group[q] = None \/ e.group[q] \in Q
        BY <1>14, <2>2
      <4> QED BY <4>1, <4>2 DEF Head
    <3> QED BY <2>2, <3>1, <3>2
  <2> QED BY <2>1, <2>2
<1>22. Checking(e)
  <2>1. \A p \in Players : e.state[p] = ROLECHECK => e.group[p] # None
    BY <1>6 DEF Inv, Checking
  <2>2. t.check[grp] = None
    BY <1>1, <1>5 DEF Inv, Formed
  <2>3. \A g \in Groups : e.state[g] = ROLECHECK <=> e.check[g] # None
    BY <1>1, <1>7, <1>8, <1>9, <1>10, <2>2 DEF Inv, Checking
  <2>4. ASSUME NEW g \in Groups, e.check[g] # None PROVE e.check[g].asked = Members(e, g)
    <3>1. g # grp /\ g \notin Q /\ g \in Ids /\ g \notin P
      BY <1>1, <1>10, <2>2, <2>4, Disjoint
    <3>2. Members(e, g) = Members(t, g)
      BY <1>21, <3>1, HeadFacts
    <3> QED BY <1>10, <2>4, <3>2 DEF Inv, Checking
  <2> QED BY <2>1, <2>3, <2>4 DEF Checking
<1>23. ASSUME NEW i \in Ids, i \notin Q, i \notin P, i # grp
       PROVE  /\ e.state[i] = t.state[i] /\ (i \in t.lfg => i \in e.lfg)
              /\ Placed(t, i) => Placed(e, i)
              /\ Head(e, i) = i <=> Head(t, i) = i
  <2>1. e.state[i] = t.state[i]
    BY <1>6, <1>7, <1>23, Disjoint
  <2>2. i \in t.lfg => i \in e.lfg
    BY <1>7, <1>23, TypeFacts
  <2>3. Head(e, i) = i <=> Head(t, i) = i
    BY <1>13, <1>23, Disjoint, HeadFacts
  <2>4. Crew(e, i) = Crew(t, i) /\ e.data[i] = t.data[i]
    BY <1>10, <1>21, <1>23
  <2> QED BY <2>1, <2>2, <2>3, <2>4 DEF Placed
<1>24. \A i \in InQueue(t) : i \in Ids /\ i \notin Q /\ i \notin P /\ i # grp
  <2>1. \A i \in InQueue(t) : i \in Ids /\ t.state[i] = QUEUED
    BY TypeFacts DEF Inv, Queueing
  <2> QED BY <1>1, <1>5, <2>1 DEF Inv, Formed
<1>25. Queueing(e)
  BY <1>10, <1>23, <1>24 DEF Inv, Queueing
<1>26. Proposing(e, {})
  <2> SUFFICES ASSUME NEW m \in Open(e)
               PROVE  /\ \A i \in Combined(t, m) :
                           /\ e.state[i] = PROPOSAL
                           /\ Placed(e, i) /\ i \notin InQueue(t)
                           /\ \A p \in Crew(e, i) : e.state[p] = e.state[i] /\ p \in Having(t, m)
                           /\ \A k \in Open(t) : i \in Combined(t, k) => k = m
                      /\ \A p \in Having(t, m) : Head(e, p) \in Combined(t, m)
                                                   /\ t.proposal[m].of[p] = e.group[p]
                      /\ t.proposal[m].leader \in Having(t, m)
                      /\ t.proposal[m].group # None => t.proposal[m].group \in Combined(t, m) \cap e.lfg
    BY <1>10, <1>11 DEF Proposing
  <2>1. m \in Open(t) /\ m # n
    BY <1>11
  <2>2. \A i \in Combined(t, m) : i \in Ids /\ i \notin Q /\ i \notin P /\ i # grp
    BY <1>12, <2>1, TypeFacts
  <2>3. \A p \in Having(t, m) : p \in Players /\ p \notin P
    BY <1>12, <2>1, TypeFacts
  <2>4. ASSUME NEW i \in Combined(t, m)
        PROVE  /\ e.state[i] = PROPOSAL /\ Placed(e, i) /\ i \notin InQueue(t)
               /\ \A p \in Crew(e, i) : e.state[p] = e.state[i] /\ p \in Having(t, m)
               /\ \A k \in Open(t) : i \in Combined(t, k) => k = m
    <3>1. /\ t.state[i] = PROPOSAL /\ Placed(t, i) /\ i \notin InQueue(t)
          /\ \A p \in Crew(t, i) : t.state[p] = PROPOSAL /\ p \in Having(t, m)
          /\ \A k \in Open(t) : i \in Combined(t, k) => k = m
      BY <2>1 DEF Inv, Proposing
    <3>2. e.state[i] = PROPOSAL /\ Placed(e, i) /\ Crew(e, i) = Crew(t, i)
      BY <1>21, <1>23, <2>2, <3>1
    <3> QED BY <1>6, <2>3, <3>1, <3>2
  <2>5. \A p \in Having(t, m) : Head(e, p) \in Combined(t, m) /\ t.proposal[m].of[p] = e.group[p]
    BY <1>6, <1>13, <2>1, <2>3 DEF Inv, Proposing
  <2>6. t.proposal[m].leader \in Having(t, m)
    BY <2>1 DEF Inv, Proposing
  <2>7. t.proposal[m].group # None => t.proposal[m].group \in Combined(t, m) \cap e.lfg
    BY <1>23, <2>1, <2>2 DEF Inv, Proposing
  <2> QED BY <2>4, <2>5, <2>6, <2>7
<1>27. Answered(e)
  <2> SUFFICES ASSUME NEW p \in Players, e.state[p] = PROPOSAL PROVE \E m \in Open(e) : p \in Having(e, m)
    BY DEF Answered
  <2>1. p \notin P /\ t.state[p] = PROPOSAL
    BY <1>6
  <2>2. PICK m \in Open(t) : p \in Having(t, m)
    BY <2>1 DEF Inv, Answered
  <2>3. m # n
    BY <2>1, <2>2 DEF P
  <2> QED BY <1>11, <2>2, <2>3
<1>28. Searched(e, {}, D)
  <2> SUFFICES ASSUME NEW i \in Ids, e.state[i] = QUEUED, Head(e, i) = i
               PROVE  i \in InQueue(t) \/ i \in D
    BY <1>10 DEF Searched
  <2>1. i \notin P /\ i # grp
    BY <1>1, <1>6, <1>9
  <2>2. i \notin Q
    BY <1>1, <1>8, <2>1, Disjoint
  <2> QED BY <1>23, <2>1, <2>2 DEF Inv, Searched
<1>29. "absent" \notin R => Asked(e)
  <2> SUFFICES ASSUME "absent" \notin R, NEW g \in Groups, e.state[g] = PROPOSAL
               PROVE  \E m \in Open(e) : g \in Combined(e, m)
    BY DEF Asked
  <2>1. g # grp
    BY <1>9
  <2>2. g \notin Q
    <3> SUFFICES ASSUME g \in Q PROVE FALSE
      OBVIOUS
    <3>1. e.leader[g] \in Players /\ e.group[e.leader[g]] = g
      BY <1>8, <2>1
    <3>2. e.leader[g] \in P
      <4>1. e.leader[g] \notin P => Head(t, e.leader[g]) = g
        BY <1>6, <3>1, Disjoint DEF Head
      <4> QED BY <1>1, <3>1, <4>1
    <3>3. e.group = c.group
      BY DEF InDungeon, SameParty
    <3> QED BY <1>4, <2>1, <3>1, <3>2, <3>3
  <2>3. t.state[g] = PROPOSAL
    BY <1>7, <2>1, <2>2
  <2>4. PICK m \in Open(t) : g \in Combined(t, m)
    BY <2>3 DEF Inv, Asked
  <2>5. m # n
    BY <2>2, <2>4 DEF Q
  <2> QED BY <1>11, <2>4, <2>5
<1>30. ASSUME "befriended" \notin R PROVE Chosen(e)
  <2>0. Chosen(t)
    BY <1>30 DEF Inv
  <2>1. \A p \in P : p \in t.selected
    BY <1>1, <2>0 DEF Chosen, P
  <2>2. ASSUME NEW p \in Players,
               \/ e.state[Head(e, p)] \in {ROLECHECK, QUEUED}
               \/ \E m \in Open(e) : p \in Having(e, m)
               \/ e.old[p] = DUNGEON
        PROVE  p \in e.selected
    <3>1. CASE p \in P
      BY <1>6, <2>1, <3>1
    <3>2. CASE p \notin P
      <4>1. e.state[Head(e, p)] = t.state[Head(t, p)] /\ e.old[p] = t.old[p]
        BY <1>6, <1>13, <1>18, <3>2
      <4>2. (\E m \in Open(e) : p \in Having(e, m)) => \E m \in Open(t) : p \in Having(t, m)
        BY <1>11
      <4>3. p \in t.selected
        BY <2>0, <2>2, <4>1, <4>2 DEF Chosen
      <4> QED BY <1>6, <4>3
    <3> QED BY <3>1, <3>2
  <2>3. ASSUME NEW p \in Players, e.group[p] # None, e.old[e.group[p]] = DUNGEON PROVE e.old[p] = DUNGEON
    <3>1. CASE p \in P
      BY <1>6, <3>1
    <3>2. CASE p \notin P
      <4>1. t.group[p] \in Groups /\ t.group[p] \notin Q /\ t.group[p] # grp /\ e.group[p] = t.group[p]
        BY <1>6, <1>13, <2>3, <3>2, HeadFacts
      <4>2. t.old[t.group[p]] = DUNGEON
        BY <1>7, <2>3, <4>1
      <4> QED BY <1>6, <2>0, <3>2, <4>1, <4>2, Disjoint DEF Chosen
    <3> QED BY <3>1, <3>2
  <2> QED BY <2>2, <2>3 DEF Chosen
<1> QED BY <1>16, <1>17, <1>20, <1>22, <1>25, <1>26, <1>27, <1>28, <1>29, <1>30 DEF Inv

\* A race, or a premade that is stuck, excuses more, never less.
LEMMA Excused ==
    ASSUME NEW s, NEW F, NEW R, NEW D, NEW R2, NEW D2, Inv(s, F, R, D), R \subseteq R2, D \subseteq D2
    PROVE  Inv(s, F, R2, D2)
<1>1. /\ "absent" \notin R2 => "absent" \notin R
      /\ "befriended" \notin R2 => "befriended" \notin R
  OBVIOUS
<1>2. Searched(s, F, D2)
  BY DEF Inv, Searched
<1> QED BY <1>1, <1>2 DEF Inv

\* It is enough to show a step for the races that have happened after it.
LEMMA SoundJoin ==
    ASSUME Sound, races \subseteq races',
           races' \cap Derailing = {} /\ Inv(mgr, {}, races', stuck) => Inv(mgr', {}, races', stuck')
    PROVE  Sound'
<1>1. races' \cap Derailing = {} => races \cap Derailing = {}
  OBVIOUS
<1>2. races' \cap Derailing = {} => Inv(mgr, {}, races', stuck)
  BY <1>1, Excused DEF Sound
<1> QED BY <1>2 DEF Sound

\* Only JoinLfg and the search change who is stuck.
LEMMA SoundNext ==
    ASSUME Sound, races \subseteq races', stuck' = stuck,
           races' \cap Derailing = {} /\ Inv(mgr, {}, races', stuck') => Inv(mgr', {}, races', stuck')
    PROVE  Sound'
  BY SoundJoin

\* A race that has happened stays noted.
LEMMA MarkFacts ==
    ASSUME NEW race, NEW happens \in BOOLEAN, Mark(race, happens)
    PROVE  /\ races \subseteq races'
           /\ happens => race \in races'
  BY DEF Mark

\* Invitations are no part of the types of the finder.
LEMMA InviteTyped ==
    ASSUME NEW s, Typed(s), NEW f \in [Players -> Players \cup {None}]
    PROVE  Typed([s EXCEPT !.invite = f])
<1> DEFINE t == [s EXCEPT !.invite = f]
<1>1. s \in Stores
  BY DEF Typed
<1>2. t \in Stores /\ SameQueue(s, t)
  BY <1>1 DEF Stores, SameQueue
<1> HIDE DEF t
<1>3. Typed(t)
  BY <1>2, SameQueueTyped
<1> QED BY <1>3 DEF t

\* Nor of its invariant.
LEMMA InviteKeeps ==
    ASSUME NEW s \in Stores, NEW f \in [Players -> Players \cup {None}], NEW F, NEW R, NEW D
    PROVE  LET t == [s EXCEPT !.invite = f] IN
           /\ t \in Stores /\ SameParty(s, t) /\ SameState(s, t) /\ SameRest(s, t) /\ SameQueue(s, t)
           /\ Inv(s, F, R, D) => Inv(t, F, R, D)
<1> DEFINE t == [s EXCEPT !.invite = f]
<1>2. t \in Stores /\ SameParty(s, t) /\ SameState(s, t) /\ SameRest(s, t) /\ SameQueue(s, t)
  BY DEF Stores, SameParty, SameState, SameRest, SameQueue
<1>3. t.data = s.data /\ InQueue(t) = InQueue(s)
  BY <1>2 DEF SameQueue, InQueue
<1> HIDE DEF t
<1>4. Inv(s, F, R, D) => Inv(t, F, R, D)
  BY <1>2, <1>3, Requeues
<1> QED BY <1>2, <1>4 DEF t

\* HandleGroupDeclineOpcode keeps the invariant.
LEMMA HandleGroupDeclineKeeps ==
    ASSUME Typed(mgr), Sound, NEW p \in Players, HandleGroupDecline(p)
    PROVE  Typed(mgr') /\ Sound'
<1> DEFINE f == [mgr.invite EXCEPT ![p] = None]
<1>1. mgr \in Stores /\ mgr' = [mgr EXCEPT !.invite = f] /\ races' = races /\ stuck' = stuck
  BY DEF HandleGroupDecline, Typed
<1>2. f \in [Players -> Players \cup {None}]
  BY <1>1 DEF Stores
<1> HIDE DEF f
<1>3. Typed(mgr')
  BY <1>1, <1>2, InviteTyped
<1>4. Inv(mgr, {}, races', stuck') => Inv(mgr', {}, races', stuck')
  BY <1>1, <1>2, InviteKeeps
<1> QED BY <1>1, <1>3, <1>4, SoundNext

\* A group that is in the dungeon, and not queued for more, may finish it.
LEMMA Finishes ==
    ASSUME NEW s \in Stores, NEW R, NEW D, Inv(s, {}, R, D), NEW g \in Groups, s.leader[g] # None, s.state[g] = DUNGEON
    PROVE  Inv(SetState(s, {g} \cup Members(s, g), FINISHED), {}, R, D)
<1> DEFINE M == {g} \cup Members(s, g)
           t == SetState(s, M, FINISHED)
<1>1. /\ t \in Stores /\ SameParty(s, t) /\ SameQueue(s, t) /\ SameRest(s, t)
      /\ \A i \in Ids : t.state[i] = IF i \in Stored(s, M) THEN FINISHED ELSE s.state[i]
      /\ \A i \in Ids : t.old[i] = IF i \in Stored(s, M) THEN FINISHED ELSE s.old[i]
      /\ t.selected = s.selected \ M
  BY SetStateEffect DEF States, Busy
<1>2. Head(s, g) = g /\ g \in Ids /\ Crew(s, g) = Members(s, g) /\ g \notin Players
  BY HeadFacts, Disjoint
<1>3. Free(s, g)
  BY DEF Inv, Proposing, Free
<1>4. /\ g \notin InQueue(s) /\ s.check[g] = None
      /\ \A p \in Members(s, g) : s.state[p] \notin Busy /\ \A n \in Open(s) : p \notin Having(s, n)
  BY <1>2, <1>3, FreeFacts
<1>5. \A i \in Ids : i \in M <=> Head(s, i) = g
  BY <1>2, Disjoint DEF Head, Members
<1>6. \A i \in Ids : i \in Stored(s, M) <=> Head(s, i) = g
  BY <1>5, Disjoint DEF Stored, Members
<1>7. \A i : Head(t, i) = Head(s, i) /\ Crew(t, i) = Crew(s, i) /\ Members(t, i) = Members(s, i)
  BY <1>1, SameHeads DEF SameParty
<1>8. /\ Open(t) = Open(s) /\ InQueue(t) = InQueue(s)
      /\ \A n : Having(t, n) = Having(s, n) /\ Combined(t, n) = Combined(s, n)
  BY <1>1, SameProposals DEF SameRest, SameQueue, InQueue
<1>9. /\ t.group = s.group /\ t.leader = s.leader /\ t.lfg = s.lfg /\ t.born = s.born
      /\ t.check = s.check /\ t.proposal = s.proposal /\ t.data = s.data
  BY <1>1 DEF SameParty, SameRest, SameQueue
<1>10. \A i \in Ids : /\ Head(s, i) = g => t.state[i] = FINISHED /\ t.old[i] = FINISHED
                      /\ Head(s, i) # g => /\ t.state[i] = s.state[i] /\ t.old[i] = s.old[i]
                                           /\ (i \in t.selected <=> i \in s.selected)
  BY <1>1, <1>5, <1>6
<1> HIDE DEF M, t
<1>11. Formed(t)
  <2>1. \A h \in Groups : h # g => t.state[h] = s.state[h] /\ t.old[h] = s.old[h]
    BY <1>10, HeadFacts, Disjoint
  <2>2. g \in s.lfg
    BY DEF Inv, Formed, Resting, Busy, Ids
  <2> QED BY <1>9, <2>1, <2>2 DEF Inv, Formed
<1>12. Resting(t)
  BY <1>10 DEF Inv, Resting
<1>13. \A p \in Players : /\ Head(s, p) = g => t.state[p] = FINISHED /\ t.state[Head(s, p)] = FINISHED
                          /\ Head(s, p) # g => t.state[p] = s.state[p] /\ t.state[Head(s, p)] = s.state[Head(s, p)]
  BY <1>10, HeadFacts, Disjoint
<1>14. Agreeing(t)
  BY <1>7, <1>13 DEF Inv, Agreeing, Busy
<1>15. Checking(t)
  <2>1. \A h \in Groups : h # g => t.state[h] = s.state[h]
    BY <1>10, HeadFacts, Disjoint
  <2>2. \A h \in Groups : t.state[h] = ROLECHECK <=> s.check[h] # None
    BY <1>2, <1>4, <1>10, <2>1 DEF Inv, Checking
  <2> QED BY <1>7, <1>9, <1>13, <2>2 DEF Inv, Checking
<1>16. \A i \in Ids : Placed(s, i) => Placed(t, i)
  BY <1>7, <1>9 DEF Placed
<1>17. \A i \in Ids : Head(s, i) = i /\ i # g => t.state[i] = s.state[i]
  BY <1>10
<1>18. Queueing(t)
  BY <1>4, <1>8, <1>16, <1>17, TypeFacts DEF Inv, Queueing, Placed
<1>19. Proposing(t, {})
  <2> SUFFICES ASSUME NEW n \in Open(s)
               PROVE  /\ \A i \in Combined(s, n) :
                           /\ t.state[i] = PROPOSAL
                           /\ Placed(t, i) /\ i \notin InQueue(s)
                           /\ \A p \in Crew(s, i) : t.state[p] = t.state[i] /\ p \in Having(s, n)
                           /\ \A m \in Open(s) : i \in Combined(s, m) => m = n
                      /\ \A p \in Having(s, n) : Head(s, p) \in Combined(s, n)
                                                   /\ s.proposal[n].of[p] = s.group[p]
                      /\ s.proposal[n].leader \in Having(s, n)
                      /\ s.proposal[n].group # None => s.proposal[n].group \in Combined(s, n) \cap s.lfg
    BY <1>7, <1>8, <1>9 DEF Proposing
  <2>1. \A i \in Combined(s, n) : i \in Ids /\ i # g /\ Head(s, i) = i
    BY <1>3, TypeFacts DEF Inv, Proposing, Placed, Free
  <2>2. \A i \in Combined(s, n) : \A p \in Crew(s, i) : p \in Players /\ Head(s, p) = i
    BY DEF Crew
  <2>3. \A i \in Combined(s, n) : /\ s.state[i] = PROPOSAL /\ Placed(s, i) /\ i \notin InQueue(s)
                                  /\ \A p \in Crew(s, i) : s.state[p] = s.state[i] /\ p \in Having(s, n)
                                  /\ \A m \in Open(s) : i \in Combined(s, m) => m = n
    BY DEF Inv, Proposing
  <2>4. \A i \in Combined(s, n) : t.state[i] = PROPOSAL /\ Placed(t, i)
    BY <1>16, <1>17, <2>1, <2>3
  <2>5. \A i \in Combined(s, n) : \A p \in Crew(s, i) : t.state[p] = s.state[p]
    BY <1>13, <2>1, <2>2
  <2> QED BY <2>3, <2>4, <2>5 DEF Inv, Proposing
<1>20. Answered(t)
  BY <1>8, <1>13 DEF Inv, Answered
<1>21. Searched(t, {}, D)
  BY <1>7, <1>8, <1>10 DEF Inv, Searched
<1>22. "absent" \notin R => Asked(t)
  BY <1>2, <1>8, <1>10, HeadFacts, Disjoint DEF Inv, Asked
<1>23. ASSUME "befriended" \notin R PROVE Chosen(t)
  <2>0. Chosen(s)
    BY <1>23 DEF Inv
  <2>1. ASSUME NEW p \in Players,
               \/ t.state[Head(s, p)] \in {ROLECHECK, QUEUED}
               \/ \E n \in Open(s) : p \in Having(s, n)
               \/ t.old[p] = DUNGEON
        PROVE  p \in t.selected
    <3>1. Head(s, p) # g
      <4> SUFFICES ASSUME Head(s, p) = g PROVE FALSE
        OBVIOUS
      <4>1. p \in Members(s, g) /\ p \in Ids
        BY <1>2, Disjoint DEF Crew
      <4> QED BY <1>4, <1>10, <1>13, <2>1, <4>1
    <3>2. t.old[p] = s.old[p] /\ (p \in t.selected <=> p \in s.selected)
      BY <1>10, <3>1, Disjoint
    <3> QED BY <1>13, <2>0, <2>1, <3>1, <3>2 DEF Chosen
  <2>2. ASSUME NEW p \in Players, s.group[p] # None, t.old[s.group[p]] = DUNGEON PROVE t.old[p] = DUNGEON
    <3>1. s.group[p] \in Groups /\ Head(s, p) = s.group[p] /\ p \in Ids /\ s.group[p] \in Ids
      BY <2>2, HeadFacts, Disjoint
    <3>2. Head(s, s.group[p]) = s.group[p]
      BY <3>1, HeadFacts
    <3>3. s.group[p] # g
      BY <1>10, <2>2, <3>1, <3>2
    <3> QED BY <1>10, <2>0, <2>2, <3>1, <3>2, <3>3 DEF Chosen
  <2> QED BY <1>7, <1>8, <1>9, <2>1, <2>2 DEF Chosen
<1>24. Inv(t, {}, R, D)
  BY <1>11, <1>12, <1>14, <1>15, <1>18, <1>19, <1>20, <1>21, <1>22, <1>23 DEF Inv
<1> QED BY <1>24 DEF t, M

\* LFGMgr::FinishDungeon keeps the invariant.
LEMMA FinishDungeonKeeps ==
    ASSUME Typed(mgr), Sound, NEW g \in Groups, FinishDungeon(g)
    PROVE  Typed(mgr') /\ Sound'
<1> DEFINE M == {g} \cup Members(mgr, g)
<1>1. mgr \in Stores /\ mgr' = SetState(mgr, M, FINISHED) /\ Mark("finished", mgr.state[g] # DUNGEON)
      /\ mgr.leader[g] # None /\ mgr.old[g] = DUNGEON /\ stuck' = stuck
  BY DEF FinishDungeon, Typed
<1>2. races \subseteq races' /\ (mgr.state[g] # DUNGEON => "finished" \in races')
  BY <1>1, MarkFacts
<1>3. Typed(mgr')
  BY <1>1, SetStateTyped DEF States
<1>4. ASSUME races' \cap Derailing = {}, Inv(mgr, {}, races', stuck') PROVE Inv(mgr', {}, races', stuck')
  <2>1. mgr.state[g] = DUNGEON
    BY <1>2, <1>4 DEF Derailing
  <2> QED BY <1>1, <1>4, <2>1, Finishes
<1> QED BY <1>1, <1>2, <1>3, <1>4, SoundNext

\* A player without a group may leave the finder in any state.
LEMMA LeaveFinderAlone ==
    ASSUME NEW s \in Stores, NEW R, NEW D, Inv(s, {}, R, D), NEW p \in Players, s.group[p] = None
    PROVE  LET t == LeaveAllLfgQueues(LeaveLfg(s, p), p, None)
           IN t \in Stores /\ Inv(t, {}, R, D)
<1> DEFINE u == LeaveLfg(s, p)
           t == LeaveAllLfgQueues(u, p, None)
<1>1. p \in Ids /\ p \notin Groups /\ Head(s, p) = p
  BY HeadFacts, Disjoint
<1>2. u \in Stores /\ SameParty(s, u) /\ Inv(u, {}, R, D) /\ Free(u, p)
  BY <1>1, LeaveLfgLeaves
<1> HIDE DEF u
<1>3. u.group[p] = None /\ \A n \in Open(u) : p \notin Combined(u, n)
  BY <1>2 DEF SameParty, Free
<1>4. t \in Stores /\ \E Out : Moved(u, t, {}, Out, {})
  BY <1>2, <1>3, LeaveAllOfPlayer
<1> HIDE DEF t
<1>5. Inv(t, {}, R, D)
  BY <1>2, <1>4, Moves
<1> QED BY <1>4, <1>5 DEF t, u

\* HandleLfgLeaveOpcode keeps the invariant.
LEMMA HandleLfgLeaveKeeps ==
    ASSUME Typed(mgr), Sound, NEW p \in Players, HandleLfgLeave(p)
    PROVE  Typed(mgr') /\ Sound'
<1> DEFINE g == mgr.group[p]
           u == LeaveLfg(mgr, Unit(p))
<1>1. mgr \in Stores /\ mgr' = LeaveAllLfgQueues(u, p, g) /\ races' = races /\ stuck' = stuck
  BY DEF HandleLfgLeave, Typed
<1>2. Unit(p) = Head(mgr, p) /\ Unit(p) \in Ids
  BY <1>1, HeadFacts, Disjoint DEF Unit, Head
<1>3. Typed(u) /\ SameParty(mgr, u)
  BY <1>2, LeaveLfgTyped
<1>4. Typed(mgr')
  BY <1>1, <1>3, LeaveAllTyped
<1>5. ASSUME NEW R, NEW D, Inv(mgr, {}, R, D) PROVE Inv(mgr', {}, R, D)
  <2>1. CASE g = None
    <3>1. Unit(p) = p
      BY <2>1 DEF Unit
    <3> QED BY <1>1, <1>5, <2>1, <3>1, LeaveFinderAlone
  <2>2. CASE g # None
    <3>1. g \in Groups /\ Unit(p) = g /\ mgr.leader[g] # None
      BY <1>1, <1>5, <2>2, TypeFacts DEF Unit, Inv, Formed
    <3>2. g \in Ids /\ g \notin Players /\ Head(mgr, g) = g
      BY <1>1, <3>1, HeadFacts, Disjoint
    <3>3. u \in Stores /\ SameParty(mgr, u) /\ Inv(u, {}, R, D) /\ Free(u, g)
      BY <1>1, <1>5, <3>1, <3>2, LeaveLfgLeaves
    <3> HIDE DEF u
    <3>4. u.group[p] = g
      BY <3>3 DEF SameParty
    <3> HIDE DEF g
    <3>5. mgr' \in Stores /\ Moved(u, mgr', {}, {}, {})
      BY <1>1, <3>1, <3>3, <3>4, LeaveAllOfGroup
    <3> QED BY <3>3, <3>5, Moves
  <2> QED BY <2>1, <2>2
<1> QED BY <1>1, <1>4, <1>5, SoundNext

\* HandleGroupInviteOpcode takes the inviter out of the finder and keeps the
\* invariant.
LEMMA HandleGroupInviteKeeps ==
    ASSUME Typed(mgr), Sound, NEW p \in Players, NEW q \in Players, HandleGroupInvite(p, q)
    PROVE  Typed(mgr') /\ Sound'
<1> DEFINE v == LeaveAllLfgQueues(LeaveLfg(mgr, p), p, None)
           f == [v.invite EXCEPT ![q] = p]
<1>1. mgr \in Stores /\ mgr' = [v EXCEPT !.invite = f] /\ races' = races /\ stuck' = stuck /\ mgr.group[p] = None
  BY DEF HandleGroupInvite, Typed
<1>2. Typed(v)
  <2>1. p \in Ids
    BY Disjoint
  <2> QED BY <2>1, LeaveLfgTyped, LeaveAllTyped
<1>3. Inv(mgr, {}, races, stuck) => Inv(v, {}, races, stuck)
  BY <1>1, LeaveFinderAlone
<1> HIDE DEF v
<1>4. v \in Stores /\ f \in [Players -> Players \cup {None}]
  BY <1>2 DEF Typed, Stores
<1> HIDE DEF f
<1>5. Typed(mgr')
  BY <1>1, <1>2, <1>4, InviteTyped
<1>6. Inv(v, {}, races, stuck) => Inv(mgr', {}, races, stuck)
  BY <1>1, <1>4, InviteKeeps
<1> QED BY <1>1, <1>3, <1>5, <1>6, SoundNext

\* LFGPlayerScript::OnMapChanged keeps the invariant.
LEMMA OnMapChangedKeeps ==
    ASSUME Typed(mgr), Sound, NEW p \in Players, OnMapChanged(p)
    PROVE  Typed(mgr') /\ Sound'
<1> DEFINE g == mgr.group[p]
           u == LeaveLfg(mgr, g)
<1>1. mgr \in Stores /\ mgr' = Disband(u, g) /\ races' = races /\ stuck' = stuck /\ g # None
  BY DEF OnMapChanged, Typed
<1>2. g \in Groups /\ g \in Ids /\ g \notin Players /\ Head(mgr, g) = g
  BY <1>1, TypeFacts, HeadFacts, Disjoint
<1>3. Typed(u) /\ SameParty(mgr, u)
  BY <1>2, LeaveLfgTyped
<1>4. Typed(mgr')
  BY <1>1, <1>2, <1>3, DisbandTyped
<1>5. ASSUME NEW R, NEW D, Inv(mgr, {}, R, D) PROVE Inv(mgr', {}, R, D)
  <2>1. mgr.leader[g] # None
    BY <1>1, <1>5 DEF Inv, Formed
  <2>2. u \in Stores /\ SameParty(mgr, u) /\ Inv(u, {}, R, D) /\ Free(u, g)
    BY <1>1, <1>2, <1>5, <2>1, LeaveLfgLeaves
  <2> HIDE DEF u, g
  <2>3. u.leader[g] # None
    BY <2>1, <2>2 DEF SameParty
  <2>4. mgr' \in Stores /\ Left(u, mgr', g)
    BY <1>1, <1>2, <2>2, <2>3, DisbandEffect
  <2> QED BY <1>2, <2>2, <2>3, <2>4, Leaves
<1> QED BY <1>1, <1>4, <1>5, SoundNext

\* A premade in the state of a proposal that is not free is in one.
LEMMA InProposal ==
    ASSUME NEW s \in Stores, NEW R, NEW D, Inv(s, {}, R, D), NEW u \in Ids, s.state[u] = PROPOSAL, ~Free(s, u)
    PROVE  \E n \in Open(s) : u \in Combined(s, n)
  BY DEF Free

\* HandleGroupDisbandOpcode keeps the invariant.
LEMMA HandleGroupDisbandKeeps ==
    ASSUME Typed(mgr), Sound, NEW p \in Players, HandleGroupDisband(p)
    PROVE  Typed(mgr') /\ Sound'
<1> DEFINE g == mgr.group[p]
<1>1. PICK inside \in BOOLEAN, list \in Lists(Followers(g) \ {p}) :
         mgr' = RemoveMember(mgr, g, p, FALSE, inside, list)
  BY DEF HandleGroupDisband
<1>0. list \in Places
  BY ListsArePlaces DEF Followers, Members
<1>2. mgr \in Stores /\ races' = races /\ stuck' = stuck /\ g # None
  BY DEF HandleGroupDisband, Typed
<1>3. g \in Groups
  BY <1>2, TypeFacts
<1>4. Typed(mgr')
  BY <1>0, <1>1, <1>3, RemoveMemberTyped
<1>5. Inv(mgr, {}, races, stuck) => Inv(mgr', {}, races, stuck)
  BY <1>0, <1>1, <1>2, <1>3, RemoveMemberLeaves
<1> QED BY <1>2, <1>4, <1>5, SoundNext

\* A new group keeps the types.
LEMMA CreateTyped ==
    ASSUME NEW s, Typed(s), NEW g \in Groups, NEW p \in Players
    PROVE  Typed(Create(s, g, p))
<1>1. s \in Stores
  BY DEF Typed
<1>2. Create(s, g, p) \in Stores /\ SameQueue(s, Create(s, g, p))
  BY <1>1, CreateEffect
<1> QED BY <1>2, SameQueueTyped

\* Answering, in the terms of the proof
LEMMA AnsweringIs == \A p : p \in Answering <=> \E n \in Open(mgr) : p \in Having(mgr, n)
  BY DEF Answering, Open

\* The first invitation that is accepted founds a group and keeps the invariant.
LEMMA AcceptFirstKeeps ==
    ASSUME Typed(mgr), Sound, NEW p \in Players, mgr.group[p] = None, AcceptFirst(p), stuck' = stuck
    PROVE  Typed(mgr') /\ Sound'
<1> DEFINE q == mgr.invite[p]
           g == Min(Fresh(mgr))
           t == OnAddMember(Create(mgr, g, q), g, q)
<1>1. /\ mgr \in Stores /\ mgr' = OnAddMember(t, g, p) /\ q # None /\ mgr.group[q] = None
      /\ Fresh(mgr) # {} /\ Mark("partied", {p, q} \cap Answering # {})
  BY DEF AcceptFirst, Typed
<1>2. q \in Players
  BY <1>1 DEF Stores
<1>3. g \in Groups /\ g \notin mgr.born
  <2>1. Fresh(mgr) \in SUBSET Nat
    BY DungeonFinderAssumption DEF Fresh
  <2>2. g \in Fresh(mgr)
    BY <1>1, <2>1, MinIsIn
  <2> QED BY <2>2 DEF Fresh
<1> HIDE DEF q, g
<1>4. Typed(Create(mgr, g, q))
  BY <1>2, <1>3, CreateTyped
<1>5. Typed(t)
  BY <1>2, <1>3, <1>4, OnAddMemberTyped
<1>6. Typed(mgr')
  BY <1>1, <1>3, <1>5, OnAddMemberTyped
<1>7. races \subseteq races' /\ ({p, q} \cap Answering # {} => "partied" \in races')
  BY <1>1, MarkFacts
<1>8. ASSUME races' \cap Derailing = {}, NEW R, NEW D, Inv(mgr, {}, R, D) PROVE Inv(mgr', {}, R, D)
  <2>1. p \notin Answering /\ q \notin Answering
    BY <1>7, <1>8 DEF Derailing
  <2>2. \A n \in Open(mgr) : p \notin Having(mgr, n) /\ q \notin Having(mgr, n)
    BY <2>1, AnsweringIs
  <2>3. /\ t \in Stores /\ Inv(t, {}, R, D)
        /\ t.leader[g] = q /\ g \notin t.lfg /\ t.state[g] = NONE
        /\ \A r \in Players : t.group[r] = IF r = q THEN g ELSE mgr.group[r]
        /\ t.proposal = mgr.proposal
    BY <1>1, <1>2, <1>3, <1>8, <2>2, OnAddMemberFounds
  <2> HIDE DEF t
  <2>4. CASE p = q
    BY <1>1, <1>3, <2>3, <2>4, OnAddMemberAgain
  <2>5. CASE p # q
    <3>1. t.group[p] = None /\ t.leader[g] # None
      BY <1>2, <2>3, <2>5, Disjoint
    <3>2. \A n \in Open(t) : p \notin Having(t, n)
      BY <2>2, <2>3, SameProposals
    <3> QED BY <1>1, <1>3, <2>3, <3>1, <3>2, OnAddMemberJoins
  <2> QED BY <2>4, <2>5
<1> QED BY <1>6, <1>7, <1>8, SoundNext

\* So does every further one.
LEMMA AcceptNextKeeps ==
    ASSUME Typed(mgr), Sound, NEW p \in Players, mgr.group[p] = None, NEW g \in Groups, AcceptNext(p, g),
           stuck' = stuck
    PROVE  Typed(mgr') /\ Sound'
<1> DEFINE busy == p \in Answering \/ mgr.state[g] \in {ROLECHECK, PROPOSAL}
<1>1. /\ mgr \in Stores /\ mgr' = OnAddMember(mgr, g, p) /\ mgr.leader[g] # None
      /\ Mark(IF busy THEN "partied" ELSE "befriended", busy \/ g \in mgr.lfg)
  BY DEF AcceptNext, Typed
<1>2. Typed(mgr')
  BY <1>1, OnAddMemberTyped
<1>3. /\ races \subseteq races' /\ (busy => "partied" \in races')
      /\ g \in mgr.lfg => "partied" \in races' \/ "befriended" \in races'
  <2>1. CASE busy
    BY <1>1, <2>1, MarkFacts
  <2>2. CASE ~busy
    <3>1. Mark("befriended", g \in mgr.lfg)
      BY <1>1, <2>2
    <3>2. races \subseteq races' /\ (g \in mgr.lfg => "befriended" \in races')
      BY <3>1 DEF Mark
    <3> QED BY <2>2, <3>2
  <2> QED BY <2>1, <2>2
<1>4. ASSUME races' \cap Derailing = {}, Inv(mgr, {}, races', stuck') PROVE Inv(mgr', {}, races', stuck')
  <2>1. ~busy /\ ("befriended" \notin races' => g \notin mgr.lfg)
    BY <1>3, <1>4 DEF Derailing
  <2>2. \A n \in Open(mgr) : p \notin Having(mgr, n)
    BY <2>1, AnsweringIs
  <2>3. mgr.state[g] \notin {ROLECHECK, PROPOSAL}
    BY <2>1
  <2> QED BY <1>1, <1>4, <2>1, <2>2, <2>3, OnAddMemberJoins
<1> QED BY <1>2, <1>3, <1>4, SoundNext

\* HandleGroupAcceptOpcode keeps the invariant.
LEMMA HandleGroupAcceptKeeps ==
    ASSUME Typed(mgr), Sound, NEW p \in Players, HandleGroupAccept(p)
    PROVE  Typed(mgr') /\ Sound'
<1>1. mgr.group[p] = None /\ stuck' = stuck /\ (AcceptFirst(p) \/ \E g \in Groups : AcceptNext(p, g))
  BY DEF HandleGroupAccept
<1> QED BY <1>1, AcceptFirstKeeps, AcceptNextKeeps

\* Logging out: who is alone leaves the dungeon finder.
Out(s, p) == IF s.group[p] # None THEN s ELSE LeaveAllLfgQueues(LeaveLfg(s, p), p, None)

\* The invitations without those of and for p
Uninviting(s, p) == [q \in Players |-> IF q = p \/ s.invite[q] = p THEN None ELSE s.invite[q]]
\* The stores after UninviteFromGroup
Uninvited(s, p) == [s EXCEPT !.invite = Uninviting(s, p)]

\* Logging out keeps the types.
LEMMA OutTyped ==
    ASSUME NEW s, Typed(s), NEW p \in Players
    PROVE  Typed(Out(s, p))
<1>1. p \in Ids
  BY Disjoint
<1>2. Typed(LeaveAllLfgQueues(LeaveLfg(s, p), p, None))
  BY <1>1, LeaveLfgTyped, LeaveAllTyped
<1> QED BY <1>2 DEF Out

\* UninviteFromGroup changes invitations only.
LEMMA UninvitedTyped ==
    ASSUME NEW s, Typed(s), NEW p \in Players, NEW R, NEW D
    PROVE  LET t == Uninvited(s, p) IN
           /\ Typed(t) /\ t \in Stores
           /\ SameParty(s, t) /\ SameState(s, t) /\ SameRest(s, t) /\ SameQueue(s, t)
           /\ Inv(s, {}, R, D) => Inv(t, {}, R, D)
<1>1. s \in Stores
  BY DEF Typed
<1>2. Uninviting(s, p) \in [Players -> Players \cup {None}]
  BY <1>1 DEF Stores, Uninviting
<1>3. Typed(Uninvited(s, p))
  BY <1>2, InviteTyped DEF Uninvited
<1> QED BY <1>1, <1>2, <1>3, InviteKeeps DEF Uninvited

\* LogoutPlayer, with OnLogout of the scripts, keeps the invariant.
LEMMA LogoutPlayerKeeps ==
    ASSUME Typed(mgr), Sound, NEW p \in Players, LogoutPlayer(p)
    PROVE  Typed(mgr') /\ Sound'
<1>1. /\ mgr \in Stores /\ races' = races /\ stuck' = stuck
      /\ \/ mgr' = Out(Uninvited(mgr, p), p)
         \/ /\ mgr.group[p] # None
            /\ \E inside \in BOOLEAN, list \in Lists(Followers(mgr.group[p]) \ {p}) :
                 mgr' = Out(Uninvited(RemoveMember(mgr, mgr.group[p], p, TRUE, inside, list), p), p)
  BY DEF LogoutPlayer, Typed, Out, Uninvited, Uninviting
<1>0. \A list \in Lists(Followers(mgr.group[p]) \ {p}) : list \in Places
  BY ListsArePlaces DEF Followers, Members
<1>2. CASE mgr' = Out(Uninvited(mgr, p), p)
  <2> DEFINE x == Uninvited(mgr, p)
  <2>1. Typed(x) /\ x \in Stores /\ (Inv(mgr, {}, races, stuck) => Inv(x, {}, races, stuck))
    BY UninvitedTyped
  <2> HIDE DEF x
  <2>2. mgr' = Out(x, p)
    BY <1>2 DEF x
  <2>3. Typed(mgr')
    BY <2>1, <2>2, OutTyped
  <2>4. Inv(x, {}, races, stuck) => Inv(mgr', {}, races, stuck)
    BY <2>1, <2>2, LeaveFinderAlone DEF Out
  <2> QED BY <1>1, <2>1, <2>3, <2>4, SoundNext
<1>3. ASSUME mgr.group[p] # None, NEW inside \in BOOLEAN, NEW list \in Places,
             mgr' = Out(Uninvited(RemoveMember(mgr, mgr.group[p], p, TRUE, inside, list), p), p)
      PROVE  Typed(mgr') /\ Sound'
  <2> DEFINE g == mgr.group[p]
             r == RemoveMember(mgr, g, p, TRUE, inside, list)
             x == Uninvited(r, p)
             t == LeaveLfg(x, p)
  <2>1. g \in Groups /\ g \in Ids /\ mgr.group[p] = g
    BY <1>1, <1>3, TypeFacts, Disjoint
  <2> HIDE DEF g
  <2>2. Typed(r)
    BY <2>1, RemoveMemberTyped
  <2>3. /\ Typed(x) /\ x \in Stores /\ (Inv(r, {}, races, stuck) => Inv(x, {}, races, stuck))
        /\ SameParty(r, x) /\ SameState(r, x) /\ SameRest(r, x) /\ SameQueue(r, x)
    <3> HIDE DEF r
    <3> QED BY <2>2, UninvitedTyped
  <2>4. mgr' = Out(x, p)
    BY <1>3 DEF g
  <2>5. Typed(mgr')
    <3> HIDE DEF x
    <3> QED BY <2>3, <2>4, OutTyped
  <2>6. ASSUME Inv(mgr, {}, races, stuck) PROVE Inv(mgr', {}, races, stuck)
    <3>1. CASE mgr.state[g] = PROPOSAL => Free(mgr, g)
      <4>1. r \in Stores /\ Inv(r, {}, races, stuck) /\ r.group[p] = None
        <5>1. PICK b \in BOOLEAN : b = TRUE
          OBVIOUS
        <5>2. r = RemoveMember(mgr, g, p, b, inside, list)
          BY <5>1
        <5> HIDE DEF r
        <5>3. mgr \in Stores /\ (mgr.state[g] = PROPOSAL /\ b => Free(mgr, g))
          BY <1>1, <3>1
        <5> QED BY <2>1, <2>6, <5>2, <5>3, RemoveMemberLeaves
      <4> HIDE DEF r
      <4>2. x \in Stores /\ Inv(x, {}, races, stuck) /\ x.group[p] = None
        BY <2>3, <4>1 DEF SameParty
      <4> HIDE DEF x
      <4> QED BY <2>4, <4>2, LeaveFinderAlone DEF Out
    <3>2. CASE mgr.state[g] = PROPOSAL /\ ~Free(mgr, g)
      <4>1. PICK n \in Open(mgr) : g \in Combined(mgr, n)
        BY <1>1, <2>1, <2>6, <3>2, InProposal
      <4>2. mgr.leader[g] # None /\ mgr.group[mgr.leader[g]] = g
        BY <1>1, <1>3, <2>1, <2>6 DEF Inv, Formed
      <4>3. LeftFinder(mgr, g, p, TRUE) = mgr
        BY <3>2 DEF LeftFinder
      <4>4. SameParty(mgr, mgr)
        BY DEF SameParty
      <4>5. r \in Stores /\ Parted(LeftFinder(mgr, g, p, TRUE), r, g, p)
        BY <1>1, <2>1, <4>2, <4>3, <4>4, RemoveMemberEffect
      <4>6. Parted(mgr, r, g, p)
        BY <4>3, <4>5
      <4> HIDE DEF r
      <4>7. /\ Left(mgr, x, g) /\ x.group[p] = None /\ SameQueue(mgr, x)
            /\ \A q \in Players : x.state[q] = mgr.state[q] /\ x.old[q] = mgr.old[q]
                                    /\ (q \in x.selected <=> q \in mgr.selected)
        <5> HIDE DEF x
        <5>1. /\ x.group = r.group /\ x.leader = r.leader /\ x.lfg = r.lfg /\ x.born = r.born
              /\ x.state = r.state /\ x.old = r.old /\ x.selected = r.selected
              /\ x.check = r.check /\ x.proposal = r.proposal
              /\ x.data = r.data /\ x.new = r.new /\ x.queue = r.queue
          BY <2>3 DEF SameParty, SameState, SameRest, SameQueue
        <5>2. SameQueue(mgr, x)
          BY <4>6, <5>1 DEF Parted, SameQueue
        <5>3. SameWaiting(mgr, x)
          BY <5>2, SameQueueWaiting
        <5>4. SameRest(mgr, x)
          BY <4>6, <5>1 DEF Parted, Left, SameRest
        <5>5. Left(mgr, x, g)
          BY <4>6, <5>1, <5>3, <5>4 DEF Parted, Left
        <5> QED BY <3>2, <4>6, <5>1, <5>2, <5>5 DEF Parted
      <4> HIDE DEF x
      <4>8. t \in Stores /\ Inv(t, {}, races, stuck) /\ t.group[p] = None /\ \A k \in Open(t) : p \notin Combined(t, k)
        BY <1>1, <2>1, <2>3, <2>6, <4>1, <4>7, LeaveAfterParting
      <4>9. mgr' = LeaveAllLfgQueues(t, p, None)
        BY <2>4, <4>7 DEF Out
      <4> HIDE DEF t
      <4>10. mgr' \in Stores /\ \E O : Moved(t, mgr', {}, O, {})
        BY <4>8, <4>9, LeaveAllOfPlayer
      <4> QED BY <4>8, <4>10, Moves
    <3> QED BY <3>1, <3>2
  <2> QED BY <1>1, <2>5, <2>6, SoundNext
<1> QED BY <1>0, <1>1, <1>2, <1>3

\* A premade that no proposal combines is asked for its roles, or queued.
Engaged(s, t, u, st, R) ==
    /\ SameParty(s, t) /\ t.proposal = s.proposal
    /\ \A i \in Ids : t.state[i] = IF Head(s, i) = u THEN st ELSE s.state[i]
    /\ \A i \in Ids : t.old[i] = s.old[i]
    /\ s.selected \subseteq t.selected
    /\ "befriended" \notin R => Crew(s, u) \subseteq t.selected
    /\ \A h \in Groups : h # u => t.check[h] = s.check[h]
    /\ \A i \in Ids : i # u => t.data[i] = s.data[i] /\ (i \in InQueue(t) <=> i \in InQueue(s))
    /\ \/ /\ st = ROLECHECK /\ u \in Groups /\ u \notin InQueue(t)
          /\ t.check[u] # None /\ t.check[u].asked = Members(s, u)
       \/ /\ st = QUEUED /\ u \in InQueue(t) /\ (u \in Groups => t.check[u] = None)
          /\ t.data[u] # None /\ t.data[u].players = Crew(s, u) /\ (t.data[u].lfg => u \in s.lfg)

\* A premade that is asked for its roles, or queued (the shape Engaged), keeps the
\* invariant.
LEMMA Engages ==
    ASSUME NEW s \in Stores, NEW t \in Stores, NEW R, NEW D, Inv(s, {}, R, D), NEW u \in Ids, Head(s, u) = u,
           u \in Groups => s.leader[u] # None, \A n \in Open(s) : u \notin Combined(s, n),
           NEW st, Engaged(s, t, u, st, R)
    PROVE  Inv(t, {}, R, D \ {u})
<1>1. /\ st \in {ROLECHECK, QUEUED}
      /\ \A i \in Ids : /\ Head(s, i) = u => t.state[i] = st
                        /\ Head(s, i) # u => t.state[i] = s.state[i]
                        /\ t.old[i] = s.old[i]
  BY DEF Engaged
<1>7. \A i : Head(t, i) = Head(s, i) /\ Crew(t, i) = Crew(s, i) /\ Members(t, i) = Members(s, i)
  BY SameHeads DEF SameParty, Engaged
<1>8. /\ Open(t) = Open(s) /\ t.proposal = s.proposal
      /\ \A n : Having(t, n) = Having(s, n) /\ Combined(t, n) = Combined(s, n)
  BY SameProposals DEF Engaged
<1>9. t.group = s.group /\ t.leader = s.leader /\ t.lfg = s.lfg /\ t.born = s.born
  BY DEF SameParty, Engaged
<1>10. \A h \in Groups : h # u => t.check[h] = s.check[h] /\ t.state[h] = s.state[h]
  BY <1>1, HeadFacts, Disjoint DEF Engaged
<1>11. Formed(t)
  <2>1. \A h \in Groups : t.old[h] = s.old[h]
    BY <1>1, Disjoint
  <2>2. \A h \in Groups : t.leader[h] = None => h # u
    BY <1>9
  <2> QED BY <1>9, <1>10, <2>1, <2>2 DEF Inv, Formed
<1>12. Resting(t)
  BY <1>1 DEF Inv, Resting, Busy
<1>13. \A p \in Players : /\ Head(s, p) = u => t.state[p] = st /\ t.state[Head(s, p)] = st
                          /\ Head(s, p) # u => t.state[p] = s.state[p] /\ t.state[Head(s, p)] = s.state[Head(s, p)]
  BY <1>1, HeadFacts, Disjoint
<1>14. Agreeing(t)
  BY <1>7, <1>13 DEF Inv, Agreeing, Busy
<1>15. Checking(t)
  <2>1. ASSUME NEW p \in Players, t.state[p] = ROLECHECK PROVE t.group[p] # None
    <3>1. CASE Head(s, p) = u
      <4>1. st = ROLECHECK
        BY <1>13, <2>1, <3>1
      <4>2. u \in Groups
        BY <4>1 DEF Engaged
      <4> QED BY <1>9, <3>1, <4>2, HeadFacts, Disjoint
    <3>2. CASE Head(s, p) # u
      BY <1>9, <1>13, <2>1, <3>2 DEF Inv, Checking
    <3> QED BY <3>1, <3>2
  <2>2. ASSUME NEW h \in Groups PROVE t.state[h] = ROLECHECK <=> t.check[h] # None
    <3>1. CASE h = u
      BY <1>1, <3>1 DEF Engaged
    <3>2. CASE h # u
      BY <1>10, <3>2 DEF Inv, Checking
    <3> QED BY <3>1, <3>2
  <2>3. ASSUME NEW h \in Groups, t.check[h] # None PROVE t.check[h].asked = Members(s, h)
    <3>1. CASE h = u
      BY <2>3, <3>1 DEF Engaged
    <3>2. CASE h # u
      BY <1>10, <2>3, <3>2 DEF Inv, Checking
    <3> QED BY <3>1, <3>2
  <2> QED BY <1>7, <2>1, <2>2, <2>3 DEF Checking
<1>16. \A i \in Ids : i # u /\ Placed(s, i) => Placed(t, i)
  BY <1>7, <1>9 DEF Placed, Engaged
<1>17. \A i \in Ids : Head(s, i) = i /\ i # u => t.state[i] = s.state[i]
  BY <1>1
<1>18. Queueing(t)
  <2> SUFFICES ASSUME NEW i \in InQueue(t) PROVE t.state[i] = QUEUED /\ Placed(t, i)
    BY DEF Queueing
  <2>0. i \in Ids
    BY TypeFacts
  <2>1. CASE i = u
    <3>1. st = QUEUED /\ t.data[u] # None /\ t.data[u].players = Crew(s, u) /\ (t.data[u].lfg => u \in s.lfg)
      BY <2>1 DEF Engaged
    <3> QED BY <1>1, <1>7, <1>9, <2>1, <3>1 DEF Placed
  <2>2. CASE i # u
    <3>1. i \in InQueue(s)
      BY <2>0, <2>2 DEF Engaged
    <3>2. s.state[i] = QUEUED /\ Placed(s, i)
      BY <3>1 DEF Inv, Queueing
    <3>3. Head(s, i) = i
      BY <3>2 DEF Placed
    <3> QED BY <1>16, <1>17, <2>0, <2>2, <3>2, <3>3
  <2> QED BY <2>1, <2>2
<1>19. Proposing(t, {})
  <2> SUFFICES ASSUME NEW n \in Open(s)
               PROVE  /\ \A i \in Combined(s, n) :
                           /\ t.state[i] = PROPOSAL
                           /\ Placed(t, i) /\ i \notin InQueue(t)
                           /\ \A p \in Crew(s, i) : t.state[p] = t.state[i] /\ p \in Having(s, n)
                           /\ \A m \in Open(s) : i \in Combined(s, m) => m = n
                      /\ \A p \in Having(s, n) : Head(s, p) \in Combined(s, n)
                                                   /\ s.proposal[n].of[p] = s.group[p]
                      /\ s.proposal[n].leader \in Having(s, n)
                      /\ s.proposal[n].group # None => s.proposal[n].group \in Combined(s, n) \cap s.lfg
    BY <1>7, <1>8, <1>9 DEF Proposing
  <2>1. \A i \in Combined(s, n) : i \in Ids /\ i # u /\ Head(s, i) = i
    BY TypeFacts DEF Inv, Proposing, Placed
  <2>2. \A i \in Combined(s, n) : \A p \in Crew(s, i) : p \in Players /\ Head(s, p) = i
    BY DEF Crew
  <2>3. \A i \in Combined(s, n) : /\ s.state[i] = PROPOSAL /\ Placed(s, i) /\ i \notin InQueue(s)
                                  /\ \A p \in Crew(s, i) : s.state[p] = s.state[i] /\ p \in Having(s, n)
                                  /\ \A m \in Open(s) : i \in Combined(s, m) => m = n
    BY DEF Inv, Proposing
  <2>4. \A i \in Combined(s, n) : t.state[i] = PROPOSAL /\ Placed(t, i)
    BY <1>16, <1>17, <2>1, <2>3
  <2>5. \A i \in Combined(s, n) : \A p \in Crew(s, i) : t.state[p] = s.state[p]
    BY <1>13, <2>1, <2>2
  <2>6. \A i \in Combined(s, n) : i \notin InQueue(t)
    BY <2>1, <2>3 DEF Engaged
  <2> QED BY <2>3, <2>4, <2>5, <2>6 DEF Inv, Proposing
<1>20. Answered(t)
  BY <1>1, <1>8, <1>13 DEF Inv, Answered
<1>21. Searched(t, {}, D \ {u})
  <2> SUFFICES ASSUME NEW i \in Ids, t.state[i] = QUEUED, Head(s, i) = i
               PROVE  i \in InQueue(t) \/ i \in D \ {u}
    BY <1>7 DEF Searched
  <2>1. CASE i = u
    BY <1>1, <2>1 DEF Engaged
  <2>2. CASE i # u
    <3>1. i \in InQueue(s) \/ i \in D
      BY <1>17, <2>2 DEF Inv, Searched
    <3> QED BY <2>2, <3>1 DEF Engaged
  <2> QED BY <2>1, <2>2
<1>22. "absent" \notin R => Asked(t)
  <2>1. \A h \in Groups : t.state[h] = PROPOSAL => h # u /\ s.state[h] = PROPOSAL
    BY <1>1, <1>10
  <2> QED BY <1>8, <2>1 DEF Inv, Asked
<1>23. ASSUME "befriended" \notin R PROVE Chosen(t)
  <2>0. Chosen(s) /\ s.selected \subseteq t.selected /\ Crew(s, u) \subseteq t.selected
    BY <1>23 DEF Inv, Engaged
  <2>1. ASSUME NEW p \in Players,
               \/ t.state[Head(s, p)] \in {ROLECHECK, QUEUED}
               \/ \E n \in Open(s) : p \in Having(s, n)
               \/ t.old[p] = DUNGEON
        PROVE  p \in t.selected
    <3>1. CASE Head(s, p) = u
      BY <2>0, <3>1 DEF Crew
    <3>2. CASE Head(s, p) # u
      <4>1. t.state[Head(s, p)] = s.state[Head(s, p)] /\ t.old[p] = s.old[p]
        BY <1>1, <1>13, <3>2, Disjoint
      <4>2. p \in s.selected
        BY <2>0, <2>1, <4>1 DEF Chosen
      <4> QED BY <2>0, <4>2
    <3> QED BY <3>1, <3>2
  <2>2. ASSUME NEW p \in Players, s.group[p] # None, t.old[s.group[p]] = DUNGEON PROVE t.old[p] = DUNGEON
    <3>1. s.group[p] \in Groups /\ p \in Ids /\ s.group[p] \in Ids
      BY <2>2, HeadFacts, Disjoint
    <3> QED BY <1>1, <2>0, <2>2, <3>1 DEF Chosen
  <2> QED BY <1>7, <1>8, <1>9, <2>1, <2>2 DEF Chosen
<1> QED BY <1>11, <1>12, <1>14, <1>15, <1>18, <1>19, <1>20, <1>21, <1>22, <1>23 DEF Inv

\* What UpdateRoleCheck makes of the answers of g, and the enqueued group
Noted(s, g, c) == [s EXCEPT !.check = [@ EXCEPT ![g] = c]]
\* A group that has passed its role check is queued.
Enqueued(t, g, P, d) ==
    [Added(SetState(t, P \cup {g}, QUEUED), g, d) EXCEPT !.check = [@ EXCEPT ![g] = None]]

\* A role that is noted changes the role check and nothing else.
LEMMA NotedEffect ==
    ASSUME NEW s \in Stores, NEW g \in Groups, NEW c \in RoleChecks \cup {None}
    PROVE  LET t == Noted(s, g, c) IN
           /\ t \in Stores /\ SameParty(s, t) /\ SameQueue(s, t) /\ SameState(s, t)
           /\ t.proposal = s.proposal
           /\ \A h \in Groups : t.check[h] = IF h = g THEN c ELSE s.check[h]
  BY DEF Stores, Noted, SameParty, SameQueue, SameState

\* t is s with the group g QUEUED, with all of P, and its role check closed.
EnqueuedAs(s, t, g, P, d) ==
    /\ SameParty(s, t) /\ t.proposal = s.proposal
    /\ \A i \in Ids : t.state[i] = IF i \in Stored(s, P \cup {g}) THEN QUEUED ELSE s.state[i]
    /\ \A i \in Ids : t.old[i] = s.old[i]
    /\ t.selected = s.selected
    /\ \A h \in Groups : t.check[h] = IF h = g THEN None ELSE s.check[h]
    /\ \A i \in Ids : t.data[i] = IF i = g THEN d ELSE s.data[i]
    /\ InQueue(t) = InQueue(s) \cup {g}

\* That is what the last role does.
LEMMA EnqueuedEffect ==
    ASSUME NEW s, Typed(s), NEW g \in Groups, NEW P \in SUBSET Players, NEW d \in QueueData
    PROVE  /\ Typed(Enqueued(s, g, P, d)) /\ Enqueued(s, g, P, d) \in Stores
           /\ EnqueuedAs(s, Enqueued(s, g, P, d), g, P, d)
<1> DEFINE a == SetState(s, P \cup {g}, QUEUED)
           b == Added(a, g, d)
           t == Noted(b, g, None)
<1>0. s \in Stores /\ g \in Ids /\ g \notin Players
  BY Disjoint DEF Typed
<1>1. Typed(a)
  BY SetStateTyped DEF States
<1>2. /\ SameParty(s, a) /\ SameQueue(s, a) /\ SameRest(s, a)
      /\ \A i \in Ids : a.state[i] = IF i \in Stored(s, P \cup {g}) THEN QUEUED ELSE s.state[i]
      /\ \A i \in Ids : a.old[i] = s.old[i]
      /\ a.selected = s.selected
  BY <1>0, SetStateEffect DEF States, Busy
<1> HIDE DEF a
<1>3. a \in Stores
  BY <1>1 DEF Typed
<1>4. Typed(b)
  BY <1>0, <1>1, AddedTyped
<1>5. /\ b \in Stores /\ SameParty(a, b) /\ SameState(a, b) /\ SameRest(a, b)
      /\ \A i \in Ids : b.data[i] = IF i = g THEN d ELSE a.data[i]
      /\ b.new = a.new \cup {g} /\ b.queue = a.queue \ {g}
  BY <1>0, <1>3, AddedEffect
<1> HIDE DEF b
<1>6. /\ t \in Stores /\ SameParty(b, t) /\ SameQueue(b, t) /\ SameState(b, t)
      /\ t.proposal = b.proposal
      /\ \A h \in Groups : t.check[h] = IF h = g THEN None ELSE b.check[h]
  BY <1>5, NotedEffect
<1>7. t = Enqueued(s, g, P, d)
  BY DEF Enqueued, Noted, a, b
<1> HIDE DEF t
<1>8. Typed(t)
  BY <1>4, <1>6, SameQueueTyped
<1>9. SameParty(s, t)
  BY <1>2, <1>5, <1>6, PartyKept
<1>14. InQueue(b) = InQueue(a) \cup {g}
  BY <1>5 DEF InQueue
<1>10. /\ InQueue(t) = InQueue(s) \cup {g}
       /\ \A i \in Ids : t.data[i] = IF i = g THEN d ELSE s.data[i]
  BY <1>2, <1>5, <1>6, <1>14 DEF SameQueue, InQueue
<1>11. t.proposal = s.proposal /\ \A h \in Groups : t.check[h] = IF h = g THEN None ELSE s.check[h]
  BY <1>2, <1>5, <1>6 DEF SameRest
<1>12. t.state = a.state /\ t.old = a.old /\ t.selected = a.selected
  BY <1>5, <1>6 DEF SameState
<1>13. Typed(Enqueued(s, g, P, d)) /\ Enqueued(s, g, P, d) \in Stores
  BY <1>6, <1>7, <1>8
<1>15. EnqueuedAs(s, t, g, P, d)
  BY <1>2, <1>9, <1>10, <1>11, <1>12 DEF EnqueuedAs
<1> QED BY <1>7, <1>13, <1>15

\* The role check with the role of p
Asks(s, g, p) == [asked |-> s.check[g].asked \cup {p}, chosen |-> s.check[g].chosen \cup {p}]

\* UpdateRoleCheck waits for more roles, ends the check, or queues the group.
LEMMA UpdateRoleCheckIs ==
    ASSUME NEW s, NEW g, NEW p, NEW fit \in BOOLEAN, s.check[g] # None
    PROVE  LET c == Asks(s, g, p)
               t == Noted(s, g, c)
               r == UpdateRoleCheck(s, g, p, fit)
           IN \/ r = t \/ r = EndRoleChecks(t, {g})
              \/ r = Enqueued(t, g, c.asked, Datum(c.asked, s.old[g] # NONE))
  BY DEF UpdateRoleCheck, Asks, Noted, Enqueued, Added, AddNewToQueue, Datum

\* The role check with one more role has its type.
LEMMA AsksFacts ==
    ASSUME NEW s \in Stores, NEW g \in Groups, NEW p \in Players, s.check[g] # None
    PROVE  /\ Asks(s, g, p) \in RoleChecks /\ Asks(s, g, p).asked \in SUBSET Players
           /\ Asks(s, g, p).asked = s.check[g].asked \cup {p} /\ Asks(s, g, p) # None
<1>1. s.check[g] \in RoleChecks
  BY TypeFacts
<1> QED BY <1>1, EntryAssumption DEF RoleChecks, Asks

\* UpdateRoleCheck keeps the types.
LEMMA UpdateRoleCheckTyped ==
    ASSUME NEW s, Typed(s), NEW g \in Groups, NEW p \in Players, NEW fit \in BOOLEAN
    PROVE  Typed(UpdateRoleCheck(s, g, p, fit))
<1>1. CASE s.check[g] = None
  BY <1>1 DEF UpdateRoleCheck
<1>2. CASE s.check[g] # None
  <2> DEFINE c == Asks(s, g, p)
             t == Noted(s, g, c)
             d == Datum(c.asked, s.old[g] # NONE)
  <2>1. s \in Stores
    BY DEF Typed
  <2>2. c \in RoleChecks /\ c.asked \in SUBSET Players
    BY <1>2, <2>1, AsksFacts
  <2> HIDE DEF c
  <2>3. t \in Stores /\ SameQueue(s, t)
    BY <2>1, <2>2, NotedEffect
  <2> HIDE DEF t
  <2>4. Typed(t)
    BY <2>3, SameQueueTyped
  <2>5. d \in QueueData
    BY <2>2, DatumFacts
  <2> HIDE DEF d
  <2>6. Typed(EndRoleChecks(t, {g})) /\ Typed(Enqueued(t, g, c.asked, d))
    BY <2>2, <2>4, <2>5, EndRoleChecksTyped, EnqueuedEffect
  <2>7. LET r == UpdateRoleCheck(s, g, p, fit) IN
        r = t \/ r = EndRoleChecks(t, {g}) \/ r = Enqueued(t, g, c.asked, d)
    BY <1>2, UpdateRoleCheckIs DEF d, t, c
  <2> QED BY <2>4, <2>6, <2>7
<1> QED BY <1>1, <1>2

\* UpdateRoleCheck of a member keeps the invariant.
LEMMA UpdateRoleCheckKeeps ==
    ASSUME NEW s, Typed(s), NEW R, NEW D, Inv(s, {}, R, D), NEW g \in Groups, NEW p \in Players, s.group[p] = g,
           NEW fit \in BOOLEAN
    PROVE  Inv(UpdateRoleCheck(s, g, p, fit), {}, R, D)
<1>1. CASE s.check[g] = None
  BY <1>1 DEF UpdateRoleCheck
<1>2. CASE s.check[g] # None
  <2> DEFINE c == Asks(s, g, p)
             t == Noted(s, g, c)
             d == Datum(c.asked, s.old[g] # NONE)
             e == Enqueued(t, g, c.asked, d)
  <2>1. s \in Stores /\ g \in Ids /\ g \notin Players
    BY Disjoint DEF Typed
  <2>2. /\ s.state[g] = ROLECHECK /\ s.check[g].asked = Members(s, g) /\ p \in Members(s, g)
        /\ s.leader[g] # None /\ \A n \in Open(s) : g \notin Combined(s, n)
    BY <1>2, Disjoint DEF Inv, Checking, Members, Formed, Proposing
  <2>3. Head(s, g) = g /\ Crew(s, g) = Members(s, g) /\ g \notin InQueue(s)
    BY <2>1, <2>2, HeadFacts DEF Inv, Queueing
  <2>4. c \in RoleChecks /\ c.asked = Members(s, g) /\ c # None /\ Members(s, g) \in SUBSET Players
    BY <1>2, <2>1, <2>2, AsksFacts DEF Members
  <2> HIDE DEF c
  <2>5. /\ t \in Stores /\ SameParty(s, t) /\ SameQueue(s, t) /\ SameState(s, t)
        /\ t.proposal = s.proposal
        /\ \A h \in Groups : t.check[h] = IF h = g THEN c ELSE s.check[h]
    BY <2>1, <2>4, NotedEffect
  <2>6. UpdateRoleCheck(s, g, p, fit) \in {t, EndRoleChecks(t, {g}), e}
    BY <1>2, UpdateRoleCheckIs DEF c
  <2> HIDE DEF t
  <2>7. Typed(t)
    BY <2>5, SameQueueTyped
  <2>8. "befriended" \notin R => Members(s, g) \subseteq s.selected
    <3> SUFFICES ASSUME "befriended" \notin R, NEW q \in Members(s, g) PROVE q \in s.selected
      OBVIOUS
    <3>1. q \in Players /\ Head(s, q) = g
      BY <2>1, HeadFacts, Disjoint DEF Members
    <3> QED BY <2>2, <3>1 DEF Inv, Chosen
  <2>9. \A i \in Ids : Head(s, i) = g => s.state[i] = ROLECHECK
    <3> SUFFICES ASSUME NEW i \in Ids, Head(s, i) = g PROVE s.state[i] = ROLECHECK
      OBVIOUS
    <3>1. CASE i \in Groups
      BY <2>1, <2>2, <3>1, HeadFacts
    <3>2. CASE i \in Players
      BY <2>2, <3>2 DEF Inv, Agreeing
    <3> QED BY <3>1, <3>2, Disjoint
  <2>10. Engaged(s, t, g, ROLECHECK, R)
    <3>1. /\ t.state = s.state /\ t.old = s.old /\ t.selected = s.selected /\ t.data = s.data
          /\ InQueue(t) = InQueue(s)
      BY <2>5 DEF SameState, SameQueue, InQueue
    <3>2. \A i \in Ids : t.state[i] = IF Head(s, i) = g THEN ROLECHECK ELSE s.state[i]
      BY <2>9, <3>1
    <3>3. t.check[g] # None /\ t.check[g].asked = Members(s, g) /\ \A h \in Groups : h # g => t.check[h] = s.check[h]
      BY <2>4, <2>5
    <3>4. "befriended" \notin R => Crew(s, g) \subseteq t.selected
      BY <2>3, <2>8, <3>1
    <3> QED BY <2>3, <2>5, <3>1, <3>2, <3>3, <3>4 DEF Engaged
  <2>11. Inv(t, {}, R, D)
    <3>1. Inv(t, {}, R, D \ {g})
      BY <2>1, <2>2, <2>3, <2>5, <2>10, Engages
    <3> QED BY <3>1, Excused
  <2>12. Inv(EndRoleChecks(t, {g}), {}, R, D)
    BY <2>7, <2>11, EndRoleChecksKeeps
  <2>13. Inv(e, {}, R, D)
    <3>1. c.asked \in SUBSET Players /\ d \in QueueData /\ d.players = c.asked /\ d.lfg = (s.old[g] # NONE)
      BY <2>4, DatumFacts
    <3>2. d.lfg => g \in s.lfg
      BY <3>1 DEF Inv, Formed
    <3> HIDE DEF d
    <3> DEFINE P == c.asked
    <3>11. P \in SUBSET Players /\ d \in QueueData
      BY <3>1
    <3> HIDE DEF P
    <3>3. /\ e \in Stores /\ SameParty(t, e) /\ e.proposal = t.proposal
          /\ \A i \in Ids : e.state[i] = IF i \in Stored(t, P \cup {g}) THEN QUEUED ELSE t.state[i]
          /\ \A i \in Ids : e.old[i] = t.old[i]
          /\ e.selected = t.selected
          /\ \A h \in Groups : e.check[h] = IF h = g THEN None ELSE t.check[h]
          /\ \A i \in Ids : e.data[i] = IF i = g THEN d ELSE t.data[i]
          /\ InQueue(e) = InQueue(t) \cup {g}
      <4>1. e = Enqueued(t, g, P, d)
        BY DEF P
      <4> HIDE DEF e
      <4>2. e \in Stores /\ EnqueuedAs(t, e, g, P, d)
        BY <2>7, <3>11, <4>1, EnqueuedEffect
      <4> QED BY <4>2 DEF EnqueuedAs
    <3> HIDE DEF e
    <3>4. t.leader = s.leader /\ t.group = s.group /\ t.lfg = s.lfg /\ t.selected = s.selected
      BY <2>5 DEF SameParty, SameState
    <3>5. /\ \A i : Head(t, i) = Head(s, i)
          /\ Crew(t, g) = Members(s, g) /\ Open(t) = Open(s) /\ \A n : Combined(t, n) = Combined(s, n)
      BY <2>3, <2>5, <3>4, SameHeads, SameProposals
    <3>6. \A i \in Ids : i \in Stored(t, P \cup {g}) <=> Head(t, i) = g
      <4>1. \A i \in Ids : Head(s, i) = g <=> i \in Members(s, g) \cup {g}
        BY <2>1, Disjoint DEF Head, Members
      <4>2. \A i \in Ids : i \in Stored(t, Members(s, g) \cup {g}) <=> i \in Members(s, g) \cup {g}
        BY <2>2, <3>4, Disjoint DEF Stored, Members
      <4> QED BY <2>4, <3>5, <4>1, <4>2 DEF P
    <3>7. e.data[g] # None /\ e.data[g].players = Crew(t, g) /\ (e.data[g].lfg => g \in t.lfg)
      <4>1. d # None
        BY <3>1, EntryAssumption
      <4>2. e.data[g] = d
        BY <2>1, <3>3
      <4> QED BY <2>4, <3>1, <3>2, <3>4, <3>5, <4>1, <4>2
    <3>8. "befriended" \notin R => Crew(t, g) \subseteq e.selected
      BY <2>8, <3>3, <3>4, <3>5
    <3>9. Engaged(t, e, g, QUEUED, R)
      <4>1. \A i \in Ids : e.state[i] = IF Head(t, i) = g THEN QUEUED ELSE t.state[i]
        BY <3>3, <3>6
      <4>2. \A i \in Ids : i # g => e.data[i] = t.data[i] /\ (i \in InQueue(e) <=> i \in InQueue(t))
        BY <3>3
      <4>3. g \in InQueue(e) /\ e.check[g] = None /\ \A h \in Groups : h # g => e.check[h] = t.check[h]
        BY <3>3
      <4> QED BY <3>3, <3>7, <3>8, <4>1, <4>2, <4>3 DEF Engaged
    <3>10. Inv(e, {}, R, D \ {g})
      BY <2>1, <2>2, <2>3, <2>5, <2>11, <3>3, <3>4, <3>5, <3>9, Engages
    <3> QED BY <3>10, Excused
  <2> QED BY <2>6, <2>11, <2>12, <2>13
<1> QED BY <1>1, <1>2

\* HandleLfgSetRolesOpcode keeps the invariant.
LEMMA HandleLfgSetRolesKeeps ==
    ASSUME Typed(mgr), Sound, NEW p \in Players, HandleLfgSetRoles(p)
    PROVE  Typed(mgr') /\ Sound'
<1> DEFINE g == mgr.group[p]
<1>1. /\ mgr \in Stores /\ races' = races /\ stuck' = stuck /\ g # None
      /\ mgr' = EndRoleChecks(mgr, {g}) \/ \E fit \in BOOLEAN : mgr' = UpdateRoleCheck(mgr, g, p, fit)
  BY DEF HandleLfgSetRoles, Typed
<1>2. g \in Groups /\ mgr.group[p] = g
  BY <1>1, TypeFacts
<1> HIDE DEF g
<1>3. CASE mgr' = EndRoleChecks(mgr, {g})
  BY <1>1, <1>2, <1>3, EndRoleChecksKeeps, SoundNext
<1>4. ASSUME NEW fit \in BOOLEAN, mgr' = UpdateRoleCheck(mgr, g, p, fit) PROVE Typed(mgr') /\ Sound'
  <2>1. Typed(mgr')
    BY <1>2, <1>4, UpdateRoleCheckTyped
  <2>2. Inv(mgr, {}, races, stuck) => Inv(mgr', {}, races, stuck)
    BY <1>2, <1>4, UpdateRoleCheckKeeps
  <2> QED BY <1>1, <2>1, <2>2, SoundNext
<1> QED BY <1>1, <1>3, <1>4

\* Before a request is answered: out of the queue, and the dungeons are selected.
Dequeued(s, i) == IF s.state[i] = QUEUED THEN RemoveFromSystem(s, {i}) ELSE s
\* JoinLfg: out of the queue, and the dungeons are selected.
Choosing(s, i, P) == [Dequeued(s, i) EXCEPT !.selected = @ \cup P]

\* t is s with the selection of P and the premade i out of the queue.
ChosenAs(s, t, i, P) ==
    /\ SameParty(s, t) /\ SameRest(s, t) /\ t.state = s.state /\ t.old = s.old
    /\ t.selected = s.selected \cup P
    /\ \A j \in Ids : j # i => t.data[j] = s.data[j]
    /\ InQueue(t) = IF s.state[i] = QUEUED THEN InQueue(s) \ {i} ELSE InQueue(s)

\* Out of the queue keeps the types.
LEMMA DequeuedTyped ==
    ASSUME NEW s, Typed(s), NEW i \in Ids
    PROVE  Typed(Dequeued(s, i))
  BY RemoveFromSystemTyped DEF Dequeued

\* A selection changes nothing else.
LEMMA SelectEffect ==
    ASSUME NEW s \in Stores, NEW P \in SUBSET Players
    PROVE  LET t == [s EXCEPT !.selected = @ \cup P] IN
           /\ t \in Stores /\ SameParty(s, t) /\ SameRest(s, t) /\ SameQueue(s, t)
           /\ t.state = s.state /\ t.old = s.old /\ t.selected = s.selected \cup P
  BY DEF Stores, SameParty, SameRest, SameQueue

\* Choosing does what ChosenAs says.
LEMMA ChoosingEffect ==
    ASSUME NEW s, Typed(s), NEW i \in Ids, NEW P \in SUBSET Players
    PROVE  Typed(Choosing(s, i, P)) /\ Choosing(s, i, P) \in Stores /\ ChosenAs(s, Choosing(s, i, P), i, P)
<1> DEFINE a == Dequeued(s, i)
           t == Choosing(s, i, P)
<1>1. s \in Stores
  BY DEF Typed
<1>2. Typed(a)
  BY DequeuedTyped
<1>3. /\ a \in Stores /\ SameParty(s, a) /\ SameState(s, a) /\ SameRest(s, a)
      /\ \A j \in Ids : j # i => a.data[j] = s.data[j]
      /\ InQueue(a) = IF s.state[i] = QUEUED THEN InQueue(s) \ {i} ELSE InQueue(s)
  <2>1. CASE s.state[i] = QUEUED
    <3>1. a = RemoveFromSystem(s, {i})
      BY <2>1 DEF Dequeued
    <3> HIDE DEF a
    <3>2. /\ a \in Stores /\ SameParty(s, a) /\ SameState(s, a) /\ SameRest(s, a)
          /\ \A j \in Ids : j # i => a.data[j] = s.data[j]
          /\ a.new = s.new \ {i} /\ a.queue = s.queue \ {i}
      BY <1>1, <3>1, RemoveFromSystemEffect
    <3> QED BY <2>1, <3>2 DEF InQueue
  <2>2. CASE s.state[i] # QUEUED
    BY <1>1, <2>2 DEF Dequeued, SameParty, SameState, SameRest
  <2> QED BY <2>1, <2>2
<1> HIDE DEF a
<1>4. t = [a EXCEPT !.selected = @ \cup P]
  BY DEF Choosing, a
<1> HIDE DEF t
<1>5. /\ t \in Stores /\ SameParty(a, t) /\ SameRest(a, t) /\ SameQueue(a, t)
      /\ t.state = a.state /\ t.old = a.old /\ t.selected = a.selected \cup P
  BY <1>3, <1>4, SelectEffect
<1>6. Typed(t)
  BY <1>2, <1>5, SameQueueTyped
<1>7. ChosenAs(s, t, i, P)
  <2>1. t.state = s.state /\ t.old = s.old /\ t.selected = s.selected \cup P
    BY <1>3, <1>5 DEF SameState
  <2>2. SameParty(s, t)
    BY <1>3, <1>5, PartyKept
  <2>3. SameRest(s, t)
    BY <1>3, <1>5 DEF SameRest
  <2>4. /\ \A j \in Ids : j # i => t.data[j] = s.data[j]
        /\ InQueue(t) = IF s.state[i] = QUEUED THEN InQueue(s) \ {i} ELSE InQueue(s)
    BY <1>3, <1>5 DEF SameQueue, InQueue
  <2> QED BY <2>1, <2>2, <2>3, <2>4 DEF ChosenAs
<1> QED BY <1>5, <1>6, <1>7 DEF t

\* A role check for the members of g
Opened(s, g, P, c) == Noted(SetState(Choosing(s, g, P), {g} \cup Members(s, g), ROLECHECK), g, c)

\* A role check that is opened keeps the types.
LEMMA OpenedTyped ==
    ASSUME NEW s, Typed(s), NEW g \in Groups, NEW P \in SUBSET Players, NEW c \in RoleChecks
    PROVE  Typed(Opened(s, g, P, c)) /\ SameParty(s, Opened(s, g, P, c))
<1> DEFINE a == Choosing(s, g, P)
           b == SetState(a, {g} \cup Members(s, g), ROLECHECK)
           t == Noted(b, g, c)
<1>1. Typed(a) /\ SameParty(s, a)
  BY ChoosingEffect, Disjoint DEF ChosenAs
<1> HIDE DEF a
<1>2. Typed(b) /\ SameParty(a, b)
  BY <1>1, SetStateTyped DEF States
<1> HIDE DEF b
<1>3. t \in Stores /\ SameQueue(b, t) /\ SameParty(b, t)
  BY <1>2, NotedEffect DEF Typed
<1> HIDE DEF t
<1>4. Typed(t) /\ SameParty(s, t)
  BY <1>1, <1>2, <1>3, SameQueueTyped, PartyKept
<1> QED BY <1>4 DEF Opened, a, b, t

\* JoinLfg of a group opens a role check that asks exactly its members.
LEMMA OpenedKeeps ==
    ASSUME NEW s, Typed(s), NEW R, NEW D, Inv(s, {}, R, D), NEW g \in Groups, s.leader[g] # None,
           \A n \in Open(s) : g \notin Combined(s, n),
           NEW P \in SUBSET Players, "befriended" \notin R => Members(s, g) \subseteq s.selected \cup P,
           NEW c \in RoleChecks, c.asked = Members(s, g)
    PROVE  Inv(Opened(s, g, P, c), {}, R, D \ {g})
<1> DEFINE M == {g} \cup Members(s, g)
           a == Choosing(s, g, P)
           b == SetState(a, M, ROLECHECK)
           t == Noted(b, g, c)
<1>1. s \in Stores /\ g \in Ids /\ g \notin Players /\ c # None
  BY Disjoint, EntryAssumption DEF Typed
<1>2. Head(s, g) = g /\ Crew(s, g) = Members(s, g)
  BY <1>1, HeadFacts
<1>3. a \in Stores /\ ChosenAs(s, a, g, P)
  BY <1>1, ChoosingEffect
<1> HIDE DEF a
<1>4. /\ b \in Stores /\ SameParty(a, b) /\ SameQueue(a, b) /\ SameRest(a, b)
      /\ \A i \in Ids : b.state[i] = IF i \in Stored(a, M) THEN ROLECHECK ELSE a.state[i]
      /\ \A i \in Ids : b.old[i] = a.old[i]
      /\ b.selected = a.selected
  <2> HIDE DEF M
  <2> QED BY <1>3, SetStateEffect DEF States, Busy
<1> HIDE DEF b
<1>5. /\ t \in Stores /\ SameParty(b, t) /\ SameQueue(b, t) /\ SameState(b, t)
      /\ t.proposal = b.proposal
      /\ \A h \in Groups : t.check[h] = IF h = g THEN c ELSE b.check[h]
  BY <1>4, NotedEffect
<1> HIDE DEF t
<1>6. SameParty(s, a) /\ SameRest(s, a)
  BY <1>3 DEF ChosenAs
<1>7. SameParty(s, t)
  BY <1>4, <1>5, <1>6, PartyKept
<1>8. t.proposal = s.proposal /\ \A h \in Groups : t.check[h] = IF h = g THEN c ELSE s.check[h]
  BY <1>4, <1>5, <1>6 DEF SameRest
<1>9. t.selected = s.selected \cup P /\ \A i \in Ids : t.old[i] = s.old[i]
  BY <1>3, <1>4, <1>5 DEF ChosenAs, SameState
<1>10. \A i \in Ids : i \in Stored(a, M) <=> Head(s, i) = g
  <2>1. \A i \in Ids : Head(s, i) = g <=> i \in M
    BY <1>1, Disjoint DEF Head, Members
  <2>2. \A i \in Ids : i \in Stored(a, M) <=> i \in M
    BY <1>6, Disjoint DEF Stored, Members, SameParty
  <2> QED BY <2>1, <2>2
<1>11. \A i \in Ids : t.state[i] = IF Head(s, i) = g THEN ROLECHECK ELSE s.state[i]
  <2> HIDE DEF M
  <2> QED BY <1>3, <1>4, <1>5, <1>10 DEF ChosenAs, SameState
<1>12. /\ \A i \in Ids : i # g => t.data[i] = s.data[i]
       /\ InQueue(t) = IF s.state[g] = QUEUED THEN InQueue(s) \ {g} ELSE InQueue(s)
  BY <1>3, <1>4, <1>5 DEF ChosenAs, SameQueue, InQueue
<1>13. g \notin InQueue(t)
  BY <1>12 DEF Inv, Queueing
<1>14. Engaged(s, t, g, ROLECHECK, R)
  <2>1. \A i \in Ids : i # g => t.data[i] = s.data[i] /\ (i \in InQueue(t) <=> i \in InQueue(s))
    BY <1>12
  <2>2. "befriended" \notin R => Crew(s, g) \subseteq t.selected
    BY <1>2, <1>9
  <2>3. t.check[g] # None /\ t.check[g].asked = Members(s, g) /\ \A h \in Groups : h # g => t.check[h] = s.check[h]
    BY <1>1, <1>8
  <2> QED BY <1>7, <1>8, <1>9, <1>11, <1>13, <2>1, <2>2, <2>3 DEF Engaged
<1>15. Inv(t, {}, R, D \ {g})
  BY <1>1, <1>2, <1>5, <1>14, Engages
<1> QED BY <1>15 DEF Opened, a, b, t

\* A player who queues alone
QueuedAlone(s, p, P, d) == SetState(Added(Choosing(s, p, P), p, d), {p}, QUEUED)

\* A player who is queued alone keeps the types.
LEMMA QueuedAloneTyped ==
    ASSUME NEW s, Typed(s), NEW p \in Players, NEW P \in SUBSET Players, NEW d \in QueueData, d.lfg = FALSE
    PROVE  Typed(QueuedAlone(s, p, P, d))
<1> DEFINE a == Choosing(s, p, P)
           b == Added(a, p, d)
<1>0. p \in Ids
  BY Disjoint
<1>1. Typed(a)
  BY <1>0, ChoosingEffect
<1> HIDE DEF a
<1>2. Typed(b)
  BY <1>0, <1>1, AddedTyped
<1> HIDE DEF b
<1>3. Typed(SetState(b, {p}, QUEUED))
  BY <1>2, SetStateTyped DEF States
<1> QED BY <1>3 DEF QueuedAlone, a, b

\* JoinLfg of a player without a group keeps the invariant.
LEMMA QueuedAloneKeeps ==
    ASSUME NEW s, Typed(s), NEW R, NEW D, Inv(s, {}, R, D), NEW p \in Players, s.group[p] = None,
           \A n \in Open(s) : p \notin Having(s, n),
           NEW P \in SUBSET Players, p \in P, NEW d \in QueueData, d.lfg = FALSE, d.players = {p}
    PROVE  Inv(QueuedAlone(s, p, P, d), {}, R, D \ {p})
<1> DEFINE a == Choosing(s, p, P)
           b == Added(a, p, d)
           t == SetState(b, {p}, QUEUED)
<1>1. s \in Stores /\ p \in Ids /\ p \notin Groups /\ d # None
  BY Disjoint, EntryAssumption DEF Typed
<1>2. Head(s, p) = p
  BY <1>1, HeadFacts, Disjoint
<1>3. a \in Stores /\ ChosenAs(s, a, p, P)
  BY <1>1, ChoosingEffect
<1> HIDE DEF a
<1>4. /\ b \in Stores /\ SameParty(a, b) /\ SameState(a, b) /\ SameRest(a, b)
      /\ \A i \in Ids : b.data[i] = IF i = p THEN d ELSE a.data[i]
      /\ b.new = a.new \cup {p} /\ b.queue = a.queue \ {p}
  BY <1>1, <1>3, AddedEffect
<1> HIDE DEF b
<1>5. /\ t \in Stores /\ SameParty(b, t) /\ SameQueue(b, t) /\ SameRest(b, t)
      /\ \A i \in Ids : t.state[i] = IF i \in Stored(b, {p}) THEN QUEUED ELSE b.state[i]
      /\ \A i \in Ids : t.old[i] = b.old[i]
      /\ t.selected = b.selected
  BY <1>4, SetStateEffect DEF States, Busy
<1> HIDE DEF t
<1>6. SameParty(s, a) /\ SameRest(s, a)
  BY <1>3 DEF ChosenAs
<1>7. SameParty(s, t)
  BY <1>4, <1>5, <1>6, PartyKept
<1>8. t.proposal = s.proposal /\ t.check = s.check
  BY <1>4, <1>5, <1>6 DEF SameRest
<1>9. t.selected = s.selected \cup P /\ \A i \in Ids : t.old[i] = s.old[i]
  BY <1>3, <1>4, <1>5 DEF ChosenAs, SameState
<1>10. \A i \in Ids : Head(s, i) = p <=> i = p
  BY <1>1, <1>2, HeadFacts, Disjoint
<1>11. \A i \in Ids : t.state[i] = IF Head(s, i) = p THEN QUEUED ELSE s.state[i]
  <2>1. \A i \in Ids : i \in Stored(b, {p}) <=> i = p
    BY <1>1 DEF Stored
  <2>2. b.state = s.state
    BY <1>3, <1>4 DEF ChosenAs, SameState
  <2> QED BY <1>5, <1>10, <2>1, <2>2
<1>12. /\ \A i \in Ids : i # p => t.data[i] = s.data[i] /\ (i \in InQueue(t) <=> i \in InQueue(s))
       /\ p \in InQueue(t) /\ t.data[p] = d
  <2>1. /\ \A i \in Ids : i # p => a.data[i] = s.data[i] /\ (i \in InQueue(a) <=> i \in InQueue(s))
    BY <1>3 DEF ChosenAs
  <2>2. t.data = b.data /\ InQueue(t) = InQueue(a) \cup {p}
    BY <1>4, <1>5 DEF SameQueue, InQueue
  <2> QED BY <1>1, <1>4, <2>1, <2>2
<1>13. Crew(s, p) = {p}
  BY <1>1, <1>10, Disjoint DEF Crew
<1>14. Engaged(s, t, p, QUEUED, R)
  BY <1>1, <1>7, <1>8, <1>9, <1>11, <1>12, <1>13 DEF Engaged
<1>15. \A n \in Open(s) : p \notin Combined(s, n)
  BY <1>13 DEF Inv, Proposing
<1>16. Inv(t, {}, R, D \ {p})
  BY <1>1, <1>2, <1>5, <1>14, <1>15, Engages
<1> QED BY <1>16 DEF QueuedAlone, a, b, t

\* For whom a player asks to join
Requesting(p) == IF mgr.group[p] = None THEN {p} ELSE Members(mgr, mgr.group[p])
\* His group continues the dungeon it is in,
Continues(p) == mgr.group[p] \in mgr.lfg /\ mgr.state[mgr.group[p]] = DUNGEON
\* and then nobody selects anything.
Choice(p) == IF Continues(p) THEN {} ELSE Requesting(p)

\* JoinLfg is refused, queues a player, or opens a role check that the role of the
\* leader may end at once.
LEMMA JoinLfgIs ==
    ASSUME NEW p \in Players, JoinLfg(p)
    PROVE  LET g == mgr.group[p]
               c == [asked |-> Requesting(p), chosen |-> {}]
               check == Opened(mgr, g, Choice(p), c)
           IN \/ /\ mgr' = Dequeued(mgr, Unit(p)) /\ races' = races
                 /\ stuck' = IF mgr.state[Unit(p)] = QUEUED THEN stuck \cup {Unit(p)} ELSE stuck
              \/ /\ g = None /\ stuck' = stuck \ {p}
                 /\ mgr' = QueuedAlone(mgr, p, Choice(p), Datum({p}, FALSE))
                 /\ Mark("rejoined", p \in Answering)
              \/ /\ g # None /\ stuck' = stuck \ {g}
                 /\ Mark("rejoined", Requesting(p) \cap Answering # {})
                 /\ \/ mgr' = EndRoleChecks(check, {g})
                    \/ \E fit \in BOOLEAN : mgr' = UpdateRoleCheck(check, g, p, fit)
<1> DEFINE g == mgr.group[p]
           i == Unit(p)
           ps == IF g = None THEN {p} ELSE Members(mgr, g)
           continues == g \in mgr.lfg /\ mgr.state[g] = DUNGEON
           out == IF mgr.state[i] = QUEUED THEN RemoveFromSystem(mgr, {i}) ELSE mgr
           chosen == [out EXCEPT !.selected = IF continues THEN @ ELSE @ \cup ps]
           check == [SetState(chosen, {g} \cup ps, ROLECHECK)
                       EXCEPT !.check = [@ EXCEPT ![g] = [asked |-> ps, chosen |-> {}]]]
<1>1. \/ /\ mgr' = out /\ MarkStuck(IF mgr.state[i] = QUEUED THEN {i} ELSE {})
         /\ races' = races
      \/ /\ g = None /\ stuck' = stuck \ {i}
         /\ mgr' = SetState(AddNewToQueue(chosen, p, {p}, FALSE), {p}, QUEUED)
         /\ Mark("rejoined", p \in Answering)
      \/ /\ g # None /\ stuck' = stuck \ {i}
         /\ Mark("rejoined", ps \cap Answering # {})
         /\ \/ mgr' = EndRoleChecks(check, {g})
            \/ \E fit \in BOOLEAN : mgr' = UpdateRoleCheck(check, g, p, fit)
  BY DEF JoinLfg
<1>2. ps = Requesting(p) /\ out = Dequeued(mgr, i)
  BY DEF Requesting, Dequeued
<1>3. chosen = Choosing(mgr, i, Choice(p))
  <2> HIDE DEF out, ps
  <2>1. CASE continues
    <3>1. Choice(p) = {} /\ out.selected \cup {} = out.selected
      BY <2>1 DEF Choice, Continues
    <3> QED BY <1>2, <2>1, <3>1 DEF Choosing
  <2>2. CASE ~continues
    <3>1. Choice(p) = ps
      BY <1>2, <2>2 DEF Choice, Continues
    <3> QED BY <1>2, <2>2, <3>1 DEF Choosing
  <2> QED BY <2>1, <2>2
<1>4. ASSUME g = None
      PROVE  SetState(AddNewToQueue(chosen, p, {p}, FALSE), {p}, QUEUED)
               = QueuedAlone(mgr, p, Choice(p), Datum({p}, FALSE))
  <2>1. i = p
    BY <1>4 DEF Unit
  <2> HIDE DEF chosen
  <2>2. AddNewToQueue(chosen, p, {p}, FALSE) = Added(chosen, p, Datum({p}, FALSE))
    BY DEF AddNewToQueue, Added, Datum
  <2> QED BY <1>3, <2>1, <2>2 DEF QueuedAlone
<1>5. ASSUME g # None
      PROVE  check = Opened(mgr, g, Choice(p), [asked |-> Requesting(p), chosen |-> {}])
  <2>1. i = g /\ ps = Members(mgr, g)
    BY <1>5 DEF Unit
  <2> HIDE DEF chosen
  <2> QED BY <1>2, <1>3, <2>1 DEF Opened, Noted
<1>6. i = IF g = None THEN p ELSE g
  BY DEF Unit
<1>7. MarkStuck(IF mgr.state[i] = QUEUED THEN {i} ELSE {})
        => stuck' = IF mgr.state[i] = QUEUED THEN stuck \cup {i} ELSE stuck
  <2> HIDE DEF i
  <2> QED BY DEF MarkStuck
<1> HIDE DEF check, chosen, out, ps
<1>8. ASSUME mgr' = out, races' = races, MarkStuck(IF mgr.state[i] = QUEUED THEN {i} ELSE {})
      PROVE  /\ mgr' = Dequeued(mgr, Unit(p)) /\ races' = races
             /\ stuck' = IF mgr.state[Unit(p)] = QUEUED THEN stuck \cup {Unit(p)} ELSE stuck
  BY <1>2, <1>7, <1>8
<1>9. g = None => i = p
  BY <1>6
<1>10. g # None => i = g
  BY <1>6
<1> HIDE DEF i
<1> QED BY <1>1, <1>2, <1>4, <1>5, <1>8, <1>9, <1>10

\* LFGMgr::JoinLfg keeps the invariant, unless somebody asks to join who is in a
\* proposal.
LEMMA JoinLfgKeeps ==
    ASSUME Typed(mgr), Sound, NEW p \in Players, JoinLfg(p)
    PROVE  Typed(mgr') /\ Sound'
<1> DEFINE g == mgr.group[p]
           u == Unit(p)
           ps == Requesting(p)
           P == Choice(p)
           c == [asked |-> ps, chosen |-> {}]
           check == Opened(mgr, g, P, c)
           d == Datum({p}, FALSE)
<1>1. \/ /\ mgr' = Dequeued(mgr, u) /\ races' = races
         /\ stuck' = IF mgr.state[u] = QUEUED THEN stuck \cup {u} ELSE stuck
      \/ /\ g = None /\ mgr' = QueuedAlone(mgr, p, P, d) /\ Mark("rejoined", p \in Answering)
         /\ stuck' = stuck \ {p}
      \/ /\ g # None /\ stuck' = stuck \ {g} /\ Mark("rejoined", ps \cap Answering # {})
         /\ mgr' = EndRoleChecks(check, {g}) \/ \E fit \in BOOLEAN : mgr' = UpdateRoleCheck(check, g, p, fit)
  BY JoinLfgIs
<1>2. mgr \in Stores /\ mgr.group[p] = g /\ u = Head(mgr, p) /\ u \in Ids
  BY HeadFacts, Disjoint DEF Typed, Unit, Head
<1>3. ps \in SUBSET Players /\ P \in SUBSET Players
  BY DEF Requesting, Choice, Members
<1>4. CASE /\ mgr' = Dequeued(mgr, u) /\ races' = races
           /\ stuck' = IF mgr.state[u] = QUEUED THEN stuck \cup {u} ELSE stuck
  <2> HIDE DEF u
  <2>1. Typed(mgr')
    BY <1>2, <1>4, DequeuedTyped
  <2>2. ASSUME Inv(mgr, {}, races, stuck) PROVE Inv(mgr', {}, races, stuck')
    <3>1. CASE mgr.state[u] = QUEUED
      <4>1. mgr' = RemoveFromSystem(mgr, {u}) /\ stuck' = stuck \cup {u}
        BY <1>4, <3>1 DEF Dequeued
      <4>2. /\ mgr' \in Stores /\ SameParty(mgr, mgr') /\ SameState(mgr, mgr') /\ SameRest(mgr, mgr')
            /\ \A i \in Ids : i # u => mgr'.data[i] = mgr.data[i]
            /\ mgr'.new = mgr.new \ {u} /\ mgr'.queue = mgr.queue \ {u}
        BY <1>2, <4>1, RemoveFromSystemEffect
      <4>3. DroppedFrom(mgr, mgr', u)
        BY <4>2 DEF DroppedFrom, InQueue
      <4> QED BY <1>2, <2>2, <3>1, <4>1, <4>2, <4>3, Drops
    <3>2. CASE mgr.state[u] # QUEUED
      BY <1>4, <2>2, <3>2 DEF Dequeued
    <3> QED BY <3>1, <3>2
  <2> QED BY <1>4, <2>1, <2>2, SoundJoin
<1>5. CASE /\ g = None /\ mgr' = QueuedAlone(mgr, p, P, d) /\ Mark("rejoined", p \in Answering)
           /\ stuck' = stuck \ {p}
  <2>1. d \in QueueData /\ d.players = {p} /\ d.lfg = FALSE
    BY DatumFacts
  <2>2. p \in P
    <3>1. g \notin mgr.lfg
      BY <1>2, <1>5, TypeFacts, Disjoint
    <3> QED BY <1>5, <3>1 DEF Choice, Continues, Requesting
  <2> HIDE DEF d, P
  <2>3. Typed(mgr')
    BY <1>3, <1>5, <2>1, QueuedAloneTyped
  <2>4. races \subseteq races' /\ (p \in Answering => "rejoined" \in races')
    BY <1>5 DEF Mark
  <2>5. ASSUME races' \cap Derailing = {}, Inv(mgr, {}, races', stuck) PROVE Inv(mgr', {}, races', stuck')
    <3>1. p \notin Answering
      BY <2>4, <2>5 DEF Derailing
    <3>2. \A n \in Open(mgr) : p \notin Having(mgr, n)
      BY <3>1, AnsweringIs
    <3> QED BY <1>3, <1>5, <2>1, <2>2, <2>5, <3>2, QueuedAloneKeeps
  <2> QED BY <2>3, <2>4, <2>5, SoundJoin
<1>6. CASE /\ g # None /\ stuck' = stuck \ {g} /\ Mark("rejoined", ps \cap Answering # {})
           /\ mgr' = EndRoleChecks(check, {g}) \/ \E fit \in BOOLEAN : mgr' = UpdateRoleCheck(check, g, p, fit)
  <2>1. g \in Groups /\ ps = Members(mgr, g)
    BY <1>2, <1>6, TypeFacts DEF Requesting
  <2>2. c \in RoleChecks /\ c.asked = Members(mgr, g)
    BY <1>3, <2>1 DEF RoleChecks
  <2>3. ASSUME "befriended" \notin races', Inv(mgr, {}, races', stuck) PROVE Members(mgr, g) \subseteq mgr.selected \cup P
    <3>1. CASE Continues(p)
      <4>1. mgr.old[g] = DUNGEON
        BY <2>1, <2>3, <3>1, Disjoint DEF Continues, Inv, Resting, Busy
      <4> SUFFICES ASSUME NEW q \in Members(mgr, g) PROVE q \in mgr.selected
        OBVIOUS
      <4>2. q \in Players /\ mgr.group[q] = g
        BY DEF Members
      <4>3. mgr.old[q] = DUNGEON
        BY <1>6, <2>3, <4>1, <4>2 DEF Inv, Chosen
      <4> QED BY <2>3, <4>2, <4>3 DEF Inv, Chosen
    <3>2. CASE ~Continues(p)
      BY <2>1, <3>2 DEF Choice
    <3> QED BY <3>1, <3>2
  <2>4. races \subseteq races' /\ (ps \cap Answering # {} => "rejoined" \in races')
    BY <1>6 DEF Mark
  <2> HIDE DEF P, c, g, ps
  <2>5. Typed(check) /\ SameParty(mgr, check)
    BY <1>3, <2>1, <2>2, OpenedTyped
  <2>6. check.group[p] = g
    BY <1>2, <2>5 DEF SameParty
  <2>7. ASSUME races' \cap Derailing = {}, Inv(mgr, {}, races', stuck) PROVE Inv(check, {}, races', stuck')
    <3>1. p \in ps /\ mgr.leader[g] # None
      BY <1>2, <1>6, <2>1, <2>7 DEF Inv, Formed, Members
    <3>2. ASSUME NEW n \in Open(mgr), g \in Combined(mgr, n) PROVE FALSE
      <4>1. p \in Crew(mgr, g)
        BY <1>2, <2>1, <3>1, HeadFacts
      <4>2. p \in Having(mgr, n)
        BY <2>7, <3>2, <4>1 DEF Inv, Proposing
      <4>3. p \in Answering
        BY <4>2, AnsweringIs
      <4> QED BY <2>4, <2>7, <3>1, <4>3 DEF Derailing
    <3> QED BY <1>3, <1>6, <2>1, <2>2, <2>3, <2>7, <3>1, <3>2, OpenedKeeps
  <2> HIDE DEF check
  <2>8. CASE mgr' = EndRoleChecks(check, {g})
    BY <2>1, <2>4, <2>5, <2>7, <2>8, EndRoleChecksKeeps, SoundJoin
  <2>9. ASSUME NEW fit \in BOOLEAN, mgr' = UpdateRoleCheck(check, g, p, fit) PROVE Typed(mgr') /\ Sound'
    <3>1. Typed(mgr')
      BY <2>1, <2>5, <2>9, UpdateRoleCheckTyped
    <3>2. Inv(check, {}, races', stuck') => Inv(mgr', {}, races', stuck')
      BY <2>1, <2>5, <2>6, <2>9, UpdateRoleCheckKeeps
    <3> QED BY <2>4, <2>7, <3>1, <3>2, SoundJoin
  <2> QED BY <1>6, <2>8, <2>9
<1> QED BY <1>1, <1>4, <1>5, <1>6

\* Everybody has agreed: DUNGEON, and out of the queue
Convened(t, n) == RemoveFromSystem(SetState(t, Having(t, n), DUNGEON), t.proposal[n].queues)

\* The last answer takes the premades of the proposal out of the queue.
LEMMA ConvenedAgrees ==
    ASSUME NEW t, Typed(t), NEW R, NEW D, Inv(t, {}, R, D), NEW n \in Open(t)
    PROVE  Typed(Convened(t, n)) /\ Convened(t, n) \in Stores /\ Agreement(t, Convened(t, n), n)
<1> DEFINE P == Having(t, n)
           Q == t.proposal[n].queues
           a == SetState(t, P, DUNGEON)
           b == RemoveFromSystem(a, Q)
<1>1. t \in Stores
  BY DEF Typed
<1>2. P \subseteq Players /\ \A i \in InQueue(t) : i \notin Q
  BY <1>1, PremadesOf DEF Combined
<1>3. Typed(a) /\ Typed(b)
  BY SetStateTyped, RemoveFromSystemTyped DEF States
<1>4. Q = Combined(t, n)
  BY DEF Combined
<1> HIDE DEF P, Q
<1>5. /\ a \in Stores /\ SameParty(t, a) /\ SameQueue(t, a) /\ SameRest(t, a)
      /\ \A i \in Ids : a.state[i] = IF i \in Stored(t, P) THEN DUNGEON ELSE t.state[i]
      /\ \A i \in Ids : a.old[i] = IF i \in Stored(t, P) THEN DUNGEON ELSE t.old[i]
      /\ a.selected = t.selected
  BY <1>1, SetStateEffect DEF States, Busy
<1> HIDE DEF a
<1>6. /\ b \in Stores /\ SameParty(a, b) /\ SameState(a, b) /\ SameRest(a, b)
      /\ \A i \in Ids : b.data[i] = IF i \in Q THEN None ELSE a.data[i]
      /\ b.new = a.new \ Q /\ b.queue = a.queue \ Q
  BY <1>5, RemoveFromSystemEffect
<1> HIDE DEF b
<1>7. \A i \in Ids : i \in Stored(t, P) <=> i \in P
  BY <1>2, Disjoint DEF Stored
<1>8. InQueue(b) = InQueue(t)
  BY <1>2, <1>5, <1>6 DEF InQueue, SameQueue
<1>9. \A i \in Ids : i \notin Q => b.data[i] = t.data[i]
  BY <1>5, <1>6 DEF SameQueue
<1>10. \A i \in Ids : /\ b.state[i] = IF i \in P THEN DUNGEON ELSE t.state[i]
                      /\ b.old[i] = IF i \in P THEN DUNGEON ELSE t.old[i]
  BY <1>5, <1>6, <1>7 DEF SameState
<1>11. SameParty(t, b) /\ SameRest(t, b) /\ b.selected = t.selected
  BY <1>5, <1>6 DEF SameParty, SameRest, SameState
<1>12. Agreement(t, b, n)
  BY <1>4, <1>8, <1>9, <1>10, <1>11 DEF Agreement, P
<1> QED BY <1>3, <1>6, <1>12 DEF Convened, a, b, P, Q

\* The group is in the dungeon, and the proposal is erased.
Closed(c, grp, n) == [SetState(c, {grp}, DUNGEON) EXCEPT !.proposal = [@ EXCEPT ![n] = None]]

\* That is the shape InDungeon.
LEMMA ClosedEffect ==
    ASSUME NEW c \in Stores, NEW grp \in Groups, c.leader[grp] # None, NEW n \in Slots
    PROVE  Closed(c, grp, n) \in Stores /\ InDungeon(c, Closed(c, grp, n), grp, n)
<1> DEFINE d == SetState(c, {grp}, DUNGEON)
           e == [d EXCEPT !.proposal = [@ EXCEPT ![n] = None]]
<1>1. /\ d \in Stores /\ SameParty(c, d) /\ SameQueue(c, d) /\ SameRest(c, d)
      /\ \A i \in Ids : d.state[i] = IF i \in Stored(c, {grp}) THEN DUNGEON ELSE c.state[i]
      /\ \A i \in Ids : d.old[i] = IF i \in Stored(c, {grp}) THEN DUNGEON ELSE c.old[i]
      /\ d.selected = c.selected
  BY SetStateEffect DEF States, Busy
<1>2. \A i \in Ids : i \in Stored(c, {grp}) <=> i = grp
  BY DEF Stored
<1> HIDE DEF d
<1>3. /\ e \in Stores /\ SameParty(d, e) /\ SameQueue(d, e) /\ SameState(d, e) /\ e.check = d.check
      /\ e.proposal[n] = None /\ \A k \in Slots : k # n => e.proposal[k] = d.proposal[k]
  BY <1>1 DEF Stores, SameParty, SameQueue, SameState
<1> HIDE DEF e
<1>4. SameParty(c, e) /\ SameQueue(c, e) /\ e.check = c.check /\ e.selected = c.selected
  BY <1>1, <1>3 DEF SameParty, SameQueue, SameState, SameRest
<1>5. \A k \in Slots : k # n => e.proposal[k] = c.proposal[k]
  BY <1>1, <1>3 DEF SameRest
<1>6. \A i \in Ids : /\ e.state[i] = IF i = grp THEN DUNGEON ELSE c.state[i]
                     /\ e.old[i] = IF i = grp THEN DUNGEON ELSE c.old[i]
  BY <1>1, <1>2, <1>3 DEF SameState
<1>7. InDungeon(c, e, grp, n)
  BY <1>3, <1>4, <1>5, <1>6 DEF InDungeon
<1> QED BY <1>3, <1>7 DEF Closed, d, e

\* UpdateProposal, from the last answer to the proposal that is erased, keeps the
\* invariant.
LEMMA ConvenedKeeps ==
    ASSUME NEW t, Typed(t), NEW R, NEW D, Inv(t, {}, R, D), NEW n \in Open(t), NEW p \in Having(t, n), p \in online,
           Continued(t, n) = None => Fresh(t) # {}, NEW list \in Places
    PROVE  LET made == Gather(Convened(t, n), n, list)
               e == Closed(made.s, made.grp, n)
           IN /\ e.proposal[n] = None
              /\ ("absent" \notin R => Having(t, n) \subseteq online) => Inv(e, {}, R, D)
<1> DEFINE b == Convened(t, n)
           made == Gather(b, n, list)
           c == made.s
           grp == made.grp
           e == Closed(c, grp, n)
<1>1. t \in Stores /\ n \in Slots
  BY DEF Typed, Open
<1>2. Typed(b) /\ b \in Stores /\ Agreement(t, b, n)
  BY ConvenedAgrees
<1> HIDE DEF b
<1>3. /\ n \in Open(b) /\ Having(b, n) = Having(t, n) /\ Combined(b, n) = Combined(t, n)
      /\ Agreed(b, Having(b, n), Combined(b, n))
      /\ b.proposal[n].leader \in Having(b, n)
      /\ \A h \in Groups : h \in Combined(b, n) =>
           b.leader[h] \in Players /\ b.group[b.leader[h]] = h /\ b.state[h] = PROPOSAL
      /\ b.proposal[n].group # None => b.proposal[n].group \in Combined(b, n) \cap b.lfg
  BY <1>1, <1>2, AgreementAgreed
<1>4. Continued(b, n) = None => Fresh(b) # {}
  BY <1>2 DEF Agreement, SameParty, SameRest, Continued, Fresh
<1>5. GatheredFrom(made, b, Having(b, n), Combined(b, n), Having(b, n))
  BY <1>2, <1>3, <1>4, GatherMakes
<1> HIDE DEF made
<1>6. /\ c \in Stores /\ Making(b, c, grp, Having(t, n), Combined(t, n)) /\ grp # None
      /\ \A q \in Having(t, n) : q \in online => c.group[q] = grp
  BY <1>3, <1>5 DEF GatheredFrom
<1> HIDE DEF c, grp
<1>7. grp \in Groups /\ c.leader[grp] # None
  BY <1>6, Disjoint DEF Making
<1>8. e \in Stores /\ InDungeon(c, e, grp, n)
  BY <1>1, <1>6, <1>7, ClosedEffect
<1> HIDE DEF e
<1>9. e.proposal[n] = None
  BY <1>8 DEF InDungeon
<1>10. ASSUME "absent" \notin R => Having(t, n) \subseteq online PROVE Inv(e, {}, R, D)
  <2>1. "absent" \notin R => \A q \in Having(t, n) : c.group[q] = grp
    BY <1>6, <1>10
  <2> QED BY <1>1, <1>2, <1>6, <1>8, <2>1, MakesGroup
<1> QED BY <1>9, <1>10 DEF e, c, grp, made, b

\* HandleLfgProposalResultOpcode keeps the invariant, for every answer.
LEMMA HandleLfgProposalResultKeeps ==
    ASSUME Typed(mgr), Sound, NEW p \in Players, NEW n \in Slots, HandleLfgProposalResult(p, n)
    PROVE  Typed(mgr') /\ Sound'
<1>1. mgr \in Stores /\ p \in online /\ n \in Open(mgr) /\ p \in Having(mgr, n)
  BY DEF HandleLfgProposalResult, Typed, Open
<1>2. PICK accept \in BOOLEAN, list \in Lists(UNION {Followers(g) : g \in Groups}) :
         /\ accept /\ Continued(mgr, n) = None => Fresh(mgr) # {}
         /\ mgr' = UpdateProposal(mgr, n, p, accept, list)
         /\ Mark("absent", accept /\ mgr'.proposal[n] = None /\ ~(Having(mgr, n) \subseteq online))
  BY DEF HandleLfgProposalResult
<1>0. list \in Places /\ stuck' = stuck
  BY ListsArePlaces DEF HandleLfgProposalResult, Followers, Members
<1>3. Typed(mgr')
  BY <1>0, <1>1, <1>2, UpdateProposalTyped
<1>4. /\ races \subseteq races'
      /\ accept /\ mgr'.proposal[n] = None /\ "absent" \notin races' => Having(mgr, n) \subseteq online
  BY <1>2 DEF Mark
<1>5. ASSUME Inv(mgr, {}, races', stuck') PROVE Inv(mgr', {}, races', stuck')
  <2>1. CASE ~accept
    <3>1. mgr' = RemoveProposal(Answer(mgr, n, p, "deny"), n, FALSE)
      BY <1>2, <2>1 DEF UpdateProposal
    <3> QED BY <1>1, <1>5, <3>1, DenyMoves
  <2>2. CASE accept
    <3> DEFINE t == Answer(mgr, n, p, "agree")
               made == Gather(Convened(t, n), n, list)
               e == Closed(made.s, made.grp, n)
    <3>1. t \in Stores /\ AnswerTo(mgr, t, n, p, "agree") /\ Typed(t) /\ Moved(mgr, t, {}, {}, {})
      BY <1>1, AnswerEffect, AnswerTyped, AnswerMoves DEF Answers
    <3>2. Having(t, n) = Having(mgr, n) /\ n \in Open(t)
      BY <1>1, <3>1 DEF AnswerTo, Open
    <3>3. mgr' = t \/ mgr' = e
      <4>1. \/ mgr' = t
            \/ mgr' = [MakeNewGroup(RemoveFromSystem(SetState(t, Having(mgr, n), DUNGEON), t.proposal[n].queues), n, list)
                         EXCEPT !.proposal = [@ EXCEPT ![n] = None]]
        BY <1>2, <2>2 DEF UpdateProposal
      <4> HIDE DEF t
      <4> QED BY <3>2, <4>1 DEF MakeNewGroup, Convened, Closed
    <3> HIDE DEF t
    <3>4. Inv(t, {}, races', stuck')
      BY <1>1, <1>5, <3>1, Moves
    <3>5. Continued(t, n) = None => Fresh(t) # {}
      BY <1>2, <2>2, <3>1 DEF AnswerTo, SameParty, Continued, Fresh
    <3>6. ASSUME mgr' = e PROVE Inv(mgr', {}, races', stuck')
      <4>1. mgr'.proposal[n] = None
        BY <1>0, <1>1, <3>1, <3>2, <3>4, <3>5, <3>6, ConvenedKeeps
      <4>2. "absent" \notin races' => Having(t, n) \subseteq online
        BY <1>4, <2>2, <3>2, <4>1
      <4> QED BY <1>0, <1>1, <3>1, <3>2, <3>4, <3>5, <3>6, <4>2, ConvenedKeeps
    <3> QED BY <3>3, <3>4, <3>6
  <2> QED BY <2>1, <2>2
<1> QED BY <1>0, <1>3, <1>4, <1>5, SoundNext

-----------------------------------------------------------------------------
\* The inductive invariant of the finder
IInv == /\ joins \in 0 .. MaxJoins /\ online \subseteq Players
        /\ races \subseteq Races /\ stuck \subseteq Ids
        /\ Typed(mgr) /\ Sound

\* It holds when the server starts.
LEMMA InitIInv == Init => IInv
<1> SUFFICES ASSUME Init PROVE IInv
  OBVIOUS
<1>1. /\ mgr.group = [p \in Players |-> None] /\ mgr.invite = [p \in Players |-> None]
      /\ mgr.leader = [g \in Groups |-> None] /\ mgr.born = {} /\ mgr.lfg = {}
      /\ mgr.state = [i \in Ids |-> NONE] /\ mgr.old = [i \in Ids |-> NONE]
      /\ mgr.selected = {} /\ mgr.check = [g \in Groups |-> None]
      /\ mgr.data = [i \in Ids |-> None] /\ mgr.new = {} /\ mgr.queue = {}
      /\ mgr.proposal = [n \in Slots |-> None]
  BY DEF Init
<1>2. mgr \in Stores
  BY DEF Init, Stores, States
<1>3. joins \in 0 .. MaxJoins /\ online \subseteq Players /\ races \subseteq Races /\ stuck \subseteq Ids
  BY DungeonFinderAssumption DEF Init
<1>4. InQueue(mgr) = {} /\ Open(mgr) = {}
  BY <1>1 DEF InQueue, Open
<1>5. \A p \in Players : mgr.data[p] = None /\ p \in Ids
  BY <1>1, Disjoint
<1>6. Typed(mgr)
  BY <1>1, <1>2, <1>4, <1>5 DEF Typed
<1>7. /\ \A p \in Players : mgr.group[p] = None
      /\ \A g \in Groups : mgr.leader[g] = None /\ mgr.check[g] = None /\ g \in Ids
      /\ \A i \in Ids : mgr.state[i] = NONE /\ mgr.old[i] = NONE
  BY <1>1, Disjoint
<1>8. \A p \in Players : Head(mgr, p) \in Ids
  BY <1>2, HeadFacts, Disjoint
<1>9. Formed(mgr) /\ Resting(mgr)
  BY <1>1, <1>7 DEF Formed, Resting
<1>10. Agreeing(mgr) /\ Checking(mgr)
  BY <1>5, <1>7, <1>8 DEF Agreeing, Checking, Busy
<1>11. Queueing(mgr) /\ Proposing(mgr, {}) /\ Answered(mgr)
  BY <1>4, <1>5, <1>7 DEF Queueing, Proposing, Answered
<1>12. Searched(mgr, {}, stuck) /\ Asked(mgr)
  BY <1>7 DEF Searched, Asked
<1>13. Chosen(mgr)
  BY <1>4, <1>5, <1>7, <1>8 DEF Chosen
<1> QED BY <1>3, <1>6, <1>9, <1>10, <1>11, <1>12, <1>13 DEF IInv, Sound, Inv

\* The handlers keep the types of the counter, of the connected players and of the
\* history.
LEMMA TypesKept ==
    ASSUME joins \in 0 .. MaxJoins, online \subseteq Players, races \subseteq Races, stuck \subseteq Ids,
           Typed(mgr), Next
    PROVE  /\ joins' \in 0 .. MaxJoins /\ online' \subseteq Players
           /\ races' \subseteq Races /\ stuck' \subseteq Ids
<1>0. MaxJoins \in Nat
  BY DungeonFinderAssumption
<1>1. ASSUME NEW race \in Races, NEW happens \in BOOLEAN, Mark(race, happens) PROVE races' \subseteq Races
  BY <1>1 DEF Mark
<1>2. ASSUME NEW p \in Players, JoinLfg(p)
      PROVE  joins' \in 0 .. MaxJoins /\ online' = online /\ races' \subseteq Races /\ stuck' \subseteq Ids
  <2>1. joins < MaxJoins /\ joins' = joins + 1 /\ online' = online
    BY <1>2 DEF JoinLfg
  <2>2. races' \subseteq Races /\ stuck' \subseteq Ids
    <3>1. /\ \/ races' = races
             \/ Mark("rejoined", p \in Answering)
             \/ Mark("rejoined", Requesting(p) \cap Answering # {})
          /\ stuck' \subseteq stuck \cup {Unit(p)}
      BY <1>2, JoinLfgIs
    <3>2. Unit(p) \in Ids
      BY HeadFacts, Disjoint DEF Typed, Unit, Head
    <3>3. races' \subseteq Races
      BY <3>1 DEF Races, Mark
    <3> QED BY <3>1, <3>2, <3>3
  <2> QED BY <1>0, <2>1, <2>2
<1>3. ASSUME NEW p \in Players, NEW n \in Slots, HandleLfgProposalResult(p, n)
      PROVE  joins' = joins /\ online' = online /\ races' \subseteq Races /\ stuck' = stuck
  <2>1. joins' = joins /\ online' = online /\ stuck' = stuck /\ \E happens \in BOOLEAN : Mark("absent", happens)
    BY <1>3 DEF HandleLfgProposalResult
  <2> QED BY <1>1, <2>1 DEF Races
<1>4. ASSUME NEW p \in Players, HandleGroupAccept(p)
      PROVE  joins' = joins /\ online' = online /\ races' \subseteq Races /\ stuck' = stuck
  <2>1. joins' = joins /\ online' = online /\ stuck' = stuck /\ (AcceptFirst(p) \/ \E g \in Groups : AcceptNext(p, g))
    BY <1>4 DEF HandleGroupAccept
  <2>2. AcceptFirst(p) => \E happens \in BOOLEAN : Mark("partied", happens)
    BY DEF AcceptFirst
  <2>3. ASSUME NEW g \in Groups, AcceptNext(p, g)
        PROVE  \E race \in {"partied", "befriended"} : \E happens \in BOOLEAN : Mark(race, happens)
    BY <2>3 DEF AcceptNext
  <2> QED BY <1>1, <2>1, <2>2, <2>3 DEF Races
<1>5. ASSUME NEW g \in Groups, FinishDungeon(g)
      PROVE  joins' = joins /\ online' = online /\ races' \subseteq Races /\ stuck' = stuck
  <2>1. joins' = joins /\ online' = online /\ stuck' = stuck /\ \E happens \in BOOLEAN : Mark("finished", happens)
    BY <1>5 DEF FinishDungeon
  <2> QED BY <1>1, <2>1 DEF Races
<1>6. ASSUME NEW p \in Players, LogoutPlayer(p) \/ Login(p)
      PROVE  joins' = joins /\ online' \subseteq Players /\ races' = races /\ stuck' = stuck
  BY <1>6 DEF LogoutPlayer, Login
<1>7. ASSUME NEW p \in Players,
             \/ HandleLfgSetRoles(p) \/ HandleLfgLeave(p) \/ HandleGroupDecline(p)
             \/ HandleGroupDisband(p) \/ OnMapChanged(p) \/ \E q \in Players : HandleGroupInvite(p, q)
      PROVE  joins' = joins /\ online' = online /\ races' = races /\ stuck' = stuck
  BY <1>7 DEF HandleLfgSetRoles, HandleLfgLeave, HandleGroupDecline, HandleGroupDisband,
       OnMapChanged,
              HandleGroupInvite
<1>8. ASSUME Update PROVE joins' = joins /\ online' = online /\ races' = races /\ stuck' \subseteq Ids
  <2>1. joins' = joins /\ online' = online /\ races' = races /\ \E o \in FindGroups(mgr) : MarkStuck(o.unfit)
    BY <1>8 DEF Update
  <2>2. \A o \in FindGroups(mgr) : o.unfit \subseteq Ids
    BY FindGroupsFinds
  <2> QED BY <2>1, <2>2 DEF MarkStuck
<1> QED BY <1>2, <1>3, <1>4, <1>5, <1>6, <1>7, <1>8 DEF Next

\* It is kept by every handler and by every tick.
LEMMA NextIInv == IInv /\ [Next]_vars => IInv'
<1> SUFFICES ASSUME IInv, [Next]_vars PROVE IInv'
  OBVIOUS
<1>1. CASE UNCHANGED vars
  <2>1. joins' = joins /\ online' = online /\ races' = races /\ stuck' = stuck /\ mgr' = mgr
    BY <1>1 DEF vars
  <2> QED BY <2>1 DEF IInv, Sound
<1>2. CASE Next
  <2>1. joins' \in 0 .. MaxJoins /\ online' \subseteq Players /\ races' \subseteq Races /\ stuck' \subseteq Ids
    BY <1>2, TypesKept DEF IInv
  <2>2. Typed(mgr) /\ Sound
    BY DEF IInv
  <2>3. ASSUME NEW p \in Players, JoinLfg(p) PROVE Typed(mgr') /\ Sound'
    BY <2>2, <2>3, JoinLfgKeeps
  <2>4. ASSUME NEW p \in Players, HandleLfgSetRoles(p) PROVE Typed(mgr') /\ Sound'
    BY <2>2, <2>4, HandleLfgSetRolesKeeps
  <2>5. ASSUME NEW p \in Players, HandleLfgLeave(p) PROVE Typed(mgr') /\ Sound'
    BY <2>2, <2>5, HandleLfgLeaveKeeps
  <2>6. ASSUME NEW p \in Players, NEW n \in Slots, HandleLfgProposalResult(p, n) PROVE Typed(mgr') /\ Sound'
    BY <2>2, <2>6, HandleLfgProposalResultKeeps
  <2>7. ASSUME NEW p \in Players, NEW q \in Players, HandleGroupInvite(p, q) PROVE Typed(mgr') /\ Sound'
    BY <2>2, <2>7, HandleGroupInviteKeeps
  <2>8. ASSUME NEW p \in Players, HandleGroupDecline(p) PROVE Typed(mgr') /\ Sound'
    BY <2>2, <2>8, HandleGroupDeclineKeeps
  <2>9. ASSUME NEW p \in Players, HandleGroupAccept(p) PROVE Typed(mgr') /\ Sound'
    BY <2>2, <2>9, HandleGroupAcceptKeeps
  <2>10. ASSUME NEW p \in Players, HandleGroupDisband(p) PROVE Typed(mgr') /\ Sound'
    BY <2>2, <2>10, HandleGroupDisbandKeeps
  <2>11. ASSUME NEW p \in Players, LogoutPlayer(p) PROVE Typed(mgr') /\ Sound'
    BY <2>2, <2>11, LogoutPlayerKeeps
  <2>12. ASSUME NEW p \in Players, Login(p) PROVE Typed(mgr') /\ Sound'
    <3>1. mgr' = mgr /\ races' = races /\ stuck' = stuck
      BY <2>12 DEF Login
    <3> QED BY <2>2, <3>1 DEF Sound
  <2>13. ASSUME NEW p \in Players, OnMapChanged(p) PROVE Typed(mgr') /\ Sound'
    BY <2>2, <2>13, OnMapChangedKeeps
  <2>14. ASSUME NEW g \in Groups, FinishDungeon(g) PROVE Typed(mgr') /\ Sound'
    BY <2>2, <2>14, FinishDungeonKeeps
  <2>15. Update => Typed(mgr') /\ Sound'
    BY <2>2, UpdateKeeps
  <2>16. Typed(mgr') /\ Sound'
    BY <1>2, <2>3, <2>4, <2>5, <2>6, <2>7, <2>8, <2>9, <2>10, <2>11, <2>12, <2>13, <2>14,
         <2>15 DEF Next
  <2>17. Typed(mgr')
    BY <2>16
  <2>18. IInv'
    BY <2>1, <2>16, <2>17 DEF IInv, Typed, InQueue
  <2> QED BY <2>18
<1> QED BY <1>1, <1>2

\* Between two handlers, whatever players ask, answer, join, leave, log out and
\* however often the timeouts of LFGMgr::Update run out, the states of LFGMgr,
\* LFGQueue, the role checks and the proposals fit together as Inv says, until one
\* of the races of Derailing happens.
THEOREM InductiveInvariant == Spec => []IInv
<1> QED BY InitIInv, NextIInv, PTL DEF Spec

\* Premade and Unit are the Head of the proof.
LEMMA PremadeIs ==
    ASSUME mgr \in Stores
    PROVE  /\ \A i \in Ids : Premade(i) = Head(mgr, i)
           /\ \A p \in Players : Unit(p) = Head(mgr, p)
  BY Disjoint DEF Premade, Unit, Head

\* Whoever is busy is in the state of his premade.
LEMMA PremadeState ==
    ASSUME Typed(mgr), NEW R, NEW D, Inv(mgr, {}, R, D), NEW i \in Ids, mgr.state[i] \in Busy
    PROVE  mgr.state[Head(mgr, i)] = mgr.state[i] /\ Head(mgr, i) \in Ids /\ Head(mgr, Head(mgr, i)) = Head(mgr, i)
<1>1. mgr \in Stores
  BY DEF Typed
<1>2. CASE i \in Players
  BY <1>1, <1>2, HeadFacts DEF Inv, Agreeing
<1>3. CASE i \in Groups
  BY <1>1, <1>3, HeadFacts
<1> QED BY <1>2, <1>3, Disjoint

\* The inductive invariant implies each of the properties: the types,
LEMMA IInvTypeOK == IInv => TypeOK
  BY DEF IInv, Typed, TypeOK

\* that what is QUEUED is searched for,
LEMMA IInvQueued == IInv => QueuedIsSearched
<1> SUFFICES ASSUME IInv, NEW i \in Ids, mgr.state[i] = QUEUED, ~After(Derailing),
                    Premade(i) \notin stuck
             PROVE  Premade(i) \in Waiting
  BY IInvTypeOK DEF QueuedIsSearched
<1>1. Typed(mgr) /\ mgr \in Stores /\ Inv(mgr, {}, races, stuck)
  BY DEF IInv, Sound, After, Typed
<1>2. mgr.state[Head(mgr, i)] = QUEUED /\ Head(mgr, i) \in Ids /\ Head(mgr, Head(mgr, i)) = Head(mgr, i)
  BY <1>1, PremadeState DEF Busy
<1>3. Head(mgr, i) \notin stuck
  BY <1>1, PremadeIs
<1>4. Head(mgr, i) \in InQueue(mgr)
  BY <1>1, <1>2, <1>3 DEF Inv, Searched
<1> QED BY <1>1, <1>4, PremadeIs DEF Waiting, InQueue

\* that what is proposed is asked,
LEMMA IInvProposed == IInv => ProposedIsAsked
<1> SUFFICES ASSUME IInv, NEW i \in Ids, mgr.state[i] = PROPOSAL, ~After(Derailing \cup {"absent"})
             PROVE  \E n \in Proposed : i \in Having(mgr, n) \cup mgr.proposal[n].queues
  BY DEF ProposedIsAsked
<1>1. Inv(mgr, {}, races, stuck) /\ "absent" \notin races
  BY DEF IInv, Sound, After
<1>2. Proposed = Open(mgr)
  BY DEF Proposed, Open
<1>3. CASE i \in Players
  BY <1>1, <1>2, <1>3 DEF Inv, Answered
<1>4. CASE i \in Groups
  BY <1>1, <1>2, <1>4 DEF Inv, Asked, Combined
<1> QED BY <1>3, <1>4, Disjoint

\* that a role check is open,
LEMMA IInvRoleCheck == IInv => RoleCheckIsOpen
<1> SUFFICES ASSUME IInv, NEW i \in Ids, mgr.state[i] = ROLECHECK, ~After(Derailing)
             PROVE  Premade(i) \in Groups /\ mgr.check[Premade(i)] # None
  BY DEF RoleCheckIsOpen
<1>1. Typed(mgr) /\ mgr \in Stores /\ Inv(mgr, {}, races, stuck)
  BY DEF IInv, Sound, After, Typed
<1>2. mgr.state[Head(mgr, i)] = ROLECHECK
  BY <1>1, PremadeState DEF Busy
<1>3. Head(mgr, i) \in Groups
  <2>1. CASE i \in Players
    BY <1>1, <2>1, HeadFacts DEF Inv, Checking
  <2>2. CASE i \in Groups
    BY <1>1, <2>2, HeadFacts
  <2> QED BY <2>1, <2>2, Disjoint
<1>4. mgr.check[Head(mgr, i)] # None
  BY <1>1, <1>2, <1>3 DEF Inv, Checking
<1> QED BY <1>1, <1>3, <1>4, PremadeIs

\* that the queue matches the groups,
LEMMA IInvQueue == IInv => QueueMatchesGroups
<1> SUFFICES ASSUME IInv, ~After(Derailing), NEW i \in Waiting
             PROVE  /\ mgr.state[i] = QUEUED
                    /\ mgr.data[i].players = {p \in Players : Unit(p) = i}
                    /\ mgr.data[i].players \cap Answering = {}
  BY DEF QueueMatchesGroups
<1>1. Typed(mgr) /\ mgr \in Stores /\ Inv(mgr, {}, races, stuck) /\ i \in InQueue(mgr)
  BY DEF IInv, Sound, After, Typed, Waiting, InQueue
<1>2. mgr.state[i] = QUEUED /\ mgr.data[i].players = Crew(mgr, i)
  BY <1>1 DEF Inv, Queueing, Placed
<1>3. Crew(mgr, i) = {p \in Players : Unit(p) = i}
  BY <1>1, PremadeIs DEF Crew
<1>4. ASSUME NEW p \in Crew(mgr, i), p \in Answering PROVE FALSE
  <2>1. PICK n \in Open(mgr) : p \in Having(mgr, n)
    BY <1>4, AnsweringIs
  <2>2. Head(mgr, p) \in Combined(mgr, n) /\ Head(mgr, p) = i
    BY <1>1, <2>1 DEF Inv, Proposing, Crew
  <2> QED BY <1>1, <2>1, <2>2 DEF Inv, Proposing
<1> QED BY <1>2, <1>3, <1>4

\* and that the dungeons are still selected.
LEMMA IInvSelected == IInv => DungeonsStillSelected
<1> SUFFICES ASSUME IInv, ~After(Derailing \cup {"befriended"}), NEW p \in Answering
             PROVE  p \in mgr.selected
  BY DEF DungeonsStillSelected
<1>1. mgr \in Stores /\ Inv(mgr, {}, races, stuck) /\ "befriended" \notin races
  BY DEF IInv, Sound, After, Typed
<1>2. PICK n \in Open(mgr) : p \in Having(mgr, n)
  BY AnsweringIs
<1>3. p \in Players
  BY <1>1, <1>2, TypeFacts
<1> QED BY <1>1, <1>2, <1>3 DEF Inv, Chosen

\* No store of LFGMgr or LFGQueue leaves its type, the races included.
THEOREM TypeCorrectness == Spec => []TypeOK
<1> QED BY InductiveInvariant, IInvTypeOK, PTL

\* Nobody is stuck in LFG_STATE_QUEUED (the comment in LFGQueue::AddOldToQueue): he
\* is in the queue or in a proposal, after every refusal, timeout, logout and party
\* change, unless his own premade was taken out and told nothing: JoinLfg has turned
\* down its second request, or FindGroup has found its data incompatible.
THEOREM QueuedAreSearched == Spec => []QueuedIsSearched
<1> QED BY InductiveInvariant, IInvQueued, PTL

\* RemoveProposal and MakeNewGroup leave nobody in LFG_STATE_PROPOSAL of a proposal
\* that is gone, unless somebody who had agreed was not connected at the end.
THEOREM ProposedAreAsked == Spec => []ProposedIsAsked
<1> QED BY InductiveInvariant, IInvProposed, PTL

\* Nobody is left in LFG_STATE_ROLECHECK without a role check in RoleChecksStore
\* that an answer or UpdateFinish ends.
THEOREM RoleChecksAreOpen == Spec => []RoleCheckIsOpen
<1> QED BY InductiveInvariant, IInvRoleCheck, PTL

\* The players in an entry of LFGQueue are the members that the group has now, and
\* none of them answers a proposal: OnAddMember, OnRemoveMember and OnDisband take
\* a group that changes out of the queue.
THEOREM QueueMatches == Spec => []QueueMatchesGroups
<1> QED BY InductiveInvariant, IInvQueue, PTL

\* UpdateProposal never reads *GetSelectedDungeons(pguid).begin() of an empty set:
\* the selection of everybody in a proposal is there until the proposal ends.
THEOREM SelectionIsKept == Spec => []DungeonsStillSelected
<1> QED BY InductiveInvariant, IInvSelected, PTL

=============================================================================
