------------------------ MODULE BattlegroundQueueProofs ------------------------
(***************************************************************************)
(* The battleground queue for any number of players and battlegrounds, any *)
(* team size and any waiting time.                                         *)
(*                                                                         *)
(* The invariant QueueInv says where a player can be at all: in one group  *)
(* of the queue, loading or inside, and in one of them only.  From that    *)
(* follow the slot, the counter of the invited and, because the            *)
(* matchmaking data hold exactly everybody who is engaged, that nobody is  *)
(* invited who has no place.                                               *)
(***************************************************************************)
EXTENDS BattlegroundQueue, FiniteSums

-----------------------------------------------------------------------------
(* Counting *)

\* The players of a set of groups.
Members(G) == UNION {g.players : g \in G}
\* The players a proposal asks for, as CalculateProposalQuality adds them up.
Sizes(G) == MapThenSumSet(LAMBDA g : Cardinality(g.players), G)
\* One step of that sum.
SizesFrom(G, h, s) ==
    IF s = {} THEN 0 ELSE Cardinality(One(s).players) + h[s \ {One(s)}]
\* h holds the sums of all parts of G.
AddsSizes(G, h) == h = [s \in SUBSET G |-> SizesFrom(G, h, s)]

\* Sizes is the last of the partial sums.
LEMMA SizesIs ==
    ASSUME NEW G
    PROVE  Sizes(G) = (CHOOSE h : AddsSizes(G, h))[G]
BY DEF Sizes, MapThenSumSet, MapThenFoldSet, AddsSizes, SizesFrom, One

\* Two finite sets have together at most as many elements as both.
LEMMA UnionOfTwo ==
    ASSUME NEW A, NEW B, IsFiniteSet(A), IsFiniteSet(B)
    PROVE  /\ IsFiniteSet(A \cup B) /\ Cardinality(A) \in Nat /\ Cardinality(B) \in Nat
           /\ Cardinality(A \cup B) \in Nat
           /\ Cardinality(A \cup B) <= Cardinality(A) + Cardinality(B)
<1>1. Cardinality(A \cap B) \in Nat /\ Cardinality(A) \in Nat /\ Cardinality(B) \in Nat
  BY FS_Intersection, FS_CardinalityType
<1>2. /\ IsFiniteSet(A \cup B)
      /\ Cardinality(A \cup B) = Cardinality(A) + Cardinality(B) - Cardinality(A \cap B)
  BY FS_Union
<1>3. Cardinality(A \cup B) \in Nat
  BY <1>2, FS_CardinalityType
<1> QED BY <1>1, <1>2, <1>3

\* Adding up the sizes of the groups never counts too few players, disjoint or
\* not.
LEMMA MembersBound ==
    ASSUME NEW G, IsFiniteSet(G), \A g \in G : IsFiniteSet(g.players)
    PROVE  /\ IsFiniteSet(Members(G)) /\ Sizes(G) \in Int
           /\ Cardinality(Members(G)) <= Sizes(G)
<1> DEFINE f == [g \in G |-> Cardinality(g.players)]
           P == CHOOSE h : AddsSizes(G, h)
           Bad == {n \in Nat : \E s \in SUBSET G :
                     /\ Cardinality(s) = n
                     /\ ~(IsFiniteSet(Members(s)) /\ P[s] \in Int
                            /\ Cardinality(Members(s)) <= P[s])}
<1>1. f \in [G -> Int]
  BY FS_CardinalityType
<1>2. AddsSizes(G, Partial(f, G))
  <2>1. Adds(f, G, Partial(f, G))
    BY <1>1, PartialSums
  <2> DEFINE h == Partial(f, G)
  <2>2. ASSUME NEW s \in SUBSET G PROVE Step(f, h, s) = SizesFrom(G, h, s)
    <3>1. CASE s = {}
      BY <3>1 DEF Step, SizesFrom
    <3>2. CASE s # {}
      <4>1. One(s) \in G
        BY <3>2 DEF One
      <4>2. f[One(s)] = Cardinality(One(s).players)
        BY <4>1
      <4> HIDE DEF f, h
      <4> QED BY <3>2, <4>2 DEF Step, SizesFrom
    <3> QED BY <3>1, <3>2
  <2> HIDE DEF h, f
  <2>3. h = [s \in SUBSET G |-> Step(f, h, s)]
    BY <2>1 DEF Adds, h
  <2>4. h = [s \in SUBSET G |-> SizesFrom(G, h, s)]
    BY <2>2, <2>3
  <2> QED BY <2>4 DEF AddsSizes, h
<1>3. AddsSizes(G, P)
  BY <1>2
<1>4. \A s \in SUBSET G : P[s] = SizesFrom(G, P, s)
  <2> HIDE DEF P
  <2> QED BY <1>3 DEF AddsSizes
<1>5. \A s \in SUBSET G : IsFiniteSet(s) /\ Cardinality(s) \in Nat
  BY FS_Subset, FS_CardinalityType
<1> HIDE DEF P
<1>6. Bad = {}
  <2> SUFFICES ASSUME Bad # {} PROVE FALSE
    OBVIOUS
  <2>1. PICK n \in Bad : \A m \in Bad : n <= m
    BY Least
  <2>2. PICK s \in SUBSET G : /\ Cardinality(s) = n
                              /\ ~(IsFiniteSet(Members(s)) /\ P[s] \in Int
                                     /\ Cardinality(Members(s)) <= P[s])
    OBVIOUS
  <2>3. s # {}
    <3> SUFFICES ASSUME s = {} PROVE FALSE
      OBVIOUS
    <3>1. P[s] = 0 /\ Members(s) = {}
      BY <1>4 DEF SizesFrom, Members
    <3> QED BY <2>2, <3>1, FS_EmptySet
  <2> DEFINE x == One(s)
             r == s \ {x}
  <2>4. x \in s /\ r \in SUBSET G /\ Cardinality(r) = n - 1 /\ n - 1 \in Nat
    <3>1. x \in s /\ Cardinality(s) \in Nat /\ IsFiniteSet(r) /\ Cardinality(r) = Cardinality(s) - 1
      BY <1>5, <2>3, TakeOne
    <3>2. Cardinality(r) \in Nat
      BY <3>1, FS_CardinalityType
    <3> QED BY <2>2, <3>1, <3>2
  <2>5. IsFiniteSet(Members(r)) /\ P[r] \in Int /\ Cardinality(Members(r)) <= P[r]
    BY <2>1, <2>4
  <2>6. P[s] = Cardinality(x.players) + P[r]
    BY <1>4, <2>3 DEF SizesFrom
  <2> HIDE DEF x
  <2>7. Members(s) = x.players \cup Members(r) /\ IsFiniteSet(x.players)
    BY <2>4 DEF Members
  <2>8. /\ IsFiniteSet(Members(s)) /\ Cardinality(x.players) \in Nat
        /\ Cardinality(Members(s)) <= Cardinality(x.players) + Cardinality(Members(r))
        /\ Cardinality(Members(s)) \in Nat /\ Cardinality(Members(r)) \in Nat
    BY <2>5, <2>7, UnionOfTwo
  <2> QED BY <2>2, <2>5, <2>6, <2>8
<1>7. IsFiniteSet(Members(G)) /\ P[G] \in Int /\ Cardinality(Members(G)) <= P[G]
  BY <1>5, <1>6
<1> QED BY <1>7, SizesIs DEF P

\* A battleground with counter n, the engaged players E and the matchmaking
\* data D.
CountOK(n, E, D) ==
    n = Cardinality(E) /\ E = D /\ Cardinality(D) <= MaxPlayers

\* The counter stays right if it goes down with a player who leaves.
LEMMA CountLeaves ==
    ASSUME NEW E, NEW D \in SUBSET Players, NEW n \in Nat,
           CountOK(n, E, D), NEW x \in E
    PROVE  n - 1 \in Nat /\ CountOK(n - 1, E \ {x}, D \ {x})
<1>1. IsFiniteSet(D) /\ IsFiniteSet(E) /\ x \in D
  BY FS_Subset, BattlegroundQueueAssumption DEF CountOK
<1>2. /\ Cardinality(E) \in Nat /\ Cardinality(D) \in Nat
      /\ Cardinality(E \ {x}) = Cardinality(E) - 1 /\ Cardinality(D \ {x}) = Cardinality(D) - 1
      /\ Cardinality(E \ {x}) \in Nat
  BY <1>1, FS_RemoveElement, FS_CardinalityType
<1> QED BY <1>2, BattlegroundQueueAssumption DEF CountOK

\* The counter stays right if players X join who are not engaged yet and for
\* whom there is room.
LEMMA CountJoins ==
    ASSUME NEW E, NEW D \in SUBSET Players, NEW n \in Nat, CountOK(n, E, D),
           NEW X \in SUBSET Players, X \cap E = {}, NEW k \in Int,
           Cardinality(X) <= k, Cardinality(D) + k <= MaxPlayers
    PROVE  n + Cardinality(X) \in Nat /\ CountOK(n + Cardinality(X), E \cup X, D \cup X)
<1>1. IsFiniteSet(D) /\ IsFiniteSet(E) /\ IsFiniteSet(X)
  BY FS_Subset, BattlegroundQueueAssumption DEF CountOK
<1>2. /\ Cardinality(X) \in Nat /\ Cardinality(D) \in Nat /\ Cardinality(D \cup X) \in Nat
      /\ Cardinality(D \cup X) <= Cardinality(D) + Cardinality(X)
  BY <1>1, UnionOfTwo
<1>3. Cardinality(E \cup X) = Cardinality(E) + Cardinality(X) /\ Cardinality(E) \in Nat
  <2>1. E \cap X = {}
    OBVIOUS
  <2>2. Cardinality(E \cup X) = Cardinality(E) + Cardinality(X) - Cardinality(E \cap X)
    BY <1>1, FS_Union
  <2>3. Cardinality(E \cap X) = 0 /\ Cardinality(E) \in Nat
    BY <1>1, <2>1, FS_EmptySet, FS_CardinalityType
  <2> QED BY <1>2, <2>2, <2>3
<1> QED BY <1>2, <1>3, BattlegroundQueueAssumption DEF CountOK

\* m_InvitedAlliance and m_InvitedHorde are zero only if nobody is engaged.
LEMMA CountZero ==
    ASSUME NEW E, NEW D \in SUBSET Players, CountOK(0, E, D)
    PROVE  E = {}
<1>1. IsFiniteSet(E)
  BY FS_Subset, BattlegroundQueueAssumption DEF CountOK
<1>2. Cardinality(E) \in Nat /\ (Cardinality(E) = 0 <=> E = {})
  BY <1>1, FS_CardinalityType, FS_EmptySet
<1> QED BY <1>2 DEF CountOK

-----------------------------------------------------------------------------
(* The queue *)

\* A group of p is in the queue, invited to b (or None) until t.
Has(p, b, t) == \E g \in queue : p \in g.players /\ g.bg = b /\ g.time = t

\* The players in the queue who are not invited.
Waiting == UNION {g.players : g \in {h \in queue : h.bg = None}}

\* m_QueuedGroups: no empty group, and no player in two groups.
Groups ==
    /\ IsFiniteSet(queue)
    /\ \A g \in queue : g.players # {}
    /\ \A g, h \in queue : g = h \/ g.players \cap h.players = {}

\* m_QueuedPlayers finds the one group of a player.
LEMMA GroupInfoIs ==
    ASSUME Groups, NEW p, Queued(p)
    PROVE  /\ GroupInfo(p) \in queue /\ p \in GroupInfo(p).players
           /\ \A g \in queue : p \in g.players => g = GroupInfo(p)
<1>1. GroupInfo(p) \in queue /\ p \in GroupInfo(p).players
  BY DEF Queued, GroupInfo
<1> QED BY <1>1 DEF Groups

\* Waiting, InvitedTo and Queued all say the same as Has.
\* Waiting, InvitedTo and Queued in terms of Has.
LEMMA ViewIs ==
    ASSUME queue \subseteq GroupInfos
    PROVE  /\ \A p : p \in Waiting <=> \E t \in Nat : Has(p, None, t)
           /\ \A p, b : p \in InvitedTo(b) <=> \E t \in Nat : Has(p, b, t)
           /\ \A p : Queued(p) <=> \E b \in Battlegrounds \cup {None} : \E t \in Nat : Has(p, b, t)
           /\ \A p : Queued(p) <=> p \in Waiting \/ \E b \in Battlegrounds : p \in InvitedTo(b)
           /\ \A p : Queued(p) => p \in Players
           /\ \A p : Queued(p) <=> p \in Members(queue)
<1>1. \A p : p \in Waiting <=> \E t \in Nat : Has(p, None, t)
  BY DEF Waiting, Has, GroupInfos
<1>2. \A p, b : p \in InvitedTo(b) <=> \E t \in Nat : Has(p, b, t)
  BY DEF InvitedTo, Has, GroupInfos
<1>3. \A p : Queued(p) <=> \E b \in Battlegrounds \cup {None} : \E t \in Nat : Has(p, b, t)
  BY DEF Queued, Has, GroupInfos
<1>4. \A p : Queued(p) => p \in Players
  BY DEF Queued, GroupInfos
<1>5. \A p : Queued(p) <=> p \in Members(queue)
  BY DEF Queued, Members
<1> QED BY <1>1, <1>2, <1>3, <1>4, <1>5

\* A player has one invitation at most.
LEMMA OneGroup ==
    ASSUME Groups, NEW p, NEW b, NEW t, NEW c, NEW u, Has(p, b, t), Has(p, c, u)
    PROVE  b = c /\ t = u
BY DEF Groups, Has

\* GroupInfo says of a player what Has says.
LEMMA GroupInfoHas ==
    ASSUME Groups, NEW p, Queued(p)
    PROVE  /\ Has(p, GroupInfo(p).bg, GroupInfo(p).time)
           /\ \A b, t : Has(p, b, t) => GroupInfo(p).bg = b /\ GroupInfo(p).time = t
BY GroupInfoIs DEF Has

\* RemovePlayer takes one player out of the queue and leaves his group as it
\* is.
LEMMA ErasedIs ==
    ASSUME queue \subseteq GroupInfos, Groups, NEW p, Queued(p), queue' = Erase(p)
    PROVE  /\ queue' \subseteq GroupInfos /\ Groups'
           /\ \A r, b, t : Has(r, b, t)' <=> Has(r, b, t) /\ r # p
<1> DEFINE g == GroupInfo(p)
           rest == [g EXCEPT !.players = @ \ {p}]
           N == IF rest.players = {} THEN {} ELSE {rest}
<1>1. g \in queue /\ p \in g.players /\ \A h \in queue : p \in h.players => h = g
  BY GroupInfoIs
<1>2. queue' = (queue \ {g}) \cup N
  BY DEF Erase
<1> HIDE DEF g
<1>3. g \in GroupInfos
  BY <1>1
<1>4. rest \in GroupInfos /\ rest.players = g.players \ {p} /\ rest.bg = g.bg /\ rest.time = g.time
  BY <1>3 DEF GroupInfos
<1> HIDE DEF rest
<1>5. N \subseteq {rest} /\ (rest \in N => rest.players # {}) /\ IsFiniteSet(N)
  <2>1. IsFiniteSet({rest}) /\ IsFiniteSet({})
    BY FS_Singleton, FS_EmptySet
  <2> QED BY <2>1
<1>6. \A h \in queue' : (h \in queue /\ h # g) \/ (h = rest /\ rest.players # {})
  BY <1>2, <1>5
<1>7. queue' \subseteq GroupInfos
  BY <1>4, <1>6
<1>8. IsFiniteSet(queue')
  <2>1. IsFiniteSet(queue \ {g})
    BY FS_Difference DEF Groups
  <2> QED BY <1>2, <1>5, <2>1, FS_Union
<1>9. \A h \in queue' : h.players # {}
  BY <1>6 DEF Groups
<1>10. ASSUME NEW h \in queue', NEW k \in queue' PROVE h = k \/ h.players \cap k.players = {}
  BY <1>1, <1>4, <1>6 DEF Groups
<1>11. ASSUME NEW r, NEW b, NEW t PROVE Has(r, b, t)' <=> Has(r, b, t) /\ r # p
  <2>1. ASSUME NEW h \in queue', r \in h.players, h.bg = b, h.time = t PROVE Has(r, b, t) /\ r # p
    <3>1. CASE h \in queue /\ h # g
      BY <1>1, <2>1, <3>1 DEF Has
    <3>2. CASE h = rest
      BY <1>1, <1>4, <2>1, <3>2 DEF Has
    <3> QED BY <1>6, <3>1, <3>2
  <2>2. ASSUME NEW h \in queue, r \in h.players, h.bg = b, h.time = t, r # p
        PROVE  \E k \in queue' : r \in k.players /\ k.bg = b /\ k.time = t
    <3>1. CASE h = g
      <4>1. r \in rest.players
        BY <1>4, <2>2, <3>1
      <4>2. rest \in queue'
        BY <1>2, <4>1
      <4> QED BY <1>4, <2>2, <3>1, <4>1, <4>2
    <3>2. CASE h # g
      BY <1>2, <2>2, <3>2
    <3> QED BY <3>1, <3>2
  <2> QED BY <2>1, <2>2 DEF Has
<1>12. Groups'
  BY <1>8, <1>9, <1>10 DEF Groups
<1> QED BY <1>7, <1>11, <1>12

\* The same view after a step.
\* Waiting, InvitedTo and Queued in terms of Has, after a step.
LEMMA ViewNext ==
    ASSUME queue' \subseteq GroupInfos
    PROVE  /\ \A p : p \in Waiting' <=> \E t \in Nat : Has(p, None, t)'
           /\ \A p, b : p \in InvitedTo(b)' <=> \E t \in Nat : Has(p, b, t)'
           /\ \A p : Queued(p)' <=> p \in Waiting' \/ \E b \in Battlegrounds : p \in InvitedTo(b)'
           /\ \A p : Queued(p)' => p \in Players
<1>1. \A p : p \in Waiting' <=> \E t \in Nat : Has(p, None, t)'
  BY DEF Waiting, Has, GroupInfos
<1>2. \A p, b : p \in InvitedTo(b)' <=> \E t \in Nat : Has(p, b, t)'
  BY DEF InvitedTo, Has, GroupInfos
<1>3. \A p : Queued(p)' <=> p \in Waiting' \/ \E b \in Battlegrounds : p \in InvitedTo(b)'
  BY DEF Queued, Waiting, InvitedTo, GroupInfos
<1>4. \A p : Queued(p)' => p \in Players
  BY DEF Queued, GroupInfos
<1> QED BY <1>1, <1>2, <1>3, <1>4

\* RemovePlayer in terms of Waiting, InvitedTo and Queued.
LEMMA Erased ==
    ASSUME queue \subseteq GroupInfos, Groups, NEW p, Queued(p), queue' = Erase(p)
    PROVE  /\ queue' \subseteq GroupInfos /\ Groups'
           /\ Waiting' = Waiting \ {p}
           /\ \A b : InvitedTo(b)' = InvitedTo(b) \ {p}
           /\ \A r, b, t : Has(r, b, t)' <=> Has(r, b, t) /\ r # p
           /\ \A r : Queued(r)' <=> Queued(r) /\ r # p
<1>1. /\ queue' \subseteq GroupInfos /\ Groups'
      /\ \A r, b, t : Has(r, b, t)' <=> Has(r, b, t) /\ r # p
  BY ErasedIs
<1>2. Waiting' = Waiting \ {p}
  BY <1>1, ViewIs, ViewNext
<1>3. ASSUME NEW b PROVE InvitedTo(b)' = InvitedTo(b) \ {p}
  BY <1>1, ViewIs, ViewNext
<1>4. \A r : Queued(r)' <=> Queued(r) /\ r # p
  BY <1>1, <1>2, <1>3, ViewIs, ViewNext
<1> QED BY <1>1, <1>2, <1>3, <1>4

\* AddGroup adds players who wait.
LEMMA Added ==
    ASSUME queue \subseteq GroupInfos, Groups, NEW M \in SUBSET Players, M # {},
           \A p \in M : ~Queued(p),
           queue' = queue \cup {[players |-> M, bg |-> None, time |-> 0]}
    PROVE  /\ queue' \subseteq GroupInfos /\ Groups'
           /\ Waiting' = Waiting \cup M
           /\ \A b \in Battlegrounds : InvitedTo(b)' = InvitedTo(b)
           /\ \A r, t : \A b \in Battlegrounds : Has(r, b, t)' <=> Has(r, b, t)
           /\ \A r : Queued(r)' <=> Queued(r) \/ r \in M
<1> DEFINE new == [players |-> M, bg |-> None, time |-> 0]
<1>1. new \in GroupInfos /\ new.players = M /\ new.bg = None /\ new.time = 0
  BY DEF GroupInfos
<1>2. queue' = queue \cup {new}
  OBVIOUS
<1> HIDE DEF new
<1>3. queue' \subseteq GroupInfos
  BY <1>1, <1>2
<1>4. IsFiniteSet(queue')
  <2>1. IsFiniteSet(queue)
    BY DEF Groups
  <2>2. IsFiniteSet(queue \cup {new})
    BY <2>1, FS_AddElement
  <2> QED BY <1>2, <2>2
<1>5. \A h \in queue : h.players \cap M = {}
  BY DEF Queued
<1>6. Groups'
  BY <1>1, <1>2, <1>4, <1>5 DEF Groups
<1>7. \A r, b, t : Has(r, b, t)' <=> Has(r, b, t) \/ (r \in M /\ b = None /\ t = 0)
  BY <1>1, <1>2 DEF Has
<1>8. \A r, t : \A b \in Battlegrounds : Has(r, b, t)' <=> Has(r, b, t)
  BY <1>7, BattlegroundQueueAssumption
<1>9. Waiting' = Waiting \cup M
  <2>1. \A r : r \in Waiting' <=> r \in Waiting \/ r \in M
    BY <1>3, <1>7, ViewIs, ViewNext
  <2> QED BY <2>1
<1>10. ASSUME NEW b \in Battlegrounds PROVE InvitedTo(b)' = InvitedTo(b)
  <2>1. \A r : r \in InvitedTo(b)' <=> r \in InvitedTo(b)
    BY <1>3, <1>8, ViewIs, ViewNext
  <2> QED BY <2>1
<1>11. \A r : Queued(r)' <=> Queued(r) \/ r \in M
  BY <1>3, <1>9, <1>10, ViewIs, ViewNext
<1> QED BY <1>3, <1>6, <1>8, <1>9, <1>10, <1>11

\* InviteGroupToBG turns the waiting players of the groups into invited ones.
LEMMA Invited ==
    ASSUME queue \subseteq GroupInfos, Groups, NEW G \in SUBSET queue,
           \A g \in G : g.bg = None,
           NEW b \in Battlegrounds, NEW d \in Nat,
           queue' = (queue \ G) \cup {[g EXCEPT !.bg = b, !.time = d] : g \in G}
    PROVE  /\ queue' \subseteq GroupInfos /\ Groups'
           /\ Members(G) \subseteq Waiting
           /\ Waiting' = Waiting \ Members(G)
           /\ InvitedTo(b)' = InvitedTo(b) \cup Members(G)
           /\ \A c \in Battlegrounds \ {b} : InvitedTo(c)' = InvitedTo(c)
           /\ \A r, t : \A c \in Battlegrounds :
                 Has(r, c, t)' <=> Has(r, c, t) \/ (r \in Members(G) /\ c = b /\ t = d)
           /\ \A r : Queued(r)' <=> Queued(r)
<1> DEFINE Asked(g) == [g EXCEPT !.bg = b, !.time = d]
           N == {Asked(g) : g \in G}
<1>1. ASSUME NEW g \in G
      PROVE  /\ g \in GroupInfos /\ Asked(g) \in GroupInfos
             /\ Asked(g).players = g.players /\ Asked(g).bg = b /\ Asked(g).time = d
  BY DEF GroupInfos
<1>2. queue' = (queue \ G) \cup N
  OBVIOUS
<1> HIDE DEF Asked
<1>3. queue' \subseteq GroupInfos
  BY <1>1, <1>2
<1>4. IsFiniteSet(queue')
  <2>1. IsFiniteSet(G) /\ IsFiniteSet(queue \ G)
    BY FS_Subset, FS_Difference DEF Groups
  <2> DEFINE f == [g \in G |-> Asked(g)]
  <2>2. f \in Surjection(G, N)
    BY DEF Surjection
  <2> HIDE DEF N, f
  <2>3. IsFiniteSet(N)
    BY <2>1, <2>2, FS_Surjection
  <2>4. IsFiniteSet((queue \ G) \cup N)
    BY <2>1, <2>3, UnionOfTwo
  <2> QED BY <1>2, <2>4
<1>5. \A h \in queue' : h \in queue \ G \/ \E g \in G : h = Asked(g)
  BY <1>2
<1>6. ASSUME NEW h \in queue' PROVE h.players # {}
  <2>1. CASE h \in queue \ G
    BY <2>1 DEF Groups
  <2>2. CASE \E g \in G : h = Asked(g)
    BY <1>1, <2>2 DEF Groups
  <2> QED BY <1>5, <2>1, <2>2
<1>7. ASSUME NEW h \in queue', NEW k \in queue' PROVE h = k \/ h.players \cap k.players = {}
  <2>1. PICK hh \in queue : hh.players = h.players
             /\ (hh \in G => h = Asked(hh)) /\ (hh \notin G => h = hh)
    BY <1>1, <1>5
  <2>2. PICK kk \in queue : kk.players = k.players
             /\ (kk \in G => k = Asked(kk)) /\ (kk \notin G => k = kk)
    BY <1>1, <1>5
  <2> QED BY <2>1, <2>2 DEF Groups
<1>8. Groups'
  BY <1>4, <1>6, <1>7 DEF Groups
<1>9. ASSUME NEW r, NEW c, NEW t
      PROVE  Has(r, c, t)' <=> (Has(r, c, t) /\ r \notin Members(G))
                                \/ (r \in Members(G) /\ c = b /\ t = d)
  <2>1. ASSUME NEW h \in queue \ G, r \in h.players PROVE r \notin Members(G)
    BY <2>1 DEF Groups, Members
  <2>2. ASSUME NEW h \in queue', r \in h.players, h.bg = c, h.time = t
        PROVE  (Has(r, c, t) /\ r \notin Members(G)) \/ (r \in Members(G) /\ c = b /\ t = d)
    <3>1. CASE h \in queue \ G
      BY <2>1, <2>2, <3>1 DEF Has
    <3>2. CASE \E g \in G : h = Asked(g)
      BY <1>1, <2>2, <3>2 DEF Members
    <3> QED BY <1>5, <3>1, <3>2
  <2>3. ASSUME NEW h \in queue, r \in h.players, h.bg = c, h.time = t, r \notin Members(G)
        PROVE  h \in queue'
    BY <1>2, <2>3 DEF Members
  <2>4. ASSUME r \in Members(G), c = b, t = d
        PROVE  \E h \in queue' : r \in h.players /\ h.bg = c /\ h.time = t
    <3>1. PICK g \in G : r \in g.players
      BY <2>4 DEF Members
    <3>2. Asked(g) \in queue'
      BY <1>2
    <3> QED BY <1>1, <2>4, <3>1, <3>2
  <2> QED BY <2>2, <2>3, <2>4 DEF Has
<1>10. \A r \in Members(G) : \E t \in Nat : Has(r, None, t)
  BY <1>1 DEF Members, Has, GroupInfos
<1>11. Members(G) \subseteq Waiting
  BY <1>10, ViewIs
<1>12. ASSUME NEW r, NEW t, NEW c \in Battlegrounds, Has(r, c, t) PROVE r \notin Members(G)
  BY <1>10, <1>12, OneGroup, BattlegroundQueueAssumption
<1>13. \A r, t : \A c \in Battlegrounds :
          Has(r, c, t)' <=> Has(r, c, t) \/ (r \in Members(G) /\ c = b /\ t = d)
  BY <1>9, <1>12
<1>14. Waiting' = Waiting \ Members(G)
  <2>1. \A r : r \in Waiting' <=> r \in Waiting /\ r \notin Members(G)
    BY <1>3, <1>9, ViewIs, ViewNext, BattlegroundQueueAssumption
  <2> QED BY <2>1
<1>15. InvitedTo(b)' = InvitedTo(b) \cup Members(G)
  <2>1. \A r : r \in InvitedTo(b)' <=> r \in InvitedTo(b) \/ r \in Members(G)
    BY <1>3, <1>13, ViewIs, ViewNext
  <2> QED BY <2>1
<1>16. ASSUME NEW c \in Battlegrounds \ {b} PROVE InvitedTo(c)' = InvitedTo(c)
  <2>1. \A r : r \in InvitedTo(c)' <=> r \in InvitedTo(c)
    BY <1>3, <1>13, ViewIs, ViewNext
  <2> QED BY <2>1
<1>17. ASSUME NEW r PROVE Queued(r)' <=> Queued(r)
  <2>1. Queued(r)' <=> r \in Waiting' \/ \E c \in Battlegrounds : r \in InvitedTo(c)'
    BY <1>3, ViewNext
  <2>2. Queued(r) <=> r \in Waiting \/ \E c \in Battlegrounds : r \in InvitedTo(c)
    BY ViewIs
  <2> QED BY <1>11, <1>14, <1>15, <1>16, <2>1, <2>2
<1> QED BY <1>3, <1>8, <1>11, <1>13, <1>14, <1>15, <1>16, <1>17

-----------------------------------------------------------------------------
(* The inductive invariant *)

\* A player is in the queue, loading or inside, and in one of them only. Who
\* waits or loads is connected, and m_bgData names the battleground of who
\* loads or is inside.
Whereabouts ==
    \A p \in Players :
        /\ Queued(p) => p \in online /\ p \notin loading
        /\ p \in loading => p \in online /\ bgId[p] \in Battlegrounds
        /\ \A b \in Battlegrounds :
             p \in inside[b] => bgId[p] = b /\ p \notin loading /\ ~Queued(p)

\* m_bgBattlegroundQueueID: that of a connected player says where he is, that
\* of another is free.
Slots ==
    \A p \in Players :
        /\ p \notin online => slot[p] = "none"
        /\ p \in online => /\ slot[p] = "queued" <=> p \in Waiting
                           /\ \A b \in Battlegrounds : slot[p] = b <=> p \in Engaged(b)

\* The counter and the matchmaking data of each battleground are right.
Counts ==
    \A b \in Battlegrounds : CountOK(invited[b], Engaged(b), data[b])

\* Nobody is engaged in a battleground that does not exist.
Freed == \A b \in Battlegrounds : status[b] = "free" => Engaged(b) = {}

\* An invitation is still good, and the BGQueueRemoveEvent that will end it is
\* pending.
Deadlines ==
    \A p \in Players : \A b \in Battlegrounds : \A t \in Nat : Has(p, b, t) =>
        clock <= t /\ [player |-> p, bg |-> b, time |-> t] \in events

\* The inductive invariant.
QueueInv ==
    TypeOK /\ Groups /\ Whereabouts /\ Slots /\ Counts /\ Freed /\ Deadlines

-----------------------------------------------------------------------------
(* Facts *)

\* The three ways to be engaged, before and after a step.
LEMMA EngagedIs ==
    ASSUME NEW b
    PROVE  /\ \A p : p \in Engaged(b) <=>
                 p \in InvitedTo(b) \/ (p \in loading /\ bgId[p] = b) \/ p \in inside[b]
           /\ \A p : p \in Engaged(b)' <=>
                 p \in InvitedTo(b)' \/ (p \in loading' /\ bgId'[p] = b) \/ p \in inside'[b]
BY DEF Engaged, LoadingInto

\* A player is engaged in one battleground at most, and not while he waits.
LEMMA Apart ==
    ASSUME TypeOK, Groups, Whereabouts, NEW p \in Players
    PROVE  /\ \A b, c \in Battlegrounds : p \in Engaged(b) /\ p \in Engaged(c) => b = c
           /\ \A b \in Battlegrounds : p \in Engaged(b) => p \notin Waiting
           /\ Queued(p) => \A b \in Battlegrounds : p \in Engaged(b) <=> p \in InvitedTo(b)
<1>1. queue \subseteq GroupInfos
  BY DEF TypeOK
<1>2. ASSUME NEW b \in Battlegrounds, NEW c \in Battlegrounds,
             p \in InvitedTo(b), p \in InvitedTo(c)
      PROVE  b = c
  BY <1>1, <1>2, ViewIs, OneGroup
<1>3. ASSUME NEW b \in Battlegrounds, p \in InvitedTo(b) PROVE p \notin Waiting /\ Queued(p)
  BY <1>1, <1>3, ViewIs, OneGroup, BattlegroundQueueAssumption
<1>4. p \in Waiting => Queued(p)
  BY <1>1, ViewIs
<1> QED BY <1>2, <1>3, <1>4, EngagedIs DEF Whereabouts

\* A step that moves nobody in or out keeps the counts.
LEMMA CountsSame ==
    ASSUME Counts, UNCHANGED <<invited, data>>,
           \A c \in Battlegrounds : Engaged(c)' = Engaged(c)
    PROVE  Counts'
BY DEF Counts

\* A step in which the battleground forgets one of its players keeps the
\* counts.
LEMMA CountsLeave ==
    ASSUME TypeOK, Counts, NEW b \in Battlegrounds, NEW x \in Engaged(b),
           \A c \in Battlegrounds : Engaged(c)' = Engaged(c) \ {x},
           \A c \in Battlegrounds : c # b => x \notin Engaged(c),
           Forget(b, x)
    PROVE  /\ Counts'
           /\ invited' \in [Battlegrounds -> Nat]
           /\ data' \in [Battlegrounds -> SUBSET Players]
<1>1. ASSUME NEW c \in Battlegrounds
      PROVE  /\ invited'[c] \in Nat /\ data'[c] \in SUBSET Players
             /\ CountOK(invited'[c], Engaged(c)', data'[c])
  <2>1. /\ invited[c] \in Nat /\ data[c] \in SUBSET Players
        /\ CountOK(invited[c], Engaged(c), data[c])
    BY DEF TypeOK, Counts
  <2>2. CASE c = b
    <3>1. invited'[c] = invited[c] - 1 /\ data'[c] = data[c] \ {x} /\ Engaged(c)' = Engaged(c) \ {x}
      BY <2>2 DEF Forget, TypeOK
    <3>2. invited[c] - 1 \in Nat /\ CountOK(invited[c] - 1, Engaged(c) \ {x}, data[c] \ {x})
      BY <2>1, <2>2, CountLeaves
    <3> QED BY <2>1, <3>1, <3>2
  <2>3. CASE c # b
    <3>1. invited'[c] = invited[c] /\ data'[c] = data[c] /\ Engaged(c)' = Engaged(c)
      BY <2>3 DEF Forget, TypeOK
    <3> QED BY <2>1, <3>1
  <2> QED BY <2>2, <2>3
<1>2. invited' = [c \in Battlegrounds |-> invited'[c]] /\ data' = [c \in Battlegrounds |-> data'[c]]
  BY DEF Forget, TypeOK
<1> QED BY <1>1, <1>2 DEF Counts

\* A step that engages nobody in a battleground that does not exist keeps
\* Freed.
LEMMA FreedLess ==
    ASSUME Freed, UNCHANGED status,
           \A c \in Battlegrounds : Engaged(c)' \subseteq Engaged(c)
    PROVE  Freed'
BY DEF Freed

\* A slot is free, queued or an instance id, and these are different.
LEMMA SlotNames ==
    /\ \A b \in Battlegrounds : b # "none" /\ b # "queued" /\ b # None
    /\ "none" # "queued"
BY BattlegroundQueueAssumption

\* Who is in the queue can be found by it.
\* A player leaves the queue by his own wish, by logging out or because the
\* time is up. The battleground he was invited to still exists and forgets him.
LEMMA Declined ==
    ASSUME QueueInv, NEW p \in Players, Queued(p), RemovePlayer(p, DecreaseCount),
           slot' = FreeSlot(p),
           loading' \subseteq loading, loading \ {p} \subseteq loading',
           online' \subseteq online, online \ {p} \subseteq online',
           events' \subseteq events, \A e \in events : e.player = p \/ e \in events',
           UNCHANGED <<bgId, status, inside, clock>>
    PROVE  QueueInv'
<1> USE DEF QueueInv
<1>0. queue \subseteq GroupInfos
  BY DEF TypeOK
<1>1. queue' = Erase(p)
  BY DEF RemovePlayer
<1>2. /\ queue' \subseteq GroupInfos /\ Groups'
      /\ Waiting' = Waiting \ {p}
      /\ \A b : InvitedTo(b)' = InvitedTo(b) \ {p}
      /\ \A r, b, t : Has(r, b, t)' <=> Has(r, b, t) /\ r # p
      /\ \A r : Queued(r)' <=> Queued(r) /\ r # p
  BY <1>0, <1>1, Erased
<1>3. p \in online /\ p \notin loading /\ \A b \in Battlegrounds : p \notin inside[b]
  BY DEF Whereabouts
<1>4. loading' = loading
  BY <1>3
<1>5. ASSUME NEW b \in Battlegrounds PROVE Engaged(b)' = Engaged(b) \ {p}
  <2>1. \A r : r \in Engaged(b)' <=> r \in Engaged(b) /\ r # p
    BY <1>2, <1>3, <1>4, EngagedIs
  <2> QED BY <2>1
<1>6. /\ Counts'
      /\ invited' \in [Battlegrounds -> Nat]
      /\ data' \in [Battlegrounds -> SUBSET Players]
  <2> DEFINE b == GroupInfo(p).bg
  <2>1. \E t : Has(p, b, t)
    BY GroupInfoHas
  <2>2. b \in Battlegrounds \cup {None}
    BY <1>0, GroupInfoIs DEF GroupInfos
  <2>3. CASE b = None
    <3>1. UNCHANGED <<invited, data>>
      BY <2>3 DEF RemovePlayer, Exists
    <3>2. p \in Waiting
      BY <2>3, GroupInfoIs DEF Waiting
    <3>3. ASSUME NEW c \in Battlegrounds PROVE Engaged(c)' = Engaged(c)
      <4>1. p \notin Engaged(c)
        BY <3>2, Apart
      <4> QED BY <1>5, <4>1
    <3> QED BY <3>1, <3>3, CountsSame DEF TypeOK
  <2>4. CASE b \in Battlegrounds
    <3>1. p \in InvitedTo(b)
      BY GroupInfoIs DEF InvitedTo
    <3>2. p \in Engaged(b)
      BY <3>1, EngagedIs
    <3>3. Exists(b)
      BY <2>4, <3>2, SlotNames DEF Exists, Freed
    <3>4. Forget(b, p)
      BY <3>3 DEF RemovePlayer, DecreaseCount
    <3>5. \A c \in Battlegrounds : c # b => p \notin Engaged(c)
      BY <2>4, <3>2, Apart
    <3> HIDE DEF b
    <3> QED BY <1>5, <2>4, <3>2, <3>4, <3>5, CountsLeave
  <2> QED BY <2>2, <2>3, <2>4
<1>7. TypeOK'
  BY <1>2, <1>6, SlotNames DEF TypeOK, FreeSlot
<1>8. Whereabouts'
  BY <1>2, <1>3, <1>4 DEF Whereabouts
<1>9. Slots'
  <2> SUFFICES ASSUME NEW r \in Players
               PROVE  /\ r \notin online' => slot'[r] = "none"
                      /\ r \in online' => /\ slot'[r] = "queued" <=> r \in Waiting'
                                          /\ \A b \in Battlegrounds : slot'[r] = b <=> r \in Engaged(b)'
    BY DEF Slots
  <2>1. CASE r = p
    <3>1. slot'[r] = "none"
      BY <2>1 DEF FreeSlot, TypeOK
    <3> QED BY <1>2, <1>5, <2>1, <3>1, SlotNames
  <2>2. CASE r # p
    <3>1. slot'[r] = slot[r]
      BY <2>2 DEF FreeSlot, TypeOK
    <3> QED BY <1>2, <1>5, <2>2, <3>1 DEF Slots
  <2> QED BY <2>1, <2>2
<1>10. Freed'
  BY <1>5, FreedLess
<1>11. Deadlines'
  <2> SUFFICES ASSUME NEW r \in Players, NEW b \in Battlegrounds, NEW t \in Nat, Has(r, b, t)'
               PROVE  clock' <= t /\ [player |-> r, bg |-> b, time |-> t] \in events'
    BY DEF Deadlines
  <2>1. Has(r, b, t) /\ r # p
    BY <1>2
  <2>2. clock <= t /\ [player |-> r, bg |-> b, time |-> t] \in events
    BY <2>1 DEF Deadlines
  <2> QED BY <2>1, <2>2
<1> QED BY <1>2, <1>6, <1>7, <1>8, <1>9, <1>10, <1>11

\* A step that moves nobody keeps the slots.
LEMMA SlotsKept ==
    ASSUME TypeOK, Slots, UNCHANGED <<online, slot>>, Waiting' = Waiting,
           \A c \in Battlegrounds : Engaged(c)' = Engaged(c)
    PROVE  Slots'
BY DEF Slots

\* A step that leaves queue and clock and takes no event away keeps the
\* deadlines.
LEMMA DeadlinesKept ==
    ASSUME Deadlines, UNCHANGED <<clock, queue>>, events \subseteq events'
    PROVE  Deadlines'
BY DEF Deadlines, Has

\* A step that leaves the queue keeps all that is said of it.
LEMMA QueueKept ==
    ASSUME UNCHANGED queue
    PROVE  /\ Waiting' = Waiting /\ \A b : InvitedTo(b)' = InvitedTo(b)
           /\ \A p : Queued(p)' <=> Queued(p)
           /\ \A p, b, t : Has(p, b, t)' <=> Has(p, b, t)
           /\ Groups' <=> Groups
BY DEF Waiting, InvitedTo, Queued, Has, Groups

-----------------------------------------------------------------------------
(* The steps *)

\* AddGroup: who has a free slot is nowhere.
LEMMA AddGroupOK ==
    ASSUME QueueInv, NEW M \in SUBSET Players, AddGroup(M)
    PROVE  QueueInv'
<1> USE DEF QueueInv
<1>0. queue \subseteq GroupInfos
  BY DEF TypeOK
<1>1. ASSUME NEW p \in M PROVE ~Queued(p) /\ p \in online /\ p \in Players /\ slot[p] = "none"
  <2>1. p \in online /\ slot[p] = "none" /\ p \in Players
    BY DEF AddGroup
  <2>2. p \notin Waiting /\ \A b \in Battlegrounds : p \notin InvitedTo(b)
    BY <2>1, SlotNames, EngagedIs DEF Slots
  <2> QED BY <1>0, <2>1, <2>2, ViewIs
<1>2. /\ queue' \subseteq GroupInfos /\ Groups'
      /\ Waiting' = Waiting \cup M
      /\ \A b \in Battlegrounds : InvitedTo(b)' = InvitedTo(b)
      /\ \A r, t : \A b \in Battlegrounds : Has(r, b, t)' <=> Has(r, b, t)
      /\ \A r : Queued(r)' <=> Queued(r) \/ r \in M
  BY <1>0, <1>1, Added DEF AddGroup
<1>3. /\ UNCHANGED <<online, bgId, loading, status, invited, data, inside, events, clock>>
      /\ slot' = [p \in Players |-> IF p \in M THEN "queued" ELSE slot[p]]
  BY DEF AddGroup, bgVars
<1>4. ASSUME NEW b \in Battlegrounds PROVE Engaged(b)' = Engaged(b)
  BY <1>2, <1>3 DEF Engaged, LoadingInto
<1>5. TypeOK'
  BY <1>2, <1>3 DEF TypeOK
<1>6. Whereabouts'
  <2>1. ASSUME NEW p \in M, NEW b \in Battlegrounds PROVE p \notin loading /\ p \notin inside[b]
    BY <1>1, EngagedIs, SlotNames DEF Slots, Whereabouts
  <2> QED BY <1>1, <1>2, <1>3, <2>1 DEF Whereabouts
<1>7. Slots'
  <2> SUFFICES ASSUME NEW r \in Players
               PROVE  /\ r \notin online => slot'[r] = "none"
                      /\ r \in online => /\ slot'[r] = "queued" <=> r \in Waiting'
                                         /\ \A b \in Battlegrounds : slot'[r] = b <=> r \in Engaged(b)
    BY <1>3, <1>4 DEF Slots
  <2>1. CASE r \in M
    <3>1. slot'[r] = "queued" /\ \A b \in Battlegrounds : r \notin Engaged(b)
      BY <1>1, <1>3, <2>1, SlotNames DEF Slots
    <3> QED BY <1>1, <1>2, <2>1, <3>1, SlotNames
  <2>2. CASE r \notin M
    <3>1. slot'[r] = slot[r]
      BY <1>3, <2>2
    <3> QED BY <1>2, <2>2, <3>1 DEF Slots
  <2> QED BY <2>1, <2>2
<1>8. Counts' /\ Freed'
  BY <1>3, <1>4, CountsSame, FreedLess
<1>9. Deadlines'
  BY <1>2, <1>3 DEF Deadlines
<1> QED BY <1>2, <1>5, <1>6, <1>7, <1>8, <1>9

\* InviteGroupToBG for the groups of a proposal, into a new or a running
\* battleground.
LEMMA InviteGroupsOK ==
    ASSUME QueueInv, NEW b \in Battlegrounds, NEW G \in Proposals(b), InviteGroups(b, G),
           status' \in [Battlegrounds -> {"free", "running", "ending"}],
           status'[b] = "running", \A c \in Battlegrounds : c # b => status'[c] = status[c]
    PROVE  QueueInv'
<1> USE DEF QueueInv
<1> DEFINE X == Members(G)
           d == clock + WaitTime
<1>0. queue \subseteq GroupInfos /\ d \in Nat /\ clock \in Nat /\ clock <= d
  BY BattlegroundQueueAssumption DEF TypeOK
<1>1. G \in SUBSET queue /\ (\A g \in G : g.bg = None) /\ Fits(b, G)
  BY DEF Proposals
<1>2. queue' = (queue \ G) \cup {[g EXCEPT !.bg = b, !.time = d] : g \in G}
  BY DEF InviteGroups
<1>3. /\ queue' \subseteq GroupInfos /\ Groups'
      /\ X \subseteq Waiting
      /\ Waiting' = Waiting \ X
      /\ InvitedTo(b)' = InvitedTo(b) \cup X
      /\ \A c \in Battlegrounds \ {b} : InvitedTo(c)' = InvitedTo(c)
      /\ \A r, t : \A c \in Battlegrounds :
            Has(r, c, t)' <=> Has(r, c, t) \/ (r \in X /\ c = b /\ t = d)
      /\ \A r : Queued(r)' <=> Queued(r)
  <2> HIDE DEF d
  <2> QED BY <1>0, <1>1, <1>2, Invited
<1>4. ASSUME NEW r \in X
      PROVE  /\ r \in Players /\ r \in online /\ r \in Waiting /\ Queued(r)
             /\ \A c \in Battlegrounds : r \notin Engaged(c)
  <2>1. r \in Waiting
    BY <1>3
  <2>2. Queued(r) /\ r \in Players
    BY <1>0, <2>1, ViewIs
  <2> QED BY <2>1, <2>2, Apart DEF Whereabouts
<1>5. X \cap online = X /\ X \subseteq Players
  BY <1>4
<1>6. /\ invited' = [invited EXCEPT ![b] = @ + Cardinality(X)]
      /\ data' = [data EXCEPT ![b] = @ \cup X]
      /\ slot' = [p \in Players |-> IF p \in X THEN b ELSE slot[p]]
      /\ events' = events \cup RemoveEvents(X, b, d)
      /\ UNCHANGED <<online, bgId, loading, inside, clock>>
  <2>1. (UNION {g.players : g \in G}) \cap online = X
    BY <1>5 DEF Members
  <2> QED BY <2>1 DEF InviteGroups
<1> HIDE DEF X, d
<1>7. Engaged(b)' = Engaged(b) \cup X
  <2>1. \A r : r \in Engaged(b)' <=> r \in Engaged(b) \/ r \in X
    BY <1>3, <1>6, EngagedIs
  <2> QED BY <2>1
<1>8. ASSUME NEW c \in Battlegrounds, c # b PROVE Engaged(c)' = Engaged(c)
  BY <1>3, <1>6, <1>8 DEF Engaged, LoadingInto
<1>9. ASSUME NEW c \in Battlegrounds
      PROVE  /\ invited'[c] \in Nat /\ data'[c] \in SUBSET Players
             /\ CountOK(invited'[c], Engaged(c)', data'[c])
  <2>1. /\ invited[c] \in Nat /\ data[c] \in SUBSET Players
        /\ CountOK(invited[c], Engaged(c), data[c])
    BY DEF TypeOK, Counts
  <2>2. CASE c # b
    <3>1. invited'[c] = invited[c] /\ data'[c] = data[c]
      BY <1>6, <2>2 DEF TypeOK
    <3> QED BY <1>8, <2>1, <2>2, <3>1
  <2>3. CASE c = b
    <3>1. /\ invited'[c] = invited[c] + Cardinality(X) /\ data'[c] = data[c] \cup X
         
      BY <1>6, <2>3 DEF TypeOK
    <3>2. IsFiniteSet(G) /\ \A g \in G : IsFiniteSet(g.players)
      <4>1. \A g \in G : g.players \subseteq Players
        BY <1>0, <1>1 DEF GroupInfos
      <4> QED BY <1>1, <4>1, FS_Subset, BattlegroundQueueAssumption DEF Groups
    <3>3. Sizes(G) \in Int /\ Cardinality(X) <= Sizes(G)
      BY <3>2, MembersBound DEF X
    <3>4. Cardinality(data[c]) + Sizes(G) <= MaxPlayers
      BY <1>1, <2>3 DEF Fits, Sizes
    <3>5. X \cap Engaged(c) = {}
      BY <1>4
    <3>6. /\ invited[c] + Cardinality(X) \in Nat
          /\ CountOK(invited[c] + Cardinality(X), Engaged(c) \cup X, data[c] \cup X)
      BY <1>5, <2>1, <3>3, <3>4, <3>5, CountJoins
    <3> QED BY <1>5, <1>7, <2>1, <2>3, <3>1, <3>6
  <2> QED BY <2>2, <2>3
<1>10. TypeOK'
  <2>1. invited' \in [Battlegrounds -> Nat] /\ data' \in [Battlegrounds -> SUBSET Players]
    <3>1. invited' = [c \in Battlegrounds |-> invited'[c]] /\ data' = [c \in Battlegrounds |-> data'[c]]
      BY <1>6 DEF TypeOK
    <3> QED BY <1>9, <3>1
  <2>2. slot' \in [Players -> {"none", "queued"} \cup Battlegrounds]
    BY <1>6 DEF TypeOK
  <2>3. events' \subseteq [player : Players, bg : Battlegrounds, time : Nat]
    BY <1>0, <1>5, <1>6 DEF TypeOK, RemoveEvents
  <2> QED BY <1>3, <1>6, <2>1, <2>2, <2>3 DEF TypeOK
<1>11. Whereabouts'
  BY <1>3, <1>6 DEF Whereabouts
<1>12. Slots'
  <2> SUFFICES ASSUME NEW r \in Players
               PROVE  /\ r \notin online => slot'[r] = "none"
                      /\ r \in online => /\ slot'[r] = "queued" <=> r \in Waiting'
                                         /\ \A c \in Battlegrounds : slot'[r] = c <=> r \in Engaged(c)'
    BY <1>6 DEF Slots
  <2>1. CASE r \in X
    <3>1. slot'[r] = b /\ r \in online /\ r \notin Waiting'
      BY <1>3, <1>4, <1>6, <2>1
    <3>2. r \in Engaged(b)' /\ \A c \in Battlegrounds : c # b => r \notin Engaged(c)'
      BY <1>4, <1>7, <1>8, <2>1
    <3> QED BY <3>1, <3>2, SlotNames
  <2>2. CASE r \notin X
    <3>1. slot'[r] = slot[r] /\ (r \in Waiting' <=> r \in Waiting)
      BY <1>3, <1>6, <2>2
    <3>2. \A c \in Battlegrounds : r \in Engaged(c)' <=> r \in Engaged(c)
      BY <1>7, <1>8, <2>2
    <3> QED BY <3>1, <3>2 DEF Slots
  <2> QED BY <2>1, <2>2
<1>13. Counts'
  BY <1>9 DEF Counts
<1>14. Freed'
  BY <1>8 DEF Freed
<1>15. Deadlines'
  <2> SUFFICES ASSUME NEW r \in Players, NEW c \in Battlegrounds, NEW t \in Nat, Has(r, c, t)'
               PROVE  clock <= t /\ [player |-> r, bg |-> c, time |-> t] \in events'
    BY <1>6 DEF Deadlines
  <2>1. CASE Has(r, c, t)
    BY <1>6, <2>1 DEF Deadlines
  <2>2. CASE r \in X /\ c = b /\ t = d
    BY <1>0, <1>6, <2>2 DEF RemoveEvents
  <2> QED BY <1>3, <2>1, <2>2
<1> QED BY <1>3, <1>10, <1>11, <1>12, <1>13, <1>14, <1>15

\* HandleBattleFieldPortOpcode, enter: from the queue into loading, still
\* counted.
LEMMA PortEnterOK ==
    ASSUME QueueInv, NEW p \in Players, PortEnter(p)
    PROVE  QueueInv'
<1> USE DEF QueueInv
<1> DEFINE b == GroupInfo(p).bg
<1>0. queue \subseteq GroupInfos
  BY DEF TypeOK
<1>1. /\ p \in online /\ p \notin loading /\ Queued(p) /\ Exists(b) /\ slot[p] \in Battlegrounds
      /\ bgId' = [bgId EXCEPT ![p] = b] /\ loading' = loading \cup {p}
      /\ RemovePlayer(p, KeepCount)
      /\ UNCHANGED <<online, slot, status, inside, events, clock>>
  BY DEF PortEnter, PortMode
<1>2. queue' = Erase(p) /\ UNCHANGED <<invited, data>>
  BY <1>1 DEF RemovePlayer, KeepCount
<1>3. /\ queue' \subseteq GroupInfos /\ Groups'
      /\ Waiting' = Waiting \ {p}
      /\ \A c : InvitedTo(c)' = InvitedTo(c) \ {p}
      /\ \A r, c, t : Has(r, c, t)' <=> Has(r, c, t) /\ r # p
      /\ \A r : Queued(r)' <=> Queued(r) /\ r # p
  BY <1>0, <1>1, <1>2, Erased
<1>4. b \in Battlegrounds /\ p \in InvitedTo(b) /\ p \in Engaged(b)
  <2>1. GroupInfo(p) \in queue /\ p \in GroupInfo(p).players
    BY <1>1, GroupInfoIs
  <2>2. b \in Battlegrounds \cup {None}
    BY <1>0, <2>1 DEF GroupInfos
  <2>3. b # None
    BY <1>1 DEF Exists
  <2>4. p \in InvitedTo(b)
    BY <2>1 DEF InvitedTo
  <2> QED BY <2>2, <2>3, <2>4, EngagedIs
<1> HIDE DEF b
<1>5. p \notin Waiting /\ \A c \in Battlegrounds : p \notin inside[c] /\ (c # b => p \notin Engaged(c))
  BY <1>1, <1>4, Apart DEF Whereabouts
<1>6. bgId'[p] = b /\ \A r \in Players : r # p => bgId'[r] = bgId[r]
  BY <1>1 DEF TypeOK
<1>7. loading \subseteq Players
  BY DEF TypeOK
<1>8. ASSUME NEW c \in Battlegrounds PROVE Engaged(c)' = Engaged(c)
  <2>1. ASSUME NEW r PROVE r \in Engaged(c)' <=> r \in Engaged(c)
    <3>1. CASE r = p
      BY <1>1, <1>3, <1>4, <1>5, <1>6, <3>1, EngagedIs
    <3>2. CASE r # p
      <4>1. r \in loading' <=> r \in loading
        BY <1>1, <3>2
      <4>2. r \in loading => bgId'[r] = bgId[r]
        BY <1>6, <1>7, <3>2
      <4> QED BY <1>1, <1>3, <3>2, <4>1, <4>2, EngagedIs
    <3> QED BY <3>1, <3>2
  <2> QED BY <2>1
<1>9. TypeOK'
  BY <1>1, <1>2, <1>3, <1>4 DEF TypeOK
<1>10. Whereabouts'
  BY <1>1, <1>3, <1>4, <1>5, <1>6 DEF Whereabouts
<1>11. Slots'
  BY <1>1, <1>3, <1>5, <1>8, SlotsKept
<1>12. Counts' /\ Freed'
  BY <1>1, <1>2, <1>8, CountsSame, FreedLess
<1>13. Deadlines'
  BY <1>1, <1>3 DEF Deadlines
<1> QED BY <1>3, <1>9, <1>10, <1>11, <1>12, <1>13

\* HandleBattleFieldPortOpcode, leave.
LEMMA PortLeaveOK ==
    ASSUME QueueInv, NEW p \in Players, PortLeave(p)
    PROVE  QueueInv'
BY Declined DEF PortLeave

\* HandleMoveWorldportAckOpcode: the battleground still exists and the slot
\* still names it, so who arrives is always let in, and everybody stays where
\* he is engaged.
LEMMA TeleportIs ==
    ASSUME QueueInv, NEW p \in Players, CompleteTeleport(p), UNCHANGED bgId,
           \A c \in Battlegrounds : InvitedTo(c)' = InvitedTo(c)
    PROVE  /\ inside' \in [Battlegrounds -> SUBSET Players]
           /\ \A c \in Battlegrounds : Engaged(c)' = Engaged(c)
           /\ \A r \in Players : \A c \in Battlegrounds :
                r \in inside'[c] => r \in inside[c] \/ (r = p /\ p \in loading /\ bgId[p] = c)
<1> USE DEF QueueInv
<1>1. /\ loading' = loading \ {p}
      /\ inside' = [b \in Battlegrounds |->
            IF p \in loading /\ bgId[p] = b /\ Exists(b) /\ slot[p] = b
            THEN inside[b] \cup {p} ELSE inside[b]]
  BY DEF CompleteTeleport
<1>2. ASSUME NEW c \in Battlegrounds, p \in loading, bgId[p] = c PROVE Exists(c) /\ slot[p] = c
  <2>1. p \in Engaged(c) /\ p \in online
    BY <1>2, EngagedIs DEF Whereabouts
  <2> QED BY <2>1, SlotNames DEF Exists, Freed, Slots
<1>3. ASSUME NEW c \in Battlegrounds
      PROVE  inside'[c] = IF p \in loading /\ bgId[p] = c THEN inside[c] \cup {p} ELSE inside[c]
  BY <1>1, <1>2
<1>4. inside' \in [Battlegrounds -> SUBSET Players]
  BY <1>1 DEF TypeOK
<1>5. ASSUME NEW c \in Battlegrounds PROVE Engaged(c)' = Engaged(c)
  <2>1. ASSUME NEW r PROVE r \in Engaged(c)' <=> r \in Engaged(c)
    BY <1>1, <1>3, EngagedIs
  <2> QED BY <2>1
<1> QED BY <1>3, <1>4, <1>5

\* Who arrives is let in.
LEMMA ArriveOK ==
    ASSUME QueueInv, NEW p \in Players, Arrive(p)
    PROVE  QueueInv'
<1> USE DEF QueueInv
<1>1. /\ p \in loading /\ loading' = loading \ {p} /\ CompleteTeleport(p)
      /\ UNCHANGED <<online, slot, bgId, status, invited, data, queue, events, clock>>
  BY DEF Arrive, CompleteTeleport
<1>2. /\ Groups' /\ Waiting' = Waiting /\ (\A r : Queued(r)' <=> Queued(r))
      /\ \A b : InvitedTo(b)' = InvitedTo(b)
  BY <1>1, QueueKept
<1>3. /\ inside' \in [Battlegrounds -> SUBSET Players]
      /\ \A c \in Battlegrounds : Engaged(c)' = Engaged(c)
      /\ \A r \in Players : \A c \in Battlegrounds :
           r \in inside'[c] => r \in inside[c] \/ (r = p /\ p \in loading /\ bgId[p] = c)
  BY <1>1, <1>2, TeleportIs
<1>4. TypeOK'
  BY <1>1, <1>3 DEF TypeOK
<1>5. Whereabouts'
  BY <1>1, <1>2, <1>3 DEF Whereabouts
<1>6. Slots'
  BY <1>1, <1>2, <1>3, SlotsKept
<1>7. Counts' /\ Freed'
  BY <1>1, <1>3, CountsSame, FreedLess
<1>8. Deadlines'
  BY <1>1, DeadlinesKept
<1> QED BY <1>2, <1>4, <1>5, <1>6, <1>7, <1>8

\* LogoutPlayer: from the queue, from inside, or while loading, when the
\* teleport is completed first and the player is inside like others.
LEMMA LogoutOK ==
    ASSUME QueueInv, NEW p \in Players, Logout(p)
    PROVE  QueueInv'
<1> USE DEF QueueInv
<1>1. /\ p \in online /\ online' = online \ {p} /\ slot' = FreeSlot(p)
      /\ RemovePlayer(p, DecreaseCount) /\ CompleteTeleport(p) /\ loading' = loading \ {p}
      /\ UNCHANGED <<bgId, status, events, clock>>
  BY DEF Logout, CompleteTeleport
<1>2. CASE Queued(p)
  <2>1. p \notin loading
    BY <1>2 DEF Whereabouts
  <2>2. inside' = inside
    BY <1>1, <2>1 DEF CompleteTeleport, TypeOK
  <2> QED BY <1>1, <1>2, <2>2, Declined
<1>3. CASE ~Queued(p)
  <2>1. UNCHANGED <<queue, invited, data>>
    BY <1>1, <1>3 DEF RemovePlayer
  <2>2. /\ Groups' /\ Waiting' = Waiting /\ (\A r : Queued(r)' <=> Queued(r))
        /\ \A b : InvitedTo(b)' = InvitedTo(b)
    BY <2>1, QueueKept
  <2>3. /\ inside' \in [Battlegrounds -> SUBSET Players]
        /\ \A c \in Battlegrounds : Engaged(c)' = Engaged(c)
        /\ \A r \in Players : \A c \in Battlegrounds :
             r \in inside'[c] => r \in inside[c] \/ (r = p /\ p \in loading /\ bgId[p] = c)
    BY <1>1, <2>2, TeleportIs
  <2>4. slot'[p] = "none" /\ \A r \in Players : r # p => slot'[r] = slot[r]
    BY <1>1 DEF FreeSlot, TypeOK
  <2>5. Whereabouts'
    BY <1>1, <1>3, <2>2, <2>3 DEF Whereabouts
  <2>6. Slots'
    <3> SUFFICES ASSUME NEW r \in Players
                 PROVE  /\ r \notin online' => slot'[r] = "none"
                        /\ r \in online' => /\ slot'[r] = "queued" <=> r \in Waiting'
                                            /\ \A b \in Battlegrounds : slot'[r] = b <=> r \in Engaged(b)'
      BY DEF Slots
    <3>1. CASE r = p
      BY <1>1, <2>4, <3>1
    <3>2. CASE r # p
      BY <1>1, <2>2, <2>3, <2>4, <3>2 DEF Slots
    <3> QED BY <3>1, <3>2
  <2>7. Counts' /\ Freed'
    BY <1>1, <2>1, <2>3, CountsSame, FreedLess
  <2>8. Deadlines'
    BY <1>1, <2>1, DeadlinesKept
  <2>9. TypeOK'
    BY <1>1, <2>1, <2>3 DEF TypeOK, FreeSlot
  <2> QED BY <2>2, <2>5, <2>6, <2>7, <2>8, <2>9
<1> QED BY <1>2, <1>3

\* A player who is inside is taken out, and the battleground forgets him.
LEMMA LeavesInside ==
    ASSUME QueueInv, NEW b \in Battlegrounds, NEW p \in inside[b],
           Forget(b, p), inside' = [inside EXCEPT ![b] = @ \ {p}],
           online' \subseteq Players, bgId' \in [Players -> Battlegrounds \cup {None}],
           slot' \in [Players -> {"none", "queued"} \cup Battlegrounds], slot'[p] = "none",
           \A r \in Players : r # p => /\ bgId'[r] = bgId[r] /\ slot'[r] = slot[r]
                                       /\ r \in online' <=> r \in online,
           UNCHANGED <<loading, status, queue, events, clock>>
    PROVE  QueueInv'
<1> USE DEF QueueInv
<1>1. p \in Players /\ bgId[p] = b /\ p \notin loading /\ ~Queued(p) /\ loading \subseteq Players
  BY DEF Whereabouts, TypeOK
<1>2. /\ Groups' /\ Waiting' = Waiting /\ (\A r : Queued(r)' <=> Queued(r))
      /\ \A c : InvitedTo(c)' = InvitedTo(c)
  BY QueueKept
<1>3. p \notin Waiting /\ \A c \in Battlegrounds : p \notin InvitedTo(c)
  BY <1>1, ViewIs DEF TypeOK
<1>4. inside'[b] = inside[b] \ {p} /\ \A c \in Battlegrounds : c # b => inside'[c] = inside[c]
  BY DEF TypeOK
<1>5. p \in Engaged(b) /\ \A c \in Battlegrounds : c # b => p \notin Engaged(c)
  BY <1>1, Apart, EngagedIs
<1>6. ASSUME NEW c \in Battlegrounds PROVE Engaged(c)' = Engaged(c) \ {p}
  <2>1. ASSUME NEW r PROVE r \in Engaged(c)' <=> r \in Engaged(c) /\ r # p
    <3>1. CASE r = p
      BY <1>1, <1>2, <1>3, <1>4, <1>5, <3>1, EngagedIs
    <3>2. CASE r # p
      <4>1. r \in loading => bgId'[r] = bgId[r]
        BY <1>1, <3>2
      <4> QED BY <1>2, <1>4, <3>2, <4>1, EngagedIs
    <3> QED BY <3>1, <3>2
  <2> QED BY <2>1
<1>7. /\ Counts'
      /\ invited' \in [Battlegrounds -> Nat]
      /\ data' \in [Battlegrounds -> SUBSET Players]
  BY <1>5, <1>6, CountsLeave
<1>8. TypeOK'
  BY <1>7 DEF TypeOK
<1>9. Whereabouts'
  <2> SUFFICES ASSUME NEW r \in Players
               PROVE  /\ Queued(r) => r \in online' /\ r \notin loading
                      /\ r \in loading => r \in online' /\ bgId'[r] \in Battlegrounds
                      /\ \A c \in Battlegrounds :
                           r \in inside'[c] => bgId'[r] = c /\ r \notin loading /\ ~Queued(r)
    BY <1>2 DEF Whereabouts
  <2>1. CASE r = p
    BY <1>1, <1>4, <1>5, <2>1, EngagedIs
  <2>2. CASE r # p
    BY <1>4, <2>2 DEF Whereabouts
  <2> QED BY <2>1, <2>2
<1>10. Slots'
  <2> SUFFICES ASSUME NEW r \in Players
               PROVE  /\ r \notin online' => slot'[r] = "none"
                      /\ r \in online' => /\ slot'[r] = "queued" <=> r \in Waiting
                                          /\ \A c \in Battlegrounds : slot'[r] = c <=> r \in Engaged(c)'
    BY <1>2 DEF Slots
  <2>1. CASE r = p
    BY <1>3, <1>6, <2>1, SlotNames
  <2>2. CASE r # p
    BY <1>6, <2>2 DEF Slots
  <2> QED BY <2>1, <2>2
<1>11. Freed' /\ Deadlines'
  BY <1>6, FreedLess, DeadlinesKept
<1> QED BY <1>2, <1>7, <1>8, <1>9, <1>10, <1>11

\* RemovePlayerAtLeave, of a connected player or at the end.
LEMMA RemovePlayerAtLeaveOK ==
    ASSUME QueueInv, NEW b \in Battlegrounds, NEW p \in Players, RemovePlayerAtLeave(b, p)
    PROVE  QueueInv'
<1>1. /\ p \in inside[b] /\ Forget(b, p) /\ inside' = [inside EXCEPT ![b] = @ \ {p}]
      /\ UNCHANGED <<online, loading, status, queue, events, clock>>
  BY DEF RemovePlayerAtLeave
<1>2. online' \subseteq Players
  BY <1>1 DEF QueueInv, TypeOK
<1>3. /\ bgId' \in [Players -> Battlegrounds \cup {None}]
      /\ slot' \in [Players -> {"none", "queued"} \cup Battlegrounds] /\ slot'[p] = "none"
      /\ \A r \in Players : r # p => bgId'[r] = bgId[r] /\ slot'[r] = slot[r]
  <2>1. CASE p \in online
    BY <2>1 DEF RemovePlayerAtLeave, FreeSlot, QueueInv, TypeOK
  <2>2. CASE p \notin online
    BY <2>2 DEF RemovePlayerAtLeave, QueueInv, TypeOK, Slots
  <2> QED BY <2>1, <2>2
<1> QED BY <1>1, <1>2, <1>3, LeavesInside

\* _ProcessOfflineQueue.
LEMMA RemoveOfflineOK ==
    ASSUME QueueInv, NEW b \in Battlegrounds, NEW p \in Players, RemoveOffline(b, p)
    PROVE  QueueInv'
<1>1. /\ p \in inside[b] /\ p \notin online /\ Forget(b, p)
      /\ inside' = [inside EXCEPT ![b] = @ \ {p}]
      /\ UNCHANGED <<online, slot, bgId, loading, status, queue, events, clock>>
  BY DEF RemoveOffline, playerVars
<1>2. /\ online' \subseteq Players /\ bgId' \in [Players -> Battlegrounds \cup {None}]
      /\ slot' \in [Players -> {"none", "queued"} \cup Battlegrounds] /\ slot'[p] = "none"
  BY <1>1 DEF QueueInv, TypeOK, Slots
<1> QED BY <1>1, <1>2, LeavesInside

\* Player::LoadFromDB: back inside, taken out of a battleground that ends, or
\* nowhere.
LEMMA LoginOK ==
    ASSUME QueueInv, NEW p \in Players, Login(p)
    PROVE  QueueInv'
<1> DEFINE b == bgId[p]
           present == b # None /\ p \in inside[b]
<1>1. /\ p \notin online /\ online' = online \cup {p}
      /\ UNCHANGED <<loading, status, queue, events, clock>>
  BY DEF Login
<1>2. b \in Battlegrounds \cup {None} /\ online' \subseteq Players /\ slot[p] = "none"
  BY <1>1 DEF QueueInv, TypeOK, Slots
<1>3. p \notin loading /\ ~Queued(p)
  BY <1>1 DEF QueueInv, Whereabouts
<1>4. /\ Groups' /\ Waiting' = Waiting /\ (\A r : Queued(r)' <=> Queued(r))
      /\ \A c : InvitedTo(c)' = InvitedTo(c)
  BY <1>1, QueueKept DEF QueueInv
<1>5. p \notin Waiting /\ \A c \in Battlegrounds : p \notin InvitedTo(c)
  BY <1>3, ViewIs DEF QueueInv, TypeOK
<1>6. CASE present /\ status[b] = "ending"
  <2>1. /\ Forget(b, p) /\ inside' = [inside EXCEPT ![b] = @ \ {p}]
        /\ bgId' = [bgId EXCEPT ![p] = None] /\ slot' = slot
    BY <1>6 DEF Login
  <2>2. /\ bgId' \in [Players -> Battlegrounds \cup {None}]
        /\ slot' \in [Players -> {"none", "queued"} \cup Battlegrounds] /\ slot'[p] = "none"
        /\ \A r \in Players : r # p => bgId'[r] = bgId[r] /\ slot'[r] = slot[r]
    BY <1>2, <2>1 DEF QueueInv, TypeOK
  <2>3. \A r \in Players : r # p => (r \in online' <=> r \in online)
    BY <1>1
  <2>4. b \in Battlegrounds /\ p \in inside[b]
    BY <1>2, <1>6
  <2> HIDE DEF b
  <2> QED BY <1>1, <1>2, <2>1, <2>2, <2>3, <2>4, LeavesInside
<1>7. CASE present /\ status[b] # "ending"
  <2>1. slot' = [slot EXCEPT ![p] = b] /\ UNCHANGED <<bgId, inside, invited, data>>
    BY <1>7 DEF Login
  <2>2. ASSUME NEW c \in Battlegrounds PROVE Engaged(c)' = Engaged(c)
    BY <1>1, <1>4, <2>1 DEF Engaged, LoadingInto
  <2>3. b \in Battlegrounds /\ p \in Engaged(b) /\ \A c \in Battlegrounds : c # b => p \notin Engaged(c)
    BY <1>2, <1>7, EngagedIs, Apart DEF QueueInv
  <2> HIDE DEF b
  <2>4. slot'[p] = b /\ \A r \in Players : r # p => slot'[r] = slot[r]
    BY <2>1 DEF QueueInv, TypeOK
  <2>5. TypeOK'
    BY <1>1, <1>2, <2>1, <2>3 DEF QueueInv, TypeOK
  <2>6. Whereabouts'
    BY <1>1, <1>4, <2>1 DEF QueueInv, Whereabouts
  <2>7. Slots'
    <3> SUFFICES ASSUME NEW r \in Players
                 PROVE  /\ r \notin online' => slot'[r] = "none"
                        /\ r \in online' => /\ slot'[r] = "queued" <=> r \in Waiting
                                            /\ \A c \in Battlegrounds : slot'[r] = c <=> r \in Engaged(c)
      BY <1>4, <2>2 DEF Slots
    <3>1. CASE r = p
      BY <1>1, <1>5, <2>3, <2>4, <3>1, SlotNames
    <3>2. CASE r # p
      BY <1>1, <2>4, <3>2 DEF QueueInv, Slots
    <3> QED BY <3>1, <3>2
  <2>8. Counts' /\ Freed' /\ Deadlines'
    BY <1>1, <2>1, <2>2, CountsSame, FreedLess, DeadlinesKept DEF QueueInv
  <2> QED BY <1>4, <2>5, <2>6, <2>7, <2>8 DEF QueueInv
<1>8. CASE ~present
  <2>1. bgId' = [bgId EXCEPT ![p] = None] /\ UNCHANGED <<slot, inside, invited, data>>
    BY <1>8 DEF Login
  <2>2. \A r \in Players : r # p => bgId'[r] = bgId[r]
    BY <2>1 DEF QueueInv, TypeOK
  <2>3. \A c \in Battlegrounds : p \notin inside[c]
    BY <1>2, <1>8, SlotNames DEF QueueInv, Whereabouts
  <2>4. loading \subseteq Players
    BY DEF QueueInv, TypeOK
  <2>5. ASSUME NEW c \in Battlegrounds PROVE Engaged(c)' = Engaged(c)
    <3>1. ASSUME NEW r PROVE r \in Engaged(c)' <=> r \in Engaged(c)
      <4>1. r \in loading => bgId'[r] = bgId[r]
        BY <1>3, <2>2, <2>4
      <4> QED BY <1>1, <1>4, <2>1, <4>1, EngagedIs
    <3> QED BY <3>1
  <2>6. \A c \in Battlegrounds : p \notin Engaged(c)
    BY <1>3, <1>5, <2>3, EngagedIs
  <2>7. TypeOK'
    BY <1>1, <1>2, <2>1 DEF QueueInv, TypeOK
  <2>8. Whereabouts'
    BY <1>1, <1>3, <1>4, <2>1, <2>2, <2>3 DEF QueueInv, Whereabouts
  <2>9. Slots'
    <3> SUFFICES ASSUME NEW r \in Players
                 PROVE  /\ r \notin online' => slot[r] = "none"
                        /\ r \in online' => /\ slot[r] = "queued" <=> r \in Waiting
                                            /\ \A c \in Battlegrounds : slot[r] = c <=> r \in Engaged(c)
      BY <1>4, <2>1, <2>5 DEF Slots
    <3>1. CASE r = p
      BY <1>1, <1>2, <1>5, <2>6, <3>1, SlotNames
    <3>2. CASE r # p
      BY <1>1, <3>2 DEF QueueInv, Slots
    <3> QED BY <3>1, <3>2
  <2>10. Counts' /\ Freed' /\ Deadlines'
    BY <1>1, <2>1, <2>5, CountsSame, FreedLess, DeadlinesKept DEF QueueInv
  <2> QED BY <1>4, <2>7, <2>8, <2>9, <2>10 DEF QueueInv
<1> QED BY <1>6, <1>7, <1>8

\* BGQueueRemoveEvent: it ends the invitation it was made for, or that is gone.
LEMMA RemoveEventOK ==
    ASSUME QueueInv, NEW e \in events, RemoveEvent(e)
    PROVE  QueueInv'
<1> DEFINE p == e.player
<1>1. p \in Players /\ e.bg \in Battlegrounds /\ e.time \in Nat
      /\ e = [player |-> p, bg |-> e.bg, time |-> e.time]
  BY DEF QueueInv, TypeOK
<1>2. /\ events' = events \ {e}
      /\ UNCHANGED <<online, bgId, loading, status, inside, clock>>
  BY DEF RemoveEvent
<1>3. CASE p \in online /\ slot[p] # "none" /\ IsPlayerInvited(e)
  <2>1. slot' = FreeSlot(p) /\ RemovePlayer(p, DecreaseCount) /\ Queued(p)
    BY <1>3 DEF RemoveEvent, IsPlayerInvited
  <2> HIDE DEF p
  <2>2. events' \subseteq events /\ \A d \in events : d.player = p \/ d \in events'
    BY <1>2 DEF p
  <2> QED BY <1>1, <1>2, <2>1, <2>2, Declined
<1>4. CASE ~(p \in online /\ slot[p] # "none" /\ IsPlayerInvited(e))
  <2>1. UNCHANGED <<slot, queue, invited, data>>
    BY <1>4 DEF RemoveEvent
  <2>2. /\ Groups' /\ Waiting' = Waiting /\ (\A r : Queued(r)' <=> Queued(r))
        /\ (\A c : InvitedTo(c)' = InvitedTo(c))
        /\ \A r, b, t : Has(r, b, t)' <=> Has(r, b, t)
    BY <2>1, QueueKept DEF QueueInv
  <2>3. ASSUME NEW c \in Battlegrounds PROVE Engaged(c)' = Engaged(c)
    BY <1>2, <2>2 DEF Engaged, LoadingInto
  <2>4. ~Has(p, e.bg, e.time)
    <3> SUFFICES ASSUME Has(p, e.bg, e.time) PROVE FALSE
      OBVIOUS
    <3>1. Queued(p) /\ p \in InvitedTo(e.bg)
      BY <1>1, ViewIs DEF QueueInv, TypeOK
    <3>2. IsPlayerInvited(e)
      BY <3>1, GroupInfoHas DEF IsPlayerInvited, QueueInv
    <3>3. p \in online
      BY <1>1, <3>1 DEF QueueInv, Whereabouts
    <3>4. slot[p] = e.bg
      BY <1>1, <3>1, <3>3, EngagedIs DEF QueueInv, Slots
    <3> QED BY <1>1, <1>4, <3>2, <3>3, <3>4, SlotNames
  <2>5. TypeOK' /\ Whereabouts'
    BY <1>2, <2>1, <2>2 DEF QueueInv, TypeOK, Whereabouts
  <2>6. Slots' /\ Counts' /\ Freed'
    BY <1>2, <2>1, <2>2, <2>3, SlotsKept, CountsSame, FreedLess DEF QueueInv
  <2>7. Deadlines'
    <3> SUFFICES ASSUME NEW r \in Players, NEW c \in Battlegrounds, NEW t \in Nat, Has(r, c, t)
                 PROVE  clock <= t /\ [player |-> r, bg |-> c, time |-> t] \in events'
      BY <1>2, <2>2 DEF Deadlines
    <3>1. clock <= t /\ [player |-> r, bg |-> c, time |-> t] \in events
      BY DEF QueueInv, Deadlines
    <3>2. [player |-> r, bg |-> c, time |-> t] # e
      BY <2>4
    <3> QED BY <1>2, <3>1, <3>2
  <2> QED BY <2>2, <2>5, <2>6, <2>7 DEF QueueInv
<1> QED BY <1>3, <1>4

\* A step that changes only the clock or a status that stays other than free
\* keeps the invariant.
LEMMA NothingMoves ==
    ASSUME QueueInv, UNCHANGED <<queue, online, slot, bgId, loading, inside,
                                 invited, data, events>>,
           status' \in [Battlegrounds -> {"free", "running", "ending"}],
           \A b \in Battlegrounds : status'[b] = "free" => status[b] = "free",
           clock' \in 0 .. EndOfTime,
           \A p \in Players : \A b \in Battlegrounds : \A t \in Nat : Has(p, b, t) => clock' <= t
    PROVE  QueueInv'
<1>1. /\ Groups' /\ Waiting' = Waiting /\ (\A r : Queued(r)' <=> Queued(r))
      /\ (\A c : InvitedTo(c)' = InvitedTo(c))
      /\ \A r, b, t : Has(r, b, t)' <=> Has(r, b, t)
  BY QueueKept DEF QueueInv
<1>2. ASSUME NEW c \in Battlegrounds PROVE Engaged(c)' = Engaged(c)
  BY <1>1 DEF Engaged, LoadingInto
<1>3. TypeOK'
  BY DEF QueueInv, TypeOK
<1>4. Whereabouts'
  BY <1>1 DEF QueueInv, Whereabouts
<1>5. Slots' /\ Counts'
  BY <1>1, <1>2, SlotsKept, CountsSame DEF QueueInv
<1>6. Freed'
  BY <1>2 DEF QueueInv, Freed
<1>7. Deadlines'
  BY <1>1 DEF QueueInv, Deadlines
<1> QED BY <1>1, <1>3, <1>4, <1>5, <1>6, <1>7 DEF QueueInv

\* The clock does not pass a pending event, so it does not pass an invitation.
LEMMA TickOK ==
    ASSUME QueueInv, Tick
    PROVE  QueueInv'
<1>1. /\ clock < EndOfTime /\ clock' = clock + 1 /\ \A e \in events : e.time > clock
      /\ UNCHANGED <<queue, online, slot, bgId, loading, status, inside,
                     invited, data, events>>
  BY DEF Tick, playerVars, bgVars
<1>2. clock' \in 0 .. EndOfTime /\ clock \in Nat
  BY <1>1, BattlegroundQueueAssumption DEF QueueInv, TypeOK
<1>3. ASSUME NEW p \in Players, NEW b \in Battlegrounds, NEW t \in Nat, Has(p, b, t)
      PROVE  clock' <= t
  <2>1. [player |-> p, bg |-> b, time |-> t] \in events
    BY <1>3 DEF QueueInv, Deadlines
  <2>2. t > clock
    BY <1>1, <2>1
  <2> QED BY <1>1, <1>2, <2>2
<1>4. status' \in [Battlegrounds -> {"free", "running", "ending"}]
  BY <1>1 DEF QueueInv, TypeOK
<1> QED BY <1>1, <1>2, <1>3, <1>4, NothingMoves

\* EndBattleground changes the status only.
LEMMA EndBattlegroundOK ==
    ASSUME QueueInv, NEW b \in Battlegrounds, EndBattleground(b)
    PROVE  QueueInv'
<1>1. /\ status[b] = "running" /\ status' = [status EXCEPT ![b] = "ending"]
      /\ UNCHANGED <<queue, online, slot, bgId, loading, inside,
                     invited, data, events, clock>>
  BY DEF EndBattleground, playerVars
<1>2. /\ status' \in [Battlegrounds -> {"free", "running", "ending"}]
      /\ \A c \in Battlegrounds : status'[c] = "free" => status[c] = "free"
      /\ clock' \in 0 .. EndOfTime
  BY <1>1 DEF QueueInv, TypeOK
<1>3. \A p \in Players : \A c \in Battlegrounds : \A t \in Nat : Has(p, c, t) => clock' <= t
  BY <1>1 DEF QueueInv, Deadlines
<1> QED BY <1>1, <1>2, <1>3, NothingMoves

\* Battleground::Update deletes when the counter is zero: then nobody is
\* engaged.
LEMMA DeleteOK ==
    ASSUME QueueInv, NEW b \in Battlegrounds, Delete(b)
    PROVE  QueueInv'
<1>1. /\ invited[b] = 0
      /\ status' = [status EXCEPT ![b] = "free"] /\ invited' = [invited EXCEPT ![b] = 0]
      /\ data' = [data EXCEPT ![b] = {}]
      /\ UNCHANGED <<online, slot, bgId, loading, inside, queue, events, clock>>
  BY DEF Delete, Abandoned, playerVars
<1>2. Engaged(b) = {}
  <2>1. CountOK(0, Engaged(b), data[b]) /\ data[b] \in SUBSET Players
    BY <1>1 DEF QueueInv, Counts, TypeOK
  <2> QED BY <2>1, CountZero
<1>3. /\ Groups' /\ Waiting' = Waiting /\ (\A r : Queued(r)' <=> Queued(r))
      /\ (\A c : InvitedTo(c)' = InvitedTo(c))
  BY <1>1, QueueKept DEF QueueInv
<1>4. ASSUME NEW c \in Battlegrounds PROVE Engaged(c)' = Engaged(c)
  BY <1>1, <1>3 DEF Engaged, LoadingInto
<1>5. TypeOK'
  BY <1>1 DEF QueueInv, TypeOK
<1>6. Whereabouts'
  BY <1>1, <1>3 DEF QueueInv, Whereabouts
<1>7. Slots' /\ Deadlines'
  BY <1>1, <1>3, <1>4, SlotsKept, DeadlinesKept DEF QueueInv
<1>8. Freed'
  BY <1>1, <1>2, <1>4 DEF QueueInv, Freed, TypeOK
<1>9. Counts'
  <2> SUFFICES ASSUME NEW c \in Battlegrounds
               PROVE  CountOK(invited'[c], Engaged(c), data'[c])
    BY <1>4 DEF Counts
  <2>1. CASE c = b
    <3>1. invited'[c] = 0 /\ data'[c] = {}
      BY <1>1, <2>1 DEF QueueInv, TypeOK
    <3>2. Cardinality({}) = 0
      BY FS_EmptySet
    <3>3. CountOK(0, {}, {})
      BY <3>2, BattlegroundQueueAssumption DEF CountOK
    <3> QED BY <1>2, <2>1, <3>1, <3>3
  <2>2. CASE c # b
    <3>1. invited'[c] = invited[c] /\ data'[c] = data[c]
      BY <1>1, <2>2 DEF QueueInv, TypeOK
    <3> QED BY <3>1 DEF QueueInv, Counts
  <2> QED BY <2>1, <2>2
<1> QED BY <1>3, <1>5, <1>6, <1>7, <1>8, <1>9 DEF QueueInv

\* The invariant holds when the server starts.
LEMMA InitOK == Init => QueueInv
<1> SUFFICES ASSUME Init PROVE QueueInv
  OBVIOUS
<1>1. TypeOK
  BY BattlegroundQueueAssumption DEF Init, TypeOK
<1>2. Groups /\ Waiting = {} /\ (\A p : ~Queued(p)) /\ \A p, b, t : ~Has(p, b, t)
  BY FS_EmptySet DEF Init, Groups, Waiting, Queued, Has
<1>3. \A b \in Battlegrounds : Engaged(b) = {}
  BY DEF Init, Engaged, InvitedTo, LoadingInto
<1>4. Whereabouts /\ Freed /\ Deadlines
  BY <1>2, <1>3 DEF Init, Whereabouts, Freed, Deadlines
<1>5. Slots
  BY <1>2, <1>3, SlotNames DEF Init, Slots
<1>6. Counts
  <2>1. Cardinality({}) = 0
    BY FS_EmptySet
  <2> QED BY <1>3, <2>1, BattlegroundQueueAssumption DEF Init, Counts, CountOK
<1> QED BY <1>1, <1>2, <1>4, <1>5, <1>6 DEF QueueInv

\* Every handler keeps the invariant.
LEMMA NextOK == QueueInv /\ [Next]_vars => QueueInv'
<1> SUFFICES ASSUME QueueInv, [Next]_vars PROVE QueueInv'
  OBVIOUS
<1>1. CASE UNCHANGED vars
  <2>1. UNCHANGED <<queue, online, slot, bgId, loading, status, inside,
                    invited, data, events, clock>>
    BY <1>1 DEF vars, playerVars, bgVars
  <2>2. /\ status' \in [Battlegrounds -> {"free", "running", "ending"}]
        /\ clock' \in 0 .. EndOfTime
    BY <2>1 DEF QueueInv, TypeOK
  <2>3. \A p \in Players : \A b \in Battlegrounds : \A t \in Nat : Has(p, b, t) => clock' <= t
    BY <2>1 DEF QueueInv, Deadlines
  <2> QED BY <2>1, <2>2, <2>3, NothingMoves
<1>2. ASSUME NEW M \in SUBSET Players, AddGroup(M) PROVE QueueInv'
  BY <1>2, AddGroupOK
<1>3. ASSUME NEW e \in events, RemoveEvent(e) PROVE QueueInv'
  BY <1>3, RemoveEventOK
<1>4. CASE Tick
  BY <1>4, TickOK
<1>5. ASSUME NEW p \in Players, PortEnter(p) PROVE QueueInv'
  BY <1>5, PortEnterOK
<1>6. ASSUME NEW p \in Players, PortLeave(p) PROVE QueueInv'
  BY <1>6, PortLeaveOK
<1>7. ASSUME NEW p \in Players, Arrive(p) PROVE QueueInv'
  BY <1>7, ArriveOK
<1>8. ASSUME NEW p \in Players, Logout(p) PROVE QueueInv'
  BY <1>8, LogoutOK
<1>9. ASSUME NEW p \in Players, Login(p) PROVE QueueInv'
  BY <1>9, LoginOK
<1>10. ASSUME NEW b \in Battlegrounds, Fill(b) PROVE QueueInv'
  <2>1. PICK G \in Proposals(b) : InviteGroups(b, G)
    BY <1>10 DEF Fill
  <2>2. status[b] = "running" /\ status' = status
    BY <1>10 DEF Fill
  <2>3. status' \in [Battlegrounds -> {"free", "running", "ending"}]
    BY <2>2 DEF QueueInv, TypeOK
  <2> QED BY <2>1, <2>2, <2>3, InviteGroupsOK
<1>11. ASSUME NEW b \in Battlegrounds, StartBattleground(b) PROVE QueueInv'
  <2>1. PICK G \in Proposals(b) : InviteGroups(b, G)
    BY <1>11 DEF StartBattleground
  <2>2. status' = [status EXCEPT ![b] = "running"]
    BY <1>11 DEF StartBattleground
  <2>3. /\ status' \in [Battlegrounds -> {"free", "running", "ending"}]
        /\ status'[b] = "running" /\ \A c \in Battlegrounds : c # b => status'[c] = status[c]
    BY <2>2 DEF QueueInv, TypeOK
  <2> QED BY <2>1, <2>3, InviteGroupsOK
<1>12. ASSUME NEW b \in Battlegrounds, EndBattleground(b) PROVE QueueInv'
  BY <1>12, EndBattlegroundOK
<1>13. ASSUME NEW b \in Battlegrounds, Delete(b) PROVE QueueInv'
  BY <1>13, DeleteOK
<1>14. ASSUME NEW b \in Battlegrounds, NEW p \in Players, RemovePlayerAtLeave(b, p) PROVE QueueInv'
  BY <1>14, RemovePlayerAtLeaveOK
<1>15. ASSUME NEW b \in Battlegrounds, NEW p \in Players, RemoveOffline(b, p) PROVE QueueInv'
  BY <1>15, RemoveOfflineOK
<1> QED BY <1>1, <1>2, <1>3, <1>4, <1>5, <1>6, <1>7, <1>8, <1>9, <1>10, <1>11,
     <1>12, <1>13, <1>14, <1>15 DEF Next

-----------------------------------------------------------------------------
(* The theorems *)

\* Queue, slots, counters, matchmaking data and pending events agree all the
\* time.
THEOREM InvariantHolds == Spec => []QueueInv
BY InitOK, NextOK, PTL DEF Spec

\* The counter of invited players is never too low or too high, also when players
\* log out while loading, and the matchmaking data is that of the same players.
THEOREM CountIsExact == Spec => []InvitedCountExact
<1>1. QueueInv => InvitedCountExact
  BY DEF QueueInv, Counts, CountOK, InvitedCountExact
<1> QED BY <1>1, InvariantHolds, PTL

\* InviteGroupToBG never invites more players than maxPlayersPerTeam, those who
\* are loading counted.
THEOREM NeverOverfilled == Spec => []NotOverfilled
<1>1. QueueInv => NotOverfilled
  <2> SUFFICES ASSUME QueueInv, NEW b \in Battlegrounds PROVE Cardinality(Engaged(b)) <= MaxPlayers
    BY DEF NotOverfilled
  <2>1. /\ Engaged(b) \subseteq data[b] /\ Cardinality(data[b]) <= MaxPlayers
        /\ data[b] \subseteq Players
    BY DEF QueueInv, Counts, CountOK, TypeOK
  <2>2. IsFiniteSet(data[b])
    BY <2>1, FS_Subset, BattlegroundQueueAssumption
  <2>3. /\ Cardinality(Engaged(b)) <= Cardinality(data[b])
        /\ Cardinality(Engaged(b)) \in Nat /\ Cardinality(data[b]) \in Nat
    BY <2>1, <2>2, FS_Subset, FS_CardinalityType
  <2> QED BY <2>1, <2>3, BattlegroundQueueAssumption
<1> QED BY <1>1, InvariantHolds, PTL

\* BattlegroundMgr deletes a battleground only when no invitation, no loading
\* player and no slot refers to it.
THEOREM DeletedIsUnreferenced == Spec => []DeletedUnreferenced
<1>1. QueueInv => DeletedUnreferenced
  BY SlotNames DEF QueueInv, Freed, Slots, DeletedUnreferenced
<1> QED BY <1>1, InvariantHolds, PTL

\* The slot of a connected player always says what queue and battlegrounds say,
\* so nobody is kept from queueing by a slot that stays taken.
THEOREM SlotsAreRight == Spec => []SlotAgrees
<1>1. QueueInv => SlotAgrees
  <2> SUFFICES ASSUME QueueInv, NEW p \in online
               PROVE  /\ slot[p] = "queued" <=> Queued(p) /\ GroupInfo(p).bg = None
                      /\ \A b \in Battlegrounds : slot[p] = b <=> p \in Engaged(b)
    BY DEF SlotAgrees, QueueInv
  <2>1. p \in Players /\ queue \subseteq GroupInfos
    BY DEF QueueInv, TypeOK
  <2>2. p \in Waiting <=> Queued(p) /\ GroupInfo(p).bg = None
    <3>1. ASSUME p \in Waiting PROVE Queued(p) /\ GroupInfo(p).bg = None
      BY <2>1, <3>1, ViewIs, GroupInfoHas DEF QueueInv
    <3>2. ASSUME Queued(p), GroupInfo(p).bg = None PROVE p \in Waiting
      BY <3>2, GroupInfoIs DEF QueueInv, Waiting
    <3> QED BY <3>1, <3>2
  <2> QED BY <2>1, <2>2 DEF QueueInv, Slots
<1> QED BY <1>1, InvariantHolds, PTL

\* No invitation outlives INVITE_ACCEPT_WAIT_TIME.
THEOREM InvitationsExpire == Spec => []InvitationExpires
<1>1. QueueInv => InvitationExpires
  <2> SUFFICES ASSUME QueueInv, NEW g \in queue, g.bg # None PROVE clock <= g.time
    BY DEF InvitationExpires
  <2>1. g.bg \in Battlegrounds /\ g.time \in Nat /\ g.players \subseteq Players
    BY DEF QueueInv, TypeOK, GroupInfos
  <2>2. PICK p \in g.players : TRUE
    BY DEF QueueInv, Groups
  <2>3. Has(p, g.bg, g.time)
    BY DEF Has
  <2> QED BY <2>1, <2>2, <2>3 DEF QueueInv, Deadlines
<1> QED BY <1>1, InvariantHolds, PTL

\* A BGQueueRemoveEvent takes no invitation away that is not due, although the
\* id of the battleground may have been used again.
THEOREM StaleEventsAreHarmless == Spec => StaleEventHarmless
<1>1. ASSUME QueueInv, [Next]_vars
      PROVE  [\A e \in events \ events' :
                Queued(e.player) /\ ~Queued(e.player)'
                  => GroupInfo(e.player).bg = e.bg /\ GroupInfo(e.player).time <= clock]_vars
  <2> SUFFICES ASSUME Next, NEW e \in events \ events', Queued(e.player), ~Queued(e.player)'
               PROVE  GroupInfo(e.player).bg = e.bg /\ GroupInfo(e.player).time <= clock
    BY <1>1
  <2>1. PICK d \in events : RemoveEvent(d)
    <3>1. events' # events
      OBVIOUS
    <3>2. ASSUME NEW b \in Battlegrounds, NEW G, InviteGroups(b, G) PROVE events \subseteq events'
      BY <3>2 DEF InviteGroups
    <3> QED BY <3>1, <3>2 DEF Next, AddGroup, Tick, PortEnter, PortLeave,
         Arrive, Logout, Login, Fill,
              StartBattleground, EndBattleground, Delete, RemovePlayerAtLeave,
                   RemoveOffline
  <2>2. d = e
    BY <2>1 DEF RemoveEvent
  <2>3. IsPlayerInvited(e)
    <3> SUFFICES ASSUME ~IsPlayerInvited(e) PROVE FALSE
      OBVIOUS
    <3>1. UNCHANGED queue
      BY <2>1, <2>2 DEF RemoveEvent
    <3> QED BY <3>1, QueueKept
  <2> QED BY <2>1, <2>2, <2>3 DEF IsPlayerInvited, RemoveEvent
<1> QED BY <1>1, InvariantHolds, PTL DEF Spec, StaleEventHarmless
=============================================================================
