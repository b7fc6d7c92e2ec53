--------------------------- MODULE GroupLootProofs ---------------------------
(***************************************************************************)
(* The rolls of a group, for any number of players, items and repeated     *)
(* votes: no item is given twice, except a quest item once from the window *)
(* and once by the roll; the totals are those of the votes, and a roll on  *)
(* which nobody voted twice ends as it should.                             *)
(*                                                                         *)
(* A repeated vote is counted again but takes the place of the first one,  *)
(* so in general the totals of a Roll are only at least the number of      *)
(* votes; that is what keeps them from falling below zero when a player    *)
(* leaves.  They are exact while nobody has voted twice.                   *)
(***************************************************************************)
EXTENDS GroupLoot, SequenceTheorems, FiniteSums

\* What playerVote holds for a player.
VoteType == RollType \cup {NOT_EMITED_YET}

\* playerVote is a map from some of the players to votes.
LEMMA VotesAre ==
    ASSUME NEW f
    PROVE  f \in Votes <=> /\ f = [p \in DOMAIN f |-> f[p]]
                           /\ DOMAIN f \subseteq Players
                           /\ \A p \in DOMAIN f : f[p] \in VoteType
<1>1. ASSUME f \in Votes
      PROVE  /\ f = [p \in DOMAIN f |-> f[p]]
             /\ DOMAIN f \subseteq Players
             /\ \A p \in DOMAIN f : f[p] \in VoteType
  <2>1. PICK V \in SUBSET Players : f \in [V -> VoteType]
    BY <1>1 DEF Votes, VoteType
  <2> QED BY <2>1
<1>2. ASSUME /\ f = [p \in DOMAIN f |-> f[p]]
             /\ DOMAIN f \subseteq Players
             /\ \A p \in DOMAIN f : f[p] \in VoteType
      PROVE  f \in Votes
  <2>1. f \in [DOMAIN f -> VoteType] /\ DOMAIN f \in SUBSET Players
    BY <1>2
  <2> QED BY <2>1 DEF Votes, VoteType
<1> QED BY <1>1, <1>2

\* The players who voted one way are some of the finitely many in playerVote.
LEMMA VotedIs ==
    ASSUME NEW f \in Votes, NEW C
    PROVE  /\ Voted(f, C) \subseteq DOMAIN f
           /\ IsFiniteSet(DOMAIN f) /\ IsFiniteSet(Voted(f, C))
           /\ Cardinality(DOMAIN f) \in Nat /\ Cardinality(Voted(f, C)) \in Nat
           /\ Cardinality(Voted(f, C)) <= Cardinality(DOMAIN f)
           /\ Cardinality(Voted(f, C)) = 0 <=> Voted(f, C) = {}
<1>1. IsFiniteSet(DOMAIN f)
  BY VotesAre, FS_Subset, GroupLootAssumption
<1>2. Voted(f, C) \subseteq DOMAIN f
  BY DEF Voted
<1>3. IsFiniteSet(Voted(f, C))
  BY <1>1, <1>2, FS_Subset
<1> HIDE DEF Voted
<1> QED BY <1>1, <1>2, <1>3, FS_Subset, FS_CardinalityType, FS_EmptySet

\* playerVote after the vote of p.
With(f, p, c) == [f EXCEPT ![p] = c]
\* playerVote after p was erased.
But(f, p) == [q \in DOMAIN f \ {p} |-> f[q]]

\* A vote adds at most one to those who voted that way, exactly one if p had
\* not voted so before.
LEMMA VotedWith ==
    ASSUME NEW f \in Votes, NEW p \in DOMAIN f, NEW c \in RollType, NEW C
    PROVE  /\ With(f, p, c) \in Votes
           /\ DOMAIN With(f, p, c) = DOMAIN f
           /\ f[p] \notin C => Cardinality(Voted(With(f, p, c), C))
                              = Cardinality(Voted(f, C)) + (IF c \in C THEN 1 ELSE 0)
           /\ Cardinality(Voted(With(f, p, c), C))
                              <= Cardinality(Voted(f, C)) + (IF c \in C THEN 1 ELSE 0)
<1> DEFINE g == With(f, p, c)
<1>1. DOMAIN g = DOMAIN f /\ g[p] = c /\ \A q \in DOMAIN f \ {p} : g[q] = f[q]
  BY VotesAre DEF With
<1>2. g \in Votes
  <2>1. g = [q \in DOMAIN g |-> g[q]]
    BY VotesAre DEF With
  <2>2. DOMAIN g \subseteq Players
    BY <1>1, VotesAre
  <2>3. \A q \in DOMAIN g : g[q] \in VoteType
    <3> SUFFICES ASSUME NEW q \in DOMAIN g PROVE g[q] \in VoteType
      OBVIOUS
    <3>1. f[q] \in VoteType
      BY <1>1, VotesAre
    <3> QED BY <1>1, <3>1 DEF VoteType
  <2> HIDE DEF g
  <2> QED BY <2>1, <2>2, <2>3, VotesAre
<1> HIDE DEF g
<1>3. Voted(g, C) \ {p} = Voted(f, C) \ {p}
  BY <1>1 DEF Voted
<1>4. p \in Voted(g, C) <=> c \in C
  BY <1>1 DEF Voted
<1>5. p \in Voted(f, C) <=> f[p] \in C
  BY DEF Voted
<1>6. IsFiniteSet(Voted(g, C)) /\ IsFiniteSet(Voted(f, C))
  BY <1>2, VotedIs
<1>7. \A T : IsFiniteSet(T) => /\ Cardinality(T) \in Nat
                               /\ Cardinality(T \ {p}) = IF p \in T THEN Cardinality(T) - 1
                                                                    ELSE Cardinality(T)
  BY FS_RemoveElement, FS_CardinalityType
<1>8. /\ Cardinality(Voted(g, C) \ {p}) = Cardinality(Voted(f, C) \ {p})
      /\ Cardinality(Voted(g, C)) \in Nat /\ Cardinality(Voted(f, C)) \in Nat
      /\ Cardinality(Voted(g, C) \ {p}) = IF p \in Voted(g, C) THEN Cardinality(Voted(g, C)) - 1
                                                                    ELSE Cardinality(Voted(g, C))
      /\ Cardinality(Voted(f, C) \ {p}) = IF p \in Voted(f, C) THEN Cardinality(Voted(f, C)) - 1
                                                                    ELSE Cardinality(Voted(f, C))
  BY <1>3, <1>6, <1>7
<1>9. /\ f[p] \notin C => Cardinality(Voted(g, C))
                              = Cardinality(Voted(f, C)) + (IF c \in C THEN 1 ELSE 0)
      /\ Cardinality(Voted(g, C))
                              <= Cardinality(Voted(f, C)) + (IF c \in C THEN 1 ELSE 0)
  BY <1>4, <1>5, <1>8
<1> QED BY <1>1, <1>2, <1>9 DEF g

\* Erasing a player takes him from those who voted as he did.
LEMMA VotedBut ==
    ASSUME NEW f \in Votes, NEW p \in DOMAIN f, NEW C
    PROVE  /\ But(f, p) \in Votes
           /\ DOMAIN But(f, p) = DOMAIN f \ {p}
           /\ Cardinality(DOMAIN But(f, p)) = Cardinality(DOMAIN f) - 1
           /\ Cardinality(Voted(But(f, p), C))
                = Cardinality(Voted(f, C)) - (IF f[p] \in C THEN 1 ELSE 0)
<1> DEFINE g == But(f, p)
<1>1. DOMAIN g = DOMAIN f \ {p} /\ \A q \in DOMAIN f \ {p} : g[q] = f[q]
  BY DEF But
<1>2. g \in Votes
  <2>1. g = [q \in DOMAIN g |-> g[q]]
    BY DEF But
  <2>2. DOMAIN g \subseteq Players /\ \A q \in DOMAIN g : g[q] \in VoteType
    BY <1>1, VotesAre
  <2> HIDE DEF g
  <2> QED BY <2>1, <2>2, VotesAre
<1> HIDE DEF g
<1>3. Voted(g, C) = Voted(f, C) \ {p}
  BY <1>1 DEF Voted
<1>4. p \in Voted(f, C) <=> f[p] \in C
  BY DEF Voted
<1>5. IsFiniteSet(DOMAIN f) /\ IsFiniteSet(Voted(f, C))
  BY VotedIs
<1>6. \A T : IsFiniteSet(T) => /\ Cardinality(T) \in Nat
                               /\ Cardinality(T \ {p}) = IF p \in T THEN Cardinality(T) - 1
                                                                    ELSE Cardinality(T)
  BY FS_RemoveElement, FS_CardinalityType
<1>7. Cardinality(DOMAIN g) = Cardinality(DOMAIN f) - 1
  BY <1>1, <1>5, <1>6
<1>8. Cardinality(Voted(g, C)) = Cardinality(Voted(f, C)) - (IF f[p] \in C THEN 1 ELSE 0)
  BY <1>3, <1>4, <1>5, <1>6
<1> QED BY <1>1, <1>2, <1>7, <1>8 DEF g

-----------------------------------------------------------------------------
\* The totals of a Roll count at least the votes that are there.
AtLeast(r) ==
    /\ r.rolling = Cardinality(DOMAIN r.vote)
    /\ r.pass >= Cardinality(Voted(r.vote, {PASS}))
    /\ r.need >= Cardinality(Voted(r.vote, {NEED}))
    /\ r.greed >= Cardinality(Voted(r.vote, {GREED, DISENCHANT}))

\* The totals of a Roll are the votes that are there.
Exact(r) ==
    /\ r.pass = Cardinality(Voted(r.vote, {PASS}))
    /\ r.need = Cardinality(Voted(r.vote, {NEED}))
    /\ r.greed = Cardinality(Voted(r.vote, {GREED, DISENCHANT}))

\* The players who have not voted yet.
Undecided(r) == Voted(r.vote, {NOT_EMITED_YET})

USE DEF PASS, NEED, GREED, DISENCHANT, NOT_EMITED_YET, NOT_VALID

\* The types of the members of a Roll.
LEMMA RollIs ==
    ASSUME NEW r \in Rolls
    PROVE  /\ r.vote \in Votes /\ DOMAIN r.vote \subseteq Players
           /\ r.rolling \in Nat /\ r.need \in Nat /\ r.greed \in Nat /\ r.pass \in Nat
           /\ \A C : /\ Cardinality(Voted(r.vote, C)) \in Nat
                     /\ Cardinality(Voted(r.vote, C)) = 0 <=> Voted(r.vote, C) = {}
<1>1. /\ r.vote \in Votes /\ r.rolling \in Nat /\ r.need \in Nat /\ r.greed \in Nat
      /\ r.pass \in Nat
  BY DEF Rolls
<1> QED BY <1>1, VotedIs, VotesAre

\* Group::CountRollVote keeps the totals at least the votes, and exact if the
\* player had not voted.
LEMMA CountedIs ==
    ASSUME NEW r \in Rolls, NEW p \in DOMAIN r.vote, NEW c \in RollType, AtLeast(r)
    PROVE  /\ Counted(r, p, c) \in Rolls
           /\ Counted(r, p, c).vote = With(r.vote, p, c)
           /\ DOMAIN Counted(r, p, c).vote = DOMAIN r.vote
           /\ AtLeast(Counted(r, p, c))
           /\ Exact(r) /\ r.vote[p] = NOT_EMITED_YET => Exact(Counted(r, p, c))
<1> DEFINE s == Counted(r, p, c)
           f == r.vote
           g == With(f, p, c)
<1>1. /\ s = [vote |-> g, rolling |-> r.rolling,
              need |-> r.need + (IF c = NEED THEN 1 ELSE 0),
              greed |-> r.greed + (IF c \in {GREED, DISENCHANT} THEN 1 ELSE 0),
              pass |-> r.pass + (IF c = PASS THEN 1 ELSE 0)]
  BY DEF Counted, With
<1>2. f \in Votes /\ p \in DOMAIN f
  BY RollIs
<1>3. /\ g \in Votes /\ DOMAIN g = DOMAIN f
  BY <1>2, VotedWith
<1>4. \A C : /\ Cardinality(Voted(g, C)) \in Nat /\ Cardinality(Voted(f, C)) \in Nat
             /\ f[p] \notin C => Cardinality(Voted(g, C))
                              = Cardinality(Voted(f, C)) + (IF c \in C THEN 1 ELSE 0)
             /\ Cardinality(Voted(g, C))
                              <= Cardinality(Voted(f, C)) + (IF c \in C THEN 1 ELSE 0)
  BY <1>2, <1>3, VotedWith, VotedIs
<1>5. s \in Rolls
  BY <1>1, <1>3, RollIs DEF Rolls
<1>6. /\ s.vote = g /\ s.rolling = r.rolling
      /\ s.need = r.need + (IF c = NEED THEN 1 ELSE 0)
      /\ s.greed = r.greed + (IF c \in {GREED, DISENCHANT} THEN 1 ELSE 0)
      /\ s.pass = r.pass + (IF c = PASS THEN 1 ELSE 0)
  BY <1>1
<1> HIDE DEF s, g
<1>7. AtLeast(s)
  <2>1. s.pass >= Cardinality(Voted(g, {PASS}))
    BY <1>4, <1>6, RollIs DEF AtLeast
  <2>2. s.need >= Cardinality(Voted(g, {NEED}))
    BY <1>4, <1>6, RollIs DEF AtLeast
  <2>3. s.greed >= Cardinality(Voted(g, {GREED, DISENCHANT}))
    BY <1>4, <1>6, RollIs DEF AtLeast
  <2> QED BY <1>3, <1>6, <2>1, <2>2, <2>3 DEF AtLeast
<1>8. ASSUME Exact(r), f[p] = NOT_EMITED_YET PROVE Exact(s)
  BY <1>4, <1>6, <1>8, RollIs DEF Exact
<1> QED BY <1>3, <1>5, <1>6, <1>7, <1>8 DEF s, g

\* Group::RemoveMember takes the vote of who leaves out of the totals; they
\* stay natural numbers because they were at least the votes.
LEMMA WithoutIs ==
    ASSUME NEW r \in Rolls, NEW p, AtLeast(r)
    PROVE  /\ Without(r, p) \in Rolls
           /\ AtLeast(Without(r, p))
           /\ Exact(r) => Exact(Without(r, p))
<1>1. CASE p \notin DOMAIN r.vote
  BY <1>1 DEF Without
<1>2. CASE p \in DOMAIN r.vote
  <2> DEFINE s == Without(r, p)
             f == r.vote
             g == But(f, p)
  <2>1. s = [vote |-> g, rolling |-> r.rolling - 1,
             need |-> r.need - (IF f[p] = NEED THEN 1 ELSE 0),
             greed |-> r.greed - (IF f[p] \in {GREED, DISENCHANT} THEN 1 ELSE 0),
             pass |-> r.pass - (IF f[p] = PASS THEN 1 ELSE 0)]
    BY <1>2, NoRollAssumption DEF Without, But
  <2>2. f \in Votes
    BY RollIs
  <2>3. g \in Votes /\ Cardinality(DOMAIN g) = Cardinality(DOMAIN f) - 1
        /\ Cardinality(DOMAIN g) \in Nat
    BY <1>2, <2>2, VotedBut, VotedIs
  <2>4. \A C : /\ Cardinality(Voted(g, C)) \in Nat /\ Cardinality(Voted(f, C)) \in Nat
               /\ Cardinality(Voted(g, C))
                    = Cardinality(Voted(f, C)) - (IF f[p] \in C THEN 1 ELSE 0)
    <3> SUFFICES ASSUME NEW C
                 PROVE  /\ Cardinality(Voted(g, C)) \in Nat /\ Cardinality(Voted(f, C)) \in Nat
                        /\ Cardinality(Voted(g, C))
                             = Cardinality(Voted(f, C)) - (IF f[p] \in C THEN 1 ELSE 0)
      OBVIOUS
    <3> HIDE DEF g, f
    <3>1. Cardinality(Voted(g, C)) \in Nat /\ Cardinality(Voted(f, C)) \in Nat
      BY <2>2, <2>3, VotedIs
    <3>2. p \in DOMAIN f
      BY <1>2 DEF f
    <3>3. Cardinality(Voted(But(f, p), C))
                             = Cardinality(Voted(f, C)) - (IF f[p] \in C THEN 1 ELSE 0)
      BY <2>2, <3>2, VotedBut
    <3> QED BY <3>1, <3>3 DEF g
  <2>5. /\ s.vote = g /\ s.rolling = r.rolling - 1
        /\ s.need = r.need - (IF f[p] = NEED THEN 1 ELSE 0)
        /\ s.greed = r.greed - (IF f[p] \in {GREED, DISENCHANT} THEN 1 ELSE 0)
        /\ s.pass = r.pass - (IF f[p] = PASS THEN 1 ELSE 0)
    BY <2>1
  <2> HIDE DEF g
  <2>6. /\ r.pass - (IF f[p] = PASS THEN 1 ELSE 0) \in Nat
        /\ r.pass - (IF f[p] = PASS THEN 1 ELSE 0) >= Cardinality(Voted(g, {PASS}))
    BY <2>4, RollIs DEF AtLeast
  <2>7. /\ r.need - (IF f[p] = NEED THEN 1 ELSE 0) \in Nat
        /\ r.need - (IF f[p] = NEED THEN 1 ELSE 0) >= Cardinality(Voted(g, {NEED}))
    BY <2>4, RollIs DEF AtLeast
  <2>8. /\ r.greed - (IF f[p] \in {GREED, DISENCHANT} THEN 1 ELSE 0) \in Nat
        /\ r.greed - (IF f[p] \in {GREED, DISENCHANT} THEN 1 ELSE 0)
             >= Cardinality(Voted(g, {GREED, DISENCHANT}))
    BY <2>4, RollIs DEF AtLeast
  <2>9. r.rolling - 1 \in Nat /\ r.rolling - 1 = Cardinality(DOMAIN g)
    BY <2>3, RollIs DEF AtLeast
  <2>10. s \in Rolls
    BY <2>1, <2>3, <2>6, <2>7, <2>8, <2>9 DEF Rolls
  <2> HIDE DEF s
  <2>11. AtLeast(s)
    BY <2>5, <2>6, <2>7, <2>8, <2>9 DEF AtLeast
  <2>12. ASSUME Exact(r) PROVE Exact(s)
    BY <2>4, <2>5, <2>12, RollIs DEF Exact
  <2> QED BY <2>10, <2>11, <2>12 DEF s
<1> QED BY <1>1, <1>2

\* GroupLoot and NeedBeforeGreed start a Roll with exact totals.
LEMMA NewRollIs ==
    ASSUME NEW near \in SUBSET Players, NEW passing \in SUBSET near
    PROVE  NewRoll(near, passing) \in Rolls /\ AtLeast(NewRoll(near, passing))
           /\ Exact(NewRoll(near, passing))
<1> DEFINE f == [p \in near |-> IF p \in passing THEN PASS ELSE NOT_EMITED_YET]
           r == NewRoll(near, passing)
<1>1. f \in Votes
  <2>1. f = [p \in DOMAIN f |-> f[p]] /\ DOMAIN f \subseteq Players
        /\ \A p \in DOMAIN f : f[p] \in VoteType
    BY DEF VoteType, RollType
  <2> HIDE DEF f
  <2> QED BY <2>1, VotesAre
<1>2. /\ Voted(f, {PASS}) = near \cap passing /\ Voted(f, {NEED}) = {}
      /\ Voted(f, {GREED, DISENCHANT}) = {} /\ DOMAIN f = near
  BY DEF Voted
<1>3. /\ r = [vote |-> f, rolling |-> Cardinality(near), need |-> 0, greed |-> 0,
              pass |-> Cardinality(near \cap passing)]
  BY DEF NewRoll
<1> HIDE DEF f
<1>4. Cardinality(near) \in Nat /\ Cardinality(near \cap passing) \in Nat
  BY <1>1, <1>2, VotedIs
<1>5. Cardinality({}) = 0
  BY FS_EmptySet
<1>6. r \in Rolls
  BY <1>1, <1>3, <1>4 DEF Rolls
<1>7. /\ r.vote = f /\ r.rolling = Cardinality(near) /\ r.need = 0 /\ r.greed = 0
      /\ r.pass = Cardinality(near \cap passing)
  BY <1>3
<1> HIDE DEF r
<1> QED BY <1>2, <1>4, <1>5, <1>6, <1>7 DEF AtLeast, Exact, r

\* With exact totals, totalPlayersRolling is the sum of the totals and of those
\* who are still undecided.
LEMMA EverybodyVotes ==
    ASSUME NEW r \in Rolls, AtLeast(r), Exact(r)
    PROVE  /\ Cardinality(Undecided(r)) \in Nat
           /\ r.pass + r.need + r.greed + Cardinality(Undecided(r)) = r.rolling
<1> DEFINE D == DOMAIN r.vote
           P == Voted(r.vote, {PASS})
           N == Voted(r.vote, {NEED})
           G == Voted(r.vote, {GREED, DISENCHANT})
           U == Voted(r.vote, {NOT_EMITED_YET})
<1>1. r.vote \in Votes
  BY RollIs
<1>2. /\ D = P \cup (N \cup (G \cup U)) /\ P \cap (N \cup (G \cup U)) = {}
      /\ N \cap (G \cup U) = {} /\ G \cap U = {}
  BY <1>1, VotesAre DEF Voted, VoteType, RollType
<1>3. IsFiniteSet(P) /\ IsFiniteSet(N) /\ IsFiniteSet(G) /\ IsFiniteSet(U)
  BY <1>1, VotedIs
<1> HIDE DEF D, P, N, G, U
<1>4. ASSUME NEW A, NEW B, IsFiniteSet(A), IsFiniteSet(B), A \cap B = {}
      PROVE  /\ IsFiniteSet(A \cup B) /\ Cardinality(A) \in Nat /\ Cardinality(B) \in Nat
             /\ Cardinality(A \cup B) = Cardinality(A) + Cardinality(B)
  <2>1. /\ IsFiniteSet(A \cup B)
        /\ Cardinality(A \cup B) = Cardinality(A) + Cardinality(B) - Cardinality(A \cap B)
    BY <1>4, FS_Union
  <2>2. Cardinality(A \cap B) = 0 /\ Cardinality(A) \in Nat /\ Cardinality(B) \in Nat
    BY <1>4, FS_EmptySet, FS_CardinalityType
  <2> QED BY <2>1, <2>2
<1>5. IsFiniteSet(G \cup U) /\ Cardinality(G \cup U) = Cardinality(G) + Cardinality(U)
      /\ Cardinality(G) \in Nat /\ Cardinality(U) \in Nat
  BY <1>2, <1>3, <1>4
<1>6. IsFiniteSet(N \cup (G \cup U))
      /\ Cardinality(N \cup (G \cup U)) = Cardinality(N) + Cardinality(G \cup U)
      /\ Cardinality(N) \in Nat
  BY <1>2, <1>3, <1>4, <1>5
<1>7. Cardinality(D) = Cardinality(P) + Cardinality(N \cup (G \cup U)) /\ Cardinality(P) \in Nat
  BY <1>2, <1>3, <1>4, <1>6
<1>8. /\ r.pass = Cardinality(P) /\ r.need = Cardinality(N) /\ r.greed = Cardinality(G)
      /\ Undecided(r) = U /\ r.rolling = Cardinality(D)
  BY DEF Exact, AtLeast, Undecided, D, P, N, G, U
<1> QED BY <1>5, <1>6, <1>7, <1>8

-----------------------------------------------------------------------------
\* CountTheRoll takes the first of playerVote, which is ordered by GUID, and
\* there is one.
LEMMA FirstVoter ==
    ASSUME NEW f \in Votes, DOMAIN f # {}
    PROVE  Min(DOMAIN f) \in DOMAIN f
<1>1. DOMAIN f \in SUBSET Nat
  BY VotesAre, GroupLootAssumption
<1>2. \E n \in DOMAIN f : \A m \in DOMAIN f : n <= m
  BY <1>1, Least
<1> QED BY <1>2 DEF Min

\* The winner is one of those rolling. Without a candidate he wins with no
\* valid vote, or with "need" if the total says need without such a vote.
LEMMA WinnersAre ==
    ASSUME NEW r \in Rolls, NEW w \in Winners(r)
    PROVE  /\ w.player \in DOMAIN r.vote
           /\ w.with # NOT_VALID /\ (r.need = 0 \/ Voted(r.vote, {NEED}) # {})
                => w.player \in Candidates(r)
           /\ w.with = NOT_VALID
                => r.need = 0 /\ Voted(r.vote, {GREED, DISENCHANT}) = {}
<1>1. r.vote \in Votes /\ DOMAIN r.vote # {} /\ r.need \in Nat
  BY RollIs DEF Winners
<1>2. CASE Candidates(r) = {}
  <2>1. w = [player |-> Min(DOMAIN r.vote), with |-> IF r.need > 0 THEN NEED ELSE NOT_VALID]
    BY <1>1, <1>2 DEF Winners
  <2>2. w.player \in DOMAIN r.vote
    BY <1>1, <2>1, FirstVoter
  <2>3. w.with = IF r.need > 0 THEN NEED ELSE NOT_VALID
    BY <2>1
  <2>4. /\ r.need > 0 => Voted(r.vote, {NEED}) = {}
        /\ ~(r.need > 0) => Voted(r.vote, {GREED, DISENCHANT}) = {}
    BY <1>2 DEF Candidates
  <2>5. r.need > 0 <=> r.need # 0
    BY <1>1
  <2>6. /\ r.need > 0 => w.with = NEED
        /\ ~(r.need > 0) => w.with = NOT_VALID
    BY <2>3
  <2>7. NEED # NOT_VALID
    OBVIOUS
  <2> HIDE DEF NEED, NOT_VALID, GREED, DISENCHANT
  <2> QED BY <2>2, <2>4, <2>5, <2>6, <2>7
<1>3. CASE Candidates(r) # {}
  <2>1. PICK p \in Candidates(r) : w = [player |-> p, with |-> r.vote[p]]
    BY <1>1, <1>3 DEF Winners
  <2>2. p \in DOMAIN r.vote /\ r.vote[p] \in {NEED, GREED, DISENCHANT}
    BY DEF Candidates, Voted
  <2> QED BY <2>1, <2>2
<1> QED BY <1>2, <1>3

\* What a roll may come to: to whom the item goes, if to anybody, and whether
\* it is unblocked.
OutcomeType == [to : Players \cup {None}, unblock : BOOLEAN]

\* The end of a roll is one of these, whatever the totals are.
LEMMA OutcomesAre ==
    ASSUME NEW r \in Rolls, NEW o \in Outcomes(r)
    PROVE  o \in OutcomeType
<1>1. LeftBlocked \in OutcomeType /\ Unblocked \in OutcomeType
      /\ \A p \in Players : Stored(p) \in OutcomeType
  BY DEF LeftBlocked, Unblocked, Stored, OutcomeType
<1>2. ASSUME NEW w \in Winners(r), o \in Awarded(w) PROVE o \in OutcomeType
  <2>1. w.player \in Players
    BY WinnersAre, RollIs
  <2> QED BY <1>1, <1>2, <2>1 DEF Awarded
<1>3. \/ o \in {LeftBlocked, Unblocked}
      \/ \E w \in Winners(r) : o \in Awarded(w)
  BY DEF Outcomes, CountTheRoll, AllPassed
<1> QED BY <1>1, <1>2, <1>3

\* With exact totals the item only goes to a candidate, and it is given away or
\* unblocked unless the winner is not connected.
LEMMA OutcomeIsFair ==
    ASSUME NEW r \in Rolls, Exact(r), NEW o \in Outcomes(r)
    PROVE  /\ o.to # None => o.to \in Candidates(r)
           /\ LootExists => o.to # None \/ o.unblock \/ ~(DOMAIN r.vote \subseteq online)
<1>0. /\ r.need \in Nat /\ r.greed \in Nat
      /\ r.need = 0 <=> Voted(r.vote, {NEED}) = {}
      /\ r.greed = 0 <=> Voted(r.vote, {GREED, DISENCHANT}) = {}
      /\ DOMAIN r.vote \subseteq Players
  BY RollIs DEF Exact
<1>1. CASE ~LootExists
  BY <1>1 DEF Outcomes, LeftBlocked
<1>2. CASE LootExists /\ r.need + r.greed = 0
  BY <1>2 DEF Outcomes, CountTheRoll, AllPassed, Unblocked
<1>3. CASE LootExists /\ r.need + r.greed # 0
  <2>1. Candidates(r) # {} /\ DOMAIN r.vote # {}
    BY <1>0, <1>3 DEF Candidates, Voted
  <2>2. Winners(r) # {}
    BY <2>1 DEF Winners
  <2>3. PICK w \in Winners(r) : o \in Awarded(w)
    BY <1>3, <2>2 DEF Outcomes, CountTheRoll
  <2>4. /\ w.player \in DOMAIN r.vote /\ w.with # NOT_VALID /\ w.player \in Candidates(r)
    BY <1>0, <2>1, WinnersAre DEF Candidates
  <2>5. w.player # None
    BY <1>0, <2>4, GroupLootAssumption
  <2>6. /\ Stored(w.player).to = w.player
        /\ Unblocked.to = None /\ Unblocked.unblock = TRUE /\ LeftBlocked.to = None
    BY DEF Stored, Unblocked, LeftBlocked
  <2>7. \/ o = Stored(w.player)
        \/ o = Unblocked
        \/ o = LeftBlocked /\ w.player \notin online
    BY <2>3, <2>4 DEF Awarded
  <2> QED BY <2>4, <2>5, <2>6, <2>7
<1> QED BY <1>1, <1>2, <1>3

-----------------------------------------------------------------------------
\* An item somebody may still win is blocked and nobody has it, unless it is a
\* quest item.
Reserved == \A i \in Items \ QuestItems : Rolling(i) => i \in blocked /\ i \notin looted
\* Nobody was given an item that is not looted, at most one player one that is,
\* and a second player a quest item once its roll is over.
Given == \A i \in Items : /\ i \notin looted => got[i] = <<>>
                          /\ Rolling(i) => Len(got[i]) <= 1
                          /\ Len(got[i]) <= IF i \in QuestItems THEN 2 ELSE 1
\* Nothing is rolled for before the corpse was opened.
Fresh == corpse = "fresh" => looted = {} /\ \A i \in Items : ~Rolling(i)
\* The totals of all open rolls.
Tallied == \A i \in Items : Rolling(i) => /\ AtLeast(roll[i])
                                          /\ i \notin revoted => Exact(roll[i])
\* The inductive invariant.
LootInv == TypeOK /\ Reserved /\ Given /\ Fresh /\ Tallied

\* unlootedCount is a uint8.
LEMMA Byte ==
    ASSUME NEW n \in Int
    PROVE  n % 256 \in 0..255
OBVIOUS

\* What is in RollId is a Roll.
LEMMA RollingIs ==
    ASSUME TypeOK, NEW i \in Items, Rolling(i)
    PROVE  roll[i] \in Rolls
BY DEF TypeOK, Rolling

\* The invariant holds initially.
LEMMA InitOK == Init => LootInv
<1> SUFFICES ASSUME Init PROVE LootInv
  OBVIOUS
<1>1. TypeOK
  <2>1. got \in [Items -> Seq(Players)]
    BY EmptySeq DEF Init
  <2>2. roll \in [Items -> Rolls \cup {None}]
    BY DEF Init
  <2>3. unlooted \in 0..255
    <3>1. PICK each \in QuestCounts :
            unlooted = (Cardinality(Items \ QuestItems) + each * Cardinality(QuestItems)) % 256
      BY DEF Init
    <3>2. /\ Cardinality(Items \ QuestItems) \in Nat /\ Cardinality(QuestItems) \in Nat
          /\ each \in Nat
      BY GroupLootAssumption, FS_Subset, FS_CardinalityType
    <3>3. each * Cardinality(QuestItems) \in Nat
      BY <3>2
    <3>4. Cardinality(Items \ QuestItems) + each * Cardinality(QuestItems) \in Int
      BY <3>2, <3>3
    <3> QED BY <3>1, <3>4, Byte
  <2> QED BY <2>1, <2>2, <2>3 DEF Init, TypeOK
<1>2. \A i \in Items : ~Rolling(i)
  BY DEF Init, Rolling
<1>3. Reserved /\ Fresh /\ Tallied
  BY <1>2 DEF Init, Reserved, Fresh, Tallied
<1>4. Given
  BY <1>2 DEF Init, Given
<1> QED BY <1>1, <1>3, <1>4 DEF LootInv

\* The end of any set of open rolls, by a vote or by the timer, keeps the
\* invariant: an item that is given away was nobody's, because its roll was
\* open, or it is a quest item one player has.
LEMMA FinishOK ==
    ASSUME LootInv, NEW done \in SUBSET Items, NEW outcome,
           \A i \in done : Rolling(i) /\ outcome[i] \in OutcomeType,
           Finish(done, outcome), UNCHANGED <<online, group, corpse, attended>>,
           timer' \in BOOLEAN, revoted' \in SUBSET Items, revoted \subseteq revoted'
    PROVE  LootInv'
<1> DEFINE given == {i \in done : outcome[i].to # None}
<1>0. TypeOK /\ Reserved /\ Given /\ Fresh /\ Tallied
  BY DEF LootInv
<1>1. /\ roll' = [i \in Items |-> IF i \in done THEN None ELSE roll[i]]
      /\ blocked' = blocked \ {i \in done : outcome[i].unblock}
      /\ looted' = looted \cup given
      /\ unlooted' = (unlooted - Cardinality(given)) % 256
      /\ got' = [i \in Items |-> IF i \in given THEN Append(got[i], outcome[i].to)
                                                ELSE got[i]]
  BY DEF Finish
<1>2. \A i \in given : i \in Items /\ i \in done /\ outcome[i].to \in Players
  BY DEF OutcomeType
<1> HIDE DEF given
<1>3. \A i \in Items : Rolling(i)' => i \notin done /\ Rolling(i) /\ roll'[i] = roll[i]
  BY <1>1 DEF Rolling
<1>4. TypeOK'
  <2>1. got' \in [Items -> Seq(Players)]
    BY <1>0, <1>1, <1>2, AppendProperties DEF TypeOK
  <2>2. roll' \in [Items -> Rolls \cup {None}]
    BY <1>0, <1>1 DEF TypeOK
  <2>3. blocked' \subseteq Items /\ looted' \subseteq Items
    BY <1>0, <1>1, <1>2 DEF TypeOK
  <2>4. unlooted' \in 0..255
    <3>1. given \subseteq Items
      BY <1>2
    <3>2. Cardinality(given) \in Nat
      BY <3>1, GroupLootAssumption, FS_Subset, FS_CardinalityType
    <3>3. unlooted \in 0..255
      BY <1>0 DEF TypeOK
    <3>4. unlooted - Cardinality(given) \in Int
      BY <3>2, <3>3
    <3> QED BY <1>1, <3>4, Byte
  <2> QED BY <1>0, <2>1, <2>2, <2>3, <2>4 DEF TypeOK
<1>5. Reserved'
  BY <1>0, <1>1, <1>2, <1>3 DEF Reserved
<1>6. Given'
  <2> SUFFICES ASSUME NEW i \in Items
               PROVE  /\ i \notin looted' => got'[i] = <<>>
                      /\ Rolling(i)' => Len(got'[i]) <= 1
                      /\ Len(got'[i]) <= IF i \in QuestItems THEN 2 ELSE 1
    BY DEF Given
  <2>1. CASE i \in given
    <3>1. /\ Len(got[i]) <= 1 /\ (i \notin QuestItems => got[i] = <<>>)
          /\ got[i] \in Seq(Players)
      BY <1>0, <1>2, <2>1 DEF Reserved, Given, TypeOK
    <3>2. got'[i] = Append(got[i], outcome[i].to) /\ outcome[i].to \in Players
      BY <1>1, <1>2, <2>1
    <3>3. Len(got'[i]) = Len(got[i]) + 1 /\ Len(got[i]) \in Nat
      BY <3>1, <3>2, AppendProperties, LenProperties
    <3>4. i \notin QuestItems => Len(got[i]) = 0
      BY <3>1
    <3>5. i \in looted' /\ ~Rolling(i)'
      BY <1>1, <1>2, <1>3, <2>1
    <3> QED BY <3>1, <3>3, <3>4, <3>5
  <2>2. CASE i \notin given
    BY <1>0, <1>1, <1>3, <2>2 DEF Given
  <2> QED BY <2>1, <2>2
<1>7. Fresh'
  <2>1. corpse = "fresh" => done = {}
    BY <1>0 DEF Fresh
  <2> QED BY <1>0, <1>1, <1>2, <1>3, <2>1 DEF Fresh
<1>8. Tallied'
  <2> SUFFICES ASSUME NEW i \in Items, Rolling(i)'
               PROVE  AtLeast(roll'[i]) /\ (i \notin revoted' => Exact(roll'[i]))
    BY DEF Tallied
  <2>1. Rolling(i) /\ roll'[i] = roll[i]
    BY <1>3
  <2> QED BY <1>0, <2>1 DEF Tallied
<1> QED BY <1>4, <1>5, <1>6, <1>7, <1>8 DEF LootInv

-----------------------------------------------------------------------------
\* Opening the corpse keeps the invariant.
LEMMA StartRollsOK == LootInv /\ StartRolls => LootInv'
<1> SUFFICES ASSUME LootInv, StartRolls PROVE LootInv'
  OBVIOUS
<1>0. TypeOK /\ Given /\ Fresh /\ corpse = "fresh"
  BY DEF LootInv, StartRolls
<1>1. PICK near \in SUBSET (group \cap online), passing \in SUBSET Players :
         /\ passing \subseteq near
         /\ LET items == IF near = {} THEN {} ELSE Items
            IN /\ roll' = [i \in Items |->
                    IF i \in items
                    THEN NewRoll(near, IF i \in QuestItems THEN {} ELSE passing)
                    ELSE None]
               /\ blocked' = items
               /\ timer' = (items # {})
  BY DEF StartRolls
<1> DEFINE items == IF near = {} THEN {} ELSE Items
           r(i) == NewRoll(near, IF i \in QuestItems THEN {} ELSE passing)
<1>2. /\ roll' = [i \in Items |-> IF i \in items THEN r(i) ELSE None]
      /\ blocked' = items /\ timer' = (items # {}) /\ items \subseteq Items
      /\ corpse' = "looted at"
      /\ UNCHANGED <<online, group, attended, unlooted, looted, got, revoted>>
  BY <1>1 DEF StartRolls
<1>3. \A i \in Items : r(i) \in Rolls /\ AtLeast(r(i)) /\ Exact(r(i))
  <2> SUFFICES ASSUME NEW i \in Items PROVE r(i) \in Rolls /\ AtLeast(r(i)) /\ Exact(r(i))
    OBVIOUS
  <2>1. near \in SUBSET Players /\ (IF i \in QuestItems THEN {} ELSE passing) \in SUBSET near
    BY <1>0, <1>1 DEF TypeOK
  <2> QED BY <2>1, NewRollIs
<1> HIDE DEF items, r
<1>4. \A i \in Items : Rolling(i)' => i \in items /\ roll'[i] = r(i)
  BY <1>2 DEF Rolling
<1>5. TypeOK'
  <2>1. roll' \in [Items -> Rolls \cup {None}]
    BY <1>2, <1>3
  <2> QED BY <1>0, <1>2, <2>1 DEF TypeOK
<1>6. Reserved' /\ Fresh'
  BY <1>0, <1>2, <1>4 DEF Reserved, Fresh
<1>7. Given'
  <2>1. \A i \in Items : got'[i] = <<>>
    BY <1>0, <1>2 DEF Fresh, Given
  <2> QED BY <2>1 DEF Given
<1>8. Tallied'
  BY <1>3, <1>4 DEF Tallied
<1> QED BY <1>5, <1>6, <1>7, <1>8 DEF LootInv

\* Group::CountRollVote keeps the invariant, whether it ends the roll or not.
LEMMA VoteOK ==
    ASSUME LootInv, NEW p \in Players, NEW i \in Items, NEW c \in RollType, HandleLootRoll(p, i, c)
    PROVE  LootInv'
<1> DEFINE r == Counted(roll[i], p, c)
<1>0. TypeOK /\ Reserved /\ Given /\ Fresh /\ Tallied
  BY DEF LootInv
<1>1. /\ Rolling(i) /\ p \in DOMAIN roll[i].vote
      /\ revoted' = IF roll[i].vote[p] = NOT_EMITED_YET THEN revoted ELSE revoted \cup {i}
      /\ UNCHANGED <<online, group, corpse, attended, timer>>
      /\ \/ \E o \in Outcomes(r) : Finish({i}, [j \in {i} |-> o])
         \/ roll' = [roll EXCEPT ![i] = r] /\ UNCHANGED <<blocked, looted, unlooted, got>>
  BY DEF HandleLootRoll
<1>2. roll[i] \in Rolls /\ AtLeast(roll[i])
  BY <1>0, <1>1, RollingIs DEF Tallied
<1>3. /\ r \in Rolls /\ AtLeast(r)
      /\ Exact(roll[i]) /\ roll[i].vote[p] = NOT_EMITED_YET => Exact(r)
  BY <1>1, <1>2, CountedIs
<1> HIDE DEF r
<1>4. revoted' \in SUBSET Items /\ revoted \subseteq revoted'
      /\ (i \notin revoted' => i \notin revoted /\ roll[i].vote[p] = NOT_EMITED_YET)
  BY <1>0, <1>1 DEF TypeOK
<1>5. CASE \E o \in Outcomes(r) : Finish({i}, [j \in {i} |-> o])
  <2>1. PICK o \in Outcomes(r) : Finish({i}, [j \in {i} |-> o])
    BY <1>5
  <2>2. o \in OutcomeType
    BY <1>3, OutcomesAre
  <2>3. \A k \in {i} : Rolling(k) /\ [j \in {i} |-> o][k] \in OutcomeType
    BY <1>1, <2>2
  <2>4. timer' \in BOOLEAN /\ UNCHANGED <<online, group, corpse, attended>>
    BY <1>0, <1>1 DEF TypeOK
  <2> QED BY <1>4, <2>1, <2>3, <2>4, FinishOK
<1>6. CASE roll' = [roll EXCEPT ![i] = r] /\ UNCHANGED <<blocked, looted, unlooted, got>>
  <2>1. \A k \in Items : roll'[k] = IF k = i THEN r ELSE roll[k]
    BY <1>0, <1>6 DEF TypeOK
  <2>2. TypeOK'
    <3>1. roll' \in [Items -> Rolls \cup {None}]
      BY <1>0, <1>3, <1>6 DEF TypeOK
    <3> QED BY <1>0, <1>1, <1>4, <1>6, <3>1 DEF TypeOK
  <2>3. \A k \in Items : Rolling(k)' => Rolling(k)
    BY <1>1, <2>1 DEF Rolling
  <2>4. Reserved' /\ Fresh' /\ Given'
    BY <1>0, <1>1, <1>6, <2>3 DEF Reserved, Fresh, Given
  <2>5. Tallied'
    <3> SUFFICES ASSUME NEW k \in Items, Rolling(k)'
                 PROVE  AtLeast(roll'[k]) /\ (k \notin revoted' => Exact(roll'[k]))
      BY DEF Tallied
    <3>1. CASE k = i
      BY <1>0, <1>1, <1>3, <1>4, <2>1, <3>1 DEF Tallied
    <3>2. CASE k # i
      BY <1>0, <1>4, <2>1, <2>3, <3>2 DEF Tallied
    <3> QED BY <3>1, <3>2
  <2> QED BY <2>2, <2>4, <2>5 DEF LootInv
<1> QED BY <1>1, <1>5, <1>6

\* Group::RemoveMember and Disband keep the invariant.
LEMMA RemoveMemberOK ==
    ASSUME LootInv, NEW p \in Players, RemoveMember(p)
    PROVE  LootInv'
<1>0. TypeOK /\ Reserved /\ Given /\ Fresh /\ Tallied
  BY DEF LootInv
<1>1. /\ UNCHANGED <<online, corpse, attended, unlooted, timer, blocked, looted, got, revoted>>
      /\ group' \in {{}, group \ {p}}
      /\ \/ roll' = [i \in Items |-> Without(roll[i], p)]
         \/ roll' = [i \in Items |-> None]
  BY DEF RemoveMember, Disband
<1>2. \A i \in Items : /\ Rolling(i)' => Rolling(i) /\ roll'[i] = Without(roll[i], p)
                       /\ ~Rolling(i)' => roll'[i] = None
  BY <1>1 DEF Rolling, Without
<1>3. ASSUME NEW i \in Items, Rolling(i)'
      PROVE  /\ roll'[i] \in Rolls /\ AtLeast(roll'[i])
             /\ Exact(roll[i]) => Exact(roll'[i])
  BY <1>0, <1>2, <1>3, RollingIs, WithoutIs DEF Tallied
<1>4. TypeOK'
  <2>1. roll' \in [Items -> Rolls \cup {None}]
    BY <1>1, <1>2, <1>3
  <2> QED BY <1>0, <1>1, <2>1 DEF TypeOK
<1>5. Reserved' /\ Fresh' /\ Given'
  BY <1>0, <1>1, <1>2 DEF Reserved, Fresh, Given
<1>6. Tallied'
  BY <1>0, <1>1, <1>2, <1>3 DEF Tallied
<1> QED BY <1>4, <1>5, <1>6 DEF LootInv

\* The end of m_groupLootTimer keeps the invariant.
LEMMA TimerOK == LootInv /\ GroupLootTimer => LootInv'
<1> SUFFICES ASSUME LootInv, GroupLootTimer PROVE LootInv'
  OBVIOUS
<1> DEFINE open == {i \in Items : Rolling(i)}
<1>1. PICK outcome : /\ \A i \in open : outcome[i] \in Outcomes(roll[i])
                     /\ Finish(open, outcome)
  BY DEF GroupLootTimer
<1>2. /\ timer' = FALSE /\ UNCHANGED <<online, group, corpse, attended, revoted>>
  BY DEF GroupLootTimer
<1>3. TypeOK
  BY DEF LootInv
<1>4. \A i \in open : Rolling(i) /\ outcome[i] \in OutcomeType
  BY <1>1, <1>3, RollingIs, OutcomesAre
<1>5. open \in SUBSET Items /\ timer' \in BOOLEAN /\ revoted' \in SUBSET Items
      /\ revoted \subseteq revoted' /\ UNCHANGED <<online, group, corpse, attended>>
  BY <1>2, <1>3 DEF TypeOK
<1> HIDE DEF open
<1> QED BY <1>1, <1>4, <1>5, FinishOK

\* What changes neither the rolls nor the items keeps the invariant.
LEMMA OthersOK ==
    ASSUME LootInv,
           \/ RemoveCorpse \/ ReleaseLooted \/ Despawn \/ Wander
           \/ \E p \in Players : AddMember(p) \/ Disconnect(p) \/ Login(p)
           \/ UNCHANGED vars
    PROVE  LootInv' /\ UNCHANGED <<roll, blocked, looted, got>>
<1>0. TypeOK /\ Reserved /\ Given /\ Fresh /\ Tallied
  BY DEF LootInv
<1>1. /\ UNCHANGED <<unlooted, roll, blocked, looted, got, revoted, timer>>
      /\ attended' \in BOOLEAN /\ online' \subseteq Players /\ group' \subseteq Players
      /\ corpse' \in {corpse, "decayed", "despawned"}
  BY <1>0 DEF TypeOK, RemoveCorpse, ReleaseLooted, Despawn, Wander,
       AddMember, Disconnect, Login, vars
<1>2. TypeOK'
  BY <1>0, <1>1 DEF TypeOK
<1>3. Reserved' /\ Fresh' /\ Given' /\ Tallied'
  BY <1>0, <1>1 DEF Reserved, Fresh, Given, Tallied, Rolling
<1> QED BY <1>1, <1>2, <1>3 DEF LootInv

\* Taking an item out of the loot window keeps the invariant: is_blocked is
\* looked at first, except for a quest item.
LEMMA StoreLootItemOK ==
    ASSUME LootInv, NEW p \in Players, NEW i \in Items, StoreLootItem(p, i)
    PROVE  LootInv'
<1>0. TypeOK /\ Reserved /\ Given /\ Fresh /\ Tallied
  BY DEF LootInv
<1>1. /\ corpse = "looted at" /\ i \notin looted /\ (i \in QuestItems \/ i \notin blocked)
      /\ unlooted' = (unlooted - 1) % 256
      /\ looted' = looted \cup {i} /\ got' = [got EXCEPT ![i] = Append(@, p)]
      /\ UNCHANGED <<online, group, corpse, attended, timer, roll, blocked, revoted>>
  BY DEF StoreLootItem, Lootable
<1>2. TypeOK'
  <2>1. got' \in [Items -> Seq(Players)]
    BY <1>0, <1>1, AppendProperties DEF TypeOK
  <2>2. unlooted' \in 0..255
    <3>1. unlooted \in 0..255
      BY <1>0 DEF TypeOK
    <3>2. unlooted - 1 \in Int
      BY <3>1
    <3> QED BY <1>1, <3>2, Byte
  <2> QED BY <1>0, <1>1, <2>1, <2>2 DEF TypeOK
<1>3. Reserved' /\ Fresh' /\ Tallied'
  BY <1>0, <1>1 DEF Reserved, Fresh, Tallied, Rolling
<1>4. Given'
  <2>1. got[i] = <<>> /\ got'[i] = Append(<<>>, p)
    BY <1>0, <1>1 DEF Given, TypeOK
  <2>2. \A k \in Items \ {i} : got'[k] = got[k]
    BY <1>0, <1>1 DEF TypeOK
  <2>3. \A k \in Items : Rolling(k)' <=> Rolling(k)
    BY <1>1 DEF Rolling
  <2> SUFFICES ASSUME NEW k \in Items
               PROVE  /\ k \notin looted' => got'[k] = <<>>
                      /\ Rolling(k)' => Len(got'[k]) <= 1
                      /\ Len(got'[k]) <= IF k \in QuestItems THEN 2 ELSE 1
    BY DEF Given
  <2>4. CASE k = i
    <3>1. Len(got'[i]) = 1
      <4>1. <<>> \in Seq(Players) /\ Len(<<>>) = 0
        BY EmptySeq
      <4>2. Len(Append(<<>>, p)) = Len(<<>>) + 1
        BY <4>1, AppendProperties
      <4> QED BY <2>1, <4>1, <4>2
    <3>2. Len(got'[k]) = 1 /\ k \in looted'
      BY <1>1, <2>4, <3>1
    <3> QED BY <3>2
  <2>5. CASE k # i
    BY <1>0, <1>1, <2>2, <2>3, <2>5 DEF Given
  <2> QED BY <2>4, <2>5
<1> QED BY <1>2, <1>3, <1>4 DEF LootInv

\* The steps of the group and the corpse, those that touch no roll together.
LEMMA Steps ==
    [Next]_vars =>
        \/ StartRolls
        \/ GroupLootTimer
        \/ \E p \in Players : RemoveMember(p)
        \/ \E p \in Players, i \in Items : StoreLootItem(p, i)
        \/ \E p \in Players, i \in Items, c \in RollType : HandleLootRoll(p, i, c)
        \/ \/ RemoveCorpse \/ ReleaseLooted \/ Despawn \/ Wander
           \/ \E p \in Players : AddMember(p) \/ Disconnect(p) \/ Login(p)
           \/ UNCHANGED vars
BY DEF Next

\* Every step keeps the invariant.
LEMMA NextOK == LootInv /\ [Next]_vars => LootInv'
BY Steps, StartRollsOK, TimerOK, RemoveMemberOK, StoreLootItemOK, VoteOK,
     OthersOK

\* LootInv holds of every state of the group and the corpse, for any players,
\* items and number of votes.
THEOREM InvariantHolds == Spec => []LootInv
BY InitOK, NextOK, PTL DEF Spec

\* Group::CountTheRoll and Player::StoreLootItem never give one item to two
\* players, although CountTheRoll does not look at is_looted, except a quest
\* item, which goes to two at most.
THEOREM GivenOnce == Spec => []AwardedOnce
<1>1. LootInv => AwardedOnce
  BY DEF LootInv, Given, AwardedOnce
<1> QED BY <1>1, InvariantHolds, PTL

\* totalNeed, totalGreed, totalPass and totalPlayersRolling of each Roll in
\* RollId are those of playerVote as long as nobody voted twice, also after
\* members left.
THEOREM TotalsAreRight == Spec => []TotalsMatchVotes
<1>1. LootInv => TotalsMatchVotes
  BY DEF LootInv, Tallied, AtLeast, Exact, TotalsMatchVotes
<1> QED BY <1>1, InvariantHolds, PTL

-----------------------------------------------------------------------------
\* The roll for the item is open before the step and not after it.
Ended(i) == Rolling(i) /\ roll'[i] = None

\* A roll ends, with its group going on or with the item given away, by the
\* timer or by a vote that completes it.
LEMMA Endings ==
    ASSUME LootInv, [Next]_vars, NEW i \in Items, Ended(i), group' # {} \/ got'[i] # got[i]
    PROVE  \/ GroupLootTimer
           \/ \E p \in Players, c \in RollType :
                /\ p \in DOMAIN roll[i].vote
                /\ AllVoted(Counted(roll[i], p, c))
                /\ revoted' = IF roll[i].vote[p] = NOT_EMITED_YET THEN revoted
                                                                  ELSE revoted \cup {i}
                /\ \E o \in Outcomes(Counted(roll[i], p, c)) : Finish({i}, [j \in {i} |-> o])
<1>0. TypeOK /\ Reserved /\ Given /\ Fresh /\ Tallied
  BY DEF LootInv
<1>1. roll[i] \in Rolls /\ roll[i] # None /\ AtLeast(roll[i])
  BY <1>0, RollingIs DEF Ended, Rolling, Tallied
<1>2. CASE StartRolls
  BY <1>0, <1>2 DEF StartRolls, Fresh, Ended
<1>3. ASSUME NEW p \in Players, RemoveMember(p) PROVE FALSE
  <2>1. roll' = [k \in Items |-> Without(roll[k], p)]
    BY <1>3 DEF RemoveMember, Disband
  <2>2. Without(roll[i], p) \in Rolls
    BY <1>1, WithoutIs
  <2> QED BY <2>1, <2>2, NoRollAssumption DEF Ended
<1>4. ASSUME NEW p \in Players, NEW k \in Items, StoreLootItem(p, k) PROVE FALSE
  BY <1>1, <1>4 DEF StoreLootItem, Ended
<1>5. CASE \/ RemoveCorpse \/ ReleaseLooted \/ Despawn \/ Wander
           \/ \E p \in Players : AddMember(p) \/ Disconnect(p) \/ Login(p)
           \/ UNCHANGED vars
  BY <1>1, <1>5, OthersOK DEF Ended
<1>6. ASSUME NEW p \in Players, NEW k \in Items, NEW c \in RollType, HandleLootRoll(p, k, c)
      PROVE  \E q \in Players, d \in RollType :
                /\ q \in DOMAIN roll[i].vote
                /\ AllVoted(Counted(roll[i], q, d))
                /\ revoted' = IF roll[i].vote[q] = NOT_EMITED_YET THEN revoted
                                                                  ELSE revoted \cup {i}
                /\ \E o \in Outcomes(Counted(roll[i], q, d)) : Finish({i}, [j \in {i} |-> o])
  <2> DEFINE r == Counted(roll[k], p, c)
  <2>1. /\ Rolling(k) /\ p \in DOMAIN roll[k].vote
        /\ revoted' = IF roll[k].vote[p] = NOT_EMITED_YET THEN revoted ELSE revoted \cup {k}
        /\ IF AllVoted(r) THEN \E o \in Outcomes(r) : Finish({k}, [j \in {k} |-> o])
                          ELSE roll' = [roll EXCEPT ![k] = r]
    BY <1>6 DEF HandleLootRoll
  <2>2. r \in Rolls
    BY <1>0, <2>1, RollingIs, CountedIs DEF Tallied
  <2> HIDE DEF r
  <2>3. AllVoted(r)
    <3>1. ASSUME roll' = [roll EXCEPT ![k] = r] PROVE FALSE
      BY <1>0, <1>1, <2>2, <3>1, NoRollAssumption DEF Ended, TypeOK
    <3> QED BY <2>1, <3>1
  <2>4. k = i
    BY <1>1, <2>1, <2>3 DEF Finish, Ended
  <2> QED BY <2>1, <2>3, <2>4 DEF r
<1> QED BY <1>2, <1>3, <1>4, <1>5, <1>6, Steps

\* If nobody voted twice, a roll ends with exact totals, and the votes that are
\* counted are those of before and perhaps one of a player who was undecided.
LEMMA EndsFairly ==
    ASSUME LootInv, [Next]_vars, NEW i \in Items, Ended(i), group' # {} \/ got'[i] # got[i],
           i \notin revoted'
    PROVE  \E r \in Rolls, o \in OutcomeType :
             /\ Exact(r) /\ AtLeast(r) /\ DOMAIN r.vote = DOMAIN roll[i].vote
             /\ \A q \in DOMAIN r.vote : roll[i].vote[q] \in {r.vote[q], NOT_EMITED_YET}
             /\ Exact(roll[i])
             /\ o \in Outcomes(r)
             /\ \E done \in SUBSET Items : \E outcome :
                    i \in done /\ outcome[i] = o /\ Finish(done, outcome)
             /\ \/ GroupLootTimer
                \/ AllVoted(r) /\ \E p : Undecided(roll[i]) = Undecided(r) \cup {p}
<1>0. TypeOK /\ Reserved /\ Given /\ Fresh /\ Tallied
  BY DEF LootInv
<1>1. roll[i] \in Rolls /\ AtLeast(roll[i]) /\ roll[i].vote \in Votes
  BY <1>0, RollingIs, RollIs DEF Ended, Tallied
<1>2. CASE GroupLootTimer
  <2> DEFINE open == {k \in Items : Rolling(k)}
  <2>1. PICK outcome : /\ \A k \in open : outcome[k] \in Outcomes(roll[k])
                       /\ Finish(open, outcome)
    BY <1>2 DEF GroupLootTimer
  <2>2. i \in open /\ open \in SUBSET Items
    BY DEF Ended
  <2>3. Exact(roll[i])
    BY <1>0, <1>2 DEF GroupLootTimer, Tallied, Ended
  <2>4. outcome[i] \in Outcomes(roll[i]) /\ outcome[i] \in OutcomeType
    BY <1>1, <2>1, <2>2, OutcomesAre
  <2> HIDE DEF open
  <2> QED BY <1>1, <1>2, <2>1, <2>2, <2>3, <2>4
<1>3. ASSUME NEW p \in Players, NEW c \in RollType,
             p \in DOMAIN roll[i].vote,
             AllVoted(Counted(roll[i], p, c)),
             revoted' = IF roll[i].vote[p] = NOT_EMITED_YET THEN revoted ELSE revoted \cup {i},
             \E o \in Outcomes(Counted(roll[i], p, c)) : Finish({i}, [j \in {i} |-> o])
      PROVE  \E r \in Rolls, o \in OutcomeType :
               /\ Exact(r) /\ AtLeast(r) /\ DOMAIN r.vote = DOMAIN roll[i].vote
               /\ \A q \in DOMAIN r.vote : roll[i].vote[q] \in {r.vote[q], NOT_EMITED_YET}
               /\ Exact(roll[i])
               /\ o \in Outcomes(r)
               /\ \E done \in SUBSET Items : \E outcome :
                      i \in done /\ outcome[i] = o /\ Finish(done, outcome)
               /\ AllVoted(r) /\ \E q : Undecided(roll[i]) = Undecided(r) \cup {q}
  <2> DEFINE r == Counted(roll[i], p, c)
             f == roll[i].vote
  <2>1. f[p] = NOT_EMITED_YET /\ i \notin revoted
    BY <1>3
  <2>2. Exact(roll[i])
    BY <1>0, <2>1 DEF Tallied, Ended
  <2>3. r \in Rolls /\ Exact(r) /\ AtLeast(r) /\ r.vote = With(f, p, c) /\ DOMAIN r.vote = DOMAIN f
    BY <1>1, <1>3, <2>1, <2>2, CountedIs
  <2>4. PICK o \in Outcomes(r) : Finish({i}, [j \in {i} |-> o])
    BY <1>3
  <2> HIDE DEF r
  <2>5. o \in OutcomeType
    BY <2>3, OutcomesAre
  <2>6. r.vote[p] = c /\ \A q \in DOMAIN f \ {p} : r.vote[q] = f[q]
    BY <1>1, <1>3, <2>3, VotesAre DEF With
  <2>7. \A q \in DOMAIN r.vote : f[q] \in {r.vote[q], NOT_EMITED_YET}
    BY <2>1, <2>3, <2>6
  <2>8. Undecided(roll[i]) = Undecided(r) \cup {p}
    BY <1>3, <2>1, <2>3, <2>6 DEF Undecided, Voted
  <2>9. {i} \in SUBSET Items /\ i \in {i} /\ [j \in {i} |-> o][i] = o
    OBVIOUS
  <2>10. \E done \in SUBSET Items : \E outcome :
                      i \in done /\ outcome[i] = o /\ Finish(done, outcome)
    BY <2>4, <2>9
  <2>11. AllVoted(r)
    BY <1>3 DEF r
  <2> QED BY <2>2, <2>3, <2>4, <2>5, <2>7, <2>8, <2>10, <2>11
<1> QED BY <1>2, <1>3, Endings

\* A roll on which nobody voted twice ends before the timer only with the vote
\* of the last undecided player (the comparison in Group::CountRollVote).
THEOREM AllMayChoose == Spec => NobodyCutOff
<1>1. ASSUME LootInv, [Next]_vars
      PROVE  [\A i \in Items :
                Rolling(i) /\ roll'[i] = None /\ timer' = timer /\ group' # {} /\ i \notin revoted'
                  => Cardinality(Voted(roll[i].vote, {NOT_EMITED_YET})) <= 1]_vars
  <2> SUFFICES ASSUME NEW i \in Items, Ended(i), timer' = timer, group' # {}, i \notin revoted'
               PROVE  Cardinality(Undecided(roll[i])) <= 1
    BY DEF Ended, Undecided
  <2>1. ~GroupLootTimer
    BY DEF GroupLootTimer, TimerDue
  <2>2. PICK r \in Rolls :
             /\ Exact(r) /\ AtLeast(r) /\ AllVoted(r)
             /\ \E p : Undecided(roll[i]) = Undecided(r) \cup {p}
    BY <1>1, <2>1, EndsFairly
  <2>3. Cardinality(Undecided(r)) = 0
    <3>1. /\ Cardinality(Undecided(r)) \in Nat
          /\ r.pass + r.need + r.greed + Cardinality(Undecided(r)) = r.rolling
      BY <2>2, EverybodyVotes
    <3> QED BY <2>2, <3>1, RollIs, NoRollAssumption DEF AllVoted, Total
  <2>4. Undecided(r) = {}
    BY <2>3, RollIs DEF Undecided
  <2>5. PICK p : Undecided(roll[i]) = {p}
    BY <2>2, <2>4
  <2> QED BY <2>5, FS_Singleton
<1> QED BY <1>1, InvariantHolds, PTL DEF Spec, NobodyCutOff

\* Group::CountTheRoll gives the item to nobody who passed, and to nobody who
\* chose greed or disenchant if somebody chose need, unless somebody voted
\* twice.
THEOREM NeedBeatsGreed == Spec => NeedWins
<1>1. ASSUME LootInv, [Next]_vars
      PROVE  [\A i \in Items \ revoted' :
                Rolling(i) /\ roll'[i] = None /\ got'[i] # got[i]
                  => LET vote == roll[i].vote
                         winner == Last(got'[i])
                     IN /\ vote[winner] # PASS
                        /\ Voted(vote, {NEED}) # {} => vote[winner] \in {NEED, NOT_EMITED_YET}]_vars
  <2> SUFFICES ASSUME NEW i \in Items, i \notin revoted', Ended(i), got'[i] # got[i]
               PROVE  /\ roll[i].vote[Last(got'[i])] # PASS
                      /\ Voted(roll[i].vote, {NEED}) # {}
                           => roll[i].vote[Last(got'[i])] \in {NEED, NOT_EMITED_YET}
    BY DEF Ended
  <2>1. PICK r \in Rolls, o \in OutcomeType :
             /\ Exact(r) /\ DOMAIN r.vote = DOMAIN roll[i].vote
             /\ \A q \in DOMAIN r.vote : roll[i].vote[q] \in {r.vote[q], NOT_EMITED_YET}
             /\ Exact(roll[i])
             /\ o \in Outcomes(r)
             /\ \E done \in SUBSET Items : \E outcome :
                    i \in done /\ outcome[i] = o /\ Finish(done, outcome)
    BY <1>1, EndsFairly
  <2>2. o.to # None /\ got'[i] = Append(got[i], o.to)
    BY <2>1 DEF Finish
  <2>3. Last(got'[i]) = o.to
    <3>1. got[i] \in Seq(Players) /\ o.to \in Players
      BY <1>1, <2>2 DEF LootInv, TypeOK, OutcomeType
    <3> QED BY <2>2, <3>1, AppendProperties DEF Last
  <2>4. o.to \in Candidates(r)
    BY <2>1, <2>2, OutcomeIsFair
  <2>5. /\ o.to \in DOMAIN r.vote /\ r.vote[o.to] \in {NEED, GREED, DISENCHANT}
        /\ r.need > 0 => r.vote[o.to] = NEED
    BY <2>4 DEF Candidates, Voted
  <2>6. roll[i].vote[o.to] \in {r.vote[o.to], NOT_EMITED_YET}
    BY <2>1, <2>5
  <2>7. Voted(roll[i].vote, {NEED}) # {} => r.need > 0
    <3> SUFFICES ASSUME Voted(roll[i].vote, {NEED}) # {} PROVE r.need > 0
      OBVIOUS
    <3>1. PICK q \in DOMAIN r.vote : roll[i].vote[q] = NEED
      BY <2>1 DEF Voted
    <3>2. r.vote[q] = NEED
      BY <2>1, <3>1
    <3>3. Voted(r.vote, {NEED}) # {}
      BY <3>2 DEF Voted
    <3>4. r.need = Cardinality(Voted(r.vote, {NEED}))
      BY <2>1 DEF Exact
    <3>5. r.need \in Nat /\ r.need # 0
      BY <3>3, <3>4, RollIs
    <3> QED BY <3>5
  <2>8. roll[i].vote[o.to] # PASS
    BY <2>5, <2>6
  <2>9. Voted(roll[i].vote, {NEED}) # {} => roll[i].vote[o.to] \in {NEED, NOT_EMITED_YET}
    BY <2>5, <2>6, <2>7
  <2> QED BY <2>3, <2>8, <2>9
<1> QED BY <1>1, InvariantHolds, PTL DEF Spec, NeedWins

\* After Group::CountTheRoll an item is given away or free for all, unless
\* somebody voted twice, the group was disbanded or one of those rolling is not
\* connected.
THEOREM NothingStaysBlocked == Spec => NotLeftBlocked
<1>1. ASSUME LootInv, [Next]_vars
      PROVE  [\A i \in Items \ revoted' :
                Rolling(i) /\ roll'[i] = None /\ LootExists /\ group' # {}
                  => \/ i \in looted' \/ i \notin blocked'
                     \/ ~(DOMAIN roll[i].vote \subseteq online)]_vars
  <2> SUFFICES ASSUME NEW i \in Items, i \notin revoted', Ended(i), LootExists, group' # {}
               PROVE  \/ i \in looted' \/ i \notin blocked'
                      \/ ~(DOMAIN roll[i].vote \subseteq online)
    BY DEF Ended
  <2>1. PICK r \in Rolls, o \in OutcomeType :
             /\ Exact(r) /\ DOMAIN r.vote = DOMAIN roll[i].vote
             /\ o \in Outcomes(r)
             /\ \E done \in SUBSET Items : \E outcome :
                    i \in done /\ outcome[i] = o /\ Finish(done, outcome)
    BY <1>1, EndsFairly
  <2>2. o.to # None \/ o.unblock \/ ~(DOMAIN r.vote \subseteq online)
    BY <2>1, OutcomeIsFair
  <2> QED BY <2>1, <2>2 DEF Finish
<1> QED BY <1>1, InvariantHolds, PTL DEF Spec, NotLeftBlocked
=============================================================================
