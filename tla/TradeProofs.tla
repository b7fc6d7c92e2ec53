------------------------------ MODULE TradeProofs ------------------------------
(***************************************************************************)
(* The trade window keeps its promises for any number of characters, items *)
(* and slots.                                                              *)
(*                                                                         *)
(* Three parts: what moveItems computes (a recursive function, settled by  *)
(* its smallest counterexample), what keeps the window consistent, and the *)
(* steps of the inductive invariant TradeInv.                              *)
(***************************************************************************)
EXTENDS Trade, FiniteSums

\* The two halves of a trade name each other, and both characters are in the
\* world (TradesPaired without the types).
Paired ==
    \A p \in Players : Trading(p) =>
        p \in online /\ trader[p] # p /\ trader[trader[p]] = p

\* What the window shows of a character, m_items, m_money and m_spell, is an
\* offer.
LEMMA OffersType ==
    ASSUME TypeOK, NEW p \in Players
    PROVE  Offer(p) \in Offers
BY DEF TypeOK, Offer, Offers

\* While m_trade is set its m_trader is a character, and the window both see
\* is well formed.
LEMMA WindowType ==
    ASSUME TypeOK, NEW p \in Players, Trading(p)
    PROVE  /\ trader[p] \in Players
           /\ Window(p) \in [mine : Offers, his : Offers]
<1>1. trader[p] \in Players
  BY DEF TypeOK, Trading
<1> QED BY <1>1, OffersType DEF Window

\* Setting m_accepted for some characters keeps the flags and the history of
\* what was seen well typed.
LEMMA SetAcceptedType ==
    ASSUME TypeOK, NEW ps \in SUBSET Players, NEW flags \in [ps -> BOOLEAN],
           \A p \in ps : flags[p] => Trading(p),
           SetAccepted(flags)
    PROVE  /\ accepted' \in [Players -> BOOLEAN]
           /\ seen' \in [Players -> [mine : Offers, his : Offers] \cup {None}]
<1>1. accepted' \in [Players -> BOOLEAN]
  BY DEF SetAccepted, TypeOK
<1>2. ASSUME NEW p \in Players
      PROVE  (IF p \notin DOMAIN flags THEN seen[p]
              ELSE IF flags[p] THEN Window(p) ELSE None) \in [mine : Offers, his : Offers] \cup {None}
  <2>1. CASE p \notin ps
    BY <2>1 DEF TypeOK
  <2>2. CASE p \in ps /\ ~flags[p]
    BY <2>2
  <2>3. CASE p \in ps /\ flags[p]
    BY <2>3, WindowType
  <2> QED BY <2>1, <2>2, <2>3
<1>3. seen' = [p \in Players |-> IF p \notin DOMAIN flags THEN seen[p]
                               ELSE IF flags[p] THEN Window(p) ELSE None]
  BY DEF SetAccepted
<1> QED BY <1>1, <1>2, <1>3

-----------------------------------------------------------------------------
(* The exchange of items. *)

\* No item is in two slots of one offer: HandleSetTradeItemOpcode asks HasItem
\* first.  Without this the moves of one item would be counted twice and
\* CanStoreItems would not guarantee room.
Distinct ==
    \A p \in Players : \A s, r \in Slots :
        item[p][s] = item[p][r] /\ item[p][s] # None => s = r

\* What the loop of moveItems has taken out of the first n slots of p.
Moved(p, n) == {GetItem(p, s) : s \in 1 .. n} \ {None}

\* TradeData::GetItem returns the item of the slot, and only one the
\* character still carries.
LEMMA GetItemIs ==
    ASSUME TypeOK, NEW p \in Players, NEW s \in Slots, GetItem(p, s) # None
    PROVE  GetItem(p, s) = item[p][s] /\ GetItem(p, s) \in Carried(p) /\ GetItem(p, s) \in Items
BY DEF GetItem, TypeOK, Carried

\* The items that change hands are carried by their owner, and they are what
\* the loop of moveItems has seen after the last slot.
LEMMA GetItemsType ==
    ASSUME TypeOK, NEW p \in Players
    PROVE  /\ GetItems(p) \subseteq Items /\ GetItems(p) \subseteq Carried(p)
           /\ GetItems(p) = Moved(p, SlotCount)
           /\ \A n \in Slots : Moved(p, n) \subseteq GetItems(p)
<1>1. TradedSlots \subseteq Slots /\ \A n \in Slots : 1 .. n \subseteq TradedSlots
  BY TradeAssumption DEF TradedSlots, Slots
<1>2. \A s \in TradedSlots : GetItem(p, s) # None => GetItem(p, s) \in Items /\ GetItem(p, s) \in Carried(p)
  BY <1>1, GetItemIs
<1> QED BY <1>1, <1>2 DEF GetItems, Moved, TradedSlots

\* CanStoreItems was asked once for all items of the partner.  While the loop
\* of moveItems is at slot n, with the items of the slots before it stored,
\* there still is room for the item of slot n.
LEMMA RoomLeft ==
    ASSUME TypeOK, Distinct, ItemsConserved,
           NEW q \in Players, NEW r \in Players, q # r,
           NEW n \in TradedSlots, GetItem(r, n) # None,
           Cardinality(bag[q] \ GetItems(q)) + Cardinality(GetItems(r)) <= Capacity
    PROVE  Cardinality((bag[q] \ GetItems(q)) \cup Moved(r, n - 1)) < Capacity
<1> DEFINE A == bag[q] \ GetItems(q)
           B == GetItems(r)
           C == A \cup Moved(r, n - 1)
           x == GetItem(r, n)
<1>1. n \in Slots /\ n - 1 \in Slots /\ n \in Nat
  BY TradeAssumption DEF Slots, TradedSlots
<1>2. x \in B /\ x \in Items /\ x \in Carried(r) /\ x = item[r][n]
  BY <1>1, GetItemIs DEF GetItems
<1>3. x \notin bag[q]
  BY <1>2 DEF ItemsConserved, Owned, Carried
<1>4. x \notin Moved(r, n - 1)
  <2> SUFFICES ASSUME NEW m \in 1 .. n - 1, GetItem(r, m) = x PROVE FALSE
    BY DEF Moved
  <2>1. m \in Slots /\ m # n
    BY <1>1, TradeAssumption DEF Slots
  <2>2. item[r][m] = x
    BY <2>1, GetItemIs
  <2> QED BY <1>1, <1>2, <2>1, <2>2 DEF Distinct
<1>5. C \cup {x} \subseteq A \cup B
  BY <1>1, <1>2, GetItemsType
<1>6. IsFiniteSet(A) /\ IsFiniteSet(B)
  <2>1. A \subseteq Items /\ B \subseteq Items
    BY GetItemsType DEF TypeOK
  <2> QED BY <2>1, FS_Subset, TradeAssumption
<1> HIDE DEF A, B, C, x
<1>7. IsFiniteSet(A \cup B) /\ Cardinality(A \cup B) <= Cardinality(A) + Cardinality(B)
  <2>1. Cardinality(A \cap B) \in Nat /\ Cardinality(A) \in Nat /\ Cardinality(B) \in Nat
    BY <1>6, FS_Intersection, FS_CardinalityType
  <2>2. /\ IsFiniteSet(A \cup B)
        /\ Cardinality(A \cup B) = Cardinality(A) + Cardinality(B) - Cardinality(A \cap B)
    BY <1>6, FS_Union
  <2> QED BY <2>1, <2>2
<1>8. IsFiniteSet(C) /\ Cardinality(C \cup {x}) <= Cardinality(A \cup B)
  BY <1>5, <1>7, FS_Subset
<1>9. x \notin C
  BY <1>3, <1>4 DEF A, C
<1>10. Cardinality(C \cup {x}) = Cardinality(C) + 1 /\ Cardinality(C) \in Nat
  BY <1>8, <1>9, FS_AddElement, FS_CardinalityType
<1>11. Cardinality(A \cup B) \in Nat /\ Cardinality(A) \in Nat /\ Cardinality(B) \in Nat
  BY <1>6, <1>7, FS_CardinalityType
<1>12. Cardinality(A) + Cardinality(B) <= Capacity
  BY DEF A, B
<1>13. Cardinality(C) < Capacity
  BY <1>7, <1>8, <1>10, <1>11, <1>12, TradeAssumption
<1> QED BY <1>13 DEF A, C

\* The bags after the offered items were taken out of both.
Removed(p) == [q \in Players |-> IF q \in {p, trader[p]} THEN bag[q] \ GetItems(q) ELSE bag[q]]

\* The bags after n turns of the loop of moveItems, in closed form.
After(p, n) ==
    [q \in Players |-> CASE q = p -> (bag[p] \ GetItems(p)) \cup Moved(trader[p], n)
                         [] q = trader[p] -> (bag[q] \ GetItems(q)) \cup Moved(p, n)
                         [] OTHER -> bag[q]]

\* One turn of the loop of moveItems, and what it means that f runs it.
MoveOne(p, b, n) ==
    LET t == trader[p]
        mine == GetItem(p, n)
        his == GetItem(t, n)
    IN  IF Room(b, t, mine) /\ Room(b, p, his)
        THEN Store(Store(b, t, mine), p, his)
        ELSE Store(Store(b, p, mine), t, his)

MovesBy(p, bags, f) == f = [n \in Slots |-> IF n = 0 THEN bags ELSE MoveOne(p, f[n - 1], n)]

\* One turn of moveItems after CanStoreItems: both items change hands, so the
\* branch that puts them back is never taken.
LEMMA MoveStep ==
    ASSUME TypeOK, Paired, Distinct, ItemsConserved,
           NEW p \in Players, Trading(p),
           CanStoreItems(p), CanStoreItems(trader[p]),
           NEW n \in TradedSlots
    PROVE  MoveOne(p, After(p, n - 1), n) = After(p, n)
<1> DEFINE t == trader[p]
           b == After(p, n - 1)
           mine == GetItem(p, n)
           his == GetItem(t, n)
<1>1. t \in Players /\ p # t /\ trader[t] = p
  BY DEF Paired, Trading, TypeOK
<1>2. n \in Slots /\ n - 1 \in Slots /\ n \in Nat
  BY TradeAssumption DEF Slots, TradedSlots
<1>3. /\ b[p] = (bag[p] \ GetItems(p)) \cup Moved(t, n - 1)
      /\ b[t] = (bag[t] \ GetItems(t)) \cup Moved(p, n - 1)
      /\ \A q \in Players \ {p, t} : b[q] = bag[q]
      /\ b = [q \in Players |-> b[q]]
  BY <1>1 DEF After
<1>4. Room(b, t, mine)
  <2>1. CASE mine = None
    BY <2>1 DEF Room
  <2>2. CASE mine # None
    BY <1>1, <1>3, <2>2, RoomLeft DEF Room, CanStoreItems
  <2> QED BY <2>1, <2>2
<1>5. Room(b, p, his)
  <2>1. CASE his = None
    BY <2>1 DEF Room
  <2>2. CASE his # None
    BY <1>1, <1>3, <2>2, RoomLeft DEF Room, CanStoreItems
  <2> QED BY <2>1, <2>2
<1>6. \A q \in {p, t} : Moved(q, n) = Moved(q, n - 1) \cup ({GetItem(q, n)} \ {None})
  <2>1. 1 .. n = (1 .. n - 1) \cup {n}
    BY <1>2 DEF TradedSlots
  <2> QED BY <2>1 DEF Moved
<1>7. Store(b, t, mine) = [b EXCEPT ![t] = b[t] \cup ({mine} \ {None})]
  <2> HIDE DEF b, mine
  <2>1. CASE mine = None
    BY <1>1, <1>3, <2>1 DEF Store
  <2>2. CASE mine # None
    BY <1>1, <1>4, <2>2 DEF Store
  <2> QED BY <2>1, <2>2
<1> DEFINE c == Store(b, t, mine)
<1>8. /\ c[t] = b[t] \cup ({mine} \ {None}) /\ c[p] = b[p]
      /\ \A q \in Players \ {p, t} : c[q] = b[q]
      /\ c = [q \in Players |-> c[q]]
  <2> HIDE DEF b, mine
  <2> QED BY <1>1, <1>3, <1>7
<1>9. Room(c, p, his)
  BY <1>5, <1>8 DEF Room
<1>10. Store(c, p, his) = [c EXCEPT ![p] = c[p] \cup ({his} \ {None})]
  <2> HIDE DEF c, his
  <2>1. CASE his = None
    BY <1>1, <1>8, <2>1 DEF Store
  <2>2. CASE his # None
    BY <1>1, <1>9, <2>2 DEF Store
  <2> QED BY <2>1, <2>2
<1>11. MoveOne(p, b, n) = Store(c, p, his)
  <2> HIDE DEF b
  <2> QED BY <1>4, <1>5 DEF MoveOne
<1> HIDE DEF b, c, mine, his
<1> DEFINE d == Store(c, p, his)
<1>12. /\ d[t] = b[t] \cup ({mine} \ {None}) /\ d[p] = b[p] \cup ({his} \ {None})
       /\ \A q \in Players \ {p, t} : d[q] = bag[q]
       /\ d = [q \in Players |-> d[q]]
  BY <1>1, <1>3, <1>8, <1>10
<1> HIDE DEF d
<1>13. /\ d[p] = (bag[p] \ GetItems(p)) \cup Moved(t, n)
       /\ d[t] = (bag[t] \ GetItems(t)) \cup Moved(p, n)
  BY <1>1, <1>3, <1>6, <1>12 DEF mine, his
<1>14. d = After(p, n)
  BY <1>1, <1>12, <1>13 DEF After
<1> QED BY <1>11, <1>14 DEF b, d

\* All of moveItems, from the smallest slot at which the loop and the closed
\* form would differ: after CanStoreItems for both, the bags hold exactly what
\* the partner offered.
LEMMA MoveAll ==
    ASSUME TypeOK, Paired, Distinct, ItemsConserved,
           NEW p \in Players, Trading(p),
           CanStoreItems(p), CanStoreItems(trader[p])
    PROVE  moveItems(p, Removed(p)) = After(p, SlotCount)
<1> DEFINE F == [n \in Slots |-> After(p, n)]
           bags == Removed(p)
<1>1. SlotCount \in Slots /\ 0 \in Slots
      /\ \A n \in Slots : n # 0 => n \in TradedSlots /\ n - 1 \in Slots
  BY TradeAssumption DEF Slots, TradedSlots
<1>2. After(p, 0) = bags
  <2>1. \A q \in Players : Moved(q, 0) = {}
    BY DEF Moved
  <2>2. trader[p] \in Players /\ trader[p] # p
    BY DEF Paired, Trading, TypeOK
  <2> QED BY <2>1, <2>2 DEF After, Removed
<1>3. MovesBy(p, bags, F)
  <2>1. ASSUME NEW n \in Slots PROVE F[n] = IF n = 0 THEN bags ELSE MoveOne(p, F[n - 1], n)
    <3>1. CASE n = 0
      BY <1>2, <3>1
    <3>2. CASE n # 0
      <4>1. F[n - 1] = After(p, n - 1) /\ F[n] = After(p, n)
        BY <1>1, <3>2
      <4> QED BY <1>1, <3>2, <4>1, MoveStep
    <3> QED BY <3>1, <3>2
  <2> QED BY <2>1 DEF MovesBy
<1> DEFINE f == CHOOSE g : MovesBy(p, bags, g)
<1> HIDE DEF F, bags
<1>4. MovesBy(p, bags, f)
  BY <1>3
<1>5. moveItems(p, bags) = f[SlotCount]
  BY DEF moveItems, MovesBy, MoveOne
<1> HIDE DEF f
<1> DEFINE Bad == {n \in Slots : f[n] # F[n]}
<1>6. Bad = {}
  <2> SUFFICES ASSUME Bad # {} PROVE FALSE
    OBVIOUS
  <2>1. Bad \in SUBSET Nat
    BY TradeAssumption DEF Slots
  <2>2. PICK n \in Bad : \A m \in Bad : n <= m
    <3> HIDE DEF Bad
    <3> QED BY <2>1, Least
  <2>3. f[n] = (IF n = 0 THEN bags ELSE MoveOne(p, f[n - 1], n))
        /\ F[n] = (IF n = 0 THEN bags ELSE MoveOne(p, F[n - 1], n))
    BY <1>3, <1>4 DEF MovesBy
  <2>4. n # 0
    BY <2>3
  <2>5. f[n - 1] = F[n - 1]
    <3>1. n - 1 \in Slots /\ n \in Nat /\ ~(n <= n - 1)
      BY <1>1, <2>1, <2>4
    <3> QED BY <2>2, <3>1
  <2> QED BY <2>3, <2>5
<1>7. f[SlotCount] = After(p, SlotCount)
  BY <1>1, <1>6 DEF F
<1> QED BY <1>5, <1>7 DEF bags

\* The end of HandleAcceptTradeOpcode in closed form: the offered items are in
\* the bags of the partner, nowhere else, and both inventories are saved as
\* they then are.
LEMMA ExchangeMoves ==
    ASSUME TypeOK, Paired, Distinct, ItemsConserved, NEW p \in Players, Trading(p), Exchange(p)
    PROVE  LET t == trader[p] IN
           /\ bag' = [q \in Players |-> CASE q = p -> (bag[p] \ GetItems(p)) \cup GetItems(t)
                                          [] q = t -> (bag[t] \ GetItems(t)) \cup GetItems(p)
                                          [] OTHER -> bag[q]]
           /\ worn' = [q \in Players |-> IF q \in {p, t} THEN worn[q] \ GetItems(q) ELSE worn[q]]
           /\ saved' = [q \in Players |-> IF q \in {p, t} THEN Owned(q)' ELSE saved[q]]
           /\ away' = away
<1>1. moveItems(p, Removed(p)) = After(p, SlotCount)
  BY MoveAll DEF Exchange
<1>2. bag' = After(p, SlotCount)
  BY <1>1 DEF Exchange, Removed
<1>3. trader[p] \in Players
  BY DEF Trading, TypeOK
<1>4. away' = away /\ saved' = [q \in Players |-> IF q \in {p, trader[p]} THEN Owned(q)' ELSE saved[q]]
  BY DEF Exchange, SaveBoth, Owned
<1>5. worn' = [q \in Players |-> IF q \in {p, trader[p]} THEN worn[q] \ GetItems(q) ELSE worn[q]]
  BY DEF Exchange
<1>6. Moved(p, SlotCount) = GetItems(p) /\ Moved(trader[p], SlotCount) = GetItems(trader[p])
  BY <1>3, GetItemsType
<1> QED BY <1>2, <1>4, <1>5, <1>6 DEF After

-----------------------------------------------------------------------------
(* The window. *)

\* The types of TradeData and of the history kept with it.
WindowTypeOK ==
    /\ trader \in [Players -> Players \cup {None}]
    /\ accepted \in [Players -> BOOLEAN]
    /\ gold \in [Players -> Nat]
    /\ spell \in [Players -> BOOLEAN]
    /\ item \in [Players -> [Slots -> Items \cup {None}]]
    /\ seen \in [Players -> [mine : Offers, his : Offers] \cup {None}]

\* What holds of the window, whatever the inventories are.
WindowInv == WindowTypeOK /\ Paired /\ AcceptedAsShown /\ Distinct

\* A step that changes m_trade of some characters together with their partners,
\* and leaves none of them accepted, does not make an acceptance elsewhere
\* stale.
LEMMA Elsewhere ==
    ASSUME TypeOK, Paired, AcceptedAsShown,
           NEW ps \in SUBSET Players,
           \A p \in ps : Trading(p) => trader[p] \in ps,
           \A q \in Players \ ps : /\ trader'[q] = trader[q] /\ item'[q] = item[q]
                                   /\ gold'[q] = gold[q] /\ spell'[q] = spell[q]
                                   /\ accepted'[q] = accepted[q] /\ seen'[q] = seen[q],
           \A p \in ps : ~accepted'[p]
    PROVE  AcceptedAsShown'
<1> SUFFICES ASSUME NEW q \in Players, accepted'[q]
             PROVE  Trading(q)' /\ seen'[q] = Window(q)'
  BY DEF AcceptedAsShown
<1>1. q \notin ps /\ accepted[q]
  OBVIOUS
<1>2. Trading(q) /\ seen[q] = Window(q)
  BY <1>1 DEF AcceptedAsShown
<1>3. trader[q] \in Players \ ps
  <2>1. trader[q] \in Players /\ trader[trader[q]] = q
    BY <1>2 DEF Paired, TypeOK, Trading
  <2>2. trader[q] \in ps => Trading(trader[q])
    BY <2>1, TradeAssumption DEF Trading
  <2> QED BY <1>1, <2>1, <2>2
<1>4. trader'[q] = trader[q] /\ Offer(q)' = Offer(q)
  BY <1>1 DEF Offer
<1>5. Window(q)' = [mine |-> Offer(q)', his |-> Offer(trader[q])']
  BY <1>4 DEF Window, Offer
<1>6. Offer(trader[q])' = [item |-> item'[trader[q]], gold |-> gold'[trader[q]], spell |-> spell'[trader[q]]]
  BY DEF Offer
<1> QED BY <1>1, <1>2, <1>3, <1>4, <1>5 DEF Window, Trading, Offer

\* SetAccepted(false) for several characters: theirs is taken back, and no
\* other flag changes.
LEMMA Unaccept ==
    ASSUME TypeOK, NEW ps \in SUBSET Players, SetAccepted([q \in ps |-> FALSE])
    PROVE  /\ accepted' \in [Players -> BOOLEAN]
           /\ seen' \in [Players -> [mine : Offers, his : Offers] \cup {None}]
           /\ \A q \in ps : ~accepted'[q]
           /\ \A q \in Players \ ps : accepted'[q] = accepted[q] /\ seen'[q] = seen[q]
<1> DEFINE flags == [q \in ps |-> FALSE]
<1>1. flags \in [ps -> BOOLEAN] /\ \A p \in ps : flags[p] => Trading(p)
  OBVIOUS
<1>2. /\ accepted' \in [Players -> BOOLEAN]
      /\ seen' \in [Players -> [mine : Offers, his : Offers] \cup {None}]
  <2> HIDE DEF flags
  <2> QED BY <1>1, SetAcceptedType DEF flags
<1> QED BY <1>2 DEF SetAccepted

\* In a trade the partner of the partner is the character itself.
LEMMA TraderIs ==
    ASSUME TypeOK, Paired, NEW p \in Players, Trading(p)
    PROVE  /\ trader[p] \in Players /\ trader[p] # p
           /\ trader[trader[p]] = p /\ Trading(trader[p])
           /\ {p, trader[p]} \in SUBSET Players
           /\ \A q \in {p, trader[p]} : trader[q] \in {p, trader[p]}
           /\ Partners(p) = {p, trader[p]}
BY TradeAssumption DEF TypeOK, Paired, Trading, Partners

\* TradeCancel and the end of a trade, which delete m_trade of both, keep the
\* window invariant even if one of the two leaves the world.
LEMMA DeleteTradeKeeps ==
    ASSUME TypeOK, WindowInv, NEW p \in Players, Trading(p),
           DeleteTrade(Partners(p)),
           online \ {p} \subseteq online'
    PROVE  WindowInv'
<1> DEFINE ps == {p, trader[p]}
<1>1. ps = Partners(p) /\ ps \in SUBSET Players /\ \A q \in ps : trader[q] \in ps
  BY TraderIs DEF WindowInv
<1> HIDE DEF ps
<1>2. /\ accepted' \in [Players -> BOOLEAN]
      /\ seen' \in [Players -> [mine : Offers, his : Offers] \cup {None}]
      /\ \A q \in ps : ~accepted'[q]
      /\ \A q \in Players \ ps : accepted'[q] = accepted[q] /\ seen'[q] = seen[q]
  BY <1>1, Unaccept DEF DeleteTrade
<1>3. \A q \in Players \ ps : /\ trader'[q] = trader[q] /\ item'[q] = item[q]
                              /\ gold'[q] = gold[q] /\ spell'[q] = spell[q]
  BY <1>1 DEF DeleteTrade, TypeOK
<1>4. AcceptedAsShown'
  BY <1>1, <1>2, <1>3, Elsewhere DEF WindowInv
<1>5. \A q \in ps : trader'[q] = None /\ item'[q] = NoItems
  BY <1>1 DEF DeleteTrade
<1>6. WindowTypeOK'
  BY <1>1, <1>2 DEF WindowTypeOK, DeleteTrade, TypeOK, NoItems
<1>7. Paired'
  <2> SUFFICES ASSUME NEW q \in Players, trader'[q] # None
               PROVE  q \in online' /\ trader'[q] # q /\ trader'[trader'[q]] = q
    BY DEF Paired, Trading
  <2>1. q \in Players \ ps /\ trader'[q] = trader[q]
    BY <1>3, <1>5
  <2>2. q \in online /\ trader[q] \in Players /\ trader[q] # q /\ trader[trader[q]] = q
    BY <2>1 DEF WindowInv, Paired, Trading, TypeOK
  <2>3. trader[q] \notin ps
    BY <1>1, <2>1, <2>2
  <2>4. q # p
    BY <2>1 DEF ps
  <2> QED BY <1>3, <2>1, <2>2, <2>3, <2>4
<1>8. Distinct'
  BY <1>3, <1>5 DEF WindowInv, Distinct, NoItems
<1> QED BY <1>4, <1>6, <1>7, <1>8 DEF WindowInv

\* TradeData::SetItem keeps the window invariant: it takes both acceptances
\* back, and it may reset either spell.
LEMMA SetItemKeeps ==
    ASSUME TypeOK, WindowInv, NEW p \in Players, Trading(p),
           NEW s \in Slots, NEW i \in Items \cup {None},
           i # None => ~HasItem(p, i),
           SetItem(p, s, i), online' = online
    PROVE  WindowInv'
<1> DEFINE ps == {p, trader[p]}
<1>1. ps \in SUBSET Players /\ (\A q \in ps : trader[q] \in ps) /\ p \in ps
  BY TraderIs DEF WindowInv
<1>2. /\ accepted' \in [Players -> BOOLEAN]
      /\ seen' \in [Players -> [mine : Offers, his : Offers] \cup {None}]
      /\ \A q \in ps : ~accepted'[q]
      /\ \A q \in Players \ ps : accepted'[q] = accepted[q] /\ seen'[q] = seen[q]
  BY <1>1, Unaccept DEF SetItem, UnacceptBoth
<1>3. /\ item' = [item EXCEPT ![p][s] = i] /\ trader' = trader /\ gold' = gold
      /\ item' \in [Players -> [Slots -> Items \cup {None}]]
  BY DEF SetItem, TypeOK
<1>4. /\ spell' \in [Players -> BOOLEAN]
      /\ \A q \in Players \ ps : spell'[q] = spell[q]
  BY <1>1 DEF SetItem, TypeOK
<1>5. \A q \in Players \ ps : item'[q] = item[q]
  BY <1>1, <1>3 DEF TypeOK
<1>6. AcceptedAsShown'
  <2> HIDE DEF ps
  <2> QED BY <1>1, <1>2, <1>3, <1>4, <1>5, Elsewhere DEF WindowInv
<1>7. Paired'
  BY <1>3 DEF WindowInv, Paired, Trading
<1>8. Distinct'
  BY <1>3 DEF WindowInv, Distinct, HasItem, TypeOK
<1> QED BY <1>2, <1>3, <1>4, <1>6, <1>7, <1>8 DEF WindowInv, WindowTypeOK,
     TypeOK

\* TradeData::SetSpell keeps the window invariant: it takes both acceptances
\* back.
LEMMA SetSpellKeeps ==
    ASSUME TypeOK, WindowInv, NEW p \in Players, Trading(p), NEW v \in BOOLEAN,
           SetSpell(p, v), online' = online
    PROVE  WindowInv'
<1> DEFINE ps == {p, trader[p]}
<1>1. ps \in SUBSET Players /\ (\A q \in ps : trader[q] \in ps) /\ p \in ps
  BY TraderIs DEF WindowInv
<1>2. /\ accepted' \in [Players -> BOOLEAN]
      /\ seen' \in [Players -> [mine : Offers, his : Offers] \cup {None}]
      /\ \A q \in ps : ~accepted'[q]
      /\ \A q \in Players \ ps : accepted'[q] = accepted[q] /\ seen'[q] = seen[q]
  BY <1>1, Unaccept DEF SetSpell, UnacceptBoth
<1>3. /\ item' = item /\ trader' = trader /\ gold' = gold
      /\ spell' \in [Players -> BOOLEAN]
      /\ \A q \in Players \ ps : spell'[q] = spell[q]
  BY <1>1 DEF SetSpell, TypeOK
<1>4. AcceptedAsShown'
  <2> HIDE DEF ps
  <2> QED BY <1>1, <1>2, <1>3, Elsewhere DEF WindowInv
<1>5. Paired' /\ Distinct'
  BY <1>3 DEF WindowInv, Paired, Trading, Distinct
<1> QED BY <1>2, <1>3, <1>4, <1>5 DEF WindowInv, WindowTypeOK, TypeOK

\* Whatever way out of HandleAcceptTradeOpcode only changes m_accepted of the
\* two partners keeps the window invariant.
LEMMA FlagsOnly ==
    ASSUME TypeOK, WindowInv, NEW ps \in SUBSET Players, NEW flags \in [ps -> BOOLEAN],
           \A p \in ps : flags[p] => Trading(p),
           SetAccepted(flags),
           UNCHANGED <<online, trader, gold, spell, item>>
    PROVE  WindowInv'
<1>1. /\ accepted' \in [Players -> BOOLEAN]
      /\ seen' \in [Players -> [mine : Offers, his : Offers] \cup {None}]
  BY SetAcceptedType
<1>2. \A q \in Players : Window(q)' = Window(q) /\ Trading(q)' = Trading(q)
  BY DEF Window, Offer, Trading
<1>3. AcceptedAsShown'
  <2> SUFFICES ASSUME NEW q \in Players, accepted'[q]
               PROVE  Trading(q) /\ seen'[q] = Window(q)
    BY <1>2 DEF AcceptedAsShown
  <2>1. CASE q \notin ps
    <3>1. accepted[q] /\ seen'[q] = seen[q]
      BY <2>1 DEF SetAccepted
    <3> QED BY <3>1 DEF WindowInv, AcceptedAsShown
  <2>2. CASE q \in ps
    <3>1. flags[q]
      BY <2>2 DEF SetAccepted
    <3>2. seen'[q] = Window(q)
      BY <2>2, <3>1 DEF SetAccepted
    <3> QED BY <2>2, <3>1, <3>2
  <2> QED BY <2>1, <2>2
<1>4. Paired' /\ Distinct'
  BY DEF WindowInv, Paired, Trading, Distinct
<1> QED BY <1>1, <1>3, <1>4 DEF WindowInv, WindowTypeOK, TypeOK

\* What happens outside the window keeps its invariant as long as nobody who
\* trades leaves the world.
LEMMA WindowAlone ==
    ASSUME WindowInv, UNCHANGED <<tradeVars, seen>>,
           \A q \in Players : Trading(q) => q \in online'
    PROVE  WindowInv'
<1>1. \A q \in Players : Window(q)' = Window(q) /\ Trading(q)' = Trading(q)
  BY DEF Window, Offer, Trading, tradeVars
<1>2. AcceptedAsShown'
  BY <1>1 DEF WindowInv, AcceptedAsShown, tradeVars
<1>3. Paired' /\ Distinct' /\ WindowTypeOK'
  BY DEF WindowInv, Paired, Trading, Distinct, WindowTypeOK, tradeVars
<1> QED BY <1>2, <1>3 DEF WindowInv

-----------------------------------------------------------------------------
(* The steps. *)

\* The types of what the characters own.
PlayerTypeOK ==
    /\ online \subseteq Players
    /\ bag \in [Players -> SUBSET Items]
    /\ worn \in [Players -> SUBSET Items]
    /\ away \in [Players -> SUBSET Items]
    /\ bound \subseteq Items
    /\ money \in [Players -> Nat]
    /\ outside \in Int
    /\ saved \in [Players -> SUBSET Items]

\* The inductive invariant.  Distinct is the strengthening: without it an
\* exchange could lose an item for want of room.
TradeInv == TypeOK /\ Paired /\ AcceptedAsShown /\ Distinct /\ ItemsConserved

\* The type invariant in two halves, characters and window.
LEMMA TypeParts == TypeOK <=> PlayerTypeOK /\ WindowTypeOK
BY DEF TypeOK, PlayerTypeOK, WindowTypeOK

\* The same after a step.
LEMMA TypePartsPrime == TypeOK' <=> PlayerTypeOK' /\ WindowTypeOK'
BY DEF TypeOK, PlayerTypeOK, WindowTypeOK

\* The inductive invariant in three parts.
LEMMA TradeParts == TradeInv <=> PlayerTypeOK /\ WindowInv /\ ItemsConserved
BY TypeParts DEF TradeInv, WindowInv

\* The same after a step.
LEMMA TradePartsPrime == TradeInv' <=> PlayerTypeOK' /\ WindowInv' /\ ItemsConserved'
BY TypePartsPrime DEF TradeInv, WindowInv

\* A step of the window that leaves the inventories alone keeps the whole
\* invariant when it keeps that of the window.
LEMMA PlayersAlone ==
    ASSUME TradeInv, UNCHANGED <<playerVars, saved>>, WindowInv'
    PROVE  TradeInv'
<1>1. PlayerTypeOK'
  BY TradeParts DEF PlayerTypeOK, playerVars
<1>2. ItemsConserved'
  BY DEF TradeInv, ItemsConserved, Owned, Carried, playerVars
<1> QED BY <1>1, <1>2, TradePartsPrime

\* The invariant holds when every item is in the bags of one character and
\* nobody trades.
LEMMA InitInv == Init => TradeInv
<1> SUFFICES ASSUME Init PROVE TradeInv
  OBVIOUS
<1>1. PlayerTypeOK /\ WindowTypeOK
  BY TradeAssumption DEF Init, PlayerTypeOK, WindowTypeOK, NoItems
<1>2. Paired /\ AcceptedAsShown /\ Distinct
  BY DEF Init, Paired, Trading, AcceptedAsShown, Distinct, NoItems
<1>3. ItemsConserved
  <2> SUFFICES ASSUME NEW i \in Items
               PROVE  /\ \E p \in Players : i \in bag[p]
                      /\ \A p, q \in Players : i \in bag[p] \cap bag[q] => p = q
    BY DEF Init, ItemsConserved, Owned, Carried
  <2> DEFINE O == {p \in Players : i \in bag[p]}
  <2>1. IsFiniteSet(O) /\ Cardinality(O) = 1
    BY TradeAssumption, FS_Subset DEF Init
  <2>2. \E x : O = {x}
    <3> HIDE DEF O
    <3> QED BY <2>1, FS_Singleton
  <2> QED BY <2>2
<1> QED BY <1>1, <1>2, <1>3, TypeParts DEF TradeInv

\* HandleInitiateTradeOpcode opens both halves of a trade at once, and neither
\* of the two had one before.
LEMMA InitiateStep ==
    ASSUME TradeInv, NEW p \in Players, NEW q \in Players, HandleInitiateTrade(p, q)
    PROVE  TradeInv'
<1> USE DEF TradeInv, HandleInitiateTrade
<1>1. WindowTypeOK'
  BY DEF TypeOK, WindowTypeOK
<1>2. ~accepted[p] /\ ~accepted[q]
  BY DEF AcceptedAsShown
<1>3. \A r \in Players \ {p, q} : trader'[r] = trader[r]
  BY DEF TypeOK
<1>4. AcceptedAsShown'
  <2> DEFINE ps == {p, q}
  <2>1. ps \in SUBSET Players /\ \A r \in ps : ~Trading(r) /\ ~accepted'[r]
    BY <1>2
  <2>2. \A r \in Players \ ps : /\ trader'[r] = trader[r] /\ item'[r] = item[r]
                                /\ gold'[r] = gold[r] /\ spell'[r] = spell[r]
                                /\ accepted'[r] = accepted[r] /\ seen'[r] = seen[r]
    BY <1>3
  <2> HIDE DEF ps
  <2> QED BY <2>1, <2>2, Elsewhere
<1>5. Paired'
  <2>1. trader' = [trader EXCEPT ![p] = q, ![q] = p] /\ online' = online
    BY DEF playerVars
  <2>2. trader'[p] = q /\ trader'[q] = p /\ p # q /\ p \in online' /\ q \in online'
    BY <2>1 DEF TypeOK
  <2> SUFFICES ASSUME NEW r \in Players \ {p, q}, trader'[r] # None
               PROVE  r \in online' /\ trader'[r] # r /\ trader'[trader'[r]] = r
    BY <2>2 DEF Paired, Trading
  <2>3. trader[r] # None /\ r \in online /\ trader[r] # r /\ trader[trader[r]] = r
    BY <1>3 DEF Paired, Trading
  <2>4. trader[r] \in Players \ {p, q}
    BY <2>3, TradeAssumption DEF TypeOK, Trading
  <2> QED BY <1>3, <2>1, <2>3, <2>4
<1>6. Distinct'
  BY DEF Distinct
<1> QED BY <1>1, <1>4, <1>5, <1>6, PlayersAlone DEF WindowInv

\* HandleSetTradeGoldOpcode takes both acceptances back.
LEMMA GoldStep ==
    ASSUME TradeInv, NEW p \in Players, NEW amount \in Amounts, HandleSetTradeGold(p, amount)
    PROVE  TradeInv'
<1> USE DEF TradeInv, HandleSetTradeGold
<1> DEFINE ps == {p, trader[p]}
<1>1. ps \in SUBSET Players /\ (\A q \in ps : trader[q] \in ps) /\ p \in ps
  BY TraderIs
<1>2. /\ accepted' \in [Players -> BOOLEAN]
      /\ seen' \in [Players -> [mine : Offers, his : Offers] \cup {None}]
      /\ \A q \in ps : ~accepted'[q]
      /\ \A q \in Players \ ps : accepted'[q] = accepted[q] /\ seen'[q] = seen[q]
  BY <1>1, Unaccept DEF UnacceptBoth
<1>3. /\ item' = item /\ trader' = trader /\ spell' = spell /\ online' = online
      /\ gold' \in [Players -> Nat]
      /\ \A q \in Players \ ps : gold'[q] = gold[q]
  BY <1>1, TradeAssumption DEF TypeOK, playerVars
<1>4. AcceptedAsShown'
  <2> HIDE DEF ps
  <2> QED BY <1>1, <1>2, <1>3, Elsewhere
<1>5. Paired' /\ Distinct'
  BY <1>3 DEF Paired, Trading, Distinct
<1>6. WindowInv'
  BY <1>2, <1>3, <1>4, <1>5 DEF WindowInv, WindowTypeOK, TypeOK
<1> QED BY <1>6, PlayersAlone

\* The other packets of the window: setting and clearing an item, the spell on
\* the item in the last slot, taking the acceptance back, cancelling.
LEMMA PacketStep ==
    ASSUME TradeInv, NEW p \in Players,
           \/ \E s \in Slots, i \in Items : HandleSetTradeItem(p, s, i)
           \/ \E s \in Slots : HandleClearTradeItem(p, s)
           \/ CastOnTradeItem(p)
           \/ HandleUnacceptTrade(p)
           \/ TradeCancel(p)
    PROVE  TradeInv'
<1>0. TypeOK /\ WindowInv
  BY TradeParts DEF TradeInv
<1>1. ASSUME NEW s \in Slots, NEW i \in Items, HandleSetTradeItem(p, s, i) PROVE TradeInv'
  <2>1. WindowInv'
    BY <1>0, <1>1, SetItemKeeps DEF HandleSetTradeItem, playerVars
  <2> QED BY <1>1, <2>1, PlayersAlone DEF HandleSetTradeItem
<1>2. ASSUME NEW s \in Slots, HandleClearTradeItem(p, s) PROVE TradeInv'
  <2>1. WindowInv'
    BY <1>0, <1>2, SetItemKeeps DEF HandleClearTradeItem, playerVars
  <2> QED BY <1>2, <2>1, PlayersAlone DEF HandleClearTradeItem
<1>3. CASE CastOnTradeItem(p)
  <2>1. WindowInv'
    BY <1>0, <1>3, SetSpellKeeps DEF CastOnTradeItem, playerVars
  <2> QED BY <1>3, <2>1, PlayersAlone DEF CastOnTradeItem
<1>4. CASE HandleUnacceptTrade(p)
  <2> DEFINE flags == [q \in {p} |-> FALSE]
  <2>1. flags \in [{p} -> BOOLEAN] /\ \A q \in {p} : flags[q] => Trading(q)
    OBVIOUS
  <2>2. SetAccepted(flags) /\ UNCHANGED <<online, trader, gold, spell, item>>
    BY <1>4 DEF HandleUnacceptTrade, UnacceptSelf, playerVars
  <2>3. WindowInv'
    <3> HIDE DEF flags
    <3> QED BY <1>0, <2>1, <2>2, FlagsOnly
  <2> QED BY <1>4, <2>3, PlayersAlone DEF HandleUnacceptTrade
<1>5. CASE TradeCancel(p)
  <2>1. WindowInv'
    BY <1>0, <1>5, DeleteTradeKeeps DEF TradeCancel, playerVars
  <2> QED BY <1>5, <2>1, PlayersAlone DEF TradeCancel
<1> QED BY <1>1, <1>2, <1>3, <1>4, <1>5

\* Every way out of HandleAcceptTradeOpcode but the exchange.
LEMMA RefusalStep ==
    ASSUME TradeInv, NEW p \in Players, Trading(p),
           RefuseOwn(p) \/ RefuseOther(p) \/ AcceptAlone(p) \/ SpellFails(p) \/ CannotStore(p)
    PROVE  TradeInv'
<1> DEFINE t == trader[p]
<1>0. TypeOK /\ WindowInv /\ t \in Players /\ Trading(t) /\ {p, t} \in SUBSET Players
  BY TradeParts, TraderIs DEF TradeInv
<1>1. ASSUME NEW ps \in SUBSET {p, t}, NEW flags \in [ps -> BOOLEAN], SetAccepted(flags),
             UNCHANGED <<playerVars, saved, trader, gold, spell, item>>
      PROVE  TradeInv'
  <2>1. WindowInv'
    BY <1>0, <1>1, FlagsOnly DEF playerVars
  <2> QED BY <1>1, <2>1, PlayersAlone
<1>2. CASE RefuseOwn(p)
  <2> DEFINE flags == [q \in {p} |-> FALSE]
  <2>1. flags \in [{p} -> BOOLEAN] /\ SetAccepted(flags)
    BY <1>2 DEF RefuseOwn, UnacceptSelf
  <2> HIDE DEF flags
  <2> QED BY <1>1, <1>2, <2>1 DEF RefuseOwn
<1>3. CASE RefuseOther(p)
  <2> DEFINE flags == [q \in {p, t} |-> q = p]
  <2>1. flags \in [{p, t} -> BOOLEAN] /\ SetAccepted(flags)
    BY <1>3 DEF RefuseOther
  <2> HIDE DEF flags
  <2> QED BY <1>1, <1>3, <2>1 DEF RefuseOther
<1>4. CASE AcceptAlone(p)
  <2> DEFINE flags == [q \in {p} |-> TRUE]
  <2>1. flags \in [{p} -> BOOLEAN] /\ SetAccepted(flags)
    BY <1>4 DEF AcceptAlone
  <2> HIDE DEF flags
  <2> QED BY <1>1, <1>4, <2>1 DEF AcceptAlone
<1>5. CASE SpellFails(p)
  <2>1. WindowInv'
    BY <1>0, <1>5, SetSpellKeeps DEF SpellFails, playerVars
  <2> QED BY <1>5, <2>1, PlayersAlone DEF SpellFails
<1>6. CASE CannotStore(p)
  <2> DEFINE flags == [q \in {p, t} |-> FALSE]
  <2>1. flags \in [{p, t} -> BOOLEAN] /\ SetAccepted(flags)
    BY <1>6 DEF CannotStore, UnacceptBoth
  <2> HIDE DEF flags
  <2> QED BY <1>1, <1>6, <2>1 DEF CannotStore
<1> QED BY <1>2, <1>3, <1>4, <1>5, <1>6

\* The exchange gives each of the two what the other offered, takes no item
\* from anybody else, and leaves every item with one owner and saved with him.
LEMMA ExchangeItems ==
    ASSUME TradeInv, NEW p \in Players, NEW t \in Players, t = trader[p],
           Trading(p), Exchange(p)
    PROVE  /\ bag' \in [Players -> SUBSET Items] /\ worn' \in [Players -> SUBSET Items]
           /\ saved' \in [Players -> SUBSET Items]
           /\ Owned(p)' = (Owned(p) \ GetItems(p)) \cup GetItems(t)
           /\ Owned(t)' = (Owned(t) \ GetItems(t)) \cup GetItems(p)
           /\ \A q \in Players \ {p, t} : Owned(q)' = Owned(q)
           /\ ItemsConserved'
<1> DEFINE Mine == GetItems(p)
           His == GetItems(t)
<1>0. TypeOK /\ ItemsConserved
  BY DEF TradeInv
<1>1. t \in Players /\ t # p
  BY TraderIs DEF TradeInv
<1>2. /\ bag' = [q \in Players |-> CASE q = p -> (bag[p] \ Mine) \cup His
                                     [] q = t -> (bag[t] \ His) \cup Mine
                                     [] OTHER -> bag[q]]
      /\ worn' = [q \in Players |-> IF q \in {p, t} THEN worn[q] \ GetItems(q) ELSE worn[q]]
      /\ saved' = [q \in Players |-> IF q \in {p, t} THEN Owned(q)' ELSE saved[q]]
      /\ away' = away
  BY ExchangeMoves DEF TradeInv
<1>3. /\ Mine \subseteq Items /\ Mine \subseteq bag[p] \cup worn[p]
      /\ His \subseteq Items /\ His \subseteq bag[t] \cup worn[t]
  BY <1>0, <1>1, GetItemsType DEF Carried
<1> HIDE DEF Mine, His
<1>4. /\ bag'[p] = (bag[p] \ Mine) \cup His /\ worn'[p] = worn[p] \ Mine /\ away'[p] = away[p]
      /\ bag'[t] = (bag[t] \ His) \cup Mine /\ worn'[t] = worn[t] \ His /\ away'[t] = away[t]
      /\ \A q \in Players \ {p, t} : bag'[q] = bag[q] /\ worn'[q] = worn[q] /\ away'[q] = away[q]
  BY <1>1, <1>2 DEF Mine, His
<1>5. bag' \in [Players -> SUBSET Items] /\ worn' \in [Players -> SUBSET Items]
  BY <1>0, <1>2, <1>3 DEF TypeOK
<1>6. \A i \in Items :
        /\ i \in away[p] => i \notin bag[p] /\ i \notin worn[p]
        /\ i \in away[t] => i \notin bag[t] /\ i \notin worn[t]
        /\ i \in worn[p] => i \notin bag[p]
        /\ i \in worn[t] => i \notin bag[t]
        /\ ~(i \in Owned(p) /\ i \in Owned(t))
  BY <1>0, <1>1 DEF ItemsConserved, Carried
<1>7. /\ Owned(p)' = (Owned(p) \ Mine) \cup His
      /\ Owned(t)' = (Owned(t) \ His) \cup Mine
  <2>1. Owned(p)' = bag'[p] \cup worn'[p] \cup away'[p] /\ Owned(t)' = bag'[t] \cup worn'[t] \cup away'[t]
    BY DEF Owned
  <2>2. away[p] \cap Mine = {} /\ away[t] \cap His = {}
    BY <1>3, <1>6
  <2> QED BY <1>4, <2>1, <2>2 DEF Owned
<1>8. \A q \in Players \ {p, t} : Owned(q)' = Owned(q)
  BY <1>4 DEF Owned
<1>9. saved' \in [Players -> SUBSET Items] /\ \A q \in Players : saved'[q] = Owned(q)'
  <2>1. \A q \in Players : saved[q] = Owned(q)
    <3>1. \A q \in Players : saved[q] \subseteq Items /\ Owned(q) \subseteq Items
      BY <1>0 DEF TypeOK, Owned
    <3> QED BY <1>0, <3>1 DEF ItemsConserved
  <2>2. \A q \in Players : Owned(q)' \subseteq Items
    BY <1>0, <1>2, <1>5 DEF Owned, TypeOK
  <2> QED BY <1>0, <1>2, <1>8, <2>1, <2>2 DEF TypeOK
<1>10. ItemsConserved'
  <2> SUFFICES ASSUME NEW i \in Items
               PROVE  /\ \E q \in Players : i \in Owned(q)'
                      /\ \A q, r \in Players : i \in Owned(q)' /\ i \in Owned(r)' => q = r
                      /\ \A q \in Players :
                           /\ ~(i \in bag'[q] /\ i \in worn'[q])
                           /\ ~(i \in away'[q] /\ i \in (bag'[q] \cup worn'[q]))
    BY <1>9 DEF ItemsConserved, Carried
  <2>1. PICK o \in Players : i \in Owned(o) /\ \A q \in Players : i \in Owned(q) => q = o
    BY <1>0 DEF ItemsConserved
  <2>2. Mine \subseteq Owned(p) /\ His \subseteq Owned(t)
    BY <1>3 DEF Owned
  <2>3. PICK n \in Players : n = IF i \in Mine THEN t ELSE IF i \in His THEN p ELSE o
    BY <2>1
  <2>6. i \in Owned(n)'
    <3>1. CASE i \in Mine
      BY <1>7, <2>3, <3>1
    <3>2. CASE i \notin Mine /\ i \in His
      BY <1>7, <2>3, <3>2
    <3>3. CASE i \notin Mine /\ i \notin His
      BY <1>7, <1>8, <2>1, <2>3, <3>3
    <3> QED BY <3>1, <3>2, <3>3
  <2>4. ASSUME NEW q \in Players, i \in Owned(q)' PROVE q = n
    <3>1. CASE q = p
      BY <1>1, <1>6, <1>7, <2>1, <2>2, <2>3, <2>4, <3>1
    <3>2. CASE q = t
      BY <1>1, <1>6, <1>7, <2>1, <2>2, <2>3, <2>4, <3>2
    <3>3. CASE q \notin {p, t}
      BY <1>1, <1>8, <2>1, <2>2, <2>3, <2>4, <3>3
    <3> QED BY <3>1, <3>2, <3>3
  <2>5. ASSUME NEW q \in Players
        PROVE  /\ ~(i \in bag'[q] /\ i \in worn'[q])
               /\ ~(i \in away'[q] /\ i \in (bag'[q] \cup worn'[q]))
    <3>1. CASE q = p
      BY <1>1, <1>4, <1>6, <2>2, <3>1 DEF Owned
    <3>2. CASE q = t
      BY <1>1, <1>4, <1>6, <2>2, <3>2 DEF Owned
    <3>3. CASE q \notin {p, t}
      BY <1>0, <1>4, <3>3 DEF ItemsConserved, Carried
    <3> QED BY <3>1, <3>2, <3>3
  <2> QED BY <2>4, <2>5, <2>6
<1> QED BY <1>5, <1>7, <1>8, <1>9, <1>10 DEF Mine, His

\* After the checks of HandleAcceptTradeOpcode neither call of ModifyMoney
\* meets the limit: what one pays the other gets.
LEMMA ExchangeMoney ==
    ASSUME TradeInv, NEW p \in Players, Trading(p), Exchange(p)
    PROVE  /\ money' = [money EXCEPT ![p] = money[p] - gold[p] + gold[trader[p]],
                                     ![trader[p]] = money[trader[p]] - gold[trader[p]] + gold[p]]
           /\ money' \in [Players -> Nat]
           /\ \A q \in {p, trader[p]} : money'[q] <= MaxMoney
<1> DEFINE t == trader[p]
<1>1. t \in Players /\ t # p /\ trader[t] = p
  BY TraderIs DEF TradeInv
<1>2. money \in [Players -> Nat] /\ gold \in [Players -> Nat] /\ MaxMoney \in Nat
  BY TradeAssumption DEF TradeInv, TypeOK
<1>3. /\ money[p] >= gold[p] /\ ~(money[p] >= MaxMoney - gold[t])
      /\ money[t] >= gold[t] /\ ~(money[t] >= MaxMoney - gold[p])
  BY <1>1 DEF Exchange, BothAccept, MoneyOK, HasEnoughMoney, TooMuchGold
<1>4. /\ ModifyMoney(money[p], gold[p], gold[t]) = money[p] - gold[p] + gold[t]
      /\ ModifyMoney(money[t], gold[t], gold[p]) = money[t] - gold[t] + gold[p]
  BY <1>1, <1>2, <1>3 DEF ModifyMoney
<1>5. money' = [money EXCEPT ![p] = money[p] - gold[p] + gold[t],
                             ![t] = money[t] - gold[t] + gold[p]]
  <2>1. money' = [money EXCEPT ![p] = ModifyMoney(@, gold[p], gold[t]),
                               ![t] = ModifyMoney(@, gold[t], gold[p])]
    BY DEF Exchange
  <2> QED BY <1>1, <1>2, <1>4, <2>1
<1> QED BY <1>1, <1>2, <1>3, <1>5

\* The exchange keeps the invariant.
LEMMA ExchangeStep ==
    ASSUME TradeInv, NEW p \in Players, Trading(p), Exchange(p)
    PROVE  TradeInv'
<1>0. TypeOK /\ WindowInv
  BY TradeParts DEF TradeInv
<1>1. WindowInv'
  BY <1>0, DeleteTradeKeeps DEF Exchange
<1>2. PICK t \in Players : t = trader[p]
  BY <1>0, TraderIs DEF WindowInv
<1>3. PlayerTypeOK'
  BY <1>0, <1>2, ExchangeItems, ExchangeMoney DEF Exchange, PlayerTypeOK, TypeOK
<1>4. ItemsConserved'
  BY <1>2, ExchangeItems
<1> QED BY <1>1, <1>3, <1>4, TradePartsPrime

\* A teleport or logout cancels the trade of both; coming back opens none.
LEMMA PresenceStep ==
    ASSUME TradeInv, NEW p \in Players, Leave(p) \/ Return(p)
    PROVE  TradeInv'
<1>0. TypeOK /\ WindowInv /\ PlayerTypeOK
  BY TradeParts DEF TradeInv
<1>1. ItemsConserved'
  BY DEF TradeInv, ItemsConserved, Owned, Carried, Leave, Return
<1>2. PlayerTypeOK'
  BY <1>0 DEF PlayerTypeOK, Leave, Return
<1>3. CASE Leave(p) /\ Trading(p)
  BY <1>0, <1>1, <1>2, <1>3, DeleteTradeKeeps, TradePartsPrime DEF Leave
<1>4. CASE Leave(p) /\ ~Trading(p)
  <2>1. \A q \in Players : Trading(q) => q \in online'
    BY <1>0, <1>4 DEF WindowInv, Paired, Leave
  <2>2. WindowInv'
    BY <1>0, <1>4, <2>1, WindowAlone DEF Leave
  <2> QED BY <1>1, <1>2, <2>2, TradePartsPrime
<1>5. CASE Return(p)
  <2>1. \A q \in Players : Trading(q) => q \in online'
    BY <1>0, <1>5 DEF WindowInv, Paired, Return
  <2>2. WindowInv'
    BY <1>0, <1>5, <2>1, WindowAlone DEF Return
  <2> QED BY <1>1, <1>2, <2>2, TradePartsPrime
<1> QED BY <1>3, <1>4, <1>5

\* Items moved between bags, equipment, bank and mail meanwhile keep the
\* invariant, and nobody gains or loses one.
LEMMA InventoryStep ==
    ASSUME TradeInv, NEW p \in Players, NEW i \in Items,
           MoveItem(p, i) \/ SendAway(p, i) \/ GetBack(p, i)
    PROVE  TradeInv' /\ \A q \in Players : Owned(q)' = Owned(q)
<1>0. TypeOK /\ WindowInv /\ PlayerTypeOK /\ ItemsConserved
  BY TradeParts DEF TradeInv
<1>1. UNCHANGED <<online, money, outside, saved, tradeVars, seen>>
  BY DEF MoveItem, SendAway, GetBack
<1>2. WindowInv'
  <2>1. \A q \in Players : Trading(q) => q \in online'
    BY <1>0, <1>1 DEF WindowInv, Paired
  <2> QED BY <1>0, <1>1, <2>1, WindowAlone
<1>3. PlayerTypeOK'
  BY <1>0, <1>1 DEF PlayerTypeOK, MoveItem, SendAway, GetBack
<1>4. \A q \in Players \ {p} : bag'[q] = bag[q] /\ worn'[q] = worn[q] /\ away'[q] = away[q]
  BY <1>0 DEF TypeOK, MoveItem, SendAway, GetBack
<1>5. \A j \in Items : /\ ~(j \in bag[p] /\ j \in worn[p])
                       /\ ~(j \in away[p] /\ j \in (bag[p] \cup worn[p]))
  BY <1>0 DEF ItemsConserved, Carried
<1>6. /\ bag'[p] \cup worn'[p] \cup away'[p] = bag[p] \cup worn[p] \cup away[p]
      /\ \A j \in Items : /\ ~(j \in bag'[p] /\ j \in worn'[p])
                          /\ ~(j \in away'[p] /\ j \in (bag'[p] \cup worn'[p]))
  <2>1. CASE MoveItem(p, i)
    BY <1>0, <1>5, <2>1 DEF MoveItem, TypeOK
  <2>2. CASE SendAway(p, i)
    BY <1>0, <1>5, <2>2 DEF SendAway, TypeOK
  <2>3. CASE GetBack(p, i)
    BY <1>0, <1>5, <2>3 DEF GetBack, TypeOK
  <2> QED BY <2>1, <2>2, <2>3
<1>7. \A q \in Players : Owned(q)' = Owned(q)
  BY <1>4, <1>6 DEF Owned
<1>8. \A q \in Players, j \in Items :
        /\ ~(j \in bag'[q] /\ j \in worn'[q])
        /\ ~(j \in away'[q] /\ j \in (bag'[q] \cup worn'[q]))
  BY <1>0, <1>4, <1>6 DEF ItemsConserved, Carried
<1>9. ItemsConserved'
  <2> SUFFICES ASSUME NEW j \in Items
               PROVE  /\ \E q \in Players : j \in Owned(q)'
                      /\ \A q, r \in Players : j \in Owned(q)' \cap Owned(r)' => q = r
                      /\ \A q \in Players : j \in saved'[q] <=> j \in Owned(q)'
    BY <1>8 DEF ItemsConserved, Carried
  <2> QED BY <1>0, <1>1, <1>7 DEF ItemsConserved
<1> QED BY <1>2, <1>3, <1>7, <1>9, TradePartsPrime

\* Gold spent or earned elsewhere meanwhile keeps the invariant.
LEMMA SpendOrEarnStep ==
    ASSUME TradeInv, NEW p \in Players, SpendOrEarn(p)
    PROVE  TradeInv'
<1>0. WindowInv /\ PlayerTypeOK
  BY TradeParts
<1>1. PlayerTypeOK'
  BY <1>0, TradeAssumption DEF PlayerTypeOK, SpendOrEarn
<1>2. ItemsConserved'
  BY DEF TradeInv, ItemsConserved, Owned, Carried, SpendOrEarn
<1>3. \A q \in Players : Trading(q) => q \in online'
  BY <1>0 DEF WindowInv, Paired, SpendOrEarn
<1>4. WindowInv'
  BY <1>0, <1>3, WindowAlone DEF SpendOrEarn
<1> QED BY <1>1, <1>2, <1>4, TradePartsPrime

\* Every step keeps the invariant.
LEMMA NextStep ==
    ASSUME TradeInv, [Next]_vars
    PROVE  TradeInv'
<1>1. CASE UNCHANGED vars
  <2>1. WindowInv /\ \A q \in Players : Trading(q) => q \in online'
    BY <1>1, TradeParts DEF WindowInv, Paired, vars, playerVars
  <2>2. WindowInv'
    BY <1>1, <2>1, WindowAlone DEF vars
  <2> QED BY <1>1, <2>2, PlayersAlone DEF vars
<1>2. CASE Next
  <2>1. PICK p \in Players :
          \/ \E q \in Players : HandleInitiateTrade(p, q)
          \/ \E amount \in Amounts : HandleSetTradeGold(p, amount)
          \/ \E s \in Slots, i \in Items : HandleSetTradeItem(p, s, i)
          \/ \E s \in Slots : HandleClearTradeItem(p, s)
          \/ CastOnTradeItem(p)
          \/ HandleUnacceptTrade(p)
          \/ TradeCancel(p)
          \/ HandleAcceptTrade(p)
          \/ Leave(p)
          \/ Return(p)
          \/ \E i \in Items : MoveItem(p, i) \/ SendAway(p, i) \/ GetBack(p, i)
          \/ SpendOrEarn(p)
    BY <1>2 DEF Next
  <2>2. CASE \E q \in Players : HandleInitiateTrade(p, q)
    BY <2>2, InitiateStep
  <2>3. CASE \E amount \in Amounts : HandleSetTradeGold(p, amount)
    BY <2>3, GoldStep
  <2>4. CASE HandleAcceptTrade(p)
    BY <2>4, RefusalStep, ExchangeStep DEF HandleAcceptTrade
  <2>5. CASE Leave(p) \/ Return(p)
    BY <2>5, PresenceStep
  <2>6. CASE \E i \in Items : MoveItem(p, i) \/ SendAway(p, i) \/ GetBack(p, i)
    BY <2>6, InventoryStep
  <2>7. CASE SpendOrEarn(p)
    BY <2>7, SpendOrEarnStep
  <2> QED BY <2>1, <2>2, <2>3, <2>4, <2>5, <2>6, <2>7, PacketStep
<1> QED BY <1>1, <1>2

\* For every number of characters, items, slots and every capacity: the window
\* is paired and acceptance is for what it shows, no item is in two slots, and
\* every item has one owner in the game and in the database.
THEOREM InvariantHolds == Spec => []TradeInv
BY InitInv, NextStep, PTL DEF Spec

\* The halves of a trade, Player::m_trade, are created and deleted together:
\* nobody trades with a character that left or trades with another.
THEOREM TradesArePaired == Spec => []TradesPaired
<1>1. TradeInv => TradesPaired
  BY DEF TradeInv, TradesPaired, Paired
<1> QED BY <1>1, InvariantHolds, PTL

\* m_accepted is only set while the window is as it was when the character
\* accepted: TradeData::SetItem, SetMoney and SetSpell take both flags back.
THEOREM AcceptanceIsForWhatIsShown == Spec => []AcceptedAsShown
<1>1. TradeInv => AcceptedAsShown
  BY DEF TradeInv
<1> QED BY <1>1, InvariantHolds, PTL

\* HandleAcceptTradeOpcode neither loses nor doubles an item, whatever was
\* moved, equipped or sent away while the window was open, and the database
\* agrees with the game after every trade.
THEOREM NoItemLostOrDoubled == Spec => []ItemsConserved
<1>1. TradeInv => ItemsConserved
  BY DEF TradeInv
<1> QED BY <1>1, InvariantHolds, PTL

\* Only the end of HandleAcceptTradeOpcode moves an item from one character to
\* another.
LEMMA OthersKeepItems ==
    ASSUME TradeInv, [Next]_vars, NEW o \in Players, NEW n \in Players, o # n,
           Owned(o) \cap Owned(n)' # {}
    PROVE  \E p \in Players : HandleAcceptTrade(p) /\ Exchange(p)
<1>1. \E q \in Players : Owned(q)' # Owned(q)
  <2>1. Owned(o) \cap Owned(n) = {}
    <3>1. Owned(o) \subseteq Items
      BY DEF TradeInv, TypeOK, Owned
    <3> QED BY <3>1 DEF TradeInv, ItemsConserved
  <2> QED BY <2>1
<1>2. ~ UNCHANGED <<bag, worn, away>>
  BY <1>1 DEF Owned
<1>3. \A p \in Players, i \in Items : ~(MoveItem(p, i) \/ SendAway(p, i) \/ GetBack(p, i))
  BY <1>1, InventoryStep
<1>4. PICK p \in Players : HandleAcceptTrade(p)
  BY <1>2, <1>3 DEF Next, vars, playerVars, HandleInitiateTrade,
       HandleSetTradeGold,
       HandleSetTradeItem, HandleClearTradeItem, CastOnTradeItem,
            HandleUnacceptTrade,
       TradeCancel, Leave, Return, SpendOrEarn
<1>5. Exchange(p)
  BY <1>2, <1>4 DEF HandleAcceptTrade, RefuseOwn, RefuseOther, AcceptAlone,
       SpellFails,
       CannotStore, playerVars
<1> QED BY <1>4, <1>5

\* What a character who has accepted saw in the window is what GetItems and
\* m_money of both are when the exchange happens.
LEMMA SeenIsExchanged ==
    ASSUME TradeInv, NEW p \in Players, NEW q \in Players, Trading(p), trader[p] = q,
           NEW r \in {p, q}, accepted[r]
    PROVE  LET offered == IF r = p THEN seen[r].mine ELSE seen[r].his
               asked == IF r = p THEN seen[r].his ELSE seen[r].mine
           IN  /\ GetItems(p) = {offered.item[s] : s \in TradedSlots} \cap Carried(p)
               /\ offered.gold = gold[p] /\ asked.gold = gold[q]
<1>1. seen[r] = Window(r)
  BY DEF TradeInv, AcceptedAsShown
<1>2. q # p /\ trader[q] = p
  BY TraderIs DEF TradeInv
<1>3. Window(p) = [mine |-> Offer(p), his |-> Offer(q)] /\ Window(q) = [mine |-> Offer(q), his |-> Offer(p)]
  BY <1>2 DEF Window
<1>4. GetItems(p) = {item[p][s] : s \in TradedSlots} \cap Carried(p)
  <2>1. None \notin Carried(p)
    BY TradeAssumption DEF TradeInv, TypeOK, Carried
  <2> QED BY <2>1 DEF GetItems, GetItem
<1>5. CASE r = p
  BY <1>1, <1>3, <1>4, <1>5 DEF Offer
<1>6. CASE r = q
  BY <1>1, <1>2, <1>3, <1>4, <1>6 DEF Offer
<1> QED BY <1>5, <1>6

\* What HandleAcceptTradeOpcode moves from one character to another is what
\* the one who accepted first had seen in the window, less what its owner no
\* longer carries, and the gold is the gold both had seen.
THEOREM NothingUnseenMoves == Spec => NothingMovesUnseen
<1>1. ASSUME TradeInv, [Next]_vars
      PROVE  \A p, q \in Players :
               LET items == Owned(p) \cap Owned(q)'
               IN  p # q /\ items # {} =>
                     /\ trader[p] = q
                     /\ accepted[p] \/ accepted[q]
                     /\ \A r \in {p, q} : accepted[r] =>
                          LET offered == IF r = p THEN seen[r].mine ELSE seen[r].his
                              asked == IF r = p THEN seen[r].his ELSE seen[r].mine
                          IN  /\ items = {offered.item[s] : s \in TradedSlots}
                                           \cap Carried(p)
                              /\ money'[p] = money[p] - offered.gold + asked.gold
  <2> SUFFICES ASSUME NEW p \in Players, NEW q \in Players, p # q,
                      Owned(p) \cap Owned(q)' # {}
               PROVE  /\ trader[p] = q
                      /\ accepted[p] \/ accepted[q]
                      /\ Owned(p) \cap Owned(q)' = GetItems(p)
                      /\ money'[p] = money[p] - gold[p] + gold[q]
    <3>1. \A p, q \in Players : trader[p] = q => Trading(p)
      BY TradeAssumption DEF Trading
    <3> QED BY <1>1, <3>1, SeenIsExchanged
  <2>1. PICK a \in Players : HandleAcceptTrade(a) /\ Exchange(a)
    BY <1>1, OthersKeepItems
  <2>2. PICK t \in Players : t = trader[a]
    BY <1>1, <2>1, TraderIs DEF HandleAcceptTrade, TradeInv
  <2>3. Trading(a) /\ t # a /\ trader[t] = a
    BY <1>1, <2>1, <2>2, TraderIs DEF HandleAcceptTrade, TradeInv
  <2>4. /\ Owned(a)' = (Owned(a) \ GetItems(a)) \cup GetItems(t)
        /\ Owned(t)' = (Owned(t) \ GetItems(t)) \cup GetItems(a)
        /\ \A r \in Players \ {a, t} : Owned(r)' = Owned(r)
    BY <1>1, <2>1, <2>2, <2>3, ExchangeItems
  <2>5. GetItems(a) \subseteq Owned(a) /\ GetItems(t) \subseteq Owned(t)
    BY <1>1, GetItemsType DEF TradeInv, Owned, Carried
  <2>6. \A r, s \in Players : r # s => Owned(r) \cap Owned(s) = {}
    <3>1. \A r \in Players : Owned(r) \subseteq Items
      BY <1>1 DEF TradeInv, TypeOK, Owned
    <3> QED BY <1>1, <3>1 DEF TradeInv, ItemsConserved
  <2>7. \/ p = a /\ q = t
        \/ p = t /\ q = a
    BY <2>4, <2>5, <2>6
  <2>8. Owned(p) \cap Owned(q)' = GetItems(p)
    BY <2>4, <2>5, <2>6, <2>7
  <2>9. money'[p] = money[p] - gold[p] + gold[q]
    <3>1. /\ money' = [money EXCEPT ![a] = money[a] - gold[a] + gold[t],
                                    ![t] = money[t] - gold[t] + gold[a]]
          /\ money \in [Players -> Nat]
      BY <1>1, <2>1, <2>2, <2>3, ExchangeMoney DEF TradeInv, TypeOK
    <3> QED BY <2>3, <2>7, <3>1
  <2>10. trader[p] = q /\ (accepted[p] \/ accepted[q])
    BY <2>1, <2>2, <2>3, <2>7 DEF Exchange, BothAccept
  <2> QED BY <2>8, <2>9, <2>10
<1> QED BY <1>1, InvariantHolds, PTL DEF Spec, NothingMovesUnseen

-----------------------------------------------------------------------------
(* Gold. *)

\* The gold of all characters.
MoneySum == MapThenSumSet(LAMBDA p : money[p], Players)

\* The gold of all characters as a sum over a function.
LEMMA MoneySumIs == MoneySum = Sum(money, Players)
BY DEF MoneySum, Sum

\* The same after a step.
LEMMA MoneySumIsPrime == MoneySum' = Sum(money', Players)
BY DEF MoneySum, Sum, MapThenSumSet, MapThenFoldSet

\* A step keeps the gold: what is spent elsewhere is accounted for, and an
\* exchange adds to one what it takes from the other.
LEMMA MoneyStep ==
    ASSUME TradeInv, MoneyConserved, [Next]_vars
    PROVE  MoneyConserved'
<1>0. money \in [Players -> Nat] /\ money \in [Players -> Int] /\ outside \in Int /\ IsFiniteSet(Players)
  BY TradeAssumption DEF TradeInv, TypeOK
<1>1. Sum(money, Players) + outside = InitialMoney * Cardinality(Players)
      /\ \A p \in Players : money[p] <= MaxMoney
  BY MoneySumIs DEF MoneyConserved, MoneySum
<1>2. SUFFICES Sum(money', Players) + outside' = InitialMoney * Cardinality(Players)
               /\ \A p \in Players : money'[p] <= MaxMoney
  BY MoneySumIsPrime DEF MoneyConserved, MoneySum
<1>3. CASE UNCHANGED <<money, outside>>
  BY <1>1, <1>3
<1>4. ASSUME NEW p \in Players, SpendOrEarn(p)
      PROVE  /\ Sum(money', Players) + outside' = InitialMoney * Cardinality(Players)
             /\ \A q \in Players : money'[q] <= MaxMoney
  <2>1. PICK amount \in {-1, 1} : /\ money[p] + amount \in 0 .. MaxMoney
                                  /\ money' = [money EXCEPT ![p] = money[p] + amount]
                                  /\ outside' = outside - amount
    BY <1>4 DEF SpendOrEarn
  <2>2. money[p] + amount \in Int /\ money[p] \in Int
    BY <1>0
  <2>3. /\ Sum([money EXCEPT ![p] = money[p] + amount], Players)
             = Sum(money, Players) + (money[p] + amount) - money[p]
        /\ Sum(money, Players) \in Int
    BY <1>0, <2>2, SumUpdate
  <2>4. \A q \in Players : money'[q] <= MaxMoney
    BY <1>0, <1>1, <2>1, TradeAssumption
  <2> QED BY <1>0, <1>1, <2>1, <2>2, <2>3, <2>4
<1>5. ASSUME NEW p \in Players, HandleAcceptTrade(p), Exchange(p)
      PROVE  /\ Sum(money', Players) + outside' = InitialMoney * Cardinality(Players)
             /\ \A q \in Players : money'[q] <= MaxMoney
  <2> DEFINE t == trader[p]
             u == money[p] - gold[p] + gold[t]
             v == money[t] - gold[t] + gold[p]
             m == [money EXCEPT ![p] = u]
  <2>1. Trading(p) /\ t \in Players /\ t # p
    BY <1>5, TraderIs DEF HandleAcceptTrade, TradeInv
  <2>2. /\ money' = [money EXCEPT ![p] = u, ![t] = v] /\ money' \in [Players -> Nat]
        /\ \A q \in {p, t} : money'[q] <= MaxMoney
    BY <1>5, <2>1, ExchangeMoney
  <2>3. gold[p] \in Int /\ gold[t] \in Int /\ money[p] \in Int /\ money[t] \in Int
    BY <2>1 DEF TradeInv, TypeOK
  <2>4. u \in Int /\ v \in Int /\ u + v = money[p] + money[t]
    BY <2>3
  <2>5. m \in [Players -> Int] /\ m[t] = money[t] /\ [m EXCEPT ![t] = v] = money'
    BY <1>0, <2>1, <2>2, <2>4
  <2>6. \A q \in Players : money'[q] <= MaxMoney
    BY <1>0, <1>1, <2>1, <2>2
  <2>7. outside' = outside
    BY <1>5 DEF Exchange
  <2> HIDE DEF u, v, t
  <2>8. Sum(m, Players) = Sum(money, Players) + u - money[p]
        /\ Sum(money, Players) \in Int
    BY <1>0, <2>4, SumUpdate
  <2> HIDE DEF m
  <2>9. Sum([m EXCEPT ![t] = v], Players) = Sum(m, Players) + v - m[t]
    BY <1>0, <2>1, <2>4, <2>5, SumUpdate
  <2>10. Sum(money', Players) = Sum(money, Players)
    <3>1. Sum(money', Players) = Sum(money, Players) + u - money[p] + v - money[t]
      BY <2>5, <2>8, <2>9
    <3> QED BY <2>3, <2>4, <2>8, <3>1
  <2> QED BY <1>1, <2>6, <2>7, <2>10
<1>6. \/ UNCHANGED <<money, outside>>
      \/ \E p \in Players : SpendOrEarn(p)
      \/ \E p \in Players : HandleAcceptTrade(p) /\ Exchange(p)
  BY DEF Next, vars, playerVars, HandleInitiateTrade, HandleSetTradeGold,
       HandleSetTradeItem, HandleClearTradeItem, CastOnTradeItem,
            HandleUnacceptTrade,
       TradeCancel, Leave, Return, MoveItem, SendAway, GetBack,
            HandleAcceptTrade,
       RefuseOwn, RefuseOther, AcceptAlone, SpellFails, CannotStore
<1> QED BY <1>3, <1>4, <1>5, <1>6

\* ModifyMoney neither loses nor makes gold in a trade, for every limit and
\* every offer, and nobody gets over MAX_MONEY_AMOUNT.
THEOREM NoGoldLostOrMade == Spec => []MoneyConserved
<1>1. ASSUME Init PROVE MoneyConserved
  <2>1. money = [p \in Players |-> InitialMoney] /\ outside = 0 /\ IsFiniteSet(Players)
        /\ InitialMoney \in Int /\ InitialMoney <= MaxMoney
    BY <1>1, TradeAssumption DEF Init
  <2>2. Sum(money, Players) = InitialMoney * Cardinality(Players) /\ Cardinality(Players) \in Nat
    BY <2>1, SumConstant, FS_CardinalityType
  <2> QED BY <2>1, <2>2, MoneySumIs DEF MoneyConserved, MoneySum
<1> QED BY <1>1, InvariantHolds, MoneyStep, PTL DEF Spec
================================================================================
