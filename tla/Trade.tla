-------------------------------- MODULE Trade --------------------------------
(***************************************************************************)
(* The trade window: Player::m_trade of two characters, the packet         *)
(* handlers of TradeHandler.cpp, and what may happen to the characters and *)
(* their inventories meanwhile.  Each handler runs on the thread of the    *)
(* map both characters are on and is one step.                             *)
(*                                                                         *)
(* The window keeps the GUIDs of the items; whether they still exist is    *)
(* only looked up when they are needed.                                    *)
(***************************************************************************)
EXTENDS Integers, FiniteSets, FiniteSetsExt

CONSTANTS
    Players,
    Items,
    None,       \* a NULL pointer, an empty GUID
    Capacity,   \* items that fit into the bags of a character
    InitialMoney,
    MaxMoney,   \* MAX_MONEY_AMOUNT
    SlotCount,  \* TRADE_SLOT_TRADED_COUNT
    Amounts     \* bound: the gold a client offers

ASSUME TradeAssumption ==
    /\ IsFiniteSet(Players) /\ IsFiniteSet(Items)
    /\ None \notin Players \cup Items
    /\ Capacity \in Nat /\ MaxMoney \in Nat
    /\ InitialMoney \in 0 .. MaxMoney
    /\ SlotCount \in Nat
    /\ Amounts \subseteq 0 .. MaxMoney

NonTraded == 0                \* TRADE_SLOT_NONTRADED
Slots == 0 .. SlotCount
TradedSlots == 1 .. SlotCount

VARIABLES
    online,    \* characters in the world
    bag,       \* items in the bags, by character
    worn,      \* items that are equipped or in the bank
    away,      \* items in the mail or the buyback tab
    bound,     \* items for which CanBeTraded is false
    money,
    outside,   \* history: gold the characters paid elsewhere, less what they earned
    saved,     \* items of each character in the database
    trader,    \* m_trade->m_trader, None when m_trade is NULL
    accepted,  \* m_accepted
    gold,      \* m_money
    spell,     \* m_spell # 0
    item,      \* m_items
    seen       \* history: the window as it was when m_accepted was set

playerVars == <<online, bag, worn, away, bound, money, outside>>
tradeVars == <<trader, accepted, gold, spell, item>>
vars == <<playerVars, saved, tradeVars, seen>>

Offers == [item : [Slots -> Items \cup {None}], gold : Nat, spell : BOOLEAN]

TypeOK ==
    /\ online \subseteq Players
    /\ bag \in [Players -> SUBSET Items]
    /\ worn \in [Players -> SUBSET Items]
    /\ away \in [Players -> SUBSET Items]
    /\ bound \subseteq Items
    /\ money \in [Players -> Nat]
    /\ outside \in Int
    /\ saved \in [Players -> SUBSET Items]
    /\ trader \in [Players -> Players \cup {None}]
    /\ accepted \in [Players -> BOOLEAN]
    /\ gold \in [Players -> Nat]
    /\ spell \in [Players -> BOOLEAN]
    /\ item \in [Players -> [Slots -> Items \cup {None}]]
    /\ seen \in [Players -> [mine : Offers, his : Offers] \cup {None}]

NoItems == [s \in Slots |-> None]
Owned(p) == bag[p] \cup worn[p] \cup away[p]

Init ==
    /\ online = Players
    /\ bag \in [Players -> SUBSET Items]
    /\ \A i \in Items : Cardinality({p \in Players : i \in bag[p]}) = 1
    /\ \A p \in Players : Cardinality(bag[p]) <= Capacity
    /\ worn = [p \in Players |-> {}]
    /\ away = [p \in Players |-> {}]
    /\ bound = {}
    /\ money = [p \in Players |-> InitialMoney]
    /\ outside = 0
    /\ saved = bag
    /\ trader = [p \in Players |-> None]
    /\ accepted = [p \in Players |-> FALSE]
    /\ gold = [p \in Players |-> 0]
    /\ spell = [p \in Players |-> FALSE]
    /\ item = [p \in Players |-> NoItems]
    /\ seen = [p \in Players |-> None]

-----------------------------------------------------------------------------
(* TradeData. *)

Trading(p) == trader[p] # None

Offer(p) == [item |-> item[p], gold |-> gold[p], spell |-> spell[p]]
Window(p) == [mine |-> Offer(p), his |-> Offer(trader[p])]

\* GetItemByGuid searches the bags, the equipment and the bank.
Carried(p) == bag[p] \cup worn[p]

GetItem(p, s) == IF item[p][s] \in Carried(p) THEN item[p][s] ELSE None
GetItems(p) == {GetItem(p, s) : s \in TradedSlots} \ {None}

HasItem(p, i) == \E s \in Slots : item[p][s] = i

\* Set m_accepted of several characters at once, keeping the history.
SetAccepted(flags) ==
    /\ accepted' = [p \in Players |-> IF p \in DOMAIN flags THEN flags[p]
                                                            ELSE accepted[p]]
    /\ seen' = [p \in Players |-> IF p \notin DOMAIN flags THEN seen[p]
                                   ELSE IF flags[p] THEN Window(p) ELSE None]

\* Only one's own acceptance is taken back: what HandleUnacceptTrade and a
\* refusal do, and what would be a Fault in place of UnacceptBoth.
UnacceptSelf(p) == SetAccepted([q \in {p} |-> FALSE])

UnacceptBoth(p) == SetAccepted([q \in {p, trader[p]} |-> FALSE])

SetItem(p, s, i) ==
    /\ item[p][s] # i
    /\ item' = [item EXCEPT ![p][s] = i]
    /\ UnacceptBoth(p)
    /\ spell' = [spell EXCEPT ![p] = FALSE,
                              ![trader[p]] = @ /\ s # NonTraded]
    /\ UNCHANGED <<trader, gold>>

SetSpell(p, value) ==
    /\ spell[p] # value
    /\ spell' = [spell EXCEPT ![p] = value]
    /\ UnacceptBoth(p)
    /\ UNCHANGED <<trader, gold, item>>

\* Fault: the partner keeps its half of the trade.
OwnHalf(p) == {p}

Partners(p) == {p, trader[p]}

\* `delete m_trade` of both, as in TradeCancel and at the end of a trade.
DeleteTrade(ps) ==
    /\ trader' = [p \in Players |-> IF p \in ps THEN None ELSE trader[p]]
    /\ gold' = [p \in Players |-> IF p \in ps THEN 0 ELSE gold[p]]
    /\ spell' = [p \in Players |-> spell[p] /\ p \notin ps]
    /\ item' = [p \in Players |-> IF p \in ps THEN NoItems ELSE item[p]]
    /\ SetAccepted([p \in ps |-> FALSE])

-----------------------------------------------------------------------------
(* The window's packets, except for accepting. *)

HandleInitiateTrade(p, q) ==
    /\ p # q
    /\ {p, q} \subseteq online
    /\ ~Trading(p) /\ ~Trading(q)
    /\ trader' = [trader EXCEPT ![p] = q, ![q] = p]
    /\ UNCHANGED <<playerVars, saved, accepted, gold, spell, item, seen>>

HandleSetTradeGold(p, amount) ==
    /\ Trading(p)
    /\ amount # gold[p] /\ amount <= money[p]
    /\ gold' = [gold EXCEPT ![p] = amount]
    /\ UnacceptBoth(p)
    /\ UNCHANGED <<playerVars, saved, trader, spell, item>>

HandleSetTradeItem(p, s, i) ==
    /\ Trading(p)
    /\ i \in Carried(p)
    /\ s # NonTraded => i \notin bound
    /\ ~HasItem(p, i)
    /\ SetItem(p, s, i)
    /\ UNCHANGED <<playerVars, saved>>

HandleClearTradeItem(p, s) ==
    /\ Trading(p)
    /\ SetItem(p, s, None)
    /\ UNCHANGED <<playerVars, saved>>

\* Spell::cast with a target in the partner's non-traded slot.
CastOnTradeItem(p) ==
    /\ Trading(p)
    /\ GetItem(trader[p], NonTraded) # None
    /\ SetSpell(p, TRUE)
    /\ UNCHANGED <<playerVars, saved>>

HandleUnacceptTrade(p) ==
    /\ Trading(p)
    /\ UnacceptSelf(p)
    /\ UNCHANGED <<playerVars, saved, trader, gold, spell, item>>

TradeCancel(p) ==
    /\ Trading(p)
    /\ DeleteTrade(Partners(p))
    /\ UNCHANGED <<playerVars, saved>>

-----------------------------------------------------------------------------
(* HandleAcceptTradeOpcode.  m_accepted of p is set before the checks, and *)
(* every way out but Exchange changes flags only.                          *)

HasEnoughMoney(p) == money[p] >= gold[p]
TooMuchGold(p) == money[p] >= MaxMoney - gold[trader[p]]

\* p is told to be too far away, too poor, or too rich for the offer.
RefuseOwn(p) ==
    /\ UnacceptSelf(p)
    /\ UNCHANGED <<playerVars, saved, trader, gold, spell, item>>

\* The same of the partner, who then is the one whose flag is cleared.
RefuseOther(p) ==
    LET t == trader[p] IN
    /\ HasEnoughMoney(p)
    /\ HasEnoughMoney(t) => ~TooMuchGold(p) /\ TooMuchGold(t)
    /\ SetAccepted([q \in {p, t} |-> q = p])
    /\ UNCHANGED <<playerVars, saved, trader, gold, spell, item>>

\* Fault: who receives how much is not compared with the limit.
EnoughMoney(p) == \A q \in {p, trader[p]} : HasEnoughMoney(q)

MoneyOK(p) ==
    \A q \in {p, trader[p]} : HasEnoughMoney(q) /\ ~TooMuchGold(q)

ItemsOK(p) ==
    \A q \in {p, trader[p]} : GetItems(q) \cap bound = {}

\* An item has become bound, or the partner has not accepted yet.
AcceptAlone(p) ==
    /\ MoneyOK(p)
    /\ ItemsOK(p) => ~accepted[trader[p]]
    /\ SetAccepted([q \in {p} |-> TRUE])
    /\ UNCHANGED <<playerVars, saved, trader, gold, spell, item>>

\* Fault: the partner is not asked.
OneAccepts(p) == MoneyOK(p) /\ ItemsOK(p)

BothAccept(p) == MoneyOK(p) /\ ItemsOK(p) /\ accepted[trader[p]]

\* The item in the partner's non-traded slot must still be there.
SpellHasTarget(p) == spell[p] => GetItem(trader[p], NonTraded) # None

\* CheckCast of the own or of the partner's spell fails.
SpellFails(p) ==
    /\ BothAccept(p)
    /\ \/ SetSpell(p, FALSE)
       \/ SpellHasTarget(p) /\ SetSpell(trader[p], FALSE)
    /\ UNCHANGED <<playerVars, saved>>

\* Slots of items in the trade count as free.
CanStoreItems(p) ==
    Cardinality(bag[p] \ GetItems(p)) + Cardinality(GetItems(trader[p]))
        <= Capacity

CannotStore(p) ==
    /\ BothAccept(p)
    /\ SpellHasTarget(p) /\ SpellHasTarget(trader[p])
    /\ ~CanStoreItems(p) \/ ~CanStoreItems(trader[p])
    /\ UnacceptBoth(p)
    /\ UNCHANGED <<playerVars, saved, trader, gold, spell, item>>

\* CanStoreItem and MoveItemToInventory for one item, if any.
Room(bags, p, i) == i = None \/ Cardinality(bags[p]) < Capacity
Store(bags, p, i) ==
    IF i = None \/ ~Room(bags, p, i) THEN bags
                                     ELSE [bags EXCEPT ![p] = @ \cup {i}]

\* Slot by slot both ways or, if one of the two has no room, back.
moveItems(p, bags) ==
    LET t == trader[p]
        after[n \in Slots] ==
            IF n = 0 THEN bags
            ELSE LET b == after[n - 1]
                     mine == GetItem(p, n)
                     his == GetItem(t, n)
                 IN  IF Room(b, t, mine) /\ Room(b, p, his)
                     THEN Store(Store(b, t, mine), p, his)
                     ELSE Store(Store(b, p, mine), t, his)
    IN  after[SlotCount]

\* ModifyMoney twice: what would exceed the limit is not added.
ModifyMoney(old, give, get) ==
    LET rest == IF old > give THEN old - give ELSE 0 IN
    IF rest <= MaxMoney - get THEN rest + get ELSE rest

\* Fault: only the character whose packet it is gets saved.
SaveOwn(p) ==
    saved' = [saved EXCEPT ![p] = bag'[p] \cup worn'[p] \cup away[p]]

\* SaveInventoryAndCurrenciesToDB of both in one transaction.
SaveBoth(p) ==
    saved' = [q \in Players |-> IF q \in {p, trader[p]}
                               THEN bag'[q] \cup worn'[q] \cup away[q]
                               ELSE saved[q]]

Exchange(p) ==
    LET t == trader[p]
        removed == [q \in Players |-> IF q \in {p, t} THEN bag[q] \ GetItems(q)
                                                      ELSE bag[q]]
    IN  /\ BothAccept(p)
        /\ SpellHasTarget(p) /\ SpellHasTarget(t)
        /\ CanStoreItems(p) /\ CanStoreItems(t)
        /\ bag' = moveItems(p, removed)
        /\ worn' = [q \in Players |-> IF q \in {p, t} THEN worn[q] \ GetItems(q)
                                                      ELSE worn[q]]
        /\ money' = [money EXCEPT
                       ![p] = ModifyMoney(@, gold[p], gold[t]),
                       ![t] = ModifyMoney(@, gold[t], gold[p])]
        /\ SaveBoth(p)
        /\ DeleteTrade(Partners(p))
        /\ UNCHANGED <<online, away, bound, outside>>

HandleAcceptTrade(p) ==
    /\ Trading(p)
    /\ \/ RefuseOwn(p)
       \/ RefuseOther(p)
       \/ AcceptAlone(p)
       \/ SpellFails(p)
       \/ CannotStore(p)
       \/ Exchange(p)

-----------------------------------------------------------------------------
(* What goes on outside the window. *)

\* Teleport, taxi or logout; the latter takes the character out of the world.
Leave(p) ==
    /\ p \in online
    /\ online' = online \ {p}
    /\ IF Trading(p) THEN DeleteTrade(Partners(p))
                     ELSE UNCHANGED <<tradeVars, seen>>
    /\ UNCHANGED <<bag, worn, away, bound, money, outside, saved>>

Return(p) ==
    /\ p \notin online
    /\ online' = online \cup {p}
    /\ UNCHANGED <<bag, worn, away, bound, money, outside, saved, tradeVars, seen>>

\* SwapItem between bags and equipment or bank; equipping may bind.
MoveItem(p, i) ==
    /\ \/ /\ i \in bag[p]
          /\ bag' = [bag EXCEPT ![p] = @ \ {i}]
          /\ worn' = [worn EXCEPT ![p] = @ \cup {i}]
          /\ bound' \in {bound, bound \cup {i}}
       \/ /\ i \in worn[p] /\ Cardinality(bag[p]) < Capacity
          /\ bag' = [bag EXCEPT ![p] = @ \cup {i}]
          /\ worn' = [worn EXCEPT ![p] = @ \ {i}]
          /\ UNCHANGED bound
    /\ UNCHANGED <<online, away, money, outside, saved, tradeVars, seen>>

\* MoveItemFromInventory to a mail or a vendor, and back again.
SendAway(p, i) ==
    /\ i \in bag[p]
    /\ bag' = [bag EXCEPT ![p] = @ \ {i}]
    /\ away' = [away EXCEPT ![p] = @ \cup {i}]
    /\ UNCHANGED <<online, worn, bound, money, outside, saved, tradeVars, seen>>

GetBack(p, i) ==
    /\ i \in away[p] /\ Cardinality(bag[p]) < Capacity
    /\ away' = [away EXCEPT ![p] = @ \ {i}]
    /\ bag' = [bag EXCEPT ![p] = @ \cup {i}]
    /\ UNCHANGED <<online, worn, bound, money, outside, saved, tradeVars, seen>>

\* Gold spent or earned elsewhere.
SpendOrEarn(p) ==
    /\ \E amount \in {-1, 1} :
         /\ money[p] + amount \in 0 .. MaxMoney
         /\ money' = [money EXCEPT ![p] = @ + amount]
         /\ outside' = outside - amount
    /\ UNCHANGED <<online, bag, worn, away, bound, saved, tradeVars, seen>>

Next ==
    \E p \in Players :
      \/ \E q \in Players : HandleInitiateTrade(p, q)
      \/ \E amount \in Amounts : HandleSetTradeGold(p, amount)
      \/ \E s \in Slots, i \in Items : HandleSetTradeItem(p, s, i)
      \/ \E s \in Slots : HandleClearTradeItem(p, s)
      \/ CastOnTradeItem(p)
      \/ HandleUnacceptTrade(p)
      \/ TradeCancel(p)
      \/ HandleAcceptTrade(p)
      \/ Leave(p)
      \/ Return(p)
      \/ \E i \in Items : MoveItem(p, i) \/ SendAway(p, i) \/ GetBack(p, i)
      \/ SpendOrEarn(p)

Spec == Init /\ [][Next]_vars

-----------------------------------------------------------------------------
(* Properties. *)

\* m_trade of two characters is created and deleted together: nobody trades
\* with a character that left, trades with another, or does not trade.  No
\* variable leaves its type.
TradesPaired ==
    TypeOK /\ \A p \in Players : Trading(p) =>
        /\ p \in online /\ trader[p] # p
        /\ trader[trader[p]] = p

\* Acceptance is for what the window shows: whatever either side changes in
\* it afterwards, in any order, takes both acceptances back.
AcceptedAsShown ==
    \A p \in Players : accepted[p] => Trading(p) /\ seen[p] = Window(p)

\* What changes hands is what the one who accepted first had seen, less the
\* items that have left their owner since (the window is not told).
NothingMovesUnseen ==
    [][\A p, q \in Players :
         LET items == Owned(p) \cap Owned(q)'
         IN  p # q /\ items # {} =>
               /\ trader[p] = q
               /\ accepted[p] \/ accepted[q]
               /\ \A r \in {p, q} : accepted[r] =>
                    LET offered == IF r = p THEN seen[r].mine ELSE seen[r].his
                        asked == IF r = p THEN seen[r].his ELSE seen[r].mine
                    IN  /\ items = {offered.item[s] : s \in TradedSlots}
                                     \cap Carried(p)
                        /\ money'[p] = money[p] - offered.gold + asked.gold]_vars

\* No item is lost or doubled, whatever the state of the bags, nor by a crash:
\* both characters are saved in one transaction.
ItemsConserved ==
    \A i \in Items :
        /\ \E p \in Players : i \in Owned(p)
        /\ \A p, q \in Players : i \in Owned(p) \cap Owned(q) => p = q
        /\ \A p \in Players :
             /\ i \notin (bag[p] \cap worn[p]) \cup (away[p] \cap Carried(p))
             /\ i \in saved[p] <=> i \in Owned(p)

\* Nor is gold, although ModifyMoney drops what is over the limit.
MoneyConserved ==
    /\ MapThenSumSet(LAMBDA p : money[p], Players) + outside
         = InitialMoney * Cardinality(Players)
    /\ \A p \in Players : money[p] <= MaxMoney

=============================================================================
