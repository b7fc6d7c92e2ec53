----------------------------- MODULE AuctionHouse -----------------------------
(***************************************************************************)
(* One auction house: the packet handlers and the expiry timer run on the  *)
(* world thread, while auctions enter and leave AuctionsMap only when the  *)
(* house's own event thread gets to the AddAuctionEvent or                 *)
(* RemoveAuctionEvent they queued.  Between the two, an auction that was   *)
(* sold or cancelled is still found by GetAuction and by Update.           *)
(*                                                                         *)
(* A handler looks its auction up under the lock, then works on the        *)
(* pointer without it, so the lookup is a step of its own.                 *)
(***************************************************************************)
EXTENDS Integers, Sequences, SequencesExt, FiniteSets

CONSTANTS
    Players,      \* characters, each of its own account
    Items,
    InitialMoney, \* what each character owns at first
    Deposit,      \* GetAuctionDeposit, the same for all items
    CutPercent,   \* auctionHouseEntry->cutPercent * RATE_AUCTION_CUT
    Prices,       \* bound: the amounts a client asks for or offers
    MaxAuctions,  \* bound: auctions created
    MaxQueue      \* bound: events waiting for the event thread

ASSUME AuctionHouseAssumption ==
    /\ IsFiniteSet(Players) /\ IsFiniteSet(Items)
    /\ InitialMoney \in Nat /\ Deposit \in Nat
    /\ CutPercent \in 0 .. 100
    /\ Prices \subseteq Nat \ {0}
    /\ MaxAuctions \in Nat /\ MaxQueue \in Nat

VARIABLES
    entries,     \* AuctionEntry objects, in the order of their Ids
    AuctionsMap, \* Ids in the map
    deleted,     \* Ids whose AuctionEntry has been deleted
    mAitems,     \* items in the custody of the house
    queue,       \* EventQueue of the house
    bag,         \* items each character carries
    mailItems,   \* items in each character's mailbox
    money,
    mailMoney,   \* money in each character's mailbox
    destroyed,   \* items deleted because nobody can receive them
    exists,      \* characters that have not been deleted
    held,        \* per auction: what the house took minus what it paid out
    sales,       \* per auction: {} or who was told to have won it, and whether
                 \* the item was sent along
    handler,     \* the handler the world thread is in the middle of
    stale        \* the world thread has found an auction in the map whose
                 \* RemoveAuctionEvent was still queued

houseVars == <<entries, AuctionsMap, deleted, mAitems, queue>>
playerVars == <<bag, mailItems, money, mailMoney, destroyed, exists>>
vars == <<houseVars, playerVars, held, sales, handler, stale>>

Ids == 1 .. MaxAuctions
Idle == [op |-> "none"]

AuctionEntry == [owner : Players, item : Items, startbid : Prices,
                 bid : Nat, bidder : SUBSET Players, buyout : Prices \cup {0},
                 deposit : Nat]
Events == [type : {"add", "remove"}, id : Ids]

TypeOK ==
    /\ entries \in Seq(AuctionEntry) /\ Len(entries) <= MaxAuctions
    /\ \A a \in DOMAIN entries : Cardinality(entries[a].bidder) <= 1
    /\ AuctionsMap \subseteq DOMAIN entries
    /\ deleted \subseteq DOMAIN entries
    /\ mAitems \subseteq Items
    /\ queue \in Seq(Events)
    /\ bag \in [Players -> SUBSET Items]
    /\ mailItems \in [Players -> SUBSET Items]
    /\ money \in [Players -> Nat]
    /\ mailMoney \in [Players -> Nat]
    /\ destroyed \subseteq Items
    /\ exists \subseteq Players
    /\ held \in [Ids -> Int]
    /\ sales \in [Ids -> Seq([buyer : Players, delivered : BOOLEAN])]
    /\ stale \in BOOLEAN
    /\ \/ handler = Idle
       \/ handler \in [op : {"bid"}, player : Players, id : Ids, price : Prices]
       \/ handler \in [op : {"cancel"}, player : Players, id : Ids]

Init ==
    /\ entries = <<>> /\ AuctionsMap = {} /\ deleted = {} /\ mAitems = {}
    /\ queue = <<>>
    /\ bag \in [Players -> SUBSET Items]
    /\ \A i \in Items : Cardinality({p \in Players : i \in bag[p]}) = 1
    /\ mailItems = [p \in Players |-> {}]
    /\ money = [p \in Players |-> InitialMoney]
    /\ mailMoney = [p \in Players |-> 0]
    /\ destroyed = {}
    /\ exists = Players
    /\ held = [a \in Ids |-> 0]
    /\ sales = [a \in Ids |-> <<>>]
    /\ handler = Idle
    /\ stale = FALSE

-----------------------------------------------------------------------------
(* Amounts. *)

CalculatePct(base, pct) == (base * pct) \div 100

\* Fault: the cut has the wrong sign.
GetAuctionBonus(e) == -CalculatePct(e.bid, CutPercent)

GetAuctionCut(e) == CalculatePct(e.bid, CutPercent)

GetAuctionOutBid(e) ==
    LET outbid == CalculatePct(e.bid, 5) IN IF outbid = 0 THEN 1 ELSE outbid

(* Mail and money.  A mail to a character that was deleted is not sent.    *)

\* The effect on the mailboxes of paying each player p the amount pay[p].
MailMoney(pay) ==
    mailMoney' = [p \in Players |->
                    IF p \in exists THEN mailMoney[p] + pay[p] ELSE mailMoney[p]]

\* pay[p] when nothing else is paid but amount to the members of to.
PayTo(to, amount) == [p \in Players |-> IF p \in to THEN amount ELSE 0]
PayBoth(f, g) == [p \in Players |-> f[p] + g[p]]

\* What MailMoney(pay) really pays out.
Paid(to, amount) == IF to \cap exists # {} THEN amount ELSE 0

\* Fault: RemoveAItem is forgotten.
MailItemKeepCustody(item, to) ==
    /\ \/ /\ item \in mAitems /\ to \in exists
          /\ mailItems' = [mailItems EXCEPT ![to] = @ \cup {item}]
          /\ UNCHANGED destroyed
       \/ /\ item \in mAitems /\ to \notin exists
          /\ destroyed' = destroyed \cup {item}
          /\ UNCHANGED mailItems
       \/ /\ item \notin mAitems
          /\ UNCHANGED <<mailItems, destroyed>>
    /\ UNCHANGED mAitems

\* The item goes to the receiver's mailbox, or is deleted with a character
\* that cannot receive it; with no item in custody nothing is sent.  In any
\* case RemoveAItem takes it out of the custody of the house.
MailItem(item, to) ==
    /\ mAitems' = mAitems \ {item}
    /\ \/ /\ item \in mAitems /\ to \in exists
          /\ mailItems' = [mailItems EXCEPT ![to] = @ \cup {item}]
          /\ UNCHANGED destroyed
       \/ /\ item \in mAitems /\ to \notin exists
          /\ destroyed' = destroyed \cup {item}
          /\ UNCHANGED mailItems
       \/ /\ item \notin mAitems
          /\ UNCHANGED <<mailItems, destroyed>>

Schedule(type, a) ==
    /\ Len(queue) < MaxQueue
    /\ queue' = Append(queue, [type |-> type, id |-> a])

-----------------------------------------------------------------------------
(* The event thread of the house. *)

AddAuctionEvent ==
    /\ queue # <<>> /\ Head(queue).type = "add"
    /\ AuctionsMap' = AuctionsMap \cup {Head(queue).id}
    /\ queue' = Tail(queue)
    /\ UNCHANGED <<entries, deleted, mAitems, playerVars, held, sales, handler, stale>>

\* Past ASSERT(itr != AuctionsMap.end()) in RemoveAuction.
RemoveAuctionEvent ==
    /\ queue # <<>> /\ Head(queue).type = "remove"
    /\ Head(queue).id \in AuctionsMap
    /\ AuctionsMap' = AuctionsMap \ {Head(queue).id}
    /\ deleted' = deleted \cup {Head(queue).id}
    /\ queue' = Tail(queue)
    /\ UNCHANGED <<entries, mAitems, playerVars, held, sales, handler, stale>>

-----------------------------------------------------------------------------
(* The world thread. *)

\* Fault: the handlers run on another thread than Update.
WorldBusy == TRUE

\* The world thread is between two handlers.
WorldIdle == handler = Idle

\* The world thread finds auction a under the lock: in the map it is, sold,
\* cancelled or not.
Find(a) ==
    /\ a \in AuctionsMap
    /\ stale' = (stale \/ Contains(queue, [type |-> "remove", id |-> a]))

\* Fault: the item stays with the seller.
TakeIntoCustodyNot(p, i) == UNCHANGED <<bag, mAitems>>

\* AddAItem, and the item leaves the inventory of its owner.
TakeIntoCustody(p, i) ==
    /\ mAitems' = mAitems \cup {i}
    /\ bag' = [bag EXCEPT ![p] = @ \ {i}]

HandleAuctionSellItem(p, i, bid, buyout) ==
    /\ WorldIdle
    /\ p \in exists
    /\ Len(entries) < MaxAuctions
    /\ i \in bag[p]
    /\ i \notin mAitems
    /\ money[p] >= Deposit
    /\ LET a == Len(entries) + 1
       IN  /\ entries' = Append(entries,
                  [owner |-> p, item |-> i, startbid |-> bid, bid |-> 0,
                   bidder |-> {}, buyout |-> buyout, deposit |-> Deposit])
           /\ Schedule("add", a)
           /\ held' = [held EXCEPT ![a] = Deposit]
    /\ TakeIntoCustody(p, i)
    /\ money' = [money EXCEPT ![p] = @ - Deposit]
    /\ UNCHANGED <<AuctionsMap, deleted, mailItems, mailMoney, destroyed,
                   exists, sales, handler, stale>>

\* GetAuction at the head of the two handlers below.
GetAuction(p, a, request) ==
    /\ WorldIdle
    /\ p \in exists
    /\ Find(a)
    /\ handler' = request
    /\ UNCHANGED <<houseVars, playerVars, held, sales>>

\* The checks of HandleAuctionPlaceBid on the auction it found.
Acceptable(e, p, price) ==
    /\ e.owner # p
    /\ price > e.bid
    /\ price >= e.startbid
    /\ price < e.buyout \/ e.buyout = 0 => price >= e.bid + GetAuctionOutBid(e)
    /\ money[p] >= price

IsBuyout(e, price) == e.buyout # 0 /\ price >= e.buyout

\* The auction a handler works on; its memory has not been given back.
Handling(op) ==
    /\ handler.op = op
    /\ handler.id \notin deleted

HandleAuctionPlaceBid ==
    /\ Handling("bid")
    /\ handler' = Idle
    /\ LET p == handler.player
           a == handler.id
           e == entries[a]
           charge == IF e.bidder = {p} THEN handler.price - e.bid ELSE handler.price
           losers == e.bidder \ {p}
       IN  /\ Acceptable(e, p, handler.price)
           /\ ~IsBuyout(e, handler.price)
           /\ money' = [money EXCEPT ![p] = @ - charge]
           /\ MailMoney(PayTo(losers, e.bid))
           /\ entries' = [entries EXCEPT ![a].bidder = {p}, ![a].bid = handler.price]
           /\ held' = [held EXCEPT ![a] = @ + charge - Paid(losers, e.bid)]
    /\ UNCHANGED <<AuctionsMap, deleted, mAitems, queue, bag, mailItems,
                   destroyed, exists, sales, stale>>

Buyout ==
    /\ Handling("bid")
    /\ handler' = Idle
    /\ LET p == handler.player
           a == handler.id
           e == entries[a]
           charge == IF e.bidder = {p} THEN e.buyout - e.bid ELSE e.buyout
           losers == e.bidder \ {p}
           sold == [e EXCEPT !.bidder = {p}, !.bid = e.buyout]
           profit == sold.bid + sold.deposit - GetAuctionCut(sold)
       IN  /\ Acceptable(e, p, handler.price)
           /\ IsBuyout(e, handler.price)
           /\ money' = [money EXCEPT ![p] = @ - charge]
           /\ MailMoney(PayBoth(PayTo(losers, e.bid), PayTo({e.owner}, profit)))
           /\ entries' = [entries EXCEPT ![a] = sold]
           /\ MailItem(e.item, p)
           /\ Schedule("remove", a)
           /\ held' = [held EXCEPT ![a] = @ + charge - Paid(losers, e.bid)
                                            - Paid({e.owner}, profit)]
           /\ sales' = [sales EXCEPT ![a] =
                          Append(@, [buyer |-> p, delivered |-> e.item \in mAitems])]
    /\ UNCHANGED <<AuctionsMap, deleted, bag, exists, stale>>

HandleAuctionRemoveItem ==
    /\ Handling("cancel")
    /\ handler' = Idle
    /\ LET p == handler.player
           a == handler.id
           e == entries[a]
           cut == IF e.bidder = {} THEN 0 ELSE GetAuctionCut(e)
       IN  /\ e.owner = p
           /\ e.item \in mAitems
           /\ money[p] >= cut
           /\ MailMoney(PayTo(e.bidder, e.bid))
           /\ money' = [money EXCEPT ![p] = @ - cut]
           /\ MailItem(e.item, p)
           /\ Schedule("remove", a)
           /\ held' = [held EXCEPT ![a] = @ + cut - Paid(e.bidder, e.bid)]
    /\ UNCHANGED <<entries, AuctionsMap, deleted, bag, exists, sales, stale>>

\* A handler that refuses the request leaves everything as it is.
Refuse ==
    /\ \/ /\ Handling("bid")
          /\ ~Acceptable(entries[handler.id], handler.player, handler.price)
       \/ /\ Handling("cancel")
          /\ LET e == entries[handler.id]
             IN  \/ e.owner # handler.player
                 \/ e.item \notin mAitems
                 \/ e.bidder # {} /\ money[handler.player] < GetAuctionCut(e)
    /\ handler' = Idle
    /\ UNCHANGED <<houseVars, playerVars, held, sales, stale>>

\* AuctionHouseObject::Update for one auction whose time is up.  All under
\* the lock, so the auction leaves the map in the same step.
Update(a) ==
    /\ WorldIdle
    /\ Find(a)
    /\ LET e == entries[a]
           profit == e.bid + e.deposit - GetAuctionCut(e)
       IN  \/ /\ e.bidder = {}
              /\ MailItem(e.item, e.owner)
              /\ UNCHANGED <<mailMoney, held, sales>>
           \/ \E p \in e.bidder :
                 /\ MailMoney(PayTo({e.owner}, profit))
                 /\ held' = [held EXCEPT ![a] = @ - Paid({e.owner}, profit)]
                 /\ MailItem(e.item, p)
                 /\ sales' = [sales EXCEPT ![a] =
                                Append(@, [buyer |-> p, delivered |-> e.item \in mAitems])]
    /\ AuctionsMap' = AuctionsMap \ {a}
    /\ deleted' = deleted \cup {a}
    /\ UNCHANGED <<entries, queue, bag, money, exists, handler>>

\* MailMgr::TakeItem: auction mails have no cash on delivery.
TakeItem(p, i) ==
    /\ WorldIdle
    /\ p \in exists
    /\ i \in mailItems[p]
    /\ bag' = [bag EXCEPT ![p] = @ \cup {i}]
    /\ mailItems' = [mailItems EXCEPT ![p] = @ \ {i}]
    /\ UNCHANGED <<houseVars, money, mailMoney, destroyed, exists, held, sales, handler, stale>>

\* MailMgr::TakeMoney, for all mails of a player.
TakeMoney(p) ==
    /\ WorldIdle
    /\ p \in exists
    /\ mailMoney[p] > 0
    /\ money' = [money EXCEPT ![p] = @ + mailMoney[p]]
    /\ mailMoney' = [mailMoney EXCEPT ![p] = 0]
    /\ UNCHANGED <<houseVars, bag, mailItems, destroyed, exists, held, sales, handler, stale>>

\* A character is deleted with everything it has.
DeleteCharacter(p) ==
    /\ WorldIdle
    /\ p \in exists
    /\ exists' = exists \ {p}
    /\ destroyed' = destroyed \cup bag[p] \cup mailItems[p]
    /\ bag' = [bag EXCEPT ![p] = {}]
    /\ mailItems' = [mailItems EXCEPT ![p] = {}]
    /\ money' = [money EXCEPT ![p] = 0]
    /\ mailMoney' = [mailMoney EXCEPT ![p] = 0]
    /\ UNCHANGED <<houseVars, held, sales, handler, stale>>

Next ==
    \/ AddAuctionEvent
    \/ RemoveAuctionEvent
    \/ \E p \in Players, i \in Items, bid \in Prices, buyout \in Prices \cup {0} :
          HandleAuctionSellItem(p, i, bid, buyout)
    \/ \E p \in Players, a \in Ids :
          \/ \E price \in Prices :
                GetAuction(p, a, [op |-> "bid", player |-> p, id |-> a, price |-> price])
          \/ GetAuction(p, a, [op |-> "cancel", player |-> p, id |-> a])
    \/ HandleAuctionPlaceBid
    \/ Buyout
    \/ HandleAuctionRemoveItem
    \/ Refuse
    \/ \E a \in Ids : Update(a)
    \/ \E p \in Players, i \in Items : TakeItem(p, i)
    \/ \E p \in Players : TakeMoney(p) \/ DeleteCharacter(p)

Spec == Init /\ [][Next]_vars

-----------------------------------------------------------------------------
(* Correctness. *)

\* An item is in exactly one place: carried, in one mailbox, in the custody
\* of the house, or gone with a deleted character.  However late the event
\* thread is, no handler hands an item out twice or loses it, and no variable
\* leaves its type.
ItemsConserved ==
    TypeOK /\ \A i \in Items :
        Cardinality({p \in Players : i \in bag[p]})
          + Cardinality({p \in Players : i \in mailItems[p]})
          + (IF i \in mAitems THEN 1 ELSE 0)
          + (IF i \in destroyed THEN 1 ELSE 0) = 1

Open == {a \in DOMAIN entries : a \notin deleted
                                  /\ ~Contains(queue, [type |-> "remove", id |-> a])}

\* The house never pays out more for an auction than it took in for it, and
\* holds deposit and highest bid of an open one, unless the world thread has
\* acted on an auction that was on its way out.
HouseSolvent ==
    stale \/ /\ \A a \in Ids : held[a] >= 0
             /\ \A a \in Open : held[a] >= entries[a].deposit + entries[a].bid

\* "we send the item to the winner, we send the money to the seller":
\* an auction is sold at most once, and with its item.
SoldOnceWithItem ==
    \A a \in Ids : Len(sales[a]) <= 1 /\ \A k \in DOMAIN sales[a] : sales[a][k].delivered

\* A queue that lags behind is harmless in itself: auctions are sold twice,
\* or without their item, only when a handler or Update has found an auction
\* that was sold or cancelled before and is still in the map.
SoldOnceUnlessStale == stale \/ SoldOnceWithItem

\* "we need to delete the entry, it is not referenced any more": no queued
\* event and no handler still points to a deleted AuctionEntry, and the
\* next event finds its auction: ASSERT(itr != AuctionsMap.end()).
NotReferencedAnyMore ==
    stale \/ /\ \A k \in DOMAIN queue : queue[k].id \notin deleted
             /\ handler.op # "none" => handler.id \notin deleted
             /\ queue # <<>> /\ Head(queue).type = "remove"
                  => Head(queue).id \in AuctionsMap
=============================================================================
