-------------------------- MODULE AuctionHouseProofs --------------------------
(***************************************************************************)
(* The auction house for any number of characters, items, auctions and     *)
(* waiting events, any prices, deposit and cut.                            *)
(*                                                                         *)
(* Items have exactly one place whatever the event thread does.  What is   *)
(* said of money, sales and memory holds until the world thread has found  *)
(* an auction whose RemoveAuctionEvent was still queued, and the invariant *)
(* says why: until then each auction has one line in the house, from the   *)
(* AddAuctionEvent over the map to the RemoveAuctionEvent, and everything  *)
(* the house has of an auction is there as long as it is open.             *)
(***************************************************************************)
EXTENDS AuctionHouse, SequenceTheorems, FiniteSetTheorems, TLAPS

\* The RemoveAuctionEvent of the auction is queued.
Leaving(a) == Contains(queue, [type |-> "remove", id |-> a])

\* The request the world thread works on, if any.
HandlerType ==
    \/ handler = Idle
    \/ handler \in [op : {"bid"}, player : Players, id : Ids, price : Prices]
    \/ handler \in [op : {"cancel"}, player : Players, id : Ids]

\* The types of the auctions, the map, the queue and the handler.
HouseType ==
    /\ entries \in Seq(AuctionEntry) /\ Len(entries) <= MaxAuctions
    /\ \A a \in DOMAIN entries : Cardinality(entries[a].bidder) <= 1
    /\ AuctionsMap \subseteq DOMAIN entries
    /\ deleted \subseteq DOMAIN entries
    /\ queue \in Seq(Events)
    /\ HandlerType

\* Queued events and the handler only name auctions that were created.
Refs ==
    /\ \A k \in DOMAIN queue : queue[k].id \in DOMAIN entries
    /\ handler.op # "none" => handler.id \in DOMAIN entries

\* The types of all places of items.
ItemType ==
    /\ mAitems \subseteq Items
    /\ bag \in [Players -> SUBSET Items]
    /\ mailItems \in [Players -> SUBSET Items]
    /\ destroyed \subseteq Items
    /\ exists \subseteq Players

\* The types of all money.
MoneyType ==
    /\ money \in [Players -> Nat]
    /\ mailMoney \in [Players -> Nat]
    /\ held \in [Ids -> Int]

\* The types of the history of sales.
SalesType ==
    /\ sales \in [Ids -> Seq([buyer : Players, delivered : BOOLEAN])]
    /\ stale \in BOOLEAN

\* Somebody carries the item.
Carried(i) == \E p \in Players : i \in bag[p]
\* The item is in a mailbox.
Mailed(i) == \E p \in Players : i \in mailItems[p]

\* Every item has exactly one place.
Places ==
    \A i \in Items :
        /\ Carried(i) \/ Mailed(i) \/ i \in mAitems \/ i \in destroyed
        /\ ~(Carried(i) /\ Mailed(i))
        /\ i \in mAitems \cup destroyed => ~Carried(i) /\ ~Mailed(i)
        /\ ~(i \in mAitems /\ i \in destroyed)
        /\ \A p, q \in Players : /\ i \in bag[p] /\ i \in bag[q] => p = q
                                 /\ i \in mailItems[p] /\ i \in mailItems[q] => p = q

\* Each auction goes one way: an AddAuctionEvent is queued for an auction that
\* is not in the map, a RemoveAuctionEvent for one that is, none of them twice,
\* and the handler works on one that is in the map and not on its way out.
Lines ==
    /\ \A k \in DOMAIN queue :
          IF queue[k].type = "remove" THEN queue[k].id \in AuctionsMap
                                      ELSE queue[k].id \notin AuctionsMap \cup deleted
    /\ \A j, k \in DOMAIN queue : queue[j] = queue[k] => j = k
    /\ AuctionsMap \cap deleted = {}
    /\ handler.op # "none" => handler.id \in AuctionsMap /\ ~Leaving(handler.id)

\* The house has the item of each open auction, each a different one.
Custody ==
    /\ \A a \in Open : entries[a].item \in mAitems
    /\ \A a, b \in Open : entries[a].item = entries[b].item => a = b

\* The house has the money of each open auction.
Books ==
    /\ \A a \in Ids : held[a] >= 0
    /\ \A a \in Open : held[a] >= entries[a].deposit + entries[a].bid

\* An auction is sold at most once and with its item, and not while it is open.
Sold ==
    \A a \in Ids : /\ Len(sales[a]) <= 1
                   /\ \A k \in DOMAIN sales[a] : sales[a][k].delivered
                   /\ (a \in Open \/ a \notin DOMAIN entries) => sales[a] = <<>>

\* The types, with what the handlers dereference.
TypeInv == HouseType /\ Refs /\ ItemType /\ MoneyType /\ SalesType

\* The inductive invariant.
AuctionInv ==
    /\ TypeInv
    /\ Places
    /\ ~stale => Lines /\ Custody /\ Books /\ Sold

-----------------------------------------------------------------------------
\* What EventQueue::push leaves in the queue; also used of the list of
\* auctions.
LEMMA AppendIs ==
    ASSUME NEW S, NEW q \in Seq(S), NEW e \in S
    PROVE  /\ Append(q, e) \in Seq(S)
           /\ Len(q) \in Nat /\ Len(Append(q, e)) = Len(q) + 1
           /\ DOMAIN q = 1 .. Len(q) /\ DOMAIN Append(q, e) = 1 .. Len(q) + 1
           /\ Append(q, e)[Len(q) + 1] = e
           /\ \A k \in 1 .. Len(q) : Append(q, e)[k] = q[k]
OBVIOUS

\* What the event thread takes from the front of the queue, and what it leaves
\* there.
LEMMA TailIs ==
    ASSUME NEW S, NEW q \in Seq(S), q # <<>>
    PROVE  /\ Head(q) \in S /\ Head(q) = q[1] /\ 1 \in 1 .. Len(q)
           /\ Tail(q) \in Seq(S) /\ Len(q) \in Nat
           /\ DOMAIN q = 1 .. Len(q) /\ DOMAIN Tail(q) = 1 .. Len(q) - 1
           /\ \A i \in DOMAIN Tail(q) : Tail(q)[i] = q[i + 1] /\ i + 1 \in DOMAIN q /\ i + 1 # 1
OBVIOUS

\* An event is queued at some position.
LEMMA ContainsIs ==
    ASSUME NEW S, NEW q \in Seq(S), NEW x
    PROVE  Contains(q, x) <=> \E k \in DOMAIN q : q[k] = x
BY DEF Contains

\* What is queued after a push.
LEMMA ContainsAppend ==
    ASSUME NEW S, NEW q \in Seq(S), NEW e \in S, NEW x
    PROVE  Contains(Append(q, e), x) <=> Contains(q, x) \/ x = e
<1>1. /\ Append(q, e) \in Seq(S) /\ Len(q) \in Nat
      /\ DOMAIN q = 1 .. Len(q) /\ DOMAIN Append(q, e) = 1 .. Len(q) + 1
      /\ Append(q, e)[Len(q) + 1] = e
      /\ \A k \in 1 .. Len(q) : Append(q, e)[k] = q[k]
  BY AppendIs
<1> DEFINE r == Append(q, e)
           n == Len(q)
<1>2. Contains(r, x) <=> \E k \in DOMAIN r : r[k] = x
  BY <1>1, ContainsIs
<1>3. Contains(q, x) <=> \E k \in DOMAIN q : q[k] = x
  BY ContainsIs
<1>4. n \in Nat /\ DOMAIN q = 1 .. n /\ DOMAIN r = 1 .. n + 1 /\ r[n + 1] = e
      /\ \A k \in 1 .. n : r[k] = q[k]
  BY <1>1
<1> HIDE DEF r, n
<1>5. \A k \in 1 .. n + 1 : k = n + 1 \/ k \in 1 .. n
  BY <1>4
<1>6. n + 1 \in 1 .. n + 1 /\ \A k \in 1 .. n : k \in 1 .. n + 1
  BY <1>4
<1>7. ASSUME Contains(r, x) PROVE Contains(q, x) \/ x = e
  BY <1>2, <1>3, <1>4, <1>5, <1>7
<1>8. ASSUME Contains(q, x) \/ x = e PROVE Contains(r, x)
  BY <1>2, <1>3, <1>4, <1>6, <1>8
<1> QED BY <1>7, <1>8 DEF r

\* What is queued after the event thread has taken an event; that event is gone
\* if it was queued once.
LEMMA ContainsTail ==
    ASSUME NEW S, NEW q \in Seq(S), q # <<>>, NEW x
    PROVE  /\ Contains(Tail(q), x) => Contains(q, x)
           /\ (\A j, k \in DOMAIN q : q[j] = q[k] => j = k)
                => (Contains(Tail(q), x) <=> Contains(q, x) /\ x # Head(q))
<1> DEFINE r == Tail(q)
           n == Len(q)
<1>1. /\ Head(q) = q[1] /\ r \in Seq(S) /\ n \in Nat /\ 1 \in 1 .. n
      /\ DOMAIN q = 1 .. n /\ DOMAIN r = 1 .. n - 1
      /\ \A i \in DOMAIN r : r[i] = q[i + 1] /\ i + 1 \in DOMAIN q /\ i + 1 # 1
  BY TailIs
<1>2. Contains(r, x) <=> \E k \in DOMAIN r : r[k] = x
  BY <1>1, ContainsIs
<1>3. Contains(q, x) <=> \E k \in DOMAIN q : q[k] = x
  BY ContainsIs
<1> HIDE DEF r, n
<1>4. ASSUME Contains(r, x) PROVE \E k \in DOMAIN q : k # 1 /\ q[k] = x
  BY <1>1, <1>2, <1>4
<1>5. ASSUME NEW k \in DOMAIN q, q[k] = x, k # 1 PROVE Contains(r, x)
  <2>1. k - 1 \in DOMAIN r /\ (k - 1) + 1 = k
    BY <1>1, <1>5
  <2>2. r[k - 1] = x
    BY <1>1, <1>5, <2>1
  <2> QED BY <1>2, <2>1, <2>2
<1>6. 1 \in DOMAIN q
  BY <1>1
<1> QED BY <1>1, <1>3, <1>4, <1>5, <1>6 DEF r

\* The members of a request.
LEMMA HandlerIs ==
    ASSUME HandlerType
    PROVE  /\ handler = Idle <=> handler.op = "none"
           /\ handler.op = "bid" => /\ handler.player \in Players /\ handler.id \in Ids
                                    /\ handler.price \in Prices
           /\ handler.op = "cancel" => handler.player \in Players /\ handler.id \in Ids
BY DEF HandlerType, Idle

\* The members of an AuctionEntry.
LEMMA EntryIs ==
    ASSUME HouseType, NEW a \in DOMAIN entries
    PROVE  /\ entries[a] \in AuctionEntry /\ a \in Ids
           /\ entries[a].owner \in Players /\ entries[a].item \in Items
           /\ entries[a].bid \in Nat /\ entries[a].deposit \in Nat
           /\ entries[a].bidder \in SUBSET Players /\ entries[a].buyout \in Nat
           /\ entries[a].startbid \in Nat
<1>1. entries[a] \in AuctionEntry /\ a \in 1 .. Len(entries) /\ Len(entries) \in Nat
  BY DEF HouseType
<1>2. a \in Ids
  BY <1>1, AuctionHouseAssumption DEF HouseType, Ids
<1>3. \A x \in Prices \cup {0} : x \in Nat
  BY AuctionHouseAssumption
<1>4. ASSUME NEW e \in AuctionEntry
      PROVE  /\ e.owner \in Players /\ e.item \in Items /\ e.bid \in Nat /\ e.deposit \in Nat
             /\ e.bidder \in SUBSET Players /\ e.buyout \in Prices \cup {0} /\ e.startbid \in Prices
  BY DEF AuctionEntry
<1> QED BY <1>1, <1>2, <1>3, <1>4

\* The AuctionEntry with a new bidder and bid.
WithBid(e, p, n) == [e EXCEPT !.bidder = {p}, !.bid = n]

\* A bid changes bidder and bid, nothing else.
LEMMA WithBidIs ==
    ASSUME NEW e \in AuctionEntry, NEW p \in Players, NEW n \in Nat
    PROVE  /\ WithBid(e, p, n) \in AuctionEntry
           /\ WithBid(e, p, n).bidder = {p} /\ WithBid(e, p, n).bid = n
           /\ WithBid(e, p, n).owner = e.owner /\ WithBid(e, p, n).item = e.item
           /\ WithBid(e, p, n).deposit = e.deposit /\ WithBid(e, p, n).buyout = e.buyout
BY DEF WithBid, AuctionEntry

\* AuctionEntry::GetAuctionCut never takes more than the bid.
LEMMA CutIs ==
    ASSUME NEW e, e.bid \in Nat
    PROVE  GetAuctionCut(e) \in Nat /\ GetAuctionCut(e) <= e.bid
<1> DEFINE n == e.bid
           m == n * CutPercent
<1>1. CutPercent \in 0 .. 100 /\ n \in Nat
  BY AuctionHouseAssumption
<1>2. m \in Nat /\ m <= n * 100
  BY <1>1
<1>3. GetAuctionCut(e) = m \div 100
  BY DEF GetAuctionCut, CalculatePct
<1> HIDE DEF m, n
<1>4. m \div 100 \in Nat /\ m \div 100 <= n
  BY <1>1, <1>2
<1> QED BY <1>3, <1>4 DEF n

\* Money in a mailbox only grows by a mail.
LEMMA MailMoneyIs ==
    ASSUME mailMoney \in [Players -> Nat], NEW pay \in [Players -> Nat], MailMoney(pay)
    PROVE  mailMoney' \in [Players -> Nat]
BY DEF MailMoney

\* What is sent to some players, and what of it is really paid.
LEMMA PayIs ==
    ASSUME NEW to, NEW n \in Nat
    PROVE  /\ PayTo(to, n) \in [Players -> Nat]
           /\ Paid(to, n) \in Nat /\ Paid(to, n) <= n
           /\ to = {} => Paid(to, n) = 0
BY DEF PayTo, Paid

\* Two payments together are a payment.
LEMMA PayBothIs ==
    ASSUME NEW f \in [Players -> Nat], NEW g \in [Players -> Nat]
    PROVE  PayBoth(f, g) \in [Players -> Nat]
BY DEF PayBoth

-----------------------------------------------------------------------------
(* The steps that work on an auction *)

\* What HandleAuctionPlaceBid does to auction e with number a: the house takes
\* at least the difference to the last bid.
Bids(p, a, e, price, charge, paid) ==
    /\ handler.op = "bid" /\ handler.id = a /\ e = entries[a] /\ handler' = Idle
    /\ entries' = [entries EXCEPT ![a] = WithBid(e, p, price)]
    /\ money[p] - charge \in Nat /\ charge - paid >= price - e.bid
    /\ money' = [money EXCEPT ![p] = @ - charge]
    /\ mailMoney' \in [Players -> Nat]
    /\ held' = [held EXCEPT ![a] = @ + charge - paid]
    /\ UNCHANGED <<AuctionsMap, deleted, mAitems, queue, bag, mailItems,
                   destroyed, exists, sales, stale>>

\* What a buyout does: the house pays at most what it has of the auction and
\* takes now.
Buys(p, a, e, charge, paid) ==
    /\ handler.op = "bid" /\ handler.id = a /\ e = entries[a] /\ handler' = Idle
    /\ entries' = [entries EXCEPT ![a] = WithBid(e, p, e.buyout)]
    /\ money[p] - charge \in Nat /\ paid - charge <= e.bid + e.deposit
    /\ money' = [money EXCEPT ![p] = @ - charge]
    /\ mailMoney' \in [Players -> Nat]
    /\ held' = [held EXCEPT ![a] = @ + charge - paid]
    /\ MailItem(e.item, p)
    /\ queue' = Append(queue, [type |-> "remove", id |-> a])
    /\ sales' = [sales EXCEPT ![a] =
                   Append(@, [buyer |-> p, delivered |-> e.item \in mAitems])]
    /\ UNCHANGED <<AuctionsMap, deleted, bag, exists, stale>>

\* What HandleAuctionRemoveItem does: the house gives back at most the bid.
Cancels(p, a, e, charge, paid) ==
    /\ handler.op = "cancel" /\ handler.id = a /\ e = entries[a] /\ handler' = Idle
    /\ money[p] - charge \in Nat /\ paid - charge <= e.bid
    /\ money' = [money EXCEPT ![p] = @ - charge]
    /\ mailMoney' \in [Players -> Nat]
    /\ held' = [held EXCEPT ![a] = @ + charge - paid]
    /\ MailItem(e.item, p)
    /\ queue' = Append(queue, [type |-> "remove", id |-> a])
    /\ UNCHANGED <<entries, AuctionsMap, deleted, bag, exists, sales, stale>>

\* What AuctionHouseObject::Update does with an auction whose time is up.
Expires(a, e, p, paid) ==
    /\ handler = Idle /\ e = entries[a] /\ a \in AuctionsMap
    /\ stale' = (stale \/ Leaving(a))
    /\ mailMoney' \in [Players -> Nat] /\ paid <= e.bid + e.deposit
    /\ held' = [held EXCEPT ![a] = @ - paid]
    /\ MailItem(e.item, p)
    /\ \/ UNCHANGED sales
       \/ sales' = [sales EXCEPT ![a] =
                      Append(@, [buyer |-> p, delivered |-> e.item \in mAitems])]
    /\ AuctionsMap' = AuctionsMap \ {a}
    /\ deleted' = deleted \cup {a}
    /\ UNCHANGED <<entries, queue, bag, money, exists, handler>>

\* HandleAuctionPlaceBid is such a step: a bidder who raises his own bid pays
\* the difference, who outbids another one pays all of it.
LEMMA BidIs ==
    ASSUME TypeInv, HandleAuctionPlaceBid
    PROVE  \E p \in Players, a \in DOMAIN entries, e \in AuctionEntry, price \in Prices,
              charge \in Int, paid \in Nat : Bids(p, a, e, price, charge, paid)
<1> DEFINE p == handler.player
           a == handler.id
           e == entries[a]
           price == handler.price
           charge == IF e.bidder = {p} THEN price - e.bid ELSE price
           losers == e.bidder \ {p}
           paid == Paid(losers, e.bid)
<1>0. HouseType /\ Refs /\ HandlerType /\ MoneyType
  BY DEF TypeInv, HouseType
<1>1. handler.op = "bid"
  BY DEF HandleAuctionPlaceBid, Handling
<1>2. p \in Players /\ price \in Prices /\ a \in DOMAIN entries
  BY <1>0, <1>1, HandlerIs DEF Refs
<1>3. e \in AuctionEntry /\ e.bid \in Nat /\ price \in Nat /\ money[p] \in Nat /\ a \in Ids
  BY <1>0, <1>2, EntryIs, AuctionHouseAssumption DEF MoneyType
<1>4. /\ price > e.bid /\ money[p] >= price
      /\ handler' = Idle
      /\ money' = [money EXCEPT ![p] = @ - charge]
      /\ MailMoney(PayTo(losers, e.bid))
      /\ entries' = [entries EXCEPT ![a].bidder = {p}, ![a].bid = price]
      /\ held' = [held EXCEPT ![a] = @ + charge - paid]
      /\ UNCHANGED <<AuctionsMap, deleted, mAitems, queue, bag, mailItems,
                   destroyed, exists, sales, stale>>
  BY DEF HandleAuctionPlaceBid, Acceptable
<1>5. paid \in Nat /\ paid <= e.bid /\ (losers = {} => paid = 0)
      /\ PayTo(losers, e.bid) \in [Players -> Nat]
  BY <1>3, PayIs
<1>6. mailMoney' \in [Players -> Nat]
  BY <1>0, <1>4, <1>5, MailMoneyIs DEF MoneyType
<1>7. entries' = [entries EXCEPT ![a] = WithBid(e, p, price)]
  <2> HIDE DEF p, price, a
  <2>1. entries \in Seq(AuctionEntry)
    BY <1>0 DEF HouseType
  <2>2. [entries EXCEPT ![a].bidder = {p}, ![a].bid = price]
          = [entries EXCEPT ![a] = WithBid(entries[a], p, price)]
    BY <1>2, <2>1 DEF WithBid
  <2> QED BY <1>4, <2>2
<1>8. charge \in Int /\ money[p] - charge \in Nat /\ charge - paid >= price - e.bid
  <2>1. CASE e.bidder = {p}
    <3>1. losers = {} /\ charge = price - e.bid
      BY <2>1
    <3> HIDE DEF p, a, price, charge, losers, paid, e
    <3> QED BY <1>3, <1>4, <1>5, <3>1
  <2>2. CASE e.bidder # {p}
    <3>1. charge = price
      BY <2>2
    <3> HIDE DEF p, a, price, charge, losers, paid, e
    <3> QED BY <1>3, <1>4, <1>5, <3>1
  <2> QED BY <2>1, <2>2
<1>9. Bids(p, a, e, price, charge, paid)
  <2> HIDE DEF p, price, charge, losers, paid, e
  <2> QED BY <1>1, <1>4, <1>6, <1>7, <1>8 DEF Bids, e
<1> HIDE DEF p, a, e, price, charge, losers, paid
<1> QED BY <1>2, <1>3, <1>5, <1>8, <1>9

\* A buyout is such a step: the profit is the price without the cut and with
\* the deposit.
LEMMA BuyoutIs ==
    ASSUME TypeInv, Buyout
    PROVE  \E p \in Players, a \in DOMAIN entries, e \in AuctionEntry,
              charge \in Int, paid \in Nat : Buys(p, a, e, charge, paid)
<1> DEFINE p == handler.player
           a == handler.id
           e == entries[a]
           price == handler.price
           charge == IF e.bidder = {p} THEN e.buyout - e.bid ELSE e.buyout
           losers == e.bidder \ {p}
           sold == WithBid(e, p, e.buyout)
           profit == sold.bid + sold.deposit - GetAuctionCut(sold)
           paid == Paid(losers, e.bid) + Paid({e.owner}, profit)
<1>0. HouseType /\ Refs /\ HandlerType /\ MoneyType
  BY DEF TypeInv, HouseType
<1>1. handler.op = "bid"
  BY DEF Buyout, Handling
<1>2. p \in Players /\ price \in Prices /\ a \in DOMAIN entries
  BY <1>0, <1>1, HandlerIs DEF Refs
<1>3. e \in AuctionEntry /\ e.bid \in Nat /\ e.buyout \in Nat /\ e.deposit \in Nat
      /\ price \in Nat /\ money[p] \in Nat /\ a \in Ids /\ held[a] \in Int
  BY <1>0, <1>2, EntryIs, AuctionHouseAssumption DEF MoneyType
<1>4. /\ money[p] >= price /\ price >= e.buyout
      /\ handler' = Idle
      /\ money' = [money EXCEPT ![p] = @ - charge]
      /\ MailMoney(PayBoth(PayTo(losers, e.bid), PayTo({e.owner}, profit)))
      /\ entries' = [entries EXCEPT ![a] = sold]
      /\ MailItem(e.item, p)
      /\ queue' = Append(queue, [type |-> "remove", id |-> a])
      /\ held' = [held EXCEPT ![a] = @ + charge - Paid(losers, e.bid)
                                            - Paid({e.owner}, profit)]
      /\ sales' = [sales EXCEPT ![a] =
                   Append(@, [buyer |-> p, delivered |-> e.item \in mAitems])]
      /\ UNCHANGED <<AuctionsMap, deleted, bag, exists, stale>>
  BY DEF Buyout, Acceptable, IsBuyout, Schedule, WithBid
<1>5. sold.bid = e.buyout /\ sold.deposit = e.deposit
  BY <1>2, <1>3, WithBidIs
<1>6. GetAuctionCut(sold) \in Nat /\ GetAuctionCut(sold) <= e.buyout
  <2> HIDE DEF sold
  <2> QED BY <1>3, <1>5, CutIs
<1>7. profit \in Nat /\ profit <= e.buyout + e.deposit
  <2> HIDE DEF sold, e
  <2> QED BY <1>3, <1>5, <1>6
<1> HIDE DEF profit, sold
<1>8. /\ Paid(losers, e.bid) \in Nat /\ Paid(losers, e.bid) <= e.bid
      /\ losers = {} => Paid(losers, e.bid) = 0
      /\ PayTo(losers, e.bid) \in [Players -> Nat]
  BY <1>3, PayIs
<1>9. /\ Paid({e.owner}, profit) \in Nat /\ Paid({e.owner}, profit) <= profit
      /\ PayTo({e.owner}, profit) \in [Players -> Nat]
  BY <1>7, PayIs
<1>10. mailMoney' \in [Players -> Nat]
  <2>1. PayBoth(PayTo(losers, e.bid), PayTo({e.owner}, profit)) \in [Players -> Nat]
    BY <1>8, <1>9, PayBothIs
  <2> QED BY <1>0, <1>4, <2>1, MailMoneyIs DEF MoneyType
<1>11. charge \in Int /\ money[p] - charge \in Nat /\ paid - charge <= e.bid + e.deposit
       /\ paid \in Nat
  <2>0. money[p] >= price /\ price >= e.buyout
    BY <1>4
  <2>1. CASE e.bidder = {p}
    <3>1. losers = {} /\ charge = e.buyout - e.bid
      BY <2>1
    <3> HIDE DEF p, a, price, charge, losers, e
    <3> QED BY <1>3, <1>7, <1>8, <1>9, <2>0, <3>1
  <2>2. CASE e.bidder # {p}
    <3>1. charge = e.buyout
      BY <2>2
    <3> HIDE DEF p, a, price, charge, losers, e
    <3> QED BY <1>3, <1>7, <1>8, <1>9, <2>0, <3>1
  <2> QED BY <2>1, <2>2
<1>12. held' = [held EXCEPT ![a] = @ + charge - paid]
  <2>1. held[a] + charge - Paid(losers, e.bid) - Paid({e.owner}, profit)
          = held[a] + charge - paid
    <3> HIDE DEF p, a, price, charge, losers, e
    <3> QED BY <1>3, <1>8, <1>9, <1>11
  <2> HIDE DEF p, a, price, charge, losers, e, paid
  <2> QED BY <1>4, <2>1
<1>13. Buys(p, a, e, charge, paid)
  <2> HIDE DEF p, price, charge, losers, paid, e
  <2> QED BY <1>1, <1>4, <1>10, <1>11, <1>12 DEF Buys, e, sold
<1> HIDE DEF p, a, e, price, charge, losers, paid
<1> QED BY <1>2, <1>3, <1>11, <1>13

\* HandleAuctionRemoveItem is such a step.
LEMMA CancelIs ==
    ASSUME TypeInv, HandleAuctionRemoveItem
    PROVE  \E p \in Players, a \in DOMAIN entries, e \in AuctionEntry,
              charge \in Int, paid \in Nat : Cancels(p, a, e, charge, paid)
<1> DEFINE p == handler.player
           a == handler.id
           e == entries[a]
           cut == IF e.bidder = {} THEN 0 ELSE GetAuctionCut(e)
           paid == Paid(e.bidder, e.bid)
<1>0. HouseType /\ Refs /\ HandlerType /\ MoneyType
  BY DEF TypeInv, HouseType
<1>1. handler.op = "cancel"
  BY DEF HandleAuctionRemoveItem, Handling
<1>2. p \in Players /\ a \in DOMAIN entries
  BY <1>0, <1>1, HandlerIs DEF Refs
<1>3. e \in AuctionEntry /\ e.bid \in Nat /\ money[p] \in Nat
  BY <1>0, <1>2, EntryIs DEF MoneyType
<1>4. /\ money[p] >= cut
      /\ handler' = Idle
      /\ MailMoney(PayTo(e.bidder, e.bid))
      /\ money' = [money EXCEPT ![p] = @ - cut]
      /\ MailItem(e.item, p)
      /\ queue' = Append(queue, [type |-> "remove", id |-> a])
      /\ held' = [held EXCEPT ![a] = @ + cut - paid]
      /\ UNCHANGED <<entries, AuctionsMap, deleted, bag, exists, sales, stale>>
  BY DEF HandleAuctionRemoveItem, Schedule
<1>5. cut \in Nat
  BY <1>3, CutIs
<1>6. paid \in Nat /\ paid <= e.bid /\ PayTo(e.bidder, e.bid) \in [Players -> Nat]
  BY <1>3, PayIs
<1>7. mailMoney' \in [Players -> Nat]
  BY <1>0, <1>4, <1>6, MailMoneyIs DEF MoneyType
<1>8. money[p] - cut \in Nat /\ paid - cut <= e.bid /\ cut \in Int
  <2> HIDE DEF p, a, e, cut, paid
  <2> QED BY <1>3, <1>4, <1>5, <1>6
<1>9. Cancels(p, a, e, cut, paid)
  <2> HIDE DEF p, cut, paid, e
  <2> QED BY <1>1, <1>4, <1>7, <1>8 DEF Cancels, e
<1> HIDE DEF p, a, e, cut, paid
<1> QED BY <1>2, <1>3, <1>6, <1>8, <1>9

\* Update is such a step, with or without a bidder.
LEMMA UpdateIs ==
    ASSUME TypeInv, NEW a \in Ids, Update(a)
    PROVE  /\ a \in DOMAIN entries
           /\ \E p \in Players, e \in AuctionEntry, paid \in Nat : Expires(a, e, p, paid)
<1> DEFINE e == entries[a]
           profit == e.bid + e.deposit - GetAuctionCut(e)
<1>0. HouseType /\ MoneyType
  BY DEF TypeInv
<1>1. /\ handler = Idle /\ a \in AuctionsMap /\ stale' = (stale \/ Leaving(a))
      /\ AuctionsMap' = AuctionsMap \ {a}
      /\ deleted' = deleted \cup {a}
      /\ UNCHANGED <<entries, queue, bag, money, exists, handler>>
  BY DEF Update, Find, WorldIdle, Leaving
<1>2. a \in DOMAIN entries
  BY <1>0, <1>1 DEF HouseType
<1>3. e \in AuctionEntry /\ e.bid \in Nat /\ e.deposit \in Nat /\ e.owner \in Players
      /\ e.bidder \in SUBSET Players /\ held \in [Ids -> Int] /\ mailMoney \in [Players -> Nat]
  BY <1>0, <1>2, EntryIs DEF MoneyType
<1>4. GetAuctionCut(e) \in Nat /\ GetAuctionCut(e) <= e.bid
  BY <1>3, CutIs
<1>5. profit \in Nat /\ profit <= e.bid + e.deposit
  <2> HIDE DEF e
  <2> QED BY <1>3, <1>4
<1>6. CASE /\ MailItem(e.item, e.owner)
           /\ UNCHANGED <<mailMoney, held, sales>>
  <2>1. held' = [held EXCEPT ![a] = @ - 0]
    BY <1>3, <1>6
  <2>2. 0 <= e.bid + e.deposit
    BY <1>3
  <2>3. Expires(a, e, e.owner, 0)
    BY <1>1, <1>3, <1>6, <2>1, <2>2 DEF Expires
  <2> HIDE DEF e
  <2> QED BY <1>2, <1>3, <2>3
<1>7. ASSUME NEW p \in e.bidder,
             MailMoney(PayTo({e.owner}, profit)),
             held' = [held EXCEPT ![a] = @ - Paid({e.owner}, profit)],
             MailItem(e.item, p),
             sales' = [sales EXCEPT ![a] =
                         Append(@, [buyer |-> p, delivered |-> e.item \in mAitems])]
      PROVE  \E q \in Players, f \in AuctionEntry, paid \in Nat : Expires(a, f, q, paid)
  <2> HIDE DEF profit
  <2>1. Paid({e.owner}, profit) \in Nat /\ Paid({e.owner}, profit) <= profit
        /\ PayTo({e.owner}, profit) \in [Players -> Nat]
    BY <1>5, PayIs
  <2>2. mailMoney' \in [Players -> Nat]
    BY <1>3, <1>7, <2>1, MailMoneyIs
  <2>3. Paid({e.owner}, profit) <= e.bid + e.deposit
    <3> HIDE DEF e
    <3> QED BY <1>3, <1>5, <2>1
  <2>4. Expires(a, e, p, Paid({e.owner}, profit))
    BY <1>1, <1>7, <2>2, <2>3 DEF Expires
  <2>5. p \in Players
    BY <1>3
  <2> HIDE DEF e
  <2> QED BY <1>3, <2>1, <2>4, <2>5
<1>8. \/ MailItem(e.item, e.owner) /\ UNCHANGED <<mailMoney, held, sales>>
      \/ \E p \in e.bidder :
            /\ MailMoney(PayTo({e.owner}, profit))
            /\ held' = [held EXCEPT ![a] = @ - Paid({e.owner}, profit)]
            /\ MailItem(e.item, p)
            /\ sales' = [sales EXCEPT ![a] =
                           Append(@, [buyer |-> p, delivered |-> e.item \in mAitems])]
  BY DEF Update
<1> HIDE DEF e, profit
<1> QED BY <1>2, <1>6, <1>7, <1>8

-----------------------------------------------------------------------------
(* What a step does to the parts of the invariant *)

\* The open auctions, one by one.
LEMMA OpenIs ==
    ASSUME NEW a
    PROVE  a \in Open <=> a \in DOMAIN entries /\ a \notin deleted /\ ~Leaving(a)
BY DEF Open, Leaving

\* Sending an item that is in custody, with RemoveAItem, gives it one new
\* place; sending one that is not in custody moves nothing.
LEMMA MailItemKeeps ==
    ASSUME ItemType, Places, NEW item \in Items, NEW to \in Players,
           MailItem(item, to), UNCHANGED <<bag, exists>>
    PROVE  ItemType' /\ Places'
<1>1. ItemType'
  BY DEF ItemType, MailItem
<1>2. ASSUME NEW i \in Items
      PROVE  /\ (Carried(i) <=> Carried(i)')
             /\ i # item => /\ i \in mAitems' <=> i \in mAitems
                            /\ i \in destroyed' <=> i \in destroyed
                            /\ \A p \in Players : i \in mailItems'[p] <=> i \in mailItems[p]
  BY DEF ItemType, MailItem, Carried
<1>3. CASE item \in mAitems /\ to \in exists
  <2>1. /\ mAitems' = mAitems \ {item} /\ destroyed' = destroyed
        /\ mailItems' = [mailItems EXCEPT ![to] = @ \cup {item}]
    BY <1>3 DEF MailItem
  <2>2. \A p \in Players : item \in mailItems'[p] <=> p = to
    BY <1>3, <2>1 DEF ItemType, Places, Mailed
  <2> SUFFICES ASSUME NEW i \in Items
               PROVE  /\ Carried(i)' \/ Mailed(i)' \/ i \in mAitems' \/ i \in destroyed'
                      /\ ~(Carried(i)' /\ Mailed(i)')
                      /\ i \in mAitems' \cup destroyed' => ~Carried(i)' /\ ~Mailed(i)'
                      /\ ~(i \in mAitems' /\ i \in destroyed')
                      /\ \A p, q \in Players : /\ i \in bag'[p] /\ i \in bag'[q] => p = q
                                               /\ i \in mailItems'[p] /\ i \in mailItems'[q] => p = q
    BY <1>1 DEF Places
  <2>3. CASE i = item
    BY <1>2, <1>3, <2>1, <2>2, <2>3 DEF Places, Mailed
  <2>4. CASE i # item
    BY <1>2, <2>4 DEF Places, Mailed
  <2> QED BY <2>3, <2>4
<1>4. CASE item \in mAitems /\ to \notin exists
  <2>1. /\ mAitems' = mAitems \ {item} /\ destroyed' = destroyed \cup {item}
        /\ mailItems' = mailItems
    BY <1>4 DEF MailItem
  <2> QED BY <1>1, <1>2, <1>4, <2>1 DEF Places, Mailed, Carried
<1>5. CASE item \notin mAitems
  <2>1. mAitems' = mAitems /\ destroyed' = destroyed /\ mailItems' = mailItems
    BY <1>5 DEF MailItem
  <2> QED BY <1>1, <2>1 DEF Places, Mailed, Carried
<1> QED BY <1>1, <1>3, <1>4, <1>5

\* A step that moves no item leaves each in its place.
LEMMA ItemsKept ==
    ASSUME ItemType, Places, UNCHANGED <<mAitems, bag, mailItems, destroyed, exists>>
    PROVE  ItemType' /\ Places'
BY DEF ItemType, Places, Carried, Mailed

\* Changing one AuctionEntry leaves the others alone.
LEMMA EntryChange ==
    ASSUME HouseType, NEW a \in DOMAIN entries, NEW f \in AuctionEntry,
           Cardinality(f.bidder) <= 1, entries' = [entries EXCEPT ![a] = f]
    PROVE  /\ entries' \in Seq(AuctionEntry) /\ Len(entries') = Len(entries)
           /\ DOMAIN entries' = DOMAIN entries
           /\ \A b \in DOMAIN entries : entries'[b] = IF b = a THEN f ELSE entries[b]
           /\ \A b \in DOMAIN entries' : Cardinality(entries'[b].bidder) <= 1
<1>1. entries \in Seq(AuctionEntry)
  BY DEF HouseType
<1>2. /\ entries' \in Seq(AuctionEntry) /\ Len(entries') = Len(entries)
      /\ DOMAIN entries' = DOMAIN entries
      /\ \A b \in DOMAIN entries : entries'[b] = IF b = a THEN f ELSE entries[b]
  BY <1>1, ExceptSeq
<1>3. ASSUME NEW b \in DOMAIN entries PROVE Cardinality(entries'[b].bidder) <= 1
  BY <1>2 DEF HouseType
<1> QED BY <1>2, <1>3

\* A handler that queues a RemoveAuctionEvent closes an auction that was open.
LEMMA RemoveQueued ==
    ASSUME HouseType, Refs, Lines, NEW a \in DOMAIN entries, handler.op # "none", handler.id = a,
           queue' = Append(queue, [type |-> "remove", id |-> a]), handler' = Idle,
           DOMAIN entries' = DOMAIN entries, UNCHANGED <<AuctionsMap, deleted>>
    PROVE  /\ a \in Open /\ Open' = Open \ {a}
           /\ Lines'
<1> DEFINE ev == [type |-> "remove", id |-> a]
           n == Len(queue)
<1>1. queue \in Seq(Events) /\ ev \in Events
  BY EntryIs DEF HouseType, Events
<1>2. a \in AuctionsMap /\ ~Leaving(a) /\ a \notin deleted
  BY DEF Lines
<1>3. \A b : Leaving(b)' <=> Leaving(b) \/ b = a
  <2> SUFFICES ASSUME NEW b PROVE Leaving(b)' <=> Leaving(b) \/ b = a
    OBVIOUS
  <2>1. Contains(Append(queue, ev), [type |-> "remove", id |-> b])
          <=> Contains(queue, [type |-> "remove", id |-> b]) \/ [type |-> "remove", id |-> b] = ev
    BY <1>1, ContainsAppend
  <2>2. [type |-> "remove", id |-> b] = ev <=> a = b
    OBVIOUS
  <2> QED BY <2>1, <2>2 DEF Leaving
<1>4. a \in Open
  BY <1>2, OpenIs
<1>5. Open' = Open \ {a}
  <2>1. \A b : b \in Open' <=> b \in DOMAIN entries' /\ b \notin deleted' /\ ~Leaving(b)'
    BY DEF Open, Leaving
  <2> QED BY <1>3, <2>1, OpenIs
<1>6. /\ n \in Nat /\ DOMAIN queue = 1 .. n /\ DOMAIN queue' = 1 .. n + 1
      /\ queue'[n + 1] = ev
      /\ \A k \in 1 .. n : queue'[k] = queue[k]
  BY <1>1, AppendIs
<1>7. \A k \in 1 .. n : queue[k] # ev
  BY <1>1, <1>2, <1>6, ContainsIs DEF Leaving
<1> HIDE DEF n
<1>8. \A k \in 1 .. n + 1 : k = n + 1 \/ k \in 1 .. n
  BY <1>6
<1>9. \A k \in DOMAIN queue' :
          IF queue'[k].type = "remove" THEN queue'[k].id \in AuctionsMap'
                                       ELSE queue'[k].id \notin AuctionsMap' \cup deleted'
  <2> SUFFICES ASSUME NEW k \in DOMAIN queue'
               PROVE  IF queue'[k].type = "remove" THEN queue'[k].id \in AuctionsMap'
                                       ELSE queue'[k].id \notin AuctionsMap' \cup deleted'
    OBVIOUS
  <2>1. CASE k = n + 1
    <3>1. queue'[k].type = "remove" /\ queue'[k].id = a
      BY <1>6, <2>1
    <3> QED BY <1>2, <3>1
  <2>2. CASE k \in 1 .. n
    BY <1>6, <2>2 DEF Lines
  <2> QED BY <1>6, <1>8, <2>1, <2>2
<1>10. \A j, k \in DOMAIN queue' : queue'[j] = queue'[k] => j = k
  <2> SUFFICES ASSUME NEW j \in DOMAIN queue', NEW k \in DOMAIN queue', queue'[j] = queue'[k]
               PROVE  j = k
    OBVIOUS
  <2>1. CASE j \in 1 .. n /\ k \in 1 .. n
    BY <1>6, <2>1 DEF Lines
  <2>2. CASE j = n + 1 \/ k = n + 1
    <3> HIDE DEF ev
    <3> QED BY <1>6, <1>7, <1>8, <2>2
  <2> QED BY <1>6, <1>8, <2>1, <2>2
<1>11. handler'.op = "none"
  BY DEF Idle
<1>12. Lines'
  <2>1. AuctionsMap' \cap deleted' = {}
    BY DEF Lines
  <2> QED BY <1>9, <1>10, <1>11, <2>1 DEF Lines
<1> QED BY <1>4, <1>5, <1>12

\* Update closes an auction that was open, unless it was on its way out.
LEMMA Expired ==
    ASSUME HouseType, Lines, handler = Idle, NEW a \in AuctionsMap, ~Leaving(a),
           AuctionsMap' = AuctionsMap \ {a}, deleted' = deleted \cup {a},
           UNCHANGED <<entries, queue, handler>>
    PROVE  /\ a \in Open /\ Open' = Open \ {a}
           /\ Lines'
<1>1. a \in DOMAIN entries /\ a \notin deleted
  BY DEF HouseType, Lines
<1>2. a \in Open
  BY <1>1, OpenIs
<1>3. Open' = Open \ {a}
  BY DEF Open
<1>4. \A k \in DOMAIN queue : queue[k].type = "remove" => queue[k].id # a
  <2> SUFFICES ASSUME NEW k \in DOMAIN queue, queue[k].type = "remove", queue[k].id = a
               PROVE  FALSE
    OBVIOUS
  <2>1. queue \in Seq(Events) /\ queue[k] \in Events
    BY DEF HouseType
  <2>2. queue[k] = [type |-> "remove", id |-> a]
    BY <2>1 DEF Events
  <2> QED BY <2>1, <2>2, ContainsIs DEF Leaving
<1>5. \A k \in DOMAIN queue : queue[k].type # "remove" => queue[k].id # a
  BY DEF Lines
<1>6. handler'.op = "none"
  BY DEF Idle
<1>7. Lines'
  BY <1>4, <1>5, <1>6 DEF Lines
<1> QED BY <1>2, <1>3, <1>7

\* Closing an auction takes its item out of custody, and no item of another
\* open auction.
LEMMA CustodyClosed ==
    ASSUME HouseType, Custody, NEW a \in Open, Open' = Open \ {a},
           NEW p, MailItem(entries[a].item, p),
           \A b \in Open \ {a} : entries'[b] = entries[b]
    PROVE  Custody'
<1>1. mAitems' = mAitems \ {entries[a].item}
  BY DEF MailItem
<1>2. \A b \in Open \ {a} : entries[b].item # entries[a].item
  BY DEF Custody
<1> QED BY <1>1, <1>2 DEF Custody

\* Closing an auction pays out at most what the house has of it.
LEMMA BooksClosed ==
    ASSUME HouseType, Books, NEW a \in Open, Open' = Open \ {a}, NEW x \in Int,
           MoneyType, x >= -(entries[a].deposit + entries[a].bid),
           held' = [held EXCEPT ![a] = @ + x],
           \A b \in Open \ {a} : entries'[b] = entries[b]
    PROVE  Books'
<1>1. a \in DOMAIN entries
  BY OpenIs
<1>2. entries[a].deposit \in Nat /\ entries[a].bid \in Nat /\ a \in Ids
  BY <1>1, EntryIs
<1>3. held[a] \in Int /\ held'[a] = held[a] + x /\ \A b \in Ids \ {a} : held'[b] = held[b]
  BY <1>2 DEF MoneyType
<1>4. held'[a] >= 0
  BY <1>2, <1>3 DEF Books
<1>5. \A b \in Open : b \in Ids
  BY OpenIs, EntryIs
<1> QED BY <1>3, <1>4, <1>5 DEF Books

\* Closing an auction sells it at most once, and with its item.
LEMMA SoldClosed ==
    ASSUME HouseType, SalesType, Custody, Sold, NEW a \in Open, Open' = Open \ {a},
           NEW p \in Players, DOMAIN entries' = DOMAIN entries,
           \/ UNCHANGED sales
           \/ sales' = [sales EXCEPT ![a] =
                          Append(@, [buyer |-> p, delivered |-> entries[a].item \in mAitems])]
    PROVE  Sold'
<1>1. a \in Ids /\ a \in DOMAIN entries
  BY OpenIs, EntryIs
<1>2. CASE UNCHANGED sales
  BY <1>2 DEF Sold
<1>3. CASE sales' = [sales EXCEPT ![a] =
                       Append(@, [buyer |-> p, delivered |-> entries[a].item \in mAitems])]
  <2> DEFINE s == [buyer |-> p, delivered |-> entries[a].item \in mAitems]
  <2>1. s.delivered
    BY DEF Custody
  <2>2. sales[a] = <<>>
    BY <1>1 DEF Sold
  <2> HIDE DEF s
  <2>3. sales'[a] = Append(<<>>, s) /\ \A b \in Ids \ {a} : sales'[b] = sales[b]
    BY <1>1, <1>3, <2>2 DEF SalesType, s
  <2>4. Len(sales'[a]) <= 1 /\ \A k \in DOMAIN sales'[a] : sales'[a][k] = s
    BY <2>3
  <2>5. a \notin Open' /\ a \in DOMAIN entries'
    BY <1>1
  <2> SUFFICES ASSUME NEW b \in Ids
               PROVE  /\ Len(sales'[b]) <= 1
                      /\ \A k \in DOMAIN sales'[b] : sales'[b][k].delivered
                      /\ (b \in Open' \/ b \notin DOMAIN entries') => sales'[b] = <<>>
    BY DEF Sold
  <2>6. CASE b = a
    <3>1. Len(sales'[b]) <= 1
      BY <2>4, <2>6
    <3>2. \A k \in DOMAIN sales'[b] : sales'[b][k].delivered
      BY <2>1, <2>4, <2>6
    <3> QED BY <2>5, <2>6, <3>1, <3>2
  <2>7. CASE b # a
    BY <2>3, <2>7 DEF Sold
  <2> QED BY <2>6, <2>7
<1> QED BY <1>2, <1>3

-----------------------------------------------------------------------------
\* What holds while the world thread has not met an auction on its way out.
Fair == Lines /\ Custody /\ Books /\ Sold

\* The invariant in three parts.
LEMMA InvIs == AuctionInv <=> TypeInv /\ Places /\ (~stale => Fair)
BY DEF AuctionInv, Fair

\* The type invariant in four parts.
LEMMA TypeIs == TypeOK <=> HouseType /\ ItemType /\ MoneyType /\ SalesType
BY DEF TypeOK, HouseType, ItemType, MoneyType, SalesType, HandlerType

\* After a handler the world thread is idle.
LEMMA IdleIs ==
    ASSUME handler' = Idle
    PROVE  HandlerType' /\ handler'.op = "none"
BY DEF HandlerType, Idle

\* A RemoveAuctionEvent names an auction that was created.
LEMMA RemoveRefs ==
    ASSUME HouseType, Refs, NEW a \in DOMAIN entries,
           queue' = Append(queue, [type |-> "remove", id |-> a]), handler' = Idle,
           DOMAIN entries' = DOMAIN entries
    PROVE  queue' \in Seq(Events) /\ Refs'
<1> DEFINE ev == [type |-> "remove", id |-> a]
           n == Len(queue)
<1>1. queue \in Seq(Events) /\ ev \in Events
  BY EntryIs DEF HouseType, Events
<1>2. /\ n \in Nat /\ DOMAIN queue = 1 .. n /\ DOMAIN queue' = 1 .. n + 1
      /\ queue'[n + 1] = ev /\ queue' \in Seq(Events)
      /\ \A k \in 1 .. n : queue'[k] = queue[k]
  BY <1>1, AppendIs
<1> HIDE DEF n
<1>3. \A k \in 1 .. n + 1 : k = n + 1 \/ k \in 1 .. n
  BY <1>2
<1>4. ev.id = a
  OBVIOUS
<1> HIDE DEF ev
<1>5. \A k \in DOMAIN queue' : queue'[k].id \in DOMAIN entries'
  BY <1>2, <1>3, <1>4 DEF Refs
<1> QED BY <1>2, <1>5, IdleIs DEF Refs

\* A step that charges one player what he has, fills mailboxes and books it
\* keeps the types of money.
LEMMA MoneyMoves ==
    ASSUME MoneyType, NEW p \in Players, NEW charge \in Int, NEW a \in Ids, NEW x \in Int,
           money[p] - charge \in Nat, money' = [money EXCEPT ![p] = @ - charge],
           mailMoney' \in [Players -> Nat], held' = [held EXCEPT ![a] = @ + x]
    PROVE  MoneyType'
<1>1. money' \in [Players -> Nat]
  BY DEF MoneyType
<1>2. held' \in [Ids -> Int]
  BY DEF MoneyType
<1> QED BY <1>1, <1>2 DEF MoneyType

\* One more sale keeps the types of the history.
LEMMA SalesGrow ==
    ASSUME SalesType, NEW a \in Ids, NEW p \in Players, NEW d \in BOOLEAN,
           sales' = [sales EXCEPT ![a] = Append(@, [buyer |-> p, delivered |-> d])],
           stale' \in BOOLEAN
    PROVE  SalesType'
<1> DEFINE T == [buyer : Players, delivered : BOOLEAN]
           x == [buyer |-> p, delivered |-> d]
<1>1. x \in T /\ sales \in [Ids -> Seq(T)]
  BY DEF SalesType
<1> HIDE DEF T, x
<1>2. Append(sales[a], x) \in Seq(T)
  BY <1>1, AppendProperties
<1>3. sales' \in [Ids -> Seq(T)]
  BY <1>1, <1>2 DEF x
<1> QED BY <1>3 DEF SalesType, T

\* A bid keeps the invariant.
LEMMA BidsKeep ==
    ASSUME AuctionInv, NEW p \in Players, NEW a \in DOMAIN entries, NEW e \in AuctionEntry,
           NEW price \in Prices, NEW charge \in Int, NEW paid \in Nat,
           Bids(p, a, e, price, charge, paid)
    PROVE  AuctionInv'
<1>0. HouseType /\ Refs /\ ItemType /\ MoneyType /\ SalesType /\ Places /\ (~stale => Fair)
  BY InvIs DEF TypeInv
<1> DEFINE f == WithBid(e, p, price)
<1>1. price \in Nat /\ e.bid \in Nat /\ e.deposit \in Nat /\ a \in Ids
  BY <1>0, EntryIs, AuctionHouseAssumption DEF Bids
<1>2. f \in AuctionEntry /\ f.bidder = {p} /\ f.bid = price /\ f.item = e.item
      /\ f.deposit = e.deposit
  BY <1>1, WithBidIs
<1>3. Cardinality(f.bidder) <= 1
  <2>1. Cardinality({p}) = 1
    BY FS_Singleton
  <2> QED BY <1>2, <2>1
<1>4. /\ handler.op = "bid" /\ handler.id = a /\ e = entries[a] /\ handler' = Idle
      /\ entries' = [entries EXCEPT ![a] = f]
      /\ money[p] - charge \in Nat /\ charge - paid >= price - e.bid
      /\ money' = [money EXCEPT ![p] = @ - charge]
      /\ mailMoney' \in [Players -> Nat]
      /\ held' = [held EXCEPT ![a] = @ + charge - paid]
      /\ UNCHANGED <<AuctionsMap, deleted, mAitems, queue, bag, mailItems,
                   destroyed, exists, sales, stale>>
  BY DEF Bids
<1> HIDE DEF f
<1>5. /\ entries' \in Seq(AuctionEntry) /\ Len(entries') = Len(entries)
      /\ DOMAIN entries' = DOMAIN entries
      /\ \A b \in DOMAIN entries : entries'[b] = IF b = a THEN f ELSE entries[b]
      /\ \A b \in DOMAIN entries' : Cardinality(entries'[b].bidder) <= 1
  BY <1>0, <1>2, <1>3, <1>4, EntryChange
<1>6. HouseType' /\ Refs'
  BY <1>0, <1>4, <1>5, IdleIs DEF HouseType, Refs
<1>7. MoneyType'
  <2> DEFINE x == charge - paid
  <2>1. x \in Int /\ held' = [held EXCEPT ![a] = @ + x]
    <3>1. held[a] + charge - paid = held[a] + x /\ x \in Int
      BY <1>0, <1>1 DEF MoneyType
    <3> QED BY <1>4, <3>1
  <2> HIDE DEF x
  <2> QED BY <1>0, <1>1, <1>4, <2>1, MoneyMoves
<1>8. ItemType' /\ Places' /\ SalesType'
  BY <1>0, <1>4, ItemsKept DEF SalesType
<1>9. ASSUME ~stale' PROVE Fair'
  <2>0. Lines /\ Custody /\ Books /\ Sold
    BY <1>0, <1>4, <1>9 DEF Fair
  <2>1. Open' = Open
    BY <1>4, <1>5 DEF Open
  <2>2. Lines'
    BY <1>4, <2>0, IdleIs DEF Lines
  <2>3. \A b \in DOMAIN entries : entries'[b].item = entries[b].item
    BY <1>2, <1>4, <1>5
  <2>4. Custody'
    BY <1>4, <2>0, <2>1, <2>3, OpenIs DEF Custody
  <2>5. Sold'
    BY <1>4, <1>5, <2>0, <2>1 DEF Sold
  <2>6. a \in Open
    BY <1>4, <2>0, OpenIs DEF Lines
  <2>7. held[a] \in Int /\ held'[a] = held[a] + charge - paid
        /\ \A b \in Ids \ {a} : held'[b] = held[b]
    BY <1>0, <1>1, <1>4 DEF MoneyType
  <2>8. held[a] >= e.deposit + e.bid
    BY <1>4, <2>0, <2>6 DEF Books
  <2>9. held'[a] >= f.deposit + f.bid /\ held'[a] >= 0
    BY <1>1, <1>2, <1>4, <2>7, <2>8
  <2>10. \A b \in Open : b \in Ids /\ b \in DOMAIN entries
    BY <1>0, OpenIs, EntryIs
  <2>11. Books'
    BY <1>5, <2>0, <2>1, <2>7, <2>9, <2>10 DEF Books
  <2> QED BY <2>2, <2>4, <2>5, <2>11 DEF Fair
<1> QED BY <1>6, <1>7, <1>8, <1>9, InvIs DEF TypeInv, AuctionInv, Fair

\* A buyout keeps the invariant.
LEMMA BuysKeep ==
    ASSUME AuctionInv, NEW p \in Players, NEW a \in DOMAIN entries, NEW e \in AuctionEntry,
           NEW charge \in Int, NEW paid \in Nat, Buys(p, a, e, charge, paid)
    PROVE  AuctionInv'
<1>0. HouseType /\ Refs /\ ItemType /\ MoneyType /\ SalesType /\ Places /\ (~stale => Fair)
  BY InvIs DEF TypeInv
<1> DEFINE f == WithBid(e, p, e.buyout)
           d == e.item \in mAitems
<1>1. e.buyout \in Nat /\ e.bid \in Nat /\ e.deposit \in Nat /\ a \in Ids /\ e.item \in Items
      /\ d \in BOOLEAN
  BY <1>0, EntryIs DEF Buys
<1>2. f \in AuctionEntry /\ f.bidder = {p}
  BY <1>1, WithBidIs
<1>3. Cardinality(f.bidder) <= 1
  <2>1. Cardinality({p}) = 1
    BY FS_Singleton
  <2> QED BY <1>2, <2>1
<1>4. /\ handler.op = "bid" /\ handler.id = a /\ e = entries[a] /\ handler' = Idle
      /\ entries' = [entries EXCEPT ![a] = f]
      /\ money[p] - charge \in Nat /\ paid - charge <= e.bid + e.deposit
      /\ money' = [money EXCEPT ![p] = @ - charge]
      /\ mailMoney' \in [Players -> Nat]
      /\ held' = [held EXCEPT ![a] = @ + charge - paid]
      /\ MailItem(e.item, p)
      /\ queue' = Append(queue, [type |-> "remove", id |-> a])
      /\ sales' = [sales EXCEPT ![a] = Append(@, [buyer |-> p, delivered |-> d])]
      /\ UNCHANGED <<AuctionsMap, deleted, bag, exists, stale>>
  BY DEF Buys
<1> HIDE DEF f, d
<1>5. /\ entries' \in Seq(AuctionEntry) /\ Len(entries') = Len(entries)
      /\ DOMAIN entries' = DOMAIN entries
      /\ \A b \in DOMAIN entries : entries'[b] = IF b = a THEN f ELSE entries[b]
      /\ \A b \in DOMAIN entries' : Cardinality(entries'[b].bidder) <= 1
  BY <1>0, <1>2, <1>3, <1>4, EntryChange
<1>6. queue' \in Seq(Events) /\ Refs'
  BY <1>0, <1>4, <1>5, RemoveRefs
<1>7. HouseType'
  BY <1>0, <1>4, <1>5, <1>6, IdleIs DEF HouseType
<1> DEFINE x == charge - paid
<1>8. x \in Int /\ held' = [held EXCEPT ![a] = @ + x]
  <2>1. held[a] + charge - paid = held[a] + x /\ x \in Int
    BY <1>0, <1>1 DEF MoneyType
  <2> QED BY <1>4, <2>1
<1>9. x >= -(e.deposit + e.bid)
  BY <1>1, <1>4
<1> HIDE DEF x
<1>10. MoneyType'
  BY <1>0, <1>1, <1>4, <1>8, MoneyMoves
<1>11. ItemType' /\ Places'
  BY <1>0, <1>1, <1>4, MailItemKeeps
<1>12. SalesType'
  <2>1. stale' \in BOOLEAN
    BY <1>0, <1>4 DEF SalesType
  <2> QED BY <1>0, <1>1, <1>4, <2>1, SalesGrow
<1>13. ASSUME ~stale' PROVE Fair'
  <2>0. Lines /\ Custody /\ Books /\ Sold
    BY <1>0, <1>4, <1>13 DEF Fair
  <2>1. a \in Open /\ Open' = Open \ {a} /\ Lines'
    <3>1. handler.op # "none" /\ UNCHANGED <<AuctionsMap, deleted>>
      BY <1>4
    <3> QED BY <1>0, <1>4, <1>5, <2>0, <3>1, RemoveQueued
  <2>2. \A b \in Open \ {a} : entries'[b] = entries[b]
    BY <1>5, OpenIs
  <2>3. Custody'
    BY <1>0, <1>4, <2>0, <2>1, <2>2, CustodyClosed
  <2>4. Books'
    BY <1>0, <1>4, <1>8, <1>9, <2>0, <2>1, <2>2, BooksClosed
  <2>5. Sold'
    BY <1>0, <1>4, <1>5, <2>0, <2>1, SoldClosed DEF d
  <2> QED BY <2>1, <2>3, <2>4, <2>5 DEF Fair
<1> QED BY <1>6, <1>7, <1>10, <1>11, <1>12, <1>13 DEF TypeInv, AuctionInv, Fair

\* Cancelling keeps the invariant.
LEMMA CancelsKeep ==
    ASSUME AuctionInv, NEW p \in Players, NEW a \in DOMAIN entries, NEW e \in AuctionEntry,
           NEW charge \in Int, NEW paid \in Nat, Cancels(p, a, e, charge, paid)
    PROVE  AuctionInv'
<1>0. HouseType /\ Refs /\ ItemType /\ MoneyType /\ SalesType /\ Places /\ (~stale => Fair)
  BY InvIs DEF TypeInv
<1>1. e.bid \in Nat /\ e.deposit \in Nat /\ a \in Ids /\ e.item \in Items
  BY <1>0, EntryIs DEF Cancels
<1>2. /\ handler.op = "cancel" /\ handler.id = a /\ e = entries[a] /\ handler' = Idle
      /\ money[p] - charge \in Nat /\ paid - charge <= e.bid
      /\ money' = [money EXCEPT ![p] = @ - charge]
      /\ mailMoney' \in [Players -> Nat]
      /\ held' = [held EXCEPT ![a] = @ + charge - paid]
      /\ MailItem(e.item, p)
      /\ queue' = Append(queue, [type |-> "remove", id |-> a])
      /\ UNCHANGED <<entries, AuctionsMap, deleted, bag, exists, sales, stale>>
  BY DEF Cancels
<1>3. queue' \in Seq(Events) /\ Refs'
  <2>1. DOMAIN entries' = DOMAIN entries
    BY <1>2
  <2> QED BY <1>0, <1>2, <2>1, RemoveRefs
<1>4. HouseType'
  BY <1>0, <1>2, <1>3, IdleIs DEF HouseType
<1> DEFINE x == charge - paid
<1>5. x \in Int /\ held' = [held EXCEPT ![a] = @ + x]
  <2>1. held[a] + charge - paid = held[a] + x /\ x \in Int
    BY <1>0, <1>1 DEF MoneyType
  <2> QED BY <1>2, <2>1
<1>6. x >= -(e.deposit + e.bid)
  BY <1>1, <1>2
<1> HIDE DEF x
<1>7. MoneyType'
  BY <1>0, <1>1, <1>2, <1>5, MoneyMoves
<1>8. ItemType' /\ Places'
  BY <1>0, <1>1, <1>2, MailItemKeeps
<1>9. SalesType'
  BY <1>0, <1>2 DEF SalesType
<1>10. ASSUME ~stale' PROVE Fair'
  <2>0. Lines /\ Custody /\ Books /\ Sold
    BY <1>0, <1>2, <1>10 DEF Fair
  <2>1. a \in Open /\ Open' = Open \ {a} /\ Lines'
    <3>1. handler.op # "none" /\ UNCHANGED <<AuctionsMap, deleted>>
          /\ DOMAIN entries' = DOMAIN entries
      BY <1>2
    <3> QED BY <1>0, <1>2, <2>0, <3>1, RemoveQueued
  <2>2. /\ \A b \in Open \ {a} : entries'[b] = entries[b]
        /\ DOMAIN entries' = DOMAIN entries /\ UNCHANGED sales
    BY <1>2
  <2>3. Custody'
    BY <1>0, <1>2, <2>0, <2>1, <2>2, CustodyClosed
  <2>4. Books'
    BY <1>0, <1>2, <1>5, <1>6, <2>0, <2>1, <2>2, BooksClosed
  <2>5. Sold'
    BY <1>0, <1>2, <2>0, <2>1, <2>2, SoldClosed
  <2> QED BY <2>1, <2>3, <2>4, <2>5 DEF Fair
<1> QED BY <1>3, <1>4, <1>7, <1>8, <1>9, <1>10 DEF TypeInv, AuctionInv, Fair

\* Update keeps the invariant.
LEMMA ExpiresKeep ==
    ASSUME AuctionInv, NEW a \in DOMAIN entries, NEW e \in AuctionEntry,
           NEW p \in Players, NEW paid \in Nat, Expires(a, e, p, paid)
    PROVE  AuctionInv'
<1>0. HouseType /\ Refs /\ ItemType /\ MoneyType /\ SalesType /\ Places /\ (~stale => Fair)
  BY InvIs DEF TypeInv
<1> DEFINE d == e.item \in mAitems
<1>1. e.bid \in Nat /\ e.deposit \in Nat /\ a \in Ids /\ e.item \in Items /\ d \in BOOLEAN
  BY <1>0, EntryIs DEF Expires
<1>2. /\ handler = Idle /\ e = entries[a] /\ a \in AuctionsMap
      /\ stale' = (stale \/ Leaving(a))
      /\ mailMoney' \in [Players -> Nat] /\ paid <= e.bid + e.deposit
      /\ held' = [held EXCEPT ![a] = @ - paid]
      /\ MailItem(e.item, p)
      /\ \/ UNCHANGED sales
         \/ sales' = [sales EXCEPT ![a] = Append(@, [buyer |-> p, delivered |-> d])]
      /\ AuctionsMap' = AuctionsMap \ {a}
      /\ deleted' = deleted \cup {a}
      /\ UNCHANGED <<entries, queue, bag, money, exists, handler>>
  BY DEF Expires
<1> HIDE DEF d
<1>3. HouseType' /\ Refs'
  BY <1>0, <1>2 DEF HouseType, Refs, HandlerType
<1> DEFINE x == -paid
<1>4. x \in Int /\ held' = [held EXCEPT ![a] = @ + x] /\ x >= -(e.deposit + e.bid)
  <2>1. held[a] - paid = held[a] + x /\ x \in Int /\ x >= -(e.deposit + e.bid)
    BY <1>0, <1>1, <1>2 DEF MoneyType
  <2> QED BY <1>2, <2>1
<1> HIDE DEF x
<1>5. MoneyType'
  <2>1. held' \in [Ids -> Int]
    BY <1>0, <1>1, <1>4 DEF MoneyType
  <2> QED BY <1>0, <1>2, <2>1 DEF MoneyType
<1>6. ItemType' /\ Places'
  BY <1>0, <1>1, <1>2, MailItemKeeps
<1>7. SalesType'
  <2>1. stale' \in BOOLEAN
    BY <1>2
  <2>2. CASE UNCHANGED sales
    BY <1>0, <2>1, <2>2 DEF SalesType
  <2>3. CASE sales' = [sales EXCEPT ![a] = Append(@, [buyer |-> p, delivered |-> d])]
    BY <1>0, <1>1, <2>1, <2>3, SalesGrow
  <2> QED BY <1>2, <2>2, <2>3
<1>8. ASSUME ~stale' PROVE Fair'
  <2>0. Lines /\ Custody /\ Books /\ Sold /\ ~Leaving(a)
    BY <1>0, <1>2, <1>8 DEF Fair
  <2>1. a \in Open /\ Open' = Open \ {a} /\ Lines'
    <3>1. UNCHANGED <<entries, queue, handler>>
      BY <1>2
    <3> QED BY <1>0, <1>2, <2>0, <3>1, Expired
  <2>2. /\ \A b \in Open \ {a} : entries'[b] = entries[b]
        /\ DOMAIN entries' = DOMAIN entries
    BY <1>2
  <2>3. Custody'
    BY <1>0, <1>2, <2>0, <2>1, <2>2, CustodyClosed
  <2>4. Books'
    BY <1>0, <1>2, <1>4, <2>0, <2>1, <2>2, BooksClosed
  <2>5. Sold'
    BY <1>0, <1>2, <2>0, <2>1, <2>2, SoldClosed DEF d
  <2> QED BY <2>1, <2>3, <2>4, <2>5 DEF Fair
<1> QED BY <1>3, <1>5, <1>6, <1>7, <1>8 DEF TypeInv, AuctionInv, Fair

-----------------------------------------------------------------------------
\* Creating an auction keeps the invariant: the item was not in custody, so no
\* open auction has it.
LEMMA SellKeeps ==
    ASSUME AuctionInv, NEW p \in Players, NEW i \in Items, NEW bid \in Prices,
           NEW buyout \in Prices \cup {0}, HandleAuctionSellItem(p, i, bid, buyout)
    PROVE  AuctionInv'
<1>0. HouseType /\ Refs /\ ItemType /\ MoneyType /\ SalesType /\ Places /\ (~stale => Fair)
  BY InvIs DEF TypeInv
<1> DEFINE n == Len(entries)
           a == n + 1
           f == [owner |-> p, item |-> i, startbid |-> bid, bid |-> 0,
                 bidder |-> {}, buyout |-> buyout, deposit |-> Deposit]
           ev == [type |-> "add", id |-> a]
           m == Len(queue)
<1>1. /\ handler = Idle /\ n < MaxAuctions
      /\ i \in bag[p] /\ i \notin mAitems /\ money[p] >= Deposit
      /\ entries' = Append(entries, f)
      /\ queue' = Append(queue, ev)
      /\ held' = [held EXCEPT ![a] = Deposit]
      /\ mAitems' = mAitems \cup {i}
      /\ bag' = [bag EXCEPT ![p] = @ \ {i}]
      /\ money' = [money EXCEPT ![p] = @ - Deposit]
      /\ UNCHANGED <<AuctionsMap, deleted, mailItems, mailMoney, destroyed,
                   exists, sales, handler, stale>>
  BY DEF HandleAuctionSellItem, WorldIdle, Schedule, TakeIntoCustody
<1>2. f \in AuctionEntry /\ f.bidder = {} /\ f.item = i /\ f.deposit = Deposit /\ f.bid = 0
      /\ Deposit \in Nat
  BY AuctionHouseAssumption DEF AuctionEntry
<1>3. /\ entries' \in Seq(AuctionEntry) /\ n \in Nat /\ Len(entries') = n + 1
      /\ DOMAIN entries = 1 .. n /\ DOMAIN entries' = 1 .. n + 1
      /\ entries'[n + 1] = f /\ \A b \in 1 .. n : entries'[b] = entries[b]
  BY <1>0, <1>1, <1>2, AppendIs DEF HouseType
<1>4. a \in Ids /\ a \notin DOMAIN entries /\ a \in DOMAIN entries'
      /\ DOMAIN entries \subseteq DOMAIN entries'
      /\ (\A b \in DOMAIN entries' : b = a \/ b \in DOMAIN entries)
      /\ n + 1 <= MaxAuctions
  BY <1>1, <1>3, AuctionHouseAssumption DEF Ids
<1>5. ev \in Events /\ ev.type = "add" /\ ev.id = a
  BY <1>4 DEF Events
<1>6. /\ m \in Nat /\ DOMAIN queue = 1 .. m /\ DOMAIN queue' = 1 .. m + 1
      /\ queue'[m + 1] = ev /\ queue' \in Seq(Events)
      /\ \A k \in 1 .. m : queue'[k] = queue[k]
  BY <1>0, <1>1, <1>5, AppendIs DEF HouseType
<1>7. \A k \in DOMAIN queue' : k = m + 1 \/ (k \in DOMAIN queue /\ queue'[k] = queue[k])
  <2> HIDE DEF m, ev
  <2>1. \A k \in 1 .. m + 1 : k = m + 1 \/ k \in 1 .. m
    BY <1>6
  <2> QED BY <1>6, <2>1
<1>8. \A b : Leaving(b)' <=> Leaving(b)
  <2> SUFFICES ASSUME NEW b PROVE Leaving(b)' <=> Leaving(b)
    OBVIOUS
  <2>1. [type |-> "remove", id |-> b] # ev
    OBVIOUS
  <2>2. queue \in Seq(Events)
    BY <1>0 DEF HouseType
  <2> HIDE DEF ev
  <2> QED BY <1>1, <1>5, <2>1, <2>2, ContainsAppend DEF Leaving
<1> HIDE DEF f, ev, m
<1>9. HouseType'
  <2>1. \A b \in DOMAIN entries' : Cardinality(entries'[b].bidder) <= 1
    <3>1. Cardinality({}) = 0
      BY FS_EmptySet
    <3>2. Cardinality(entries'[a].bidder) <= 1
      <4>1. entries'[a].bidder = {}
        BY <1>2, <1>3
      <4> QED BY <3>1, <4>1
    <3> HIDE DEF a
    <3> QED BY <1>0, <1>3, <1>4, <3>2 DEF HouseType
  <2> HIDE DEF a
  <2> QED BY <1>0, <1>1, <1>3, <1>4, <1>6, <2>1 DEF HouseType, HandlerType
<1> HIDE DEF a, n
<1>10. Refs'
  <2>1. \A k \in DOMAIN queue' : queue'[k].id \in DOMAIN entries'
    BY <1>0, <1>4, <1>5, <1>6, <1>7 DEF Refs
  <2> QED BY <1>0, <1>1, <1>4, <2>1 DEF Refs
<1>11. ItemType'
  BY <1>0, <1>1 DEF ItemType
<1>12. Places'
  <2>1. \A j \in Items \ {i} : /\ j \in mAitems' <=> j \in mAitems
                               /\ \A q \in Players : j \in bag'[q] <=> j \in bag[q]
    BY <1>0, <1>1 DEF ItemType
  <2>2. \A q \in Players : i \notin bag'[q]
    BY <1>0, <1>1 DEF ItemType, Places
  <2>3. ~Mailed(i) /\ i \notin destroyed
    BY <1>0, <1>1 DEF Places, Carried
  <2> SUFFICES ASSUME NEW j \in Items
               PROVE  /\ Carried(j)' \/ Mailed(j)' \/ j \in mAitems' \/ j \in destroyed'
                      /\ ~(Carried(j)' /\ Mailed(j)')
                      /\ j \in mAitems' \cup destroyed' => ~Carried(j)' /\ ~Mailed(j)'
                      /\ ~(j \in mAitems' /\ j \in destroyed')
                      /\ \A r, q \in Players : /\ j \in bag'[r] /\ j \in bag'[q] => r = q
                                               /\ j \in mailItems'[r] /\ j \in mailItems'[q] => r = q
    BY DEF Places
  <2>4. CASE j = i
    BY <1>0, <1>1, <2>2, <2>3, <2>4 DEF Places, Carried, Mailed
  <2>5. CASE j # i
    BY <1>0, <1>1, <2>1, <2>5 DEF Places, Carried, Mailed
  <2> QED BY <2>4, <2>5
<1>13. MoneyType'
  <2>1. money' \in [Players -> Nat]
    <3>1. money \in [Players -> Nat]
      BY <1>0 DEF MoneyType
    <3>2. money[p] - Deposit \in Nat
      BY <1>1, <1>2, <3>1
    <3> QED BY <1>1, <3>1, <3>2
  <2>2. held' \in [Ids -> Int]
    <3>1. held \in [Ids -> Int] /\ Deposit \in Int
      BY <1>0, <1>2 DEF MoneyType
    <3> QED BY <1>1, <3>1
  <2> QED BY <1>0, <1>1, <2>1, <2>2 DEF MoneyType
<1>14. SalesType'
  BY <1>0, <1>1 DEF SalesType
<1>15. ASSUME ~stale' PROVE Fair'
  <2>0. Lines /\ Custody /\ Books /\ Sold
    BY <1>0, <1>1, <1>15 DEF Fair
  <2>1. Open' = Open \cup {a}
    <3>1. \A b : b \in Open' <=> b \in DOMAIN entries' /\ b \notin deleted' /\ ~Leaving(b)'
      BY DEF Open, Leaving
    <3>2. ~Leaving(a)
      <4> SUFFICES ASSUME Leaving(a) PROVE FALSE
        OBVIOUS
      <4>1. queue \in Seq(Events)
        BY <1>0 DEF HouseType
      <4>2. PICK k \in DOMAIN queue : queue[k] = [type |-> "remove", id |-> a]
        BY <4>1, ContainsIs DEF Leaving
      <4>3. queue[k].id = a
        BY <4>2
      <4> QED BY <1>0, <1>4, <4>3 DEF Refs
    <3>3. a \notin deleted
      BY <1>0, <1>4 DEF HouseType
    <3> QED BY <1>1, <1>4, <1>8, <3>1, <3>2, <3>3, OpenIs
  <2>2. Lines'
    <3>1. a \notin AuctionsMap \cup deleted
      BY <1>0, <1>4 DEF HouseType
    <3>2. \A k \in DOMAIN queue' :
             IF queue'[k].type = "remove" THEN queue'[k].id \in AuctionsMap'
                                          ELSE queue'[k].id \notin AuctionsMap' \cup deleted'
      <4> SUFFICES ASSUME NEW k \in DOMAIN queue'
                   PROVE  IF queue'[k].type = "remove" THEN queue'[k].id \in AuctionsMap'
                                          ELSE queue'[k].id \notin AuctionsMap' \cup deleted'
        OBVIOUS
      <4>1. CASE k = m + 1
        BY <1>1, <1>5, <1>6, <3>1, <4>1
      <4>2. CASE k \in DOMAIN queue /\ queue'[k] = queue[k]
        BY <1>1, <2>0, <4>2 DEF Lines
      <4> QED BY <1>7, <4>1, <4>2
    <3>3. \A k \in DOMAIN queue : queue[k] # ev
      BY <1>0, <1>4, <1>5 DEF Refs
    <3>4. \A j, k \in DOMAIN queue' : queue'[j] = queue'[k] => j = k
      BY <1>6, <1>7, <2>0, <3>3 DEF Lines
    <3> QED BY <1>1, <2>0, <3>2, <3>4, IdleIs DEF Lines
  <2>3. \A b \in Open : entries'[b] = entries[b] /\ b \in Ids /\ b # a
    BY <1>0, <1>3, <1>4, OpenIs, EntryIs
  <2>4. entries'[a] = f
    BY <1>3 DEF a
  <2>5. Custody'
    <3>1. \A b \in Open : entries[b].item # i
      BY <1>1, <2>0 DEF Custody
    <3>2. \A b \in Open' : IF b = a THEN entries'[b].item = i
                                    ELSE b \in Open /\ entries'[b].item = entries[b].item
      BY <1>2, <2>1, <2>3, <2>4
    <3> QED BY <1>1, <2>0, <3>1, <3>2 DEF Custody
  <2>6. Books'
    <3>1. held'[a] = Deposit /\ \A b \in Ids \ {a} : held'[b] = held[b]
      BY <1>0, <1>1, <1>4 DEF MoneyType
    <3>2. held'[a] >= 0 /\ held'[a] >= f.deposit + f.bid
      BY <1>2, <3>1
    <3> QED BY <2>0, <2>1, <2>3, <2>4, <3>1, <3>2 DEF Books
  <2>7. Sold'
    BY <1>1, <1>4, <2>0, <2>1 DEF Sold
  <2> QED BY <2>2, <2>5, <2>6, <2>7 DEF Fair
<1> QED BY <1>9, <1>10, <1>11, <1>12, <1>13, <1>14, <1>15 DEF TypeInv,
     AuctionInv, Fair

\* AddAuctionEvent keeps the invariant.
LEMMA AddKeeps == AuctionInv /\ AddAuctionEvent => AuctionInv'
<1> SUFFICES ASSUME AuctionInv, AddAuctionEvent PROVE AuctionInv'
  OBVIOUS
<1>0. HouseType /\ Refs /\ ItemType /\ MoneyType /\ SalesType /\ Places /\ (~stale => Fair)
  BY InvIs DEF TypeInv
<1>1. PICK h \in Events : h = Head(queue)
  BY <1>0, TailIs DEF AddAuctionEvent, HouseType
<1>2. /\ queue # <<>> /\ h.type = "add" /\ AuctionsMap' = AuctionsMap \cup {h.id}
      /\ queue' = Tail(queue)
      /\ UNCHANGED <<entries, deleted, mAitems, bag, mailItems, money, mailMoney, destroyed,
                    exists, held, sales, handler, stale>>
  BY <1>1 DEF AddAuctionEvent, playerVars
<1>3. /\ h = queue[1] /\ 1 \in DOMAIN queue /\ queue' \in Seq(Events)
      /\ \A k \in DOMAIN queue' : queue'[k] = queue[k + 1] /\ k + 1 \in DOMAIN queue /\ k + 1 # 1
      /\ \A j, k \in DOMAIN queue' : j + 1 = k + 1 => j = k
  BY <1>0, <1>1, <1>2, TailIs DEF HouseType
<1>4. h.id \in DOMAIN entries
  BY <1>0, <1>3 DEF Refs
<1>5. HouseType' /\ Refs'
  <2>1. \A k \in DOMAIN queue' : queue'[k].id \in DOMAIN entries'
    BY <1>0, <1>2, <1>3 DEF Refs
  <2>2. AuctionsMap' \subseteq DOMAIN entries'
    BY <1>0, <1>2, <1>4 DEF HouseType
  <2> QED BY <1>0, <1>2, <1>3, <2>1, <2>2 DEF HouseType, Refs, HandlerType
<1>6. ItemType' /\ Places' /\ MoneyType' /\ SalesType'
  BY <1>0, <1>2, ItemsKept DEF MoneyType, SalesType
<1>7. ASSUME ~stale' PROVE Fair'
  <2>0. Lines /\ Custody /\ Books /\ Sold
    BY <1>0, <1>2, <1>7 DEF Fair
  <2>1. \A b : Leaving(b)' <=> Leaving(b)
    <3> SUFFICES ASSUME NEW b PROVE Leaving(b)' <=> Leaving(b)
      OBVIOUS
    <3> DEFINE x == [type |-> "remove", id |-> b]
    <3>1. x # h
      BY <1>2
    <3>2. \A j, k \in DOMAIN queue : queue[j] = queue[k] => j = k
      BY <2>0 DEF Lines
    <3>3. queue \in Seq(Events)
      BY <1>0 DEF HouseType
    <3> HIDE DEF x
    <3>4. Contains(Tail(queue), x) <=> Contains(queue, x) /\ x # Head(queue)
      BY <1>2, <3>2, <3>3, ContainsTail
    <3> QED BY <1>1, <1>2, <3>1, <3>4 DEF Leaving, x
  <2>2. Open' = Open
    <3>1. \A b : b \in Open' <=> b \in DOMAIN entries' /\ b \notin deleted' /\ ~Leaving(b)'
      BY DEF Open, Leaving
    <3> QED BY <1>2, <2>1, <3>1, OpenIs
  <2>3. Custody' /\ Books' /\ Sold'
    BY <1>2, <2>0, <2>2 DEF Custody, Books, Sold
  <2>4. h.id \notin AuctionsMap \cup deleted
    BY <1>2, <1>3, <2>0 DEF Lines
  <2>5. \A k \in DOMAIN queue' : queue'[k].type # "remove" => queue'[k].id # h.id
    <3> SUFFICES ASSUME NEW k \in DOMAIN queue', queue'[k].type # "remove", queue'[k].id = h.id
                 PROVE  FALSE
      OBVIOUS
    <3>1. queue'[k] = h
      <4>1. queue'[k] \in Events
        BY <1>3
      <4> QED BY <1>2, <4>1 DEF Events
    <3>2. queue[k + 1] = queue[1] /\ k + 1 \in DOMAIN queue /\ k + 1 # 1
      BY <1>3, <3>1
    <3> QED BY <1>3, <2>0, <3>2 DEF Lines
  <2>6. \A k \in DOMAIN queue' :
             IF queue'[k].type = "remove" THEN queue'[k].id \in AuctionsMap'
                                          ELSE queue'[k].id \notin AuctionsMap' \cup deleted'
    BY <1>2, <1>3, <2>0, <2>5 DEF Lines
  <2>7. \A j, k \in DOMAIN queue' : queue'[j] = queue'[k] => j = k
    BY <1>3, <2>0 DEF Lines
  <2>8. Lines'
    BY <1>2, <2>0, <2>1, <2>4, <2>6, <2>7 DEF Lines
  <2> QED BY <2>3, <2>8 DEF Fair
<1> QED BY <1>5, <1>6, <1>7 DEF TypeInv, AuctionInv, Fair

\* RemoveAuctionEvent keeps the invariant: no handler works on the auction and
\* no other event names it.
LEMMA RemoveKeeps == AuctionInv /\ RemoveAuctionEvent => AuctionInv'
<1> SUFFICES ASSUME AuctionInv, RemoveAuctionEvent PROVE AuctionInv'
  OBVIOUS
<1>0. HouseType /\ Refs /\ ItemType /\ MoneyType /\ SalesType /\ Places /\ (~stale => Fair)
  BY InvIs DEF TypeInv
<1>1. PICK h \in Events : h = Head(queue)
  BY <1>0, TailIs DEF RemoveAuctionEvent, HouseType
<1>2. /\ queue # <<>> /\ h.type = "remove" /\ AuctionsMap' = AuctionsMap \ {h.id}
      /\ deleted' = deleted \cup {h.id} /\ queue' = Tail(queue)
      /\ UNCHANGED <<entries, mAitems, bag, mailItems, money, mailMoney, destroyed,
                    exists, held, sales, handler, stale>>
  BY <1>1 DEF RemoveAuctionEvent, playerVars
<1>3. /\ h = queue[1] /\ 1 \in DOMAIN queue /\ queue' \in Seq(Events)
      /\ \A k \in DOMAIN queue' : queue'[k] = queue[k + 1] /\ k + 1 \in DOMAIN queue /\ k + 1 # 1
      /\ \A j, k \in DOMAIN queue' : j + 1 = k + 1 => j = k
  BY <1>0, <1>1, <1>2, TailIs DEF HouseType
<1>4. h.id \in DOMAIN entries
  BY <1>0, <1>3 DEF Refs
<1>5. HouseType' /\ Refs'
  <2>1. \A k \in DOMAIN queue' : queue'[k].id \in DOMAIN entries'
    BY <1>0, <1>2, <1>3 DEF Refs
  <2>2. AuctionsMap' \subseteq DOMAIN entries' /\ deleted' \subseteq DOMAIN entries'
    BY <1>0, <1>2, <1>4 DEF HouseType
  <2> QED BY <1>0, <1>2, <1>3, <2>1, <2>2 DEF HouseType, Refs, HandlerType
<1>6. ItemType' /\ Places' /\ MoneyType' /\ SalesType'
  BY <1>0, <1>2, ItemsKept DEF MoneyType, SalesType
<1>7. ASSUME ~stale' PROVE Fair'
  <2>0. Lines /\ Custody /\ Books /\ Sold
    BY <1>0, <1>2, <1>7 DEF Fair
  <2>1. \A b : Leaving(b)' <=> Leaving(b) /\ b # h.id
    <3> SUFFICES ASSUME NEW b PROVE Leaving(b)' <=> Leaving(b) /\ b # h.id
      OBVIOUS
    <3> DEFINE x == [type |-> "remove", id |-> b]
    <3>1. x # h <=> b # h.id
      BY <1>2 DEF Events
    <3>2. \A j, k \in DOMAIN queue : queue[j] = queue[k] => j = k
      BY <2>0 DEF Lines
    <3>3. queue \in Seq(Events)
      BY <1>0 DEF HouseType
    <3> HIDE DEF x
    <3>4. Contains(Tail(queue), x) <=> Contains(queue, x) /\ x # Head(queue)
      BY <1>2, <3>2, <3>3, ContainsTail
    <3> QED BY <1>1, <1>2, <3>1, <3>4 DEF Leaving, x
  <2>2. Leaving(h.id)
    <3>1. h = [type |-> "remove", id |-> h.id]
      BY <1>2 DEF Events
    <3>2. queue \in Seq(Events)
      BY <1>0 DEF HouseType
    <3>3. \E k \in DOMAIN queue : queue[k] = [type |-> "remove", id |-> h.id]
      BY <1>3, <3>1
    <3> QED BY <3>2, <3>3, ContainsIs DEF Leaving
  <2>3. Open' = Open
    <3>1. \A b : b \in Open' <=> b \in DOMAIN entries' /\ b \notin deleted' /\ ~Leaving(b)'
      BY DEF Open, Leaving
    <3> QED BY <1>2, <2>1, <2>2, <3>1, OpenIs
  <2>4. Custody' /\ Books' /\ Sold'
    BY <1>2, <2>0, <2>3 DEF Custody, Books, Sold
  <2>5. h.id \in AuctionsMap
    BY <1>2, <1>3, <2>0 DEF Lines
  <2>6. \A k \in DOMAIN queue' : queue'[k].id # h.id
    <3> SUFFICES ASSUME NEW k \in DOMAIN queue', queue'[k].id = h.id PROVE FALSE
      OBVIOUS
    <3>1. CASE queue'[k].type = "remove"
      <4>1. queue'[k] \in Events
        BY <1>3
      <4>2. queue'[k] = h
        BY <1>2, <3>1, <4>1 DEF Events
      <4>3. queue[k + 1] = queue[1] /\ k + 1 \in DOMAIN queue /\ k + 1 # 1
        BY <1>3, <4>2
      <4> QED BY <1>3, <2>0, <4>3 DEF Lines
    <3>2. CASE queue'[k].type # "remove"
      BY <1>3, <2>0, <2>5, <3>2 DEF Lines
    <3> QED BY <3>1, <3>2
  <2>7. \A k \in DOMAIN queue' :
             IF queue'[k].type = "remove" THEN queue'[k].id \in AuctionsMap'
                                          ELSE queue'[k].id \notin AuctionsMap' \cup deleted'
    BY <1>2, <1>3, <2>0, <2>6 DEF Lines
  <2>8. \A j, k \in DOMAIN queue' : queue'[j] = queue'[k] => j = k
    BY <1>3, <2>0 DEF Lines
  <2>9. handler.op # "none" => handler.id # h.id
    BY <2>0, <2>2 DEF Lines
  <2>10. Lines'
    BY <1>2, <2>0, <2>1, <2>7, <2>8, <2>9 DEF Lines
  <2> QED BY <2>4, <2>10 DEF Fair
<1> QED BY <1>5, <1>6, <1>7 DEF TypeInv, AuctionInv, Fair

\* The lookup at the head of a handler keeps the invariant.
LEMMA GetAuctionKeeps ==
    ASSUME AuctionInv, NEW p \in Players, NEW a \in Ids, NEW request, GetAuction(p, a, request),
           \/ request \in [op : {"bid"}, player : Players, id : Ids, price : Prices]
           \/ request \in [op : {"cancel"}, player : Players, id : Ids],
           request.id = a
    PROVE  AuctionInv'
<1>0. HouseType /\ Refs /\ ItemType /\ MoneyType /\ SalesType /\ Places /\ (~stale => Fair)
  BY InvIs DEF TypeInv
<1>1. /\ a \in AuctionsMap /\ stale' = (stale \/ Leaving(a)) /\ handler' = request
      /\ UNCHANGED <<entries, AuctionsMap, deleted, mAitems, queue, bag, mailItems, money,
                    mailMoney, destroyed, exists, held, sales>>
  BY DEF GetAuction, Find, Leaving, houseVars, playerVars
<1>2. HandlerType'
  BY <1>1 DEF HandlerType
<1>3. HouseType' /\ Refs'
  BY <1>0, <1>1, <1>2 DEF HouseType, Refs
<1>4. ItemType' /\ Places' /\ MoneyType' /\ SalesType'
  BY <1>0, <1>1, ItemsKept DEF MoneyType, SalesType
<1>5. ASSUME ~stale' PROVE Fair'
  <2>0. Lines /\ Custody /\ Books /\ Sold /\ ~Leaving(a)
    BY <1>0, <1>1, <1>5 DEF Fair
  <2>1. Open' = Open
    BY <1>1 DEF Open
  <2>2. Custody' /\ Books' /\ Sold'
    BY <1>1, <2>0, <2>1 DEF Custody, Books, Sold
  <2>3. Lines'
    BY <1>1, <2>0 DEF Lines, Leaving
  <2> QED BY <2>2, <2>3 DEF Fair
<1> QED BY <1>3, <1>4, <1>5 DEF TypeInv, AuctionInv, Fair

\* A step that leaves the house alone and may end a handler keeps the
\* invariant.
LEMMA HouseKept ==
    ASSUME AuctionInv, UNCHANGED <<houseVars, held, sales, stale>>,
           handler' \in {handler, Idle}, ItemType', Places', MoneyType'
    PROVE  AuctionInv'
<1>0. HouseType /\ Refs /\ ItemType /\ MoneyType /\ SalesType /\ Places /\ (~stale => Fair)
  BY InvIs DEF TypeInv
<1>1. UNCHANGED <<entries, AuctionsMap, deleted, mAitems, queue, held, sales, stale>>
  BY DEF houseVars
<1>2. HandlerType' /\ (handler'.op # "none" => handler' = handler)
  BY <1>0, IdleIs DEF HouseType, HandlerType
<1>3. HouseType' /\ Refs' /\ SalesType'
  BY <1>0, <1>1, <1>2 DEF HouseType, Refs, SalesType
<1>4. ASSUME ~stale' PROVE Fair'
  <2>0. Lines /\ Custody /\ Books /\ Sold
    BY <1>0, <1>1, <1>4 DEF Fair
  <2>1. Open' = Open
    BY <1>1 DEF Open
  <2>2. Custody' /\ Books' /\ Sold'
    BY <1>1, <2>0, <2>1 DEF Custody, Books, Sold
  <2>3. Lines'
    BY <1>1, <1>2, <2>0 DEF Lines, Leaving
  <2> QED BY <2>2, <2>3 DEF Fair
<1> QED BY <1>3, <1>4 DEF TypeInv, AuctionInv, Fair

\* A refused request, and a step that changes nothing, keep the invariant.
LEMMA RefuseKeeps == AuctionInv /\ (Refuse \/ UNCHANGED vars) => AuctionInv'
<1> SUFFICES ASSUME AuctionInv, Refuse \/ UNCHANGED vars PROVE AuctionInv'
  OBVIOUS
<1>1. UNCHANGED <<houseVars, playerVars, held, sales, stale>> /\ handler' \in {handler, Idle}
  BY DEF Refuse, vars
<1>2. ItemType' /\ Places' /\ MoneyType'
  BY <1>1, ItemsKept DEF AuctionInv, TypeInv, MoneyType, houseVars, playerVars
<1> QED BY <1>1, <1>2, HouseKept

\* MailMgr::TakeItem keeps the invariant.
LEMMA TakeItemKeeps ==
    ASSUME AuctionInv, NEW p \in Players, NEW i \in Items, TakeItem(p, i)
    PROVE  AuctionInv'
<1>0. ItemType /\ MoneyType /\ Places
  BY DEF AuctionInv, TypeInv
<1>1. /\ i \in mailItems[p]
      /\ bag' = [bag EXCEPT ![p] = @ \cup {i}]
      /\ mailItems' = [mailItems EXCEPT ![p] = @ \ {i}]
      /\ UNCHANGED <<houseVars, mAitems, money, mailMoney,
                     destroyed, exists, held, sales, handler, stale>>
  BY DEF TakeItem, houseVars
<1>2. ItemType'
  BY <1>0, <1>1 DEF ItemType
<1>3. MoneyType'
  BY <1>0, <1>1 DEF MoneyType
<1>4. Places'
  <2>1. \A j \in Items \ {i} : \A q \in Players : /\ j \in bag'[q] <=> j \in bag[q]
                                                 /\ j \in mailItems'[q] <=> j \in mailItems[q]
    BY <1>0, <1>1 DEF ItemType
  <2>2. \A q \in Players : (i \in bag'[q] <=> q = p) /\ i \notin mailItems'[q]
    BY <1>0, <1>1 DEF ItemType, Places, Carried, Mailed
  <2>3. i \notin mAitems /\ i \notin destroyed
    BY <1>0, <1>1 DEF Places, Mailed
  <2> SUFFICES ASSUME NEW j \in Items
               PROVE  /\ Carried(j)' \/ Mailed(j)' \/ j \in mAitems' \/ j \in destroyed'
                      /\ ~(Carried(j)' /\ Mailed(j)')
                      /\ j \in mAitems' \cup destroyed' => ~Carried(j)' /\ ~Mailed(j)'
                      /\ ~(j \in mAitems' /\ j \in destroyed')
                      /\ \A r, q \in Players : /\ j \in bag'[r] /\ j \in bag'[q] => r = q
                                               /\ j \in mailItems'[r] /\ j \in mailItems'[q] => r = q
    BY DEF Places
  <2>4. CASE j = i
    BY <1>1, <2>2, <2>3, <2>4 DEF Carried, Mailed
  <2>5. CASE j # i
    BY <1>0, <1>1, <2>1, <2>5 DEF Places, Carried, Mailed
  <2> QED BY <2>4, <2>5
<1> QED BY <1>1, <1>2, <1>3, <1>4, HouseKept

\* MailMgr::TakeMoney keeps the invariant.
LEMMA TakeMoneyKeeps ==
    ASSUME AuctionInv, NEW p \in Players, TakeMoney(p)
    PROVE  AuctionInv'
<1>0. ItemType /\ MoneyType /\ Places
  BY DEF AuctionInv, TypeInv
<1>1. /\ money' = [money EXCEPT ![p] = @ + mailMoney[p]]
      /\ mailMoney' = [mailMoney EXCEPT ![p] = 0]
      /\ UNCHANGED <<houseVars, mAitems, bag, mailItems,
                     destroyed, exists, held, sales, handler, stale>>
  BY DEF TakeMoney, houseVars
<1>2. ItemType' /\ Places'
  BY <1>0, <1>1, ItemsKept
<1>3. MoneyType'
  BY <1>0, <1>1 DEF MoneyType
<1> QED BY <1>1, <1>2, <1>3, HouseKept

\* Deleting a character keeps the invariant.
LEMMA DeleteKeeps ==
    ASSUME AuctionInv, NEW p \in Players, DeleteCharacter(p)
    PROVE  AuctionInv'
<1>0. ItemType /\ MoneyType /\ Places
  BY DEF AuctionInv, TypeInv
<1>1. /\ exists' = exists \ {p}
      /\ destroyed' = destroyed \cup bag[p] \cup mailItems[p]
      /\ bag' = [bag EXCEPT ![p] = {}]
      /\ mailItems' = [mailItems EXCEPT ![p] = {}]
      /\ money' = [money EXCEPT ![p] = 0]
      /\ mailMoney' = [mailMoney EXCEPT ![p] = 0]
      /\ UNCHANGED <<houseVars, mAitems, held, sales, handler, stale>>
  BY DEF DeleteCharacter, houseVars
<1>2. ItemType'
  BY <1>0, <1>1 DEF ItemType
<1>3. MoneyType'
  BY <1>0, <1>1 DEF MoneyType
<1>4. Places'
  <2>1. \A j \in Items : \A q \in Players : /\ j \in bag'[q] <=> j \in bag[q] /\ q # p
                                            /\ j \in mailItems'[q] <=> j \in mailItems[q] /\ q # p
    BY <1>0, <1>1 DEF ItemType
  <2> SUFFICES ASSUME NEW j \in Items
               PROVE  /\ Carried(j)' \/ Mailed(j)' \/ j \in mAitems' \/ j \in destroyed'
                      /\ ~(Carried(j)' /\ Mailed(j)')
                      /\ j \in mAitems' \cup destroyed' => ~Carried(j)' /\ ~Mailed(j)'
                      /\ ~(j \in mAitems' /\ j \in destroyed')
                      /\ \A r, q \in Players : /\ j \in bag'[r] /\ j \in bag'[q] => r = q
                                               /\ j \in mailItems'[r] /\ j \in mailItems'[q] => r = q
    BY DEF Places
  <2>2. CASE j \in bag[p] \/ j \in mailItems[p]
    BY <1>0, <1>1, <2>1, <2>2 DEF Places, Carried, Mailed
  <2>3. CASE ~(j \in bag[p] \/ j \in mailItems[p])
    BY <1>0, <1>1, <2>1, <2>3 DEF Places, Carried, Mailed
  <2> QED BY <2>2, <2>3
<1> QED BY <1>1, <1>2, <1>3, <1>4, HouseKept

-----------------------------------------------------------------------------
\* Exactly one player has the item if and only if the set of those who have it
\* has one member.
LEMMA OnePlayer ==
    ASSUME NEW f \in [Players -> SUBSET Items], NEW i
    PROVE  LET P == {p \in Players : i \in f[p]}
           IN  /\ Cardinality(P) = 1 <=> /\ \E p \in Players : i \in f[p]
                                         /\ \A p, q \in Players : i \in f[p] /\ i \in f[q] => p = q
               /\ P = {} => Cardinality(P) = 0
<1> DEFINE P == {p \in Players : i \in f[p]}
<1>1. IsFiniteSet(P)
  BY AuctionHouseAssumption, FS_Subset
<1>2. Cardinality(P) = 1 <=> \E x : P = {x}
  BY <1>1, FS_Singleton
<1>3. P = {} => Cardinality(P) = 0
  BY FS_EmptySet
<1>4. ASSUME NEW x, P = {x}
      PROVE  /\ \E p \in Players : i \in f[p]
             /\ \A p, q \in Players : i \in f[p] /\ i \in f[q] => p = q
  <2>1. x \in P /\ \A y \in P : y = x
    BY <1>4
  <2> QED BY <2>1
<1>5. ASSUME NEW p \in Players, i \in f[p],
             \A r, q \in Players : i \in f[r] /\ i \in f[q] => r = q
      PROVE  \E x : P = {x}
  <2>1. P = {p}
    BY <1>5
  <2> QED BY <2>1
<1> QED BY <1>2, <1>3, <1>4, <1>5

\* The invariant holds initially.
LEMMA InitOK == Init => AuctionInv
<1> SUFFICES ASSUME Init PROVE AuctionInv
  OBVIOUS
<1>1. HouseType /\ Refs
  <2>1. entries \in Seq(AuctionEntry) /\ Len(entries) <= MaxAuctions /\ DOMAIN entries = {}
    BY EmptySeq, AuctionHouseAssumption DEF Init
  <2>2. queue \in Seq(Events) /\ DOMAIN queue = {}
    BY EmptySeq DEF Init
  <2>3. handler = Idle /\ handler.op = "none" /\ AuctionsMap = {} /\ deleted = {}
    BY DEF Init, Idle
  <2> QED BY <2>1, <2>2, <2>3 DEF HouseType, Refs, HandlerType
<1>2. ItemType
  BY DEF Init, ItemType
<1>3. MoneyType
  BY AuctionHouseAssumption DEF Init, MoneyType
<1>4. SalesType
  <2>1. sales \in [Ids -> Seq([buyer : Players, delivered : BOOLEAN])]
    BY EmptySeq DEF Init
  <2> QED BY <2>1 DEF Init, SalesType
<1>5. Places
  <2> SUFFICES ASSUME NEW i \in Items
               PROVE  /\ Carried(i) /\ ~Mailed(i) /\ i \notin mAitems \cup destroyed
                      /\ \A p, q \in Players : i \in bag[p] /\ i \in bag[q] => p = q
    BY DEF Places, Mailed
  <2>1. Cardinality({p \in Players : i \in bag[p]}) = 1 /\ bag \in [Players -> SUBSET Items]
    BY DEF Init
  <2>2. /\ \E p \in Players : i \in bag[p]
        /\ \A p, q \in Players : i \in bag[p] /\ i \in bag[q] => p = q
    BY <2>1, OnePlayer
  <2>3. ~Mailed(i) /\ i \notin mAitems \cup destroyed
    BY DEF Init, Mailed
  <2> QED BY <2>2, <2>3 DEF Carried
<1>6. Open = {}
  BY DEF Init, Open
<1>7. Lines /\ Custody /\ Books
  BY <1>6 DEF Init, Lines, Custody, Books, Idle
<1>8. Sold
  BY <1>6 DEF Init, Sold
<1> QED BY <1>1, <1>2, <1>3, <1>4, <1>5, <1>7, <1>8 DEF AuctionInv, TypeInv

\* Every step keeps the invariant.
LEMMA NextOK == AuctionInv /\ [Next]_vars => AuctionInv'
<1> SUFFICES ASSUME AuctionInv, [Next]_vars PROVE AuctionInv'
  OBVIOUS
<1>0. TypeInv
  BY DEF AuctionInv
<1>1. CASE AddAuctionEvent
  BY <1>1, AddKeeps
<1>2. CASE RemoveAuctionEvent
  BY <1>2, RemoveKeeps
<1>3. ASSUME NEW p \in Players, NEW i \in Items, NEW bid \in Prices, NEW buyout \in Prices \cup {0},
             HandleAuctionSellItem(p, i, bid, buyout)
      PROVE  AuctionInv'
  BY <1>3, SellKeeps
<1>4. ASSUME NEW p \in Players, NEW a \in Ids, NEW price \in Prices,
             GetAuction(p, a, [op |-> "bid", player |-> p, id |-> a, price |-> price])
      PROVE  AuctionInv'
  <2> DEFINE r == [op |-> "bid", player |-> p, id |-> a, price |-> price]
  <2>1. r \in [op : {"bid"}, player : Players, id : Ids, price : Prices] /\ r.id = a
    OBVIOUS
  <2> HIDE DEF r
  <2> QED BY <1>4, <2>1, GetAuctionKeeps DEF r
<1>5. ASSUME NEW p \in Players, NEW a \in Ids,
             GetAuction(p, a, [op |-> "cancel", player |-> p, id |-> a])
      PROVE  AuctionInv'
  <2> DEFINE r == [op |-> "cancel", player |-> p, id |-> a]
  <2>1. r \in [op : {"cancel"}, player : Players, id : Ids] /\ r.id = a
    OBVIOUS
  <2> HIDE DEF r
  <2> QED BY <1>5, <2>1, GetAuctionKeeps DEF r
<1>6. CASE HandleAuctionPlaceBid
  BY <1>0, <1>6, BidIs, BidsKeep
<1>7. CASE Buyout
  BY <1>0, <1>7, BuyoutIs, BuysKeep
<1>8. CASE HandleAuctionRemoveItem
  BY <1>0, <1>8, CancelIs, CancelsKeep
<1>9. CASE Refuse \/ UNCHANGED vars
  BY <1>9, RefuseKeeps
<1>10. ASSUME NEW a \in Ids, Update(a) PROVE AuctionInv'
  BY <1>0, <1>10, UpdateIs, ExpiresKeep
<1>11. ASSUME NEW p \in Players, NEW i \in Items, TakeItem(p, i) PROVE AuctionInv'
  BY <1>11, TakeItemKeeps
<1>12. ASSUME NEW p \in Players, TakeMoney(p) \/ DeleteCharacter(p) PROVE AuctionInv'
  BY <1>12, TakeMoneyKeeps, DeleteKeeps
<1> QED BY <1>1, <1>2, <1>3, <1>4, <1>5, <1>6, <1>7, <1>8, <1>9, <1>10, <1>11,
     <1>12 DEF Next

\* AuctionInv holds of every state of the auction house, for any characters,
\* items, prices and lengths of the event queue.
THEOREM InvariantHolds == Spec => []AuctionInv
BY InitOK, NextOK, PTL DEF Spec

\* Selling, bidding, cancelling, Update, mail and the deletion of characters
\* neither double nor lose an item, however late the event thread is.
THEOREM ItemsStay == Spec => []ItemsConserved
<1>1. AuctionInv => ItemsConserved
  <2> SUFFICES ASSUME AuctionInv PROVE ItemsConserved
    OBVIOUS
  <2>1. TypeOK /\ ItemType /\ Places
    BY TypeIs DEF AuctionInv, TypeInv
  <2>2. ASSUME NEW i \in Items
        PROVE  Cardinality({p \in Players : i \in bag[p]})
                 + Cardinality({p \in Players : i \in mailItems[p]})
                 + (IF i \in mAitems THEN 1 ELSE 0)
                 + (IF i \in destroyed THEN 1 ELSE 0) = 1
    <3> DEFINE B == {p \in Players : i \in bag[p]}
               M == {p \in Players : i \in mailItems[p]}
    <3>1. /\ Carried(i) => Cardinality(B) = 1
          /\ ~Carried(i) => Cardinality(B) = 0
      <4>1. B = {} => Cardinality(B) = 0
        BY <2>1, OnePlayer DEF ItemType
      <4>2. Carried(i) => Cardinality(B) = 1
        BY <2>1, OnePlayer DEF ItemType, Places, Carried
      <4> QED BY <4>1, <4>2 DEF Carried
    <3>2. /\ Mailed(i) => Cardinality(M) = 1
          /\ ~Mailed(i) => Cardinality(M) = 0
      <4>1. M = {} => Cardinality(M) = 0
        BY <2>1, OnePlayer DEF ItemType
      <4>2. Mailed(i) => Cardinality(M) = 1
        BY <2>1, OnePlayer DEF ItemType, Places, Mailed
      <4> QED BY <4>1, <4>2 DEF Mailed
    <3> HIDE DEF B, M
    <3>3. Cardinality(B) + Cardinality(M) + (IF i \in mAitems THEN 1 ELSE 0)
                 + (IF i \in destroyed THEN 1 ELSE 0) = 1
      <4>1. CASE Carried(i)
        BY <2>1, <3>1, <3>2, <4>1 DEF Places
      <4>2. CASE Mailed(i)
        BY <2>1, <3>1, <3>2, <4>2 DEF Places
      <4>3. CASE ~Carried(i) /\ ~Mailed(i)
        BY <2>1, <3>1, <3>2, <4>3 DEF Places
      <4> QED BY <4>1, <4>2, <4>3
    <3> QED BY <3>3 DEF B, M
  <2> QED BY <2>1, <2>2 DEF ItemsConserved
<1> QED BY <1>1, InvariantHolds, PTL

\* AuctionHouseMgr pays out no more for an auction than it took in for it,
\* until a stale auction was found in AuctionsMap.
THEOREM HouseIsSolvent == Spec => []HouseSolvent
<1>1. AuctionInv => HouseSolvent
  BY DEF AuctionInv, Books, HouseSolvent
<1> QED BY <1>1, InvariantHolds, PTL

\* A lagging EventQueue alone sells no auction twice or without its item: that
\* takes a handler or Update that found an auction on its way out.
THEOREM LagAloneIsHarmless == Spec => []SoldOnceUnlessStale
<1>1. AuctionInv => SoldOnceUnlessStale
  BY DEF AuctionInv, Sold, SoldOnceUnlessStale, SoldOnceWithItem
<1> QED BY <1>1, InvariantHolds, PTL

\* RemoveAuction deletes an AuctionEntry only when no event and no handler
\* points to it, and its ASSERT holds, until a stale auction was found.
THEOREM DeletedIsUnreferenced == Spec => []NotReferencedAnyMore
<1>1. AuctionInv => NotReferencedAnyMore
  <2> SUFFICES ASSUME AuctionInv, ~stale
               PROVE  /\ \A k \in DOMAIN queue : queue[k].id \notin deleted
                      /\ handler.op # "none" => handler.id \notin deleted
                      /\ queue # <<>> /\ Head(queue).type = "remove"
                           => Head(queue).id \in AuctionsMap
    BY DEF NotReferencedAnyMore
  <2>1. Lines /\ queue \in Seq(Events)
    BY DEF AuctionInv, TypeInv, HouseType
  <2>2. \A k \in DOMAIN queue : queue[k].id \notin deleted
    BY <2>1 DEF Lines
  <2>3. handler.op # "none" => handler.id \notin deleted
    BY <2>1 DEF Lines
  <2>4. queue # <<>> => Head(queue) = queue[1] /\ 1 \in DOMAIN queue
    BY <2>1, TailIs
  <2> QED BY <2>1, <2>2, <2>3, <2>4 DEF Lines
<1> QED BY <1>1, InvariantHolds, PTL
=============================================================================
