# A TLA+ verification of the Risen Gods world server

The repository is a World of Warcraft 3.3.5 server: a fork of TrinityCore with
the changes of the Risen Gods realm. This directory holds TLA+ models of its
concurrent core, TLC configurations that check them on small instances, and
TLAPS proofs for all instances. Source paths below are relative to the root of
the repository (`src/server/...`); `PROJECT.json` maps every definition to the
lines it models.

## 1. The system

### 1.1 Components

| Component | State | Operations | Talks to |
|---|---|---|---|
| Map update pool (`game/Maps/MapUpdater`) | registered maps, multimap of due entries, worker threads, `runningThreads`, two mutexes and two condition variables | `StartUpdates`, `Wait`, `Cleanup`, `AddMap`, `RemoveMap`, `SetThreadCount`, the worker loop | driven by `MapManager::Update`; workers call `Map::Update` |
| Map manager (`MapManager`, `MapInstanced`) | base maps, instanced maps, the bit vector of instance ids | create, enter, unload and destroy maps; hand out and free ids | world thread, map threads, instance saves, battlegrounds |
| Instance saves (`game/Instances/InstanceSaveMgr`) | saves, binds of players and groups, reset times and the reset queue | load, bind, unbind, reset, warn | map manager, groups, character database |
| Auction house (`game/AuctionHouse`, `AuctionHouseHandler`) | auctions, items in custody, pending sales, one event thread per house | sell, bid, buy out, cancel, expire, list | mail, player money, character database, event queue |
| Event queue, thread pool (`common/Threading`) | queues, threads, stop flags | schedule, execute, shut down | auction house, asynchronous tasks |
| Database worker pool (`database/base/Database`) | queue of operations, workers, connections, prepared statements | enqueue, execute, retry, reconnect, close | all of the game code; MySQL |
| Mail (`game/Mails`) | mails with items, money and delivery times, under a reader-writer lock | send, take, return, expire | auction house, players |
| Sessions and sockets (`game/Server`) | packet queues, session state | receive, dispatch by thread, log out | network threads, world and map threads |
| World loop (`game/World`, `worldserver`) | timers, configuration, session queue | tick, reload, shut down | everything |
| Trade (`TradeHandler`, `Player::m_trade`) | two halves of a window: items by GUID, gold, a spell, an acceptance each | initiate, set, clear, accept, unaccept, cancel | inventories, character database |
| Groups and loot (`Group`, `LootHandler`, `Creature`) | members, leader, open rolls with votes; blocked and looted items of a corpse, its timer | start, vote, end rolls; add, remove members, disband; loot, decay | map threads (corpse), world thread (votes, members) |
| Battleground queue (`BattlegroundQueue`, `Matchmaking`, `Battleground`) | queued groups, invitations with deadlines, invited counters, matchmaking data, players inside | join, propose, invite, enter, refuse, expire, leave, end, delete | player queue slots, loading screens, timers |
| Dungeon finder (`game/DungeonFinding`, `LFGHandler`) | state of each player and group, role checks, queue data, queue, proposals | join, choose roles, search, propose, answer, time out, make a group, finish, leave | groups through hooks, thread pool (the search), map threads (last boss) |
| Spells, units, AI, combat formulas, movement, collision | game mechanics, mostly floating point and data driven | | maps |
| Guilds, calendar, achievements, quests, pools, game events, premium codes | sequential bookkeeping | | database |
| Authentication server, logging, configuration, monitoring, extractors, scripts | outside the core | | |

### 1.2 How they interact, and what is hard

The **world thread** runs `World::Update`: sessions, timers, auction expiry,
instance resets and `MapManager::Update`. The latter wakes the **map workers**,
waits for them, and then deletes maps that may go; this barrier is what lets
nearly all game code run without locks. Saves go through the **database
workers**, fire and forget. Each auction house has an **event thread** that
alone puts auctions into its map or takes them out on behalf of a handler.

What is hard to test:

* the barrier: a counter, two condition variables, and threads that die or are
  born while it is in use;
* Map objects that are deleted while the pool still has an entry for them;
* boundary ids in a bit vector that is resized to multiples of 32;
* handlers that take effect in two parts, the second on another thread;
* transactions under deadlocks, reconnects and shutdown;
* resets that free the id of an instance that is still populated;
* one fact kept in several places: a queued player in his slot, the queue, a
  counter and the matchmaking data; a premade in the group, the queue, a
  proposal and the state of each member. Every order of joining, answering,
  leaving, logging out and timing out has to keep the copies together;
* windows, invitations and rolls that refer to what may be gone when they are
  answered: items, loot, members, battlegrounds;
* handlers with a dozen early returns, each of which has to undo what was done
  before it.

`PROJECT.json` lists these under `hazards`, each at its line, with the
properties that cover it or the reason why none does yet.

## 2. The modules

| Module | Models | Kind |
|---|---|---|
| `MapBarrier` | what `MapManager::Update` relies on | abstract specification |
| `MapUpdater` | `MapUpdater.cpp` with its caller | detailed specification |
| `InstanceIds` | instance ids in `MapManager` and the loop that loads them | specification |
| `MapProofs` | | theorems about `MapUpdater`, with the refinement of `MapBarrier`, and about `InstanceIds` |
| `AuctionHouse` | handlers, expiry and event thread of one house, with items and money | specification |
| `DatabasePool` | asynchronous transactions from queue to COMMIT, and `Close()` | specification |
| `Trade` | the trade window of two characters and what happens to their inventories meanwhile | specification |
| `GroupLoot` | the rolls of a group on one corpse | specification |
| `BattlegroundQueue` | one battleground queue with its invitations, and the battlegrounds | specification |
| `DungeonFinder` | the dungeon finder of one faction, and the groups | specification |
| `AuctionHouseProofs`, `DatabasePoolProofs`, `TradeProofs`, `GroupLootProofs`, `BattlegroundQueueProofs`, `DungeonFinderProofs` | | theorems about the module of that name |
| `FiniteSums` | | lemmas: induction by the least element and over finite sets, sums over finite sets |
| `MCMapUpdater`, `MCInstanceIds`, `MCAuctionHouse`, `MCDatabasePool`, `MCTrade`, `MCGroupLoot`, `MCBattlegroundQueue`, `MCDungeonFinder` | | instances for TLC |

The models compose at one place: `GroupLoot` and `Trade` take a handler on the
world or a map thread for one step, which is what `MapBarrier`, implemented by
`MapUpdater`, provides. `AuctionHouse` and `DatabasePool` are the parts with
threads of their own.

Some definitions are preceded by a variant of the same parameters: a plausible
mistake in the code. No specification uses these; `PROJECT.json` pairs each
with the property that notices it when it takes the place of its original.

### 2.1 MapUpdater

State: `maps`, `toBeRemoved` (the flag in each entry), `updateEntries`,
`workerThreads`, `expectedThreads` and `runningThreads` are the members of the
class; `allocated` says which `Map` objects exist; `pc`, `entry` and `world`
are the program counters and the entry each worker holds.

Granularity: each critical section of `entryMutex` or `syncMutex` is one step.
Two places are finer, because the code is: `Wait()` reads the counter and goes
to sleep in two steps (`WaitCheck`, `WaitBlock`), holding `syncMutex` in
between, and a dying worker decrements and notifies in two steps without any
mutex (`ExitDecrement`, `ExitNotify`). `SyncMutexFree` guards every step that
takes `syncMutex`.

Abstraction: times are replaced by `window`, the number of updates that still
fit before `stopTime`. `FindNextUpdateMap` may return any entry that is not
flagged while the window is open, or none: which one depends on durations that
are measured. `runningThreads` keeps its width: it wraps modulo `Word`.

`AddMap` may run on the world thread between ticks, and inside `Map::Update` on
a worker (a transport that enters a continent). `DestroyInstance` combines
`RemoveMap` and the `delete` that follows it on the world thread. The
destructor is not modelled.

### 2.2 InstanceIds

`size`, `capacity` and `bits` are the `vector<bool>`, with the growth rule of
the standard library (`Resize`, external); `taken` are the ids that really
belong to an instance. A write past the size is undefined behaviour. The model
takes its mildest outcome, that the bit is not there once the vector has grown,
which is what the implementation does when the capacity has room: growing
fills the new bits with false. Everything shown about duplicates holds for
this outcome; the others are worse. Start-up goes through `InitInstanceIds` and
`RegisterInstanceId` for each row in ascending order, from every possible set
of rows.

### 2.3 AuctionHouse

World-thread steps (the handlers, `Update`) and event-thread steps
(`AddAuctionEvent`, `RemoveAuctionEvent`) interleave. A handler is split where
it gives up the lock: `GetAuction`, then the rest. `HandleAuctionPlaceBid` and
`Buyout` are the two branches of one handler; `Refuse` covers the early
returns. `Update` treats one expired auction per step; expiry itself is left
open, any auction in the map may be due. The amounts are those of the code:
`GetAuctionCut`, `GetAuctionOutBid` (at least 1), the deposit returned with the
profit, the cut paid by a seller who cancels.

`held` and `sales` are history: what the house took minus what it paid per
auction, and to whom it sold. A character that was deleted gets no mail; items
for it are deleted.

The event thread may be arbitrarily late, as the code allows. The history
variable `stale` becomes true when the world thread finds an auction in the map
whose `RemoveAuctionEvent` is still queued. `ItemsConserved` holds whatever
happens; all other properties hold up to that moment, and `auctionhouse_sale`
shows that the exception is needed.

Not modelled: the database image (save, load, `DeleteExpiredAuctionsAtStartup`),
lists and searches, splitting of stacks (each auction is of one whole item),
and characters of one account bidding on each other's auctions (each player is
an account of its own).

### 2.4 DatabasePool

Each worker goes through `WaitAndPop`, the test of its token, and
`TransactionTask::Execute` with one step per statement. The server is
external: a statement succeeds, meets a deadlock, another error, or a lost
connection; a lost connection is reopened by `_HandleMySQLErrno`, which makes
the code repeat the statement in autocommit mode, or ends in `std::abort()`.
`committed` is what is durable. `Close()` destroys the connections in turn:
token, `Cancel()`, `join()`. `workers` is how many connections `Open()` has
opened, any number up to the bound, so that one run covers the single worker,
for which the order of the queue is the order of effect (`SettledInOrder`),
and several.

`START TRANSACTION`, `ROLLBACK` and `COMMIT` can fail like any statement, and
`MySQLConnection.cpp:360-381` does not look at their results: after
`BeginFails` the statements run in autocommit mode, after `CommitFails` the
promise still says true, and after `RollbackFails` the transaction stays open
and is committed by the next `START TRANSACTION` on that connection (`Flush` in
`BeginTransaction`; for this `pending` is kept per connection and transaction).
A connection lost in `START TRANSACTION` does no harm (`BeginLost`: it is sent
again on the new one). `torn` is the history of transactions that met a lost
connection or whose own `START TRANSACTION`, `ROLLBACK` or `COMMIT` failed, the
exact exception in `OnlyFaultedAreTorn`: no such failure harms a transaction
before or after it, or that of another worker. What `Cancel()`
deletes at shutdown, queued saves of players among it, is the exact exception
in `DroppedByCloseOnly`.

Not modelled: single statements and query holders (they go through the same
queue), synchronous connections, `KeepAlive`, and a worker pool that is pushed
to during `Close()` (the code says that all other threads have ended).

### 2.5 Trade

The window is `trader`, `accepted`, `gold`, `spell` and `item` for each of the
two characters, with one action per packet. `HandleAcceptTrade` has one
disjunct per way out: `RefuseOwn`, `RefuseOther` (gold, items that cannot be
traded), `AcceptAlone`, `SpellFails`, `CannotStore`, `Exchange`. An exchange
removes all items of both sides and then stores them one by one, as
`moveItems` does, with the room the bags have at that moment; money goes
through `ModifyMoney` and its limit, and both characters are saved.

Around it, characters equip, mail, sell and bind items (`MoveItem`, `SendAway`,
`GetBack`), spend and earn gold and leave the world. `seen` is history: what
the window showed when acceptance was given. An item that has left its owner
after acceptance is silently left out of the exchange; `NothingMovesUnseen`
states exactly that.

Abstracted: stacks (an item is traded as a whole), the effect of the spell on
the item that is shown only, the distance and faction checks at the start.
Gold offers above `MAX_MONEY_AMOUNT` are outside the assumption.

### 2.6 GroupLoot

`roll` is `RollId`, one record per item with votes and totals; `blocked`,
`looted`, `unlooted` (`Loot::unlootedCount`, a `uint8`) and `timer` belong to
the corpse. `StartRolls` is `GroupLoot` and
`NeedBeforeGreed`; a vote, the timer and the departure of a member end in
`CountTheRoll`. The dice are an open choice among the candidates.

What the code does that a reader may not expect, and the model has: votes are
not checked for repetition, so a player who votes twice counts twice
(`revoted` is the exception in the properties); `CountRollVote` after the
removal of a member finds nothing, so that a roll on which all others have
voted is ended by the timer only; `Disband` and a winner who is not connected
leave the item blocked; a roll on a corpse that a script takes away stays in
the list. `is_blocked` does not hold for quest items (`Player.cpp:25631`),
although those that follow the loot rules are rolled for: one can be taken from
the window and be given again by its roll (`AwardedOnce` allows exactly that),
and since it is then counted twice in `unlootedCount`, the corpse can be
released while another item is still rolled for (`ReleaseLooted`). A vote is
dropped when the loot has no ordinary item.

`attended` says whether a player is near: `Map::Update` visits only the cells
around players and active objects (`UpdateAllCells` is 0 by default), so the
timer stands still while nobody is there (`Wander`).

Not modelled: master loot and round robin, subgroups, two corpses at a time
(and with them the race of two map threads on `RollId`).

### 2.7 BattlegroundQueue

A player is recorded in `queue`, in his `slot`, in the counter `invited` and in
`data`, the matchmaking data. `AddGroup`, `InviteGroups` (from `Fill` and
`StartBattleground`), `PortEnter`, `PortLeave`, `Arrive`, `Logout`, `Login`,
`RemoveEvent`, `RemovePlayerAtLeave`, `RemoveOffline` and `Delete` change them.
The clock is explicit: an invitation has a deadline and its event fires at that
time, whether the invitation still exists or not.

A player in the loading screen is in neither the queue nor the battleground. If
he logs out there, `LogoutPlayer` first completes the far teleport
(`WorldSession.cpp:487-489`, `CompleteTeleport`): he arrives, and is counted out
later as an offline player (`RemoveOffline`). `InvitedCountExact` says that the
counter and the matchmaking data are therefore always exact.

Abstracted: the quality of a proposal (any set of groups that fits may be
chosen, or none), one team, `WAIT_JOIN` merged with `IN_PROGRESS`. Not
modelled: arenas and ratings, jumping from one battleground to another, a far
teleport that fails because the map of an existing battleground refuses the
player.

### 2.8 DungeonFinder

`mgr` is one record with the stores of `LFGMgr` and `LFGQueue` and the groups.
Handlers call each other through hooks (`RemoveMember` calls `OnRemoveMember`,
which calls `LeaveLfg`, which calls `RemoveProposal`, ...), so operators take a
record and return the next one, and an action applies the outermost. Packets
are handled after `UpdateFinish` has waited for the search: a handler and a
tick (`Update`: search, timeouts of role checks and proposals, sending of what
was found) are one step each.

Five races are recorded in `races`, because the code does not provide for them
and the stores then disagree:

| Race | What happens |
|---|---|
| `rejoined` | somebody asks to join while he answers a proposal: he is in both |
| `finished` | the last boss dies while the group is queued for more players: FINISHED, still in the queue |
| `partied` | a group forms or grows while one of them answers a proposal or a role check |
| `befriended` | somebody is invited into a dungeon group, which queues again: he has no dungeon selected, and `*GetSelectedDungeons(pguid).begin()` is read |
| `absent` | somebody has agreed and is gone when the group is made: his party stays in PROPOSAL |

A premade can also be QUEUED while nobody searches for it, until it joins again;
`stuck` records which:

* it asks again and is refused: `JoinLfg` has taken it out of the queue before
  the checks (`LFGMgr.cpp:459`);
* `FindGroup` finds its own data incompatible (`COMBINATION_INVALID`,
  `LFGQueue.cpp:297-301`): a player alone whose roles nobody has checked, or a
  premade all of whose dungeons are still delayed (41-54). It has left
  `newToQueue` (190) and does not enter `queue`; when a delayed dungeon opens,
  only what is in `queue` is searched again (176). Roles and dungeons are
  abstracted, so any search may end this way.

Each property names the races it does not survive; after `Derailing` ones
nothing is claimed. `QueuedIsSearched` exempts the premades that are stuck, and
only these: what happened to them harms nobody else. So `ProposedIsAsked` does not
catch `absent` itself, `QueueMatchesGroups` not `finished` and `partied`, and
`DungeonsStillSelected` not `befriended`: the table is what they would report. Without
these the properties hold in every interleaving.

`FindGroups` calls `AddOldToQueue` (`LFGQueue.cpp:179`) while the search is running
(`_isUpdating`, set in `LFGMgr.cpp:284`), which the assertion at `LFGQueue.cpp:83`
forbids. The model is the release build (the default in `CMakeLists.txt`), where
assertions are compiled out; a build with them would stop there.

`absent` counts whether the finder makes a new group or refills one that is in
its dungeon: in both cases `MakeNewGroup` skips who is not connected.

Lists are walked with the folds of the library over sets, in the order of the
GUIDs or of the proposal ids, as the maps of the source are. The member list of
a group is in the order of joining, which the model leaves open: the new leader
in `RemoveMember` is the first connected member of some list (`Lists`).

Abstracted: which roles and dungeons fit (`fit`, and numbers in `Complete`);
timed openings of dungeons (any queued premade may be searched again). A vote
to kick is its outcome, a removal. `queueDataCellar` is not in the model: all
callers of `AddOldToQueue` have looked for the data. Cancelling one's own
pending invitations is the same as all of them being declined. Not modelled:
the second faction, raids and the raid browser, battleground groups, players in
a loading screen (connected but not found), an invitation of somebody who has
been put into a dungeon group since, entries that `operator[]` recreates for a
group that is gone, rewards, cooldowns and teleports. `proposal.state ==
LFG_PROPOSAL_SUCCESS` in `UpdateFinish` cannot hold and is left out. Group GUIDs
are not reused, so `Groups` bounds the groups ever made.

## 3. What is checked

Passing runs:

| Run | Shows | Bounds |
|---|---|---|
| `mapupdater_tick` | `WorldHasMapsToItself`, `OneUpdaterPerMap`: the barrier holds and entries are not shared while maps come and go and the pool grows; `ImplementsBarrier`: refinement of `MapBarrier`; `TicksEnd`, `WorkersWoken`: liveness | 3 maps, 2 to 3 threads, 3 updates per tick: workers compete, one has nothing to do, a map is destroyed while two others are queued |
| `mapupdater_reload` | `PoolNeverBelowTarget` under shrinking and spurious wake-ups | 3 threads; the ASSERT on the counter may end a run, so deadlock is not an error |
| `instanceids_scan` | `LowestFirst`, `OnlyBoundaryIdsLost`: an id at a block boundary can lose its mark and be handed out twice, no other can | blocks of 2, words of 4, ids to 9: four block boundaries and two word boundaries |
| `auctionhouse_house` | `ItemsConserved`; `SoldOnceUnlessStale`, `HouseSolvent` (open auctions are backed by what was paid in), `NotReferencedAnyMore` (the ASSERT of `RemoveAuction` included) until an auction is found stale | 3 characters, 1 item auctioned twice, prices to 3, 2 queued events: a bid is raised by its owner, outbid, bought out over, cancelled, and the event thread is a whole auction late |
| `databasepool_pool` | `SettledInOrder`, `DroppedByCloseOnly`, `OnlyFaultedAreTorn` (with the truth of the promises), `StoppedBeforeCleared`; `EventuallySettled`, `CloseReturns`: liveness | 1 or 2 workers, 3 transactions of 2 statements (one empty), 3 faults of all kinds, at statements and at `START TRANSACTION`, `ROLLBACK` and `COMMIT`, 2 retries: the retry loop is entered, exhausted and contended |
| `trade_window` | `TradesPaired`, `AcceptedAsShown`, `ItemsConserved` (in what was saved, too), `MoneyConserved`, `NothingMovesUnseen` | 3 characters (a trade can be replaced by another), 2 items, room for 1 in each bag, gold 1 of at most 2, one traded slot and the one shown: both limits are met |
| `grouploot_rolls` | `AwardedOnce`, `TotalsMatchVotes`, `NobodyCutOff`, `NeedWins`, `NotLeftBlocked`; `RollEnds`: liveness | 3 players, one ordinary and one quest item, 3 votes on the two together (repeated ones included), one player who loses his connection, one who takes items from the window: a quest item is given twice, rolls end by vote, timer and departure |
| `battlegroundqueue_invite` | `NotOverfilled`, `InvitedCountExact`, `DeletedUnreferenced`, `SlotAgrees`, `InvitationExpires`, `StaleEventHarmless` | 3 players, room for 2, one instance id that is used again, deadlines of 2 in a clock of 5: an old event fires under a newer invitation to the same id |
| `dungeonfinder_finder` | `QueuedIsSearched`, `ProposedIsAsked`, `RoleCheckIsOpen`, `QueueMatchesGroups`, `DungeonsStillSelected` | 3 players make a full group, 2 groups ever, 1 proposal at a time, 3 requests to join (a full party enters a dungeon, loses a member and is refilled by him), one unreliable player, one kind of race or one stuck premade per behaviour |

The type invariants of `MapUpdater` and `InstanceIds` are proved (section 4);
each other module has its `TypeOK` as a conjunct of one of the invariants its
run checks and as a conjunct of the inductive invariant that is proved.

Three players are the least with which the others can go on after one of them
has left, refused or lost his connection. The dungeon finder needs two groups
because a party that enters a dungeon leaves its old one.

The auction, database and dungeon finder runs do not check deadlock: they stop
when their bounds (auctions, transactions, requests) are used up or after
`Close()`.

Runs in which TLC finds a violation, each of something the source says:

| Run | Violates | Because |
|---|---|---|
| `mapupdater_shrink` | `ASSERT(runningThreads == 0)` (`CleanupAssertion`) | a worker that a reload dismisses leaves the vector first and decrements later, across a `StartUpdates` that has reset the counter (with `SpuriousWakeups = TRUE` instead, a parked worker that wakes unasked counts itself down twice: `startCondition.wait` has no predicate) |
| `auctionhouse_sale` | "we send the item to the winner" | an auction that was bought out is still found and sold again; the entry is then deleted while a second event points to it |
| `databasepool_reconnect` | "automatically rollback if not commited" | after a reconnect the rest of a transaction runs in autocommit mode |

### Fairness

`MapUpdater` and `DatabasePool` assume weak fairness of each thread: the
operating system runs a thread that can run. The world loop never ends, so its
steps are weakly fair as well. Nothing is assumed about requests, reloads,
creation or destruction of maps, faults, or the call of `Close()`. In
`DatabasePool` no fairness is needed on the mutex of the retry loop beyond that
of its waiters, because the number of faults is bounded. The liveness part of
`mapupdater_tick` is about a pool that only grows, without spurious wake-ups; with either, the
ASSERT may end the program. `GroupLoot` assumes weak fairness of the timer step
alone: the step is enabled only while a player is near the corpse, and then the
map updates its cell in every tick (`Map.cpp:565-593`), so a timer that runs
does run out. Nobody is assumed to stay: `RollEnds` says that a roll ends *if*
in the end somebody remains near (`<>[]attended`). No vote, no logout and no
decay is assumed to happen.

## 4. What is proved

All theorems hold for every value of the constants that satisfies the module's
ASSUME.

`MapProofs`, about `MapUpdater` (constants: any set of maps, any finite set of threads, any
window, any word larger than the number of threads):

* `TypeCorrect`: `TypeOK` is inductive by itself, under any reload and any
  spurious wake-up.
* `InductiveInvariant`: `IInv`, for a pool that is never shrunk and without
  spurious wake-ups (`NotShrunk`, `NoSpurious`; `mapupdater_shrink` shows
  that the first is needed, and with `SpuriousWakeups = TRUE` also the second). `CleanupAssertion` is
  not inductive: the strengthening says that the counter is *exactly* the
  number of workers that are not parked (`CounterInv`), which in turn needs
  that the vector holds exactly the threads that live and has the configured
  size (`PoolInv`). From a zero counter it follows that nobody holds an entry,
  which makes the invariant about entries (`EntryInv`) survive `Cleanup`.
* `WorldAlone`, `EntriesSafe`: the safety invariants of `mapupdater_tick`, and
  with them `CleanupAssertion`, `EstimateReadsLiveMaps` (the estimate never
  reads a deleted map) and `NoEntryLost`, which no run needs to repeat.
* `PoolIsBarrier`: the refinement; every step is a step of `MapBarrier` or a
  stutter under `live <- allocated`, `updating <- Held`,
  `exclusive <- (world = "delayed")`.
* `PoolSize`: `PoolNeverBelowTarget`, without the two assumptions.

`MapProofs`, about `InstanceIds` (any block size, any word size that is a
multiple of it):

* `IdsInvariant`: the vector grows in whole blocks, every id in use is at most
  its size, rows come in ascending order, the next id has no bit set. The
  lemmas before it are about rounding (`BlocksIs`, `RoundUpIs`, `ResizeIs`).
* `IdsTypeCorrect`: `IdsTypeOK`, from `IdsInvariant`.
* `FreedIdsAreReused`: `LowestFirst`, and `NoLeak`: every set bit belongs to an
  instance.
* `DuplicatesAtBoundariesOnly`: `OnlyBoundaryIdsLost`: an id that is in
  use without its mark, or handed out while in use, is a multiple of the block
  size. TLC shows that those ids really are affected: `instanceids_scan` fails
  when the exception is dropped.

Each of the following modules has one inductive invariant, proved by
`InvariantHolds` with one lemma per action; the other theorems follow from it.
The invariants were checked by TLC on the instances of section 3 before they
were proved.

`FiniteSums`. A property of all natural numbers is proved from its least
counterexample (`Least`); that way `MapThenSumSet` is shown to add up
(`PartialSums`, `SumUpdate`, `SumConstant`) without an induction rule that takes
an operator. `SubsetInduction` is induction over the subsets of a finite set, for
a set of subsets instead of a predicate.

`TradeProofs` (any finite sets of characters and items, any number of slots,
any bag size and limit of gold). `TradeInv`: the halves of a window name each
other; who has accepted has seen what is offered now; every item has one place;
*no item is in two slots of one offer* (`Distinct`, from `HasItem` in the
handler). The last is what makes the single `CanStoreItems` for all items
enough: `RoomLeft` shows that in every iteration of `moveItems` there is room
for the next item, and the loop (a recursive function) is settled by its first
wrong iteration. Theorems: `TradesArePaired`, `AcceptanceIsForWhatIsShown`,
`NoItemLostOrDoubled`, `NothingUnseenMoves` (an action property) and
`NoGoldLostOrMade`.

`DatabasePoolProofs` (any number of workers, transactions and statements, at
least one retry). `PoolInv` says of each worker what it holds at each place of
its program (`WorkerOK`), that a transaction is queued, held by one worker or
settled (`HoldersOK`, `QueueOK`), that with one worker all that was pushed before
the transaction it holds is settled (`OrderOK`), what the database has of each
transaction (`CommittedOK`) and how far `Close()` has come (`PoolOK`). What a connection may
still hold of an earlier transaction, when its ROLLBACK or COMMIT failed, belongs
to a torn one (`Clean`, in `WorkerOK`); that is what makes the implicit commit of
the next START TRANSACTION harmless to the others. After
`std::abort()` the first four say nothing any more. Theorems:
`OnlyTornTransactionsAreHarmed`, `OneWorkerKeepsOrder`,
`WorkerIsGoneBeforeItsConnection`, `OnlyCloseDrops`.

`GroupLootProofs` (any finite set of players, any items and votes).
`LootInv`: an ordinary item that is rolled for is blocked and not looted
(`Reserved`), nobody was given what is not looted and only one player what is still
rolled for, so that the roll of a quest item gives it at most a second time
(`Given`), nothing is rolled for before the
corpse is opened (`Fresh`), and
the totals (`Tallied`): they are *at least* the votes in general, because a
second vote of a player is counted, and exactly the votes as long as nobody
voted twice. Only the first half survives all steps and only the second gives
`TotalsAreRight`. Theorems: `GivenOnce`, `TotalsAreRight`, `NothingStaysBlocked`
and the action properties `AllMayChoose` and `NeedBeatsGreed`. `NoRollAssumption`
says that "no roll" is not itself a roll.

`AuctionHouseProofs` (any characters, items, number of auctions, prices, any
length of the event queue). `AuctionInv`: types, with the fact that events and
handlers only name auctions that were created (`Refs`), and that each item has
one place (`Places`), whatever happens. Until the world thread finds an auction
whose `RemoveAuctionEvent` is still queued (`stale`): each auction has one line
through the house, from the `AddAuctionEvent` over the map to the
`RemoveAuctionEvent`, and the handler works on none that is on its way out
(`Lines`); the house has the item (`Custody`) and the money (`Books`) of each
open auction; none is sold twice (`Sold`). Theorems: `ItemsStay` without the
exception; `HouseIsSolvent`, `LagAloneIsHarmless` and `DeletedIsUnreferenced`
with it. `auctionhouse_sale` shows that the exception is needed.

`BattlegroundQueueProofs` (any finite set of players, any battlegrounds, team
size and waiting time). `QueueInv`: no player is in
two groups and no group is empty (`Groups`); a player waits, loads or is
inside, and only one of them (`Whereabouts`); the slot says which (`Slots`); the
counter and the matchmaking data are exactly the players who are invited, loading
or inside (`Counts`); nobody is engaged in a battleground that is gone (`Freed`); each
invitation still has its event (`Deadlines`). `MembersBound` shows that the sum
in `Fits` bounds the players asked. Theorems: `CountIsExact`,
`NeverOverfilled`, `DeletedIsUnreferenced`, `SlotsAreRight`,
`InvitationsExpire` and the action property `StaleEventsAreHarmless`.

`DungeonFinderProofs` (any finite sets of players and groups, any group size, any
number of proposals at a time, of requests and of races). The properties are far
from inductive, because they say nothing of how the stores hang together.
`Inv(s, F, R, D)` does, for a record `s` of the stores:

| Part | Says |
|---|---|
| `Formed` | a group has a leader among its members; a group that is gone has no state and no role check |
| `Resting` | who is not busy is in the state that `RestoreState` would bring back |
| `Agreeing` | the members of a group are in the group's state |
| `Checking` | a role check is open exactly for the groups in that state, and asks exactly the members |
| `Queueing` | what waits is QUEUED and its data have the members of now |
| `Proposing` | premades in a proposal are in its state, in no other proposal and not in the queue; exactly their members are asked; a group that is refilled is among them |
| `Answered` | who is in the state of a proposal is asked in one |
| `Searched` | what is QUEUED is in the queue, except the premades of `D` |
| `Asked` | no group is left in the state of a proposal, until the race `absent` |
| `Chosen` | who is to enter a dungeon has one selected, until the race `befriended` |

`F` holds the proposals that `FindGroup` has made and `UpdateFinish` has not
sent: for these `Proposing` expects QUEUED. It is empty between two steps. `R` are
the races that have happened, `D` the premades that are stuck. The inductive invariant `IInv` is the types
(`Typed`: with them, that no premade is both new and old in the queue) and
`Inv(mgr, {}, races, stuck)` as long as no race of `Derailing` has happened. Two
strengthenings were found by failed proof steps: queue data that continue a
dungeon belong to a group of the finder (`Placed`), and the group a proposal
refills is one of its premades and of the finder (`Proposing`); without these
nothing says that the group `MakeNewGroup` refills is still there.

A handler is a chain of a dozen calls, so the proof does not go action by
action down to the stores. Each call has a lemma on what it does to the stores
(`...Effect`). Above these are a few shapes of change, each shown once to keep
`Inv`, whatever produced it: premades leave the finder or return to the queue
(`Moved`, lemma `Moves`), members leave a free group or it is disbanded (`Left`,
`Leaves`), somebody enters one (`Joins`), a premade is asked for its roles or
queued (`Engaged`, `Engages`), a proposal is found (`Proposes`) and sent
(`Sends`), a group is made (`Making`, `MakesGroup`). Every action is then a chain
of these (`...Keeps`). The loops of `MakeNewGroup` and of the expired proposals are
folds over finite sets; `RemoveProposalsEffect` and `GatherMakes` follow them with
`SubsetInduction`.

Theorems: `InductiveInvariant`, `TypeCorrectness` (in every behaviour),
`QueuedAreSearched`, `ProposedAreAsked`, `RoleChecksAreOpen`, `QueueMatches`,
`SelectionIsKept`. `EntryAssumption` says that an absent entry is not itself an
entry. TLC checked `IInv` on all states of `dungeonfinder_finder`, also with a
fourth request to join, and, by simulation, with 4 players, 6 groups and 2 proposals. The first attempt at
`ProposedAreAsked` failed on a behaviour outside the bounds of the run: a group
that is refilled while one of those who agreed is gone was not counted as `absent`.

Only model-checked:

* the liveness properties `TicksEnd`, `WorkersWoken`, `EventuallySettled`,
  `CloseReturns` and `RollEnds`: the prover does not reason about fairness and
  ENABLED.

Neither checked nor proved: after a race of `Derailing` the theorems about the
dungeon finder, like its run, claim types only.

Every invariant and every safety property of an action that a passing run checks
is also a theorem.

## 5. Plan

Proofs next: the liveness properties in a prover with fairness rules.

Models, where they would add most:

1. **Instance life cycle** (`InstanceSaves`, composed with `InstanceIds`):
   saves, binds of players and groups, reset, unload and re-entry; an id is
   freed only when no map and no bind uses it.
2. **Auction house over crashes**: the database image, transactions of the
   handlers, load and startup cleanup, deposit taken after the save.
3. **Map updater**: the clock modulo 2^32 and the destructor.
4. **Thread pool and event queue**: an abstract executor and both as its
   implementations, with their shutdown.
5. **Sessions**: packet queues between network, world and map threads, logout.
6. **Mail**: delivery, return and expiry under the lock of `MailMgr`.

## 6. Not modelled

Game mechanics (spells, units, AI, movement, collision) are large, data driven
and mostly floating point; they run inside `Map::Update`, on one thread per
map, and have no small instance that says much. Combat formulas and premium
codes are sequential and have unit tests. Authentication, logging,
configuration, monitoring, the extractors and the scripts are input and output
or content. Vendored code under `dep/` is left out.
