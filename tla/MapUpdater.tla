------------------------------ MODULE MapUpdater ------------------------------
(***************************************************************************)
(* The pool of worker threads that updates the maps, and the world thread  *)
(* that drives it: MapUpdater.cpp, with MapManager::Update as its caller.  *)
(*                                                                         *)
(* Every critical section of entryMutex or syncMutex is one step.  Wait()  *)
(* is the exception: a thread that dies decrements runningThreads WITHOUT  *)
(* syncMutex, so the step that reads the counter and the one that starts   *)
(* to wait on finishCondition are kept apart, and the world thread holds   *)
(* syncMutex between the two.                                              *)
(*                                                                         *)
(* The clock is abstracted to `window': how many more updates fit before   *)
(* stopTime.  Which queued entry fits, if any, is left open, because it    *)
(* depends on measured durations.                                          *)
(***************************************************************************)
EXTENDS Integers, FiniteSets

CONSTANTS
    Maps,             \* the addresses a Map object can live at
    Threads,          \* identities of std::thread objects
    InitialThreads,   \* MapUpdate.Threads when the server starts
    AllowShrink,      \* may a config reload lower MapUpdate.Threads?
    SpuriousWakeups,  \* may a condition variable wake a thread unasked?
    MaxWindow,        \* bound: updates that fit into one world tick
    Word              \* runningThreads is an unsigned integer modulo Word

ASSUME MapUpdaterAssumption ==
    /\ IsFiniteSet(Threads)
    /\ InitialThreads \in 1 .. Cardinality(Threads)
    /\ AllowShrink \in BOOLEAN
    /\ SpuriousWakeups \in BOOLEAN
    /\ MaxWindow \in Nat
    /\ Word \in Nat
    /\ Cardinality(Threads) < Word

VARIABLES
    maps,             \* keys of MapUpdater::maps; an entry is named by its map
    toBeRemoved,      \* entries with toBeRemoved set
    updateEntries,    \* entries in the multimap updateEntries
    allocated,        \* Map objects that have not been deleted
    window,           \* what is left of the time until stopTime
    workerThreads,    \* the vector of threads
    expectedThreads,
    runningThreads,
    pc,               \* program counter of each thread
    entry,            \* the entry a worker took from updateEntries
    world             \* program counter of the world thread

entryVars == <<maps, toBeRemoved, updateEntries, allocated, window>>
threadVars == <<workerThreads, expectedThreads>>
vars == <<entryVars, threadVars, runningThreads, pc, entry, world>>

WorkerPC == {"unborn", "check", "find", "update", "park", "parked",
             "exiting", "exitNotify"}
WorldPC == {"idle", "waiting", "waitEnter", "blocked", "delayed"}

\* The entries some worker has taken out of updateEntries.
Held == {entry[t] : t \in {u \in Threads : pc[u] = "update"}}

TypeOK ==
    /\ maps \subseteq Maps
    /\ toBeRemoved \subseteq Maps
    /\ updateEntries \subseteq Maps
    /\ allocated \subseteq Maps
    /\ window \in 0 .. MaxWindow
    /\ workerThreads \subseteq Threads
    /\ expectedThreads \in 1 .. Cardinality(Threads)
    /\ runningThreads \in 0 .. Word - 1
    /\ pc \in [Threads -> WorkerPC]
    /\ entry \in [Threads -> Maps]
    /\ world \in WorldPC

\* The constructor: all threads are started, none has run yet, stopTime = 0.
Init ==
    /\ maps = {} /\ toBeRemoved = {} /\ updateEntries = {} /\ allocated = {}
    /\ window = 0
    /\ workerThreads \in {W \in SUBSET Threads : Cardinality(W) = InitialThreads}
    /\ expectedThreads = InitialThreads
    /\ runningThreads = InitialThreads
    /\ pc = [t \in Threads |-> IF t \in workerThreads THEN "check" ELSE "unborn"]
    /\ entry \in [Threads -> Maps]
    /\ world = "idle"

-----------------------------------------------------------------------------
\* syncMutex is held across steps only by a world thread that has read
\* runningThreads and is about to wait.
SyncMutexFree == world # "waitEnter"

Goto(t, from, to) == pc[t] = from /\ pc' = [pc EXCEPT ![t] = to]

\* --runningThreads on an atomic<uint32>.
DecrementRunning == runningThreads' = (runningThreads - 1) % Word

\* finishCondition.notify_all(): only the world thread ever waits on it.
NotifyFinish == world' = IF world = "blocked" THEN "waiting" ELSE world

\* startCondition.notify_all(): every parked worker goes back to its loop head.
NotifyStart ==
    pc' = [t \in Threads |-> IF pc[t] = "parked" THEN "check" ELSE pc[t]]

-----------------------------------------------------------------------------
(* The worker threads. *)

\* Fault: the comparison is off by one.
CheckForShutdownOffByOne(t) ==
    /\ SyncMutexFree
    /\ \/ /\ expectedThreads > Cardinality(workerThreads)
          /\ Goto(t, "check", "find")
          /\ UNCHANGED workerThreads
       \/ /\ expectedThreads <= Cardinality(workerThreads)
          /\ Goto(t, "check", "exiting")
          /\ workerThreads' = workerThreads \ {t}
    /\ UNCHANGED <<entryVars, expectedThreads, runningThreads, entry, world>>

CheckForShutdown(t) ==
    /\ SyncMutexFree
    /\ \/ /\ expectedThreads >= Cardinality(workerThreads)
          /\ Goto(t, "check", "find")
          /\ UNCHANGED workerThreads
       \/ /\ expectedThreads < Cardinality(workerThreads)
          /\ Goto(t, "check", "exiting")
          /\ workerThreads' = workerThreads \ {t}
    /\ UNCHANGED <<entryVars, expectedThreads, runningThreads, entry, world>>

\* Fault: stopTime is pushed back by every update, so the tick has no end.
TakeEntryForever(t) ==
    /\ Goto(t, "find", "update")
    /\ \E m \in updateEntries \ toBeRemoved :
          /\ updateEntries' = updateEntries \ {m}
          /\ entry' = [entry EXCEPT ![t] = m]
    /\ UNCHANGED <<maps, toBeRemoved, allocated, window, threadVars, runningThreads, world>>

\* FindNextUpdateMap takes an entry that still fits into the window ...
TakeEntry(t) ==
    /\ Goto(t, "find", "update")
    /\ window > 0
    /\ window' = window - 1
    /\ \E m \in updateEntries \ toBeRemoved :
          /\ updateEntries' = updateEntries \ {m}
          /\ entry' = [entry EXCEPT ![t] = m]
    /\ UNCHANGED <<maps, toBeRemoved, allocated, threadVars, runningThreads, world>>

\* ... or finds none.
FindNothing(t) ==
    /\ Goto(t, "find", "park")
    /\ UNCHANGED <<entryVars, threadVars, runningThreads, entry, world>>

\* The map has been updated; its entry goes back into the multimap.
FinishUpdate(t) ==
    /\ Goto(t, "update", "check")
    /\ updateEntries' = updateEntries \cup {entry[t]}
    /\ UNCHANGED <<maps, toBeRemoved, allocated, window, threadVars,
                   runningThreads, entry, world>>

\* Nothing left to do: count down, tell the world thread, wait for a start.
Park(t) ==
    /\ SyncMutexFree
    /\ Goto(t, "park", "parked")
    /\ DecrementRunning
    /\ NotifyFinish
    /\ UNCHANGED <<entryVars, threadVars, entry>>

\* The end of WorkerThread(), not protected by syncMutex.
ExitDecrement(t) ==
    /\ Goto(t, "exiting", "exitNotify")
    /\ DecrementRunning
    /\ UNCHANGED <<entryVars, threadVars, entry, world>>

ExitNotify(t) ==
    /\ Goto(t, "exitNotify", "unborn")
    /\ NotifyFinish
    /\ UNCHANGED <<entryVars, threadVars, runningThreads, entry>>

Worker(t) ==
    \/ CheckForShutdown(t)
    \/ TakeEntry(t)
    \/ FindNothing(t)
    \/ FinishUpdate(t)
    \/ Park(t)
    \/ ExitDecrement(t)
    \/ ExitNotify(t)

-----------------------------------------------------------------------------
(* The world thread. *)

\* Fault: one worker is not counted.
StartUpdatesMiscounted ==
    /\ world = "idle"
    /\ window' \in 0 .. MaxWindow
    /\ runningThreads' = Cardinality(workerThreads) - 1
    /\ NotifyStart
    /\ world' = "waiting"
    /\ UNCHANGED <<maps, toBeRemoved, updateEntries, allocated, threadVars, entry>>

\* Fault: nobody is woken when there is no map to update.
StartUpdatesIfAny ==
    /\ world = "idle"
    /\ window' \in 0 .. MaxWindow
    /\ \/ /\ updateEntries # {}
          /\ runningThreads' = Cardinality(workerThreads)
          /\ NotifyStart
       \/ /\ updateEntries = {}
          /\ UNCHANGED <<runningThreads, pc>>
    /\ world' = "waiting"
    /\ UNCHANGED <<maps, toBeRemoved, updateEntries, allocated, threadVars, entry>>

StartUpdates ==
    /\ world = "idle"
    /\ window' \in 0 .. MaxWindow
    /\ runningThreads' = Cardinality(workerThreads)
    /\ NotifyStart
    /\ world' = "waiting"
    /\ UNCHANGED <<maps, toBeRemoved, updateEntries, allocated, threadVars, entry>>

\* Wait(): the loop condition, read with syncMutex held.
WaitCheck ==
    /\ world = "waiting"
    /\ world' = IF runningThreads > 0 THEN "waitEnter" ELSE "delayed"
    /\ UNCHANGED <<entryVars, threadVars, runningThreads, pc, entry>>

\* finishCondition.wait(lock): syncMutex is released, the thread sleeps.
WaitBlock ==
    /\ world = "waitEnter"
    /\ world' = "blocked"
    /\ UNCHANGED <<entryVars, threadVars, runningThreads, pc, entry>>

\* Fault: instances are destroyed before Wait() has returned.
DestroyInstanceTooEarly(m) ==
    /\ world # "idle"
    /\ m \in maps \ toBeRemoved
    /\ toBeRemoved' = toBeRemoved \cup {m}
    /\ allocated' = allocated \ {m}
    /\ UNCHANGED <<maps, updateEntries, window, threadVars, runningThreads,
                   pc, entry, world>>

\* MapInstanced::DelayedUpdate destroys an instance that may be unloaded:
\* RemoveMap only flags the entry, the Map object is deleted at once.
DestroyInstance(m) ==
    /\ world = "delayed"
    /\ m \in maps \ toBeRemoved
    /\ toBeRemoved' = toBeRemoved \cup {m}
    /\ allocated' = allocated \ {m}
    /\ UNCHANGED <<maps, updateEntries, window, threadVars, runningThreads,
                   pc, entry, world>>

\* Past its ASSERT(runningThreads == 0), Cleanup forgets the flagged entries.
Cleanup ==
    /\ world = "delayed"
    /\ runningThreads = 0
    /\ updateEntries' = updateEntries \ (toBeRemoved \cap maps)
    /\ maps' = maps \ toBeRemoved
    /\ toBeRemoved' = toBeRemoved \ maps
    /\ world' = "idle"
    /\ UNCHANGED <<allocated, window, threadVars, runningThreads, pc, entry>>

\* A config reload: SetThreadCount runs on the world thread.
SetThreadCount(n) ==
    /\ world = "idle"
    /\ n # expectedThreads
    /\ n < Cardinality(workerThreads) => AllowShrink
    /\ expectedThreads' = n
    /\ \/ /\ n < Cardinality(workerThreads)
          /\ NotifyStart
          /\ UNCHANGED <<workerThreads, runningThreads>>
       \/ /\ n >= Cardinality(workerThreads)
          /\ \E Spawned \in SUBSET {t \in Threads : pc[t] = "unborn"} :
                /\ Cardinality(Spawned) = n - Cardinality(workerThreads)
                /\ workerThreads' = workerThreads \cup Spawned
                /\ pc' = [t \in Threads |-> IF t \in Spawned THEN "check" ELSE pc[t]]
          /\ runningThreads' =
                (runningThreads + (n - Cardinality(workerThreads))) % Word
    /\ UNCHANGED <<entryVars, entry, world>>

\* AddMap: from the world thread (a player enters a new instance), or from a
\* worker inside Map::Update (a transport crosses into an unloaded continent).
AddMap(m) ==
    /\ m \notin maps
    /\ world = "idle" \/ \E t \in Threads : pc[t] = "update"
    /\ maps' = maps \cup {m}
    /\ updateEntries' = updateEntries \cup {m}
    /\ allocated' = allocated \cup {m}
    /\ UNCHANGED <<toBeRemoved, window, threadVars, runningThreads, pc, entry, world>>

World ==
    \/ StartUpdates
    \/ WaitCheck
    \/ WaitBlock
    \/ Cleanup

\* A wait() returns although nobody called notify.
SpuriousWakeup ==
    /\ SpuriousWakeups
    /\ \/ /\ \E t \in Threads : Goto(t, "parked", "check")
          /\ UNCHANGED world
       \/ /\ world = "blocked"
          /\ world' = "waiting"
          /\ UNCHANGED pc
    /\ UNCHANGED <<entryVars, threadVars, runningThreads, entry>>

Next ==
    \/ \E t \in Threads : Worker(t)
    \/ World
    \/ \E m \in Maps : DestroyInstance(m) \/ AddMap(m)
    \/ \E n \in 1 .. Cardinality(Threads) : SetThreadCount(n)
    \/ SpuriousWakeup

\* Every thread that can run is run by the scheduler, and the world loop
\* never ends; nothing forces maps to come and go or the config to change.
Fairness == WF_vars(World) /\ \A t \in Threads : WF_vars(Worker(t))

Spec == Init /\ [][Next]_vars
FairSpec == Spec /\ Fairness

-----------------------------------------------------------------------------
(* What makes the pool correct. *)

\* MapManager::Update calls DelayedUpdate and Cleanup after Wait() because
\* then the world thread has the maps to itself: no worker is updating one,
\* and none will start to before the next StartUpdates.
WorldHasMapsToItself ==
    world = "delayed" => \A t \in workerThreads : pc[t] = "parked"

\* ASSERT(runningThreads == 0) in Cleanup never fires.
CleanupAssertion == world = "delayed" => runningThreads = 0

\* A map is updated by one worker at a time, and a worker that is inside
\* Map::Update has an object that was not deleted under it.
OneUpdaterPerMap ==
    /\ \A t, u \in Threads :
          pc[t] = "update" /\ pc[u] = "update" /\ entry[t] = entry[u] => t = u
    /\ Held \subseteq allocated

\* No entry is lost: each registered map is in the multimap or with exactly
\* one worker, never in both, and what is in the multimap is registered.
NoEntryLost ==
    /\ maps = updateEntries \cup Held
    /\ updateEntries \cap Held = {}

\* GetMaximumEstimatedUpdateTime, called at the head of MapManager::Update,
\* dereferences the map of every entry in the multimap, flagged or not.
EstimateReadsLiveMaps == world = "idle" => updateEntries \subseteq allocated

\* ASSERT(itr != workerThreads.end()) in CheckForShutdown: a thread that
\* runs its loop, and no other, is in the vector; and no reload, however the
\* threads race to die, leaves fewer threads than configured.
PoolNeverBelowTarget ==
    /\ \A t \in Threads :
          t \in workerThreads <=> pc[t] \in {"check", "find", "update", "park", "parked"}
    /\ expectedThreads <= Cardinality(workerThreads)

\* The pool implements the barrier that MapManager::Update relies on.
Barrier == INSTANCE MapBarrier WITH
              live <- allocated, updating <- Held, exclusive <- (world = "delayed")
ImplementsBarrier == Barrier!Spec

\* The inductive invariant behind the properties above, for a pool that
\* is not shrunk and whose waits only end by notify: the counter is exactly
\* the number of workers that are not parked.
Active == {t \in Threads : pc[t] \notin {"unborn", "parked"}}

PoolInv ==
    /\ \A t \in Threads : pc[t] = "unborn" <=> t \notin workerThreads
    /\ \A t \in Threads : pc[t] \notin {"exiting", "exitNotify"}
    /\ expectedThreads = Cardinality(workerThreads)
CounterInv ==
    /\ runningThreads = Cardinality(Active)
    /\ world = "delayed" => runningThreads = 0
EntryInv ==
    /\ NoEntryLost
    /\ \A t, u \in Threads :
          pc[t] = "update" /\ pc[u] = "update" /\ entry[t] = entry[u] => t = u
    /\ allocated = maps \ toBeRemoved
    /\ toBeRemoved \subseteq maps
    /\ toBeRemoved # {} => world = "delayed"
IInv == TypeOK /\ PoolInv /\ CounterInv /\ EntryInv

\* Every world tick ends: Wait() returns, so the world thread is back at its
\* loop head again and again.
TicksEnd == []<>(world = "idle")

\* A worker does not sleep through ticks for ever while maps are being
\* updated: every thread of the pool is woken again and again.
WorkersWoken ==
    \A t \in Threads : []<>(t \in workerThreads => pc[t] # "parked")
=============================================================================
