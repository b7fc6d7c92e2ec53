----------------------------- MODULE MapProofs -----------------------------
(***************************************************************************)
(* Proofs about the maps.                                                  *)
(*                                                                         *)
(* MapUpdater, for any number of maps, threads and updates per tick.  Type *)
(* correctness needs no assumption.  The rest is about a pool whose thread *)
(* count is never lowered and whose waits end only by notify (NotShrunk,   *)
(* NoSpurious): with either, the counter can go wrong.                     *)
(*                                                                         *)
(* InstanceIds, for every block size, word size and number of ids: freed   *)
(* ids are reused first and never leak, and only ids on a block boundary   *)
(* can be handed out twice.                                                *)
(***************************************************************************)
EXTENDS MapUpdater, InstanceIds, FiniteSetTheorems, TLAPS


NotShrunk == AllowShrink = FALSE
NoSpurious == SpuriousWakeups = FALSE

(* A number below the modulus is its own remainder; remainders are below it. *)
LEMMA ModSmall ==
    ASSUME NEW a \in Nat, NEW w \in Nat, a < w
    PROVE  a % w = a
  OBVIOUS

(* --runningThreads stays an unsigned word, even when it wraps. *)
LEMMA ModRange ==
    ASSUME NEW a \in Int, NEW w \in Nat, w > 0
    PROVE  a % w \in 0 .. w - 1
  OBVIOUS

(* Sets of threads are finite, and no larger than Threads. *)
LEMMA ThreadSets ==
    ASSUME NEW S \in SUBSET Threads
    PROVE  /\ IsFiniteSet(S)
           /\ Cardinality(S) \in Nat
           /\ Cardinality(S) <= Cardinality(Threads)
           /\ Cardinality(S) < Word
           /\ Cardinality(Threads) \in Nat
           /\ Word \in Nat
  BY FS_Subset, FS_CardinalityType, MapUpdaterAssumption

(* The cardinality of a disjoint union. *)
LEMMA DisjointCardinality ==
    ASSUME NEW S, NEW T, IsFiniteSet(S), IsFiniteSet(T), S \cap T = {}
    PROVE  Cardinality(S \cup T) = Cardinality(S) + Cardinality(T)
<1>1. Cardinality(S \cup T) = Cardinality(S) + Cardinality(T) - Cardinality(S \cap T)
  BY FS_Union
<1>2. Cardinality(S \cap T) = 0
  BY FS_EmptySet
<1>3. Cardinality(S) \in Nat /\ Cardinality(T) \in Nat
  BY FS_CardinalityType
<1> QED
  BY <1>1, <1>2, <1>3

-----------------------------------------------------------------------------
(* TypeOK is inductive by itself. *)
LEMMA TypeInit == Init => TypeOK
<1> SUFFICES ASSUME Init PROVE TypeOK
  OBVIOUS
<1>1. workerThreads \subseteq Threads
  BY DEF Init
<1>2. InitialThreads \in 0 .. Word - 1 /\ InitialThreads \in 1 .. Cardinality(Threads)
  BY ThreadSets, MapUpdaterAssumption
<1>3. 0 \in 0 .. MaxWindow
  BY MapUpdaterAssumption
<1> QED
  BY <1>1, <1>2, <1>3 DEF Init, TypeOK, WorkerPC, WorldPC

(* Every step, reloads and spurious wake-ups included, keeps the types. *)
LEMMA TypeStep ==
    ASSUME TypeOK, [Next]_vars
    PROVE  TypeOK'
<1> USE DEF TypeOK, WorkerPC, WorldPC, Goto, NotifyFinish, NotifyStart,
            entryVars, threadVars
<1>0. /\ Word > 0 /\ Word \in Nat /\ MaxWindow \in Nat
      /\ Cardinality(workerThreads) \in 0 .. Word - 1
  BY ThreadSets, MapUpdaterAssumption
<1>1. ASSUME DecrementRunning PROVE runningThreads' \in 0 .. Word - 1
  BY <1>0, <1>1, ModRange DEF DecrementRunning
<1>2. ASSUME NEW t \in Threads, CheckForShutdown(t) PROVE TypeOK'
  BY <1>2 DEF CheckForShutdown
<1>3. ASSUME NEW t \in Threads, TakeEntry(t) PROVE TypeOK'
  BY <1>3, <1>0 DEF TakeEntry
<1>4. ASSUME NEW t \in Threads, FindNothing(t) PROVE TypeOK'
  BY <1>4 DEF FindNothing
<1>5. ASSUME NEW t \in Threads, FinishUpdate(t) PROVE TypeOK'
  BY <1>5 DEF FinishUpdate
<1>6. ASSUME NEW t \in Threads, Park(t) PROVE TypeOK'
  BY <1>6, <1>1 DEF Park
<1>7. ASSUME NEW t \in Threads, ExitDecrement(t) PROVE TypeOK'
  BY <1>7, <1>1 DEF ExitDecrement
<1>8. ASSUME NEW t \in Threads, ExitNotify(t) PROVE TypeOK'
  BY <1>8 DEF ExitNotify
<1>9. CASE StartUpdates
  BY <1>9, <1>0 DEF StartUpdates
<1>10. CASE WaitCheck
  BY <1>10 DEF WaitCheck
<1>11. CASE WaitBlock
  BY <1>11 DEF WaitBlock
<1>12. CASE Cleanup
  BY <1>12 DEF Cleanup
<1>13. ASSUME NEW m \in Maps, DestroyInstance(m) PROVE TypeOK'
  BY <1>13 DEF DestroyInstance
<1>14. ASSUME NEW m \in Maps, AddMap(m) PROVE TypeOK'
  BY <1>14 DEF AddMap
<1>15. ASSUME NEW n \in 1 .. Cardinality(Threads), SetThreadCount(n) PROVE TypeOK'
  <2>1. CASE /\ n < Cardinality(workerThreads)
             /\ NotifyStart
             /\ UNCHANGED <<workerThreads, runningThreads>>
    BY <1>15, <2>1 DEF SetThreadCount
  <2>2. CASE n >= Cardinality(workerThreads) /\ ~(n < Cardinality(workerThreads))
    <3>1. n - Cardinality(workerThreads) \in Nat
      BY <1>0, <2>2, ThreadSets
    <3>2. runningThreads' \in 0 .. Word - 1
      BY <1>15, <2>2, <3>1, <1>0, ModRange DEF SetThreadCount
    <3> QED
      BY <1>15, <2>2, <3>2 DEF SetThreadCount
  <2> QED
    BY <1>15, <2>1, <2>2, <1>0, ThreadSets DEF SetThreadCount
<1>16. CASE SpuriousWakeup
  BY <1>16 DEF SpuriousWakeup
<1>17. CASE UNCHANGED vars
  BY <1>17 DEF vars
<1> QED
  BY <1>2, <1>3, <1>4, <1>5, <1>6, <1>7, <1>8, <1>9, <1>10, <1>11, <1>12,
     <1>13, <1>14, <1>15, <1>16, <1>17 DEF Next, Worker, World

(* Every variable of the pool stays in its type: in particular the unsigned *)
(* counter runningThreads, whatever reloads and spurious wake-ups do to it.  *)
THEOREM TypeCorrect == Spec => []TypeOK
<1>1. Init => TypeOK
  BY TypeInit
<1>2. TypeOK /\ [Next]_vars => TypeOK'
  BY TypeStep
<1> QED
  BY <1>1, <1>2, PTL DEF Spec

-----------------------------------------------------------------------------
(* How a step changes the set of active workers, and hence the counter.   *)

(* There are fewer active workers than the counter can count. *)
LEMMA ActiveFinite ==
    ASSUME TypeOK
    PROVE  /\ IsFiniteSet(Active) /\ Cardinality(Active) \in Nat
           /\ Cardinality(Active) < Word
           /\ Active \subseteq Threads
  BY ThreadSets DEF Active

(* A step that keeps every thread on its side of the parked/active divide. *)
LEMMA ActiveSame ==
    ASSUME \A t \in Threads : pc'[t] \in {"unborn", "parked"} <=> pc[t] \in {"unborn", "parked"}
    PROVE  Active' = Active
  BY DEF Active

(* The constructor counts exactly the threads it starts. *)
LEMMA CounterInit ==
    ASSUME Init
    PROVE  PoolInv /\ CounterInv
<1>1. Active = workerThreads
  BY DEF Init, Active
<1> QED
  BY <1>1 DEF Init, PoolInv, CounterInv

(* Parking is the only step that counts down, by the one thread that leaves. *)
LEMMA CounterPark ==
    ASSUME TypeOK, CounterInv, NEW t \in Threads, Park(t)
    PROVE  CounterInv'
<1>1. t \in Active /\ Active' = Active \ {t}
  BY DEF Park, Goto, Active, TypeOK
<1>2. Cardinality(Active') = Cardinality(Active) - 1
  BY <1>1, ActiveFinite, FS_RemoveElement
<1>3. Cardinality(Active) > 0
  BY <1>1, ActiveFinite, FS_EmptySet
<1>4. runningThreads' = Cardinality(Active')
  <2>1. runningThreads' = (runningThreads - 1) % Word
    BY DEF Park, DecrementRunning
  <2>2. /\ runningThreads - 1 \in Nat
        /\ runningThreads - 1 < Word
        /\ runningThreads - 1 = Cardinality(Active')
    BY <1>2, <1>3, ActiveFinite, MapUpdaterAssumption DEF CounterInv
  <2>3. (runningThreads - 1) % Word = runningThreads - 1
    BY <2>2, MapUpdaterAssumption, ModSmall
  <2> QED
    BY <2>1, <2>2, <2>3
<1>5. world' # "delayed"
  <2>1. runningThreads > 0
    BY <1>3 DEF CounterInv
  <2>2. world # "delayed"
    BY <2>1 DEF CounterInv
  <2> QED
    BY <2>2 DEF Park, NotifyFinish
<1> QED
  BY <1>4, <1>5 DEF CounterInv

(* StartUpdates: every thread of the vector is active, and is counted. *)
LEMMA CounterStart ==
    ASSUME TypeOK, PoolInv, StartUpdates
    PROVE  CounterInv'
<1>1. Active' = workerThreads
  BY DEF StartUpdates, NotifyStart, Active, PoolInv, TypeOK
<1> QED
  BY <1>1 DEF StartUpdates, CounterInv

(* A growing pool counts the threads it spawns. *)
LEMMA CounterGrow ==
    ASSUME TypeOK, PoolInv, CounterInv, NotShrunk,
           NEW n \in 1 .. Cardinality(Threads), SetThreadCount(n)
    PROVE  PoolInv' /\ CounterInv'
<1>0. Cardinality(workerThreads) \in Nat /\ Cardinality(Threads) \in Nat
  BY ThreadSets DEF TypeOK
<1>1. n >= Cardinality(workerThreads) /\ ~(n < Cardinality(workerThreads))
  BY <1>0 DEF SetThreadCount, NotShrunk
<1>2. PICK Spawned \in SUBSET {t \in Threads : pc[t] = "unborn"} :
         /\ Cardinality(Spawned) = n - Cardinality(workerThreads)
         /\ workerThreads' = workerThreads \cup Spawned
         /\ pc' = [t \in Threads |-> IF t \in Spawned THEN "check" ELSE pc[t]]
         /\ runningThreads' = (runningThreads + (n - Cardinality(workerThreads))) % Word
  BY <1>1 DEF SetThreadCount
<1>3. /\ Spawned \subseteq Threads
      /\ workerThreads \cap Spawned = {}
      /\ Active \cap Spawned = {}
  BY <1>2 DEF PoolInv, Active
<1>4. Active' = Active \cup Spawned
  BY <1>2, <1>3 DEF Active, TypeOK
<1>5. /\ IsFiniteSet(Spawned) /\ IsFiniteSet(workerThreads) /\ IsFiniteSet(Active)
      /\ Cardinality(Spawned) \in Nat /\ Cardinality(Active) \in Nat
  BY <1>3, ThreadSets, ActiveFinite DEF TypeOK
<1>6. Cardinality(Active') = Cardinality(Active) + Cardinality(Spawned)
  BY <1>3, <1>4, <1>5, DisjointCardinality
<1>7. Cardinality(workerThreads') = n
  <2>1. Cardinality(workerThreads \cup Spawned)
           = Cardinality(workerThreads) + Cardinality(Spawned)
    BY <1>3, <1>5, DisjointCardinality
  <2> QED
    BY <2>1, <1>0, <1>2
<1>8. PoolInv'
  <2>1. expectedThreads' = n
    BY DEF SetThreadCount
  <2> QED
    BY <1>2, <1>3, <1>7, <2>1 DEF PoolInv, TypeOK
<1>9. runningThreads' = Cardinality(Active')
  <2>1. Cardinality(Active') \in Nat /\ Cardinality(Active') < Word
    BY <1>4, <1>3, ActiveFinite, ThreadSets
  <2>2. runningThreads + (n - Cardinality(workerThreads)) = Cardinality(Active')
    BY <1>2, <1>6 DEF CounterInv
  <2> QED
    BY <1>2, <2>1, <2>2, ModSmall, MapUpdaterAssumption
<1>10. world' # "delayed"
  BY DEF SetThreadCount
<1> QED
  BY <1>8, <1>9, <1>10 DEF CounterInv

(* The pool and its counter, over every step. *)
LEMMA CounterStep ==
    ASSUME TypeOK, PoolInv, CounterInv, NotShrunk, NoSpurious, [Next]_vars
    PROVE  PoolInv' /\ CounterInv'
<1> USE DEF entryVars, threadVars
<1>1. ASSUME NEW t \in Threads, CheckForShutdown(t) PROVE PoolInv' /\ CounterInv'
  <2>1. Cardinality(workerThreads) \in Nat
    BY ThreadSets DEF TypeOK
  <2>2. /\ pc[t] = "check" /\ pc' = [pc EXCEPT ![t] = "find"]
        /\ UNCHANGED <<workerThreads, expectedThreads, runningThreads, world>>
    BY <1>1, <2>1 DEF CheckForShutdown, PoolInv, Goto
  <2>3. Active' = Active
    BY <2>2, ActiveSame DEF TypeOK
  <2> QED
    BY <2>2, <2>3 DEF PoolInv, CounterInv, TypeOK
<1>2. ASSUME NEW t \in Threads, TakeEntry(t) \/ FindNothing(t) \/ FinishUpdate(t)
      PROVE  PoolInv' /\ CounterInv'
  <2>1. UNCHANGED <<workerThreads, expectedThreads, runningThreads, world>>
    BY <1>2 DEF TakeEntry, FindNothing, FinishUpdate
  <2>2. /\ pc[t] \in {"find", "update"}
        /\ \E to \in {"update", "park", "check"} : pc' = [pc EXCEPT ![t] = to]
    BY <1>2 DEF TakeEntry, FindNothing, FinishUpdate, Goto
  <2>3. Active' = Active
    BY <2>2, ActiveSame DEF TypeOK
  <2> QED
    BY <2>1, <2>2, <2>3 DEF PoolInv, CounterInv, TypeOK
<1>3. ASSUME NEW t \in Threads, Park(t) PROVE PoolInv' /\ CounterInv'
  <2>1. PoolInv'
    BY <1>3 DEF Park, Goto, PoolInv, TypeOK
  <2> QED
    BY <1>3, <2>1, CounterPark
<1>4. ASSUME NEW t \in Threads, ExitDecrement(t) \/ ExitNotify(t) PROVE FALSE
  BY <1>4 DEF ExitDecrement, ExitNotify, Goto, PoolInv
<1>5. CASE StartUpdates
  <2>1. PoolInv'
    BY <1>5 DEF StartUpdates, NotifyStart, PoolInv, TypeOK
  <2> QED
    BY <1>5, <2>1, CounterStart
<1>6. CASE WaitCheck \/ WaitBlock \/ Cleanup
  <2>1. UNCHANGED <<workerThreads, expectedThreads, runningThreads, pc>>
    BY <1>6 DEF WaitCheck, WaitBlock, Cleanup
  <2>2. Active' = Active
    BY <2>1, ActiveSame
  <2>3. world' = "delayed" => runningThreads = 0
    BY <1>6 DEF WaitCheck, WaitBlock, Cleanup, TypeOK
  <2> QED
    BY <2>1, <2>2, <2>3 DEF PoolInv, CounterInv
<1>7. ASSUME NEW m \in Maps, DestroyInstance(m) \/ AddMap(m) PROVE PoolInv' /\ CounterInv'
  <2>1. UNCHANGED <<workerThreads, expectedThreads, runningThreads, pc, world>>
    BY <1>7 DEF DestroyInstance, AddMap
  <2> QED
    BY <2>1 DEF PoolInv, CounterInv, Active
<1>8. ASSUME NEW n \in 1 .. Cardinality(Threads), SetThreadCount(n)
      PROVE  PoolInv' /\ CounterInv'
  BY <1>8, CounterGrow
<1>9. CASE SpuriousWakeup
  BY <1>9 DEF SpuriousWakeup, NoSpurious
<1>10. CASE UNCHANGED vars
  BY <1>10 DEF vars, PoolInv, CounterInv, Active
<1> QED
  BY <1>1, <1>2, <1>3, <1>4, <1>5, <1>6, <1>7, <1>8, <1>9, <1>10
     DEF Next, Worker, World

-----------------------------------------------------------------------------
(* When the counter is zero no worker holds an entry. *)
LEMMA NothingHeld ==
    ASSUME TypeOK, CounterInv, runningThreads = 0
    PROVE  Active = {} /\ Held = {}
<1>1. Active = {}
  BY ActiveFinite, FS_EmptySet DEF CounterInv
<1> QED
  BY <1>1 DEF Active, Held

(* How the steps of one worker change the set of held entries. *)
LEMMA HeldTake ==
    ASSUME TypeOK, NEW t \in Threads, TakeEntry(t)
    PROVE  /\ entry'[t] \in updateEntries \ toBeRemoved
           /\ updateEntries' = updateEntries \ {entry'[t]}
           /\ pc[t] # "update" /\ pc' = [pc EXCEPT ![t] = "update"]
           /\ entry' = [entry EXCEPT ![t] = entry'[t]]
           /\ Held' = Held \cup {entry'[t]}
<1>1. PICK m \in updateEntries \ toBeRemoved :
         /\ updateEntries' = updateEntries \ {m}
         /\ entry' = [entry EXCEPT ![t] = m]
  BY DEF TakeEntry
<1>2. pc[t] # "update" /\ pc' = [pc EXCEPT ![t] = "update"]
  BY DEF TakeEntry, Goto
<1>3. entry'[t] = m
  BY <1>1 DEF TypeOK
<1>4. Held' = Held \cup {m}
  BY <1>1, <1>2 DEF Held, TypeOK
<1> QED
  BY <1>1, <1>2, <1>3, <1>4

(* A worker that finishes puts back the one entry it held. *)
LEMMA HeldFinish ==
    ASSUME TypeOK, EntryInv, NEW t \in Threads, FinishUpdate(t)
    PROVE  /\ entry[t] \in Held
           /\ Held' = Held \ {entry[t]}
           /\ updateEntries' = updateEntries \cup {entry[t]}
<1>1. /\ pc[t] = "update" /\ pc' = [pc EXCEPT ![t] = "check"]
      /\ entry' = entry /\ updateEntries' = updateEntries \cup {entry[t]}
  BY DEF FinishUpdate, Goto
<1>2. \A u \in Threads : pc'[u] = "update" <=> pc[u] = "update" /\ u # t
  BY <1>1 DEF TypeOK
<1>3. \A u \in Threads : pc[u] = "update" /\ u # t => entry[u] # entry[t]
  BY <1>1 DEF EntryInv
<1>4. Held' = Held \ {entry[t]}
  BY <1>1, <1>2, <1>3 DEF Held
<1> QED
  BY <1>1, <1>4 DEF Held

(* A step that moves no thread into or out of Map::Update. *)
LEMMA HeldSame ==
    ASSUME UNCHANGED entry,
           \A t \in Threads : pc'[t] = "update" <=> pc[t] = "update"
    PROVE  Held' = Held
  BY DEF Held

(* The entries, over every step; needs the counter to be exact. *)
LEMMA EntryStep ==
    ASSUME TypeOK, CounterInv, EntryInv, [Next]_vars
    PROVE  EntryInv'
<1> USE DEF entryVars, threadVars
<1>1. ASSUME NEW t \in Threads, TakeEntry(t) PROVE EntryInv'
  <2>1. UNCHANGED <<maps, toBeRemoved, allocated, world>>
    BY <1>1 DEF TakeEntry
  <2>2. NoEntryLost'
    BY <1>1, <2>1, HeldTake DEF EntryInv, NoEntryLost
  <2>3. \A u \in Threads : pc[u] = "update" => entry[u] # entry'[t]
    BY <1>1, HeldTake DEF EntryInv, NoEntryLost, Held
  <2>4. \A u, v \in Threads :
           pc'[u] = "update" /\ pc'[v] = "update" /\ entry'[u] = entry'[v] => u = v
    BY <1>1, <2>3, HeldTake DEF EntryInv, TypeOK
  <2> QED
    BY <2>1, <2>2, <2>4 DEF EntryInv
<1>2. ASSUME NEW t \in Threads, FinishUpdate(t) PROVE EntryInv'
  <2>1. UNCHANGED <<maps, toBeRemoved, allocated, world, entry>>
    BY <1>2 DEF FinishUpdate
  <2>2. NoEntryLost'
    BY <1>2, <2>1, HeldFinish DEF EntryInv, NoEntryLost
  <2>3. \A u \in Threads : pc'[u] = "update" => pc[u] = "update"
    BY <1>2 DEF FinishUpdate, Goto, TypeOK
  <2> QED
    BY <2>1, <2>2, <2>3 DEF EntryInv
<1>3. ASSUME UNCHANGED <<maps, toBeRemoved, updateEntries, allocated, entry>>,
             \A t \in Threads : pc'[t] = "update" <=> pc[t] = "update",
             toBeRemoved # {} => world' = "delayed"
      PROVE  EntryInv'
  <2>1. Held' = Held
    BY <1>3, HeldSame
  <2> QED
    BY <1>3, <2>1 DEF EntryInv, NoEntryLost
<1>4. ASSUME NEW t \in Threads,
             CheckForShutdown(t) \/ FindNothing(t) \/ Park(t)
                \/ ExitDecrement(t) \/ ExitNotify(t)
      PROVE  EntryInv'
  <2>1. UNCHANGED <<maps, toBeRemoved, updateEntries, allocated, entry>>
    BY <1>4 DEF CheckForShutdown, FindNothing, Park, ExitDecrement, ExitNotify
  <2>2. \A u \in Threads : pc'[u] = "update" <=> pc[u] = "update"
    BY <1>4 DEF CheckForShutdown, FindNothing, Park, ExitDecrement, ExitNotify, Goto, TypeOK
  <2>3. world = "delayed" => world' = "delayed"
    BY <1>4 DEF CheckForShutdown, FindNothing, Park, ExitDecrement, ExitNotify, NotifyFinish
  <2> QED
    BY <1>3, <2>1, <2>2, <2>3 DEF EntryInv
<1>5. CASE StartUpdates \/ WaitCheck \/ WaitBlock \/ SpuriousWakeup
           \/ \E n \in 1 .. Cardinality(Threads) : SetThreadCount(n)
  <2>1. UNCHANGED <<maps, toBeRemoved, updateEntries, allocated, entry>>
    BY <1>5 DEF StartUpdates, WaitCheck, WaitBlock, SpuriousWakeup, SetThreadCount
  <2>2. \A u \in Threads : pc'[u] = "update" <=> pc[u] = "update"
    BY <1>5 DEF StartUpdates, WaitCheck, WaitBlock, SpuriousWakeup, SetThreadCount,
                NotifyStart, Goto, TypeOK
  <2>3. world = "delayed" => world' = "delayed"
    BY <1>5 DEF StartUpdates, WaitCheck, WaitBlock, SpuriousWakeup, SetThreadCount
  <2> QED
    BY <1>3, <2>1, <2>2, <2>3 DEF EntryInv
<1>6. CASE Cleanup
  <2>1. Held = {}
    BY <1>6, NothingHeld DEF Cleanup
  <2>2. Held' = Held
    BY <1>6, HeldSame DEF Cleanup
  <2> QED
    BY <1>6, <2>1, <2>2 DEF Cleanup, EntryInv, NoEntryLost
<1>7. ASSUME NEW m \in Maps, DestroyInstance(m) PROVE EntryInv'
  <2>1. Held' = Held
    BY <1>7, HeldSame DEF DestroyInstance
  <2> QED
    BY <1>7, <2>1 DEF DestroyInstance, EntryInv, NoEntryLost
<1>8. ASSUME NEW m \in Maps, AddMap(m) PROVE EntryInv'
  <2>1. Held' = Held
    BY <1>8, HeldSame DEF AddMap
  <2> QED
    BY <1>8, <2>1 DEF AddMap, EntryInv, NoEntryLost
<1>9. CASE UNCHANGED vars
  BY <1>9, <1>3 DEF vars, EntryInv
<1> QED
  BY <1>1, <1>2, <1>4, <1>5, <1>6, <1>7, <1>8, <1>9 DEF Next, Worker, World

-----------------------------------------------------------------------------
(* The inductive invariant holds in every state: the atomic counter equals  *)
(* the number of workers that have not parked, and every entry is in the    *)
(* multimap or with exactly one worker.                                     *)
THEOREM InductiveInvariant ==
    ASSUME NotShrunk, NoSpurious
    PROVE  Spec => []IInv
<1>1. Init => IInv
  <2>1. Init => EntryInv
    BY DEF Init, EntryInv, NoEntryLost, Held
  <2> QED
    BY <2>1, TypeInit, CounterInit DEF IInv
<1>2. IInv /\ [Next]_vars => IInv'
  BY TypeStep, CounterStep, EntryStep DEF IInv
<1> QED
  BY <1>1, <1>2, PTL DEF Spec

(* After Wait() returns, every worker of the pool is parked until the next  *)
(* StartUpdates: DelayedUpdate and Cleanup run alone.                       *)
THEOREM WorldAlone ==
    ASSUME NotShrunk, NoSpurious
    PROVE  Spec => [](WorldHasMapsToItself /\ CleanupAssertion)
<1>1. IInv => WorldHasMapsToItself /\ CleanupAssertion
  <2> SUFFICES ASSUME IInv PROVE WorldHasMapsToItself /\ CleanupAssertion
    OBVIOUS
  <2>1. world = "delayed" => Active = {}
    BY NothingHeld DEF IInv, CounterInv
  <2> QED
    BY <2>1 DEF IInv, CounterInv, PoolInv, TypeOK, Active, WorldHasMapsToItself,
                CleanupAssertion
<1> QED
  BY <1>1, InductiveInvariant, PTL

(* No map is updated by two workers, none is updated after it was deleted,   *)
(* no entry is lost or duplicated, and the unlocked walk over the multimap   *)
(* at the head of a tick only meets live maps.                               *)
THEOREM EntriesSafe ==
    ASSUME NotShrunk, NoSpurious
    PROVE  Spec => [](OneUpdaterPerMap /\ NoEntryLost /\ EstimateReadsLiveMaps)
<1>1. IInv => OneUpdaterPerMap /\ NoEntryLost /\ EstimateReadsLiveMaps
  <2> SUFFICES ASSUME IInv
               PROVE  OneUpdaterPerMap /\ NoEntryLost /\ EstimateReadsLiveMaps
    OBVIOUS
  <2>1. Held \subseteq allocated
    <3>1. world = "delayed" => Held = {}
      BY NothingHeld DEF IInv, CounterInv
    <3> QED
      BY <3>1 DEF IInv, EntryInv, NoEntryLost
  <2> QED
    BY <2>1 DEF IInv, EntryInv, NoEntryLost, OneUpdaterPerMap, EstimateReadsLiveMaps
<1> QED
  BY <1>1, InductiveInvariant, PTL

(* The pool implements the barrier: each step of a worker or of the world   *)
(* thread is a step of MapBarrier or leaves its variables alone.            *)
THEOREM PoolIsBarrier ==
    ASSUME NotShrunk, NoSpurious
    PROVE  Spec => ImplementsBarrier
<1> USE DEF entryVars, threadVars
<1>1. Init => Barrier!Init
  BY DEF Init, Barrier!Init, Held
<1>2. ASSUME IInv, IInv', [Next]_vars PROVE [Barrier!Next]_(Barrier!vars)
  <2> USE <1>2
  <2>1. ASSUME NEW t \in Threads, TakeEntry(t) PROVE \E m \in Maps : Barrier!Begin(m)
    <3>1. /\ entry'[t] \in Maps /\ entry'[t] \in updateEntries \ toBeRemoved
          /\ Held' = Held \cup {entry'[t]}
      BY <2>1, HeldTake DEF IInv, TypeOK
    <3>2. entry'[t] \in allocated \ Held
      BY <3>1 DEF IInv, EntryInv, NoEntryLost
    <3>3. world # "delayed"
      <4>1. Active # {}
        BY <2>1 DEF Active, TakeEntry, Goto
      <4> QED
        BY <4>1, NothingHeld DEF IInv, CounterInv
    <3>4. UNCHANGED <<allocated, world>>
      BY <2>1 DEF TakeEntry
    <3>5. Barrier!Begin(entry'[t])
      BY <3>1, <3>2, <3>3, <3>4 DEF Barrier!Begin
    <3> QED
      BY <3>1, <3>5
  <2>2. ASSUME NEW t \in Threads, FinishUpdate(t) PROVE \E m \in Maps : Barrier!End(m)
    <3>1. entry[t] \in Maps /\ entry[t] \in Held /\ Held' = Held \ {entry[t]}
      BY <2>2, HeldFinish DEF IInv, TypeOK
    <3>2. UNCHANGED <<allocated, world>>
      BY <2>2 DEF FinishUpdate
    <3>3. Barrier!End(entry[t])
      BY <3>1, <3>2 DEF Barrier!End
    <3> QED
      BY <3>1, <3>3
  <2>3. ASSUME NEW t \in Threads,
               CheckForShutdown(t) \/ FindNothing(t) \/ Park(t)
                  \/ ExitDecrement(t) \/ ExitNotify(t)
        PROVE  UNCHANGED Barrier!vars
    <3>1. \A u \in Threads : pc'[u] = "update" <=> pc[u] = "update"
      BY <2>3 DEF CheckForShutdown, FindNothing, Park, ExitDecrement, ExitNotify, Goto,
                  IInv, TypeOK
    <3>2. UNCHANGED <<entry, allocated>>
      BY <2>3 DEF CheckForShutdown, FindNothing, Park, ExitDecrement, ExitNotify
    <3>3. (world' = "delayed") = (world = "delayed")
      BY <2>3 DEF CheckForShutdown, FindNothing, Park, ExitDecrement, ExitNotify, NotifyFinish
    <3> QED
      BY <3>1, <3>2, <3>3, HeldSame DEF Barrier!vars
  <2>4. ASSUME NEW n \in 1 .. Cardinality(Threads), SetThreadCount(n)
        PROVE  UNCHANGED Barrier!vars
    <3>1. \A u \in Threads : pc'[u] = "update" <=> pc[u] = "update"
      BY <2>4 DEF SetThreadCount, NotifyStart, IInv, TypeOK
    <3>2. UNCHANGED <<entry, allocated, world>>
      BY <2>4 DEF SetThreadCount
    <3> QED
      BY <3>1, <3>2, HeldSame DEF Barrier!vars
  <2>5. CASE StartUpdates \/ WaitBlock
    <3>1. \A u \in Threads : pc'[u] = "update" <=> pc[u] = "update"
      BY <2>5 DEF StartUpdates, WaitBlock, NotifyStart, IInv, TypeOK
    <3>2. UNCHANGED <<entry, allocated>> /\ world # "delayed" /\ world' # "delayed"
      BY <2>5 DEF StartUpdates, WaitBlock
    <3> QED
      BY <3>1, <3>2, HeldSame DEF Barrier!vars
  <2>6. CASE WaitCheck
    <3>1. Held' = Held /\ allocated' = allocated
      BY <2>6, HeldSame DEF WaitCheck
    <3>2. CASE runningThreads > 0
      BY <2>6, <3>1, <3>2 DEF WaitCheck, Barrier!vars
    <3>3. CASE ~(runningThreads > 0)
      <4>1. Held = {}
        BY <3>3, NothingHeld DEF IInv, TypeOK
      <4>2. Barrier!Close
        BY <2>6, <3>1, <3>3, <4>1 DEF WaitCheck, Barrier!Close
      <4> QED
        BY <4>2 DEF Barrier!Next
    <3> QED
      BY <3>2, <3>3
  <2>7. CASE Cleanup
    <3>1. Held' = Held
      BY <2>7, HeldSame DEF Cleanup
    <3>2. Barrier!Open
      BY <2>7, <3>1 DEF Cleanup, Barrier!Open
    <3> QED
      BY <3>2 DEF Barrier!Next
  <2>8. ASSUME NEW m \in Maps, DestroyInstance(m) PROVE Barrier!Destroy(m)
    <3>1. Held' = Held
      BY <2>8, HeldSame DEF DestroyInstance
    <3>2. m \in allocated
      BY <2>8 DEF DestroyInstance, IInv, EntryInv
    <3> QED
      BY <2>8, <3>1, <3>2 DEF DestroyInstance, Barrier!Destroy
  <2>9. ASSUME NEW m \in Maps, AddMap(m) PROVE Barrier!Create(m)
    <3>1. Held' = Held
      BY <2>9, HeldSame DEF AddMap
    <3>2. m \notin allocated
      BY <2>9 DEF AddMap, IInv, EntryInv
    <3>3. world # "delayed"
      <4>1. CASE world = "idle"
        BY <4>1
      <4>2. CASE \E t \in Threads : pc[t] = "update"
        <5>1. Active # {}
          BY <4>2 DEF Active
        <5> QED
          BY <5>1, NothingHeld DEF IInv, CounterInv
      <4> QED
        BY <2>9, <4>1, <4>2 DEF AddMap
    <3> QED
      BY <2>9, <3>1, <3>2, <3>3 DEF AddMap, Barrier!Create
  <2>10. CASE SpuriousWakeup
    BY <2>10 DEF SpuriousWakeup, NoSpurious
  <2>11. CASE UNCHANGED vars
    BY <2>11 DEF vars, Barrier!vars, Held
  <2> QED
    BY <1>2, <2>1, <2>2, <2>3, <2>4, <2>5, <2>6, <2>7, <2>8, <2>9, <2>10, <2>11
       DEF Next, Worker, World, Barrier!Next
<1> QED
  BY <1>1, <1>2, InductiveInvariant, PTL DEF Spec, ImplementsBarrier, Barrier!Spec

(* Whatever reloads and spurious wake-ups do to the counter, the vector of   *)
(* threads stays sound: a thread in its loop finds itself in it, and it      *)
(* never has fewer threads than configured.                                  *)
THEOREM PoolSize == Spec => []PoolNeverBelowTarget
<1> USE DEF PoolNeverBelowTarget
<1>1. ASSUME Init PROVE PoolNeverBelowTarget
  <2>1. InitialThreads \in Nat
    BY MapUpdaterAssumption
  <2> QED
    BY <1>1, <2>1 DEF Init
<1>2. ASSUME TypeOK, PoolNeverBelowTarget, [Next]_vars PROVE PoolNeverBelowTarget'
  <2> USE DEF entryVars, threadVars
  <2>0. /\ Cardinality(workerThreads) \in Nat /\ expectedThreads \in Nat
        /\ IsFiniteSet(workerThreads) /\ Cardinality(Threads) \in Nat
    BY <1>2, ThreadSets DEF TypeOK
  <2>1. ASSUME NEW t \in Threads, CheckForShutdown(t) PROVE PoolNeverBelowTarget'
    <3>1. CASE expectedThreads >= Cardinality(workerThreads)
      BY <1>2, <2>0, <2>1, <3>1 DEF CheckForShutdown, Goto, TypeOK
    <3>2. CASE expectedThreads < Cardinality(workerThreads)
      <4>1. /\ pc[t] = "check" /\ pc' = [pc EXCEPT ![t] = "exiting"]
            /\ workerThreads' = workerThreads \ {t}
            /\ expectedThreads' = expectedThreads
        BY <2>0, <2>1, <3>2 DEF CheckForShutdown, Goto
      <4>2. t \in workerThreads
        BY <1>2, <4>1
      <4>3. Cardinality(workerThreads') = Cardinality(workerThreads) - 1
        BY <2>0, <4>1, <4>2, FS_RemoveElement
      <4>4. expectedThreads' <= Cardinality(workerThreads')
        BY <2>0, <3>2, <4>1, <4>3
      <4> QED
        BY <1>2, <4>1, <4>4 DEF TypeOK
    <3> QED
      BY <2>0, <3>1, <3>2
  <2>2. ASSUME NEW t \in Threads,
               TakeEntry(t) \/ FindNothing(t) \/ FinishUpdate(t) \/ Park(t)
                  \/ ExitDecrement(t) \/ ExitNotify(t)
        PROVE  PoolNeverBelowTarget'
    BY <1>2, <2>2 DEF TakeEntry, FindNothing, FinishUpdate, Park, ExitDecrement,
                      ExitNotify, Goto, TypeOK
  <2>3. ASSUME NEW n \in 1 .. Cardinality(Threads), SetThreadCount(n)
        PROVE  PoolNeverBelowTarget'
    <3>1. CASE n < Cardinality(workerThreads)
      <4>1. NotifyStart /\ workerThreads' = workerThreads /\ expectedThreads' = n
        BY <2>0, <2>3, <3>1 DEF SetThreadCount
      <4> QED
        BY <1>2, <2>0, <3>1, <4>1 DEF NotifyStart, TypeOK
    <3>2. CASE ~(n < Cardinality(workerThreads))
      <4>1. PICK Spawned \in SUBSET {t \in Threads : pc[t] = "unborn"} :
               /\ Cardinality(Spawned) = n - Cardinality(workerThreads)
               /\ workerThreads' = workerThreads \cup Spawned
               /\ pc' = [t \in Threads |-> IF t \in Spawned THEN "check" ELSE pc[t]]
        BY <2>0, <2>3, <3>2 DEF SetThreadCount
      <4>2. Spawned \subseteq Threads /\ workerThreads \cap Spawned = {}
        BY <1>2, <4>1
      <4>3. Cardinality(workerThreads') = Cardinality(workerThreads) + Cardinality(Spawned)
        BY <2>0, <4>1, <4>2, ThreadSets, DisjointCardinality
      <4>4. expectedThreads' = n /\ expectedThreads' <= Cardinality(workerThreads')
        BY <2>0, <2>3, <4>1, <4>3 DEF SetThreadCount
      <4> QED
        BY <1>2, <4>1, <4>2, <4>4 DEF TypeOK
    <3> QED
      BY <3>1, <3>2
  <2>4. CASE StartUpdates \/ SpuriousWakeup
    BY <1>2, <2>4 DEF StartUpdates, SpuriousWakeup, NotifyStart, Goto, TypeOK
  <2>5. CASE WaitCheck \/ WaitBlock \/ Cleanup
    BY <1>2, <2>5 DEF WaitCheck, WaitBlock, Cleanup
  <2>6. ASSUME NEW m \in Maps, DestroyInstance(m) \/ AddMap(m) PROVE PoolNeverBelowTarget'
    BY <1>2, <2>6 DEF DestroyInstance, AddMap
  <2>7. CASE UNCHANGED vars
    BY <1>2, <2>7 DEF vars
  <2> QED
    BY <1>2, <2>1, <2>2, <2>3, <2>4, <2>5, <2>6, <2>7 DEF Next, Worker, World
<1> QED
  BY <1>1, <1>2, TypeCorrect, PTL DEF Spec

-----------------------------------------------------------------------------
(* The allocator of instance ids *)


(* Arithmetic of the sizes. *)

\* Division with remainder.
LEMMA Division ==
    ASSUME NEW n \in Nat, NEW d \in Nat \ {0}
    PROVE  /\ n \div d \in Nat
           /\ n % d \in 0 .. d - 1
           /\ n = ((n \div d) * d) + (n % d)
OBVIOUS

\* Different multiples of d are at least d apart.
LEMMA Gap ==
    ASSUME NEW a \in Nat, NEW b \in Nat, NEW d \in Nat, a > b
    PROVE  a * d >= b * d + d
<1>1. (a - b) * d = a * d - b * d
  OBVIOUS
<1>2. (a - b) * d >= d
  <2>1. a - b \in Nat /\ a - b >= 1
    OBVIOUS
  <2> QED BY <2>1
<1> QED BY <1>1, <1>2

\* A product leaves no remainder.
LEMMA ModZero ==
    ASSUME NEW k \in Nat, NEW d \in Nat \ {0}
    PROVE  k * d \in Nat /\ (k * d) % d = 0
<1> DEFINE n == k * d
           q == n \div d
           r == n % d
<1>1. n \in Nat
  OBVIOUS
<1>2. q \in Nat /\ r \in 0 .. d - 1 /\ n = (q * d) + r
  BY <1>1, Division
<1>3. CASE k = q
  BY <1>2, <1>3
<1>4. CASE k > q
  <2>1. k * d >= q * d + d
    BY <1>2, <1>4, Gap
  <2> QED BY <1>2, <2>1
<1>5. CASE k < q
  <2>1. q * d >= k * d + d
    BY <1>2, <1>5, Gap
  <2> QED BY <1>2, <2>1
<1> QED BY <1>1, <1>2, <1>3, <1>4, <1>5

\* A multiple of a multiple of the block size is one of the block size.
LEMMA WordIsBlocks ==
    ASSUME NEW x \in Nat, x % WordBits = 0
    PROVE  x % Block = 0
<1> USE InstanceIdsAssumption
<1> DEFINE a == x \div WordBits
           b == WordBits \div Block
<1>1. a \in Nat /\ x = a * WordBits
  BY Division
<1>2. b \in Nat /\ WordBits = b * Block
  BY Division
<1> HIDE DEF a, b
<1>3. x = (a * b) * Block /\ a * b \in Nat
  BY <1>1, <1>2
<1> QED BY <1>3, ModZero

\* RoundUp rounds up to a multiple.
LEMMA RoundUpIs ==
    ASSUME NEW n \in Nat, NEW u \in Nat \ {0}
    PROVE  RoundUp(n, u) \in Nat /\ RoundUp(n, u) >= n /\ RoundUp(n, u) % u = 0
<1> DEFINE m == n + u - 1
           q == m \div u
           r == m % u
<1>1. m \in Nat /\ q \in Nat /\ r \in 0 .. u - 1 /\ m = (q * u) + r
  BY Division
<1>2. RoundUp(n, u) = q * u
  BY DEF RoundUp
<1>3. q * u \in Nat /\ (q * u) % u = 0
  BY <1>1, ModZero
<1> HIDE DEF q, r
<1> QED BY <1>1, <1>2, <1>3

\* The resize expression of InitInstanceIds and GenerateInstanceId rounds up
\* too, and leaves a multiple as it is.
LEMMA BlocksIs ==
    ASSUME NEW n \in Nat
    PROVE  Blocks(n) \in Nat /\ Blocks(n) >= n /\ Blocks(n) % Block = 0
<1> USE InstanceIdsAssumption
<1> DEFINE q == n \div Block
           r == n % Block
<1>1. q \in Nat /\ r \in 0 .. Block - 1 /\ n = (q * Block) + r
  BY Division
<1>2. Blocks(n) = (IF r > 0 THEN (q + 1) * Block ELSE q * Block)
  <2>1. Blocks(n) = q * Block + (IF r > 0 THEN Block ELSE 0)
    BY DEF Blocks
  <2> HIDE DEF q, r
  <2>2. (q + 1) * Block = q * Block + Block /\ q * Block \in Nat
    BY <1>1
  <2> QED BY <1>1, <2>1, <2>2
<1>3. /\ q * Block \in Nat /\ (q * Block) % Block = 0
      /\ (q + 1) * Block \in Nat /\ ((q + 1) * Block) % Block = 0
  <2>1. q + 1 \in Nat
    BY <1>1
  <2> QED BY <1>1, <2>1, ModZero
<1>4. (q + 1) * Block = q * Block + Block
  BY <1>1
<1> HIDE DEF q, r
<1> QED BY <1>1, <1>2, <1>3, <1>4

\* Growing the vector keeps its size and capacity whole blocks.
LEMMA ResizeIs ==
    ASSUME size \in Nat, capacity \in Nat, capacity % Block = 0,
           NEW n \in Nat, n % Block = 0, Resize(n)
    PROVE  /\ size' = n
           /\ capacity' \in Nat /\ n <= capacity' /\ capacity' % Block = 0
<1> USE InstanceIdsAssumption
<1>1. CASE n <= capacity
  BY <1>1 DEF Resize
<1>2. CASE n > capacity
  <2> DEFINE m == IF n > 2 * size THEN n ELSE 2 * size
  <2>1. m \in Nat /\ m >= n
    OBVIOUS
  <2>2. size' = n /\ capacity' = RoundUp(m, WordBits)
    BY <1>2 DEF Resize
  <2> HIDE DEF m
  <2>3. RoundUp(m, WordBits) \in Nat /\ RoundUp(m, WordBits) >= m /\ RoundUp(m, WordBits) % WordBits = 0
    BY <2>1, RoundUpIs
  <2>4. RoundUp(m, WordBits) % Block = 0
    BY <2>3, WordIsBlocks
  <2> QED BY <2>1, <2>2, <2>3, <2>4
<1> QED BY <1>1, <1>2

(* The steps. *)

\* Zero is a multiple of everything.
LEMMA ZeroMod == 0 % Block = 0
BY InstanceIdsAssumption

\* Before anything is loaded.
LEMMA InitIds == IdsInit => IdsInv
BY InstanceIdsAssumption, ZeroMod
DEF IdsInit, IdsInv, VectorInv, LoadInv, LowestFirst, NoLeak, Ids

\* The vector is made large enough for the highest id, give or take one bit.
LEMMA InitStep ==
    ASSUME IdsInv, InitInstanceIds
    PROVE  IdsInv'
<1> USE InstanceIdsAssumption
<1>1. /\ phase = "init" /\ phase' = "load" /\ nextInstanceId' = 1
      /\ rows' = rows /\ bits' = bits /\ taken' = taken
  BY DEF InitInstanceIds
<1>2. taken = {} /\ bits = {}
  BY <1>1 DEF IdsInv, LoadInv, NoLeak
<1> DEFINE Sized == /\ size' \in Nat /\ capacity' \in Nat /\ size' <= capacity'
                    /\ size' % Block = 0 /\ capacity' % Block = 0
                    /\ \A i \in rows : i <= size'
<1>3. Sized
  <2>1. size \in Nat /\ capacity \in Nat /\ capacity % Block = 0
    BY DEF IdsInv, VectorInv
  <2>2. CASE rows = {} /\ Resize(0)
    BY <2>1, <2>2, ZeroMod, ResizeIs
  <2>3. CASE \E maxId \in rows : (\A i \in rows : i <= maxId) /\ Resize(Blocks(maxId))
    <3>1. PICK maxId \in rows : (\A i \in rows : i <= maxId) /\ Resize(Blocks(maxId))
      BY <2>3
    <3>2. maxId \in Nat /\ rows \subseteq Nat
      BY DEF IdsInv, Ids
    <3>3. Blocks(maxId) \in Nat /\ Blocks(maxId) >= maxId /\ Blocks(maxId) % Block = 0
      BY <3>2, BlocksIs
    <3>4. size' = Blocks(maxId) /\ capacity' \in Nat /\ size' <= capacity' /\ capacity' % Block = 0
      BY <2>1, <3>1, <3>3, ResizeIs
    <3>5. ASSUME NEW i \in rows PROVE i <= size'
      BY <3>1, <3>2, <3>3, <3>4
    <3> QED BY <3>3, <3>4, <3>5
  <2> QED BY <2>2, <2>3 DEF InitInstanceIds
<1>4. VectorInv'
  BY <1>1, <1>2, <1>3 DEF VectorInv
<1>5. LoadInv' /\ NoLeak'
  BY <1>1, <1>2 DEF LoadInv, NoLeak
<1>6. LowestFirst'
  BY <1>1 DEF LowestFirst
<1> QED BY <1>1, <1>2, <1>4, <1>5, <1>6 DEF IdsInv

\* A row is read: its id gets its bit unless it is the size of the vector.
LEMMA RegisterStep ==
    ASSUME IdsInv, NEW i \in Ids, RegisterInstanceId(i)
    PROVE  IdsInv'
<1> USE InstanceIdsAssumption
<1>1. /\ phase = "load" /\ phase' = phase /\ size' = size /\ capacity' = capacity
      /\ i \in rows /\ \A j \in rows : i <= j
      /\ rows' = rows \ {i} /\ taken' = taken \cup {i}
      /\ bits' = IF i < size THEN bits \cup {i} ELSE bits
      /\ nextInstanceId' = IF nextInstanceId = i THEN i + 1 ELSE nextInstanceId
  BY DEF RegisterInstanceId, SetBit
<1>2. /\ size \in Nat /\ i \in Nat /\ i <= size /\ rows \subseteq Nat /\ taken \subseteq Nat
      /\ nextInstanceId \in Nat /\ bits \subseteq taken
  BY <1>1 DEF IdsInv, VectorInv, Ids, NoLeak
<1>3. nextInstanceId' \in 1 .. MaxId + 1
  BY <1>1 DEF IdsInv, Ids
<1>4. VectorInv'
  BY <1>1, <1>2 DEF IdsInv, VectorInv
<1>5. LoadInv'
  BY <1>1, <1>2 DEF IdsInv, LoadInv
<1>6. NoLeak' /\ rows' \subseteq Ids /\ taken' \subseteq Ids
  BY <1>1 DEF IdsInv, NoLeak
<1>7. LowestFirst'
  BY <1>1, <1>3 DEF IdsInv, LowestFirst, Ids
<1>8. nextInstanceId' \notin bits'
  <2>1. \A t \in taken : t < i
    BY <1>1 DEF IdsInv, LoadInv
  <2> QED BY <1>1, <1>2, <2>1 DEF IdsInv
<1>9. \A j \in taken' \ bits' : j % Block = 0
  <2>1. i < size \/ i = size
    BY <1>2
  <2>2. size % Block = 0 /\ \A j \in taken \ bits : j % Block = 0
    BY DEF IdsInv, VectorInv
  <2> QED BY <1>1, <2>1, <2>2
<1> QED BY <1>3, <1>4, <1>5, <1>6, <1>7, <1>8, <1>9 DEF IdsInv

\* An id that is freed becomes the next one if it is lower.
LEMMA FreeStep ==
    ASSUME IdsInv, NEW i \in Ids, FreeInstanceId(i)
    PROVE  IdsInv'
<1> USE InstanceIdsAssumption
<1>1. /\ phase = "run" /\ phase' = phase /\ size' = size /\ capacity' = capacity
      /\ rows' = rows /\ i \in taken /\ taken' = taken \ {i}
      /\ bits' = IF i < size THEN bits \ {i} ELSE bits
      /\ nextInstanceId' = IF i < nextInstanceId THEN i ELSE nextInstanceId
  BY DEF FreeInstanceId, ClearBit
<1>2. i \in Nat /\ size \in Nat /\ bits \subseteq Nat
  BY DEF IdsInv, VectorInv, Ids, NoLeak
<1>3. bits' = bits \ {i}
  BY <1>1, <1>2 DEF IdsInv, VectorInv
<1>4. nextInstanceId' \in 1 .. MaxId + 1
  BY <1>1 DEF IdsInv, Ids
<1>5. VectorInv' /\ LoadInv' /\ NoLeak'
  BY <1>1, <1>3 DEF IdsInv, VectorInv, LoadInv, NoLeak
<1>6. LowestFirst'
  BY <1>1, <1>4 DEF IdsInv, LowestFirst, Ids
<1>7. nextInstanceId' \notin bits' /\ \A j \in taken' \ bits' : j % Block = 0
  BY <1>1, <1>3 DEF IdsInv
<1> QED BY <1>1, <1>4, <1>5, <1>6, <1>7 DEF IdsInv

\* The next id is handed out: it gets its bit unless it is a multiple of the
\* block size, and the scan for its successor skips ids in use only.
LEMMA GenerateStep ==
    ASSUME IdsInv, GenerateInstanceId
    PROVE  IdsInv'
<1> USE InstanceIdsAssumption
<1> DEFINE new == nextInstanceId
<1>1. PICK i \in 1 .. MaxId + 1 : NextUnused(new, i) /\ nextInstanceId' = i
  BY DEF GenerateInstanceId
<1>2. /\ phase = "run" /\ phase' = phase /\ rows' = rows /\ rows = {}
      /\ new \in Ids /\ taken' = taken \cup {new}
      /\ bits' = IF new < size' THEN bits \cup {new} ELSE bits
  BY DEF GenerateInstanceId, SetBit, IdsInv, LoadInv, Ids
<1>3. size % Block = 0 /\ capacity % Block = 0
  BY DEF IdsInv, VectorInv
<1>4. /\ size \in Nat /\ capacity \in Nat /\ size <= capacity
      /\ \A j \in bits : j < size
      /\ \A j \in taken : j <= size
  BY <1>2 DEF IdsInv, VectorInv
<1>5. new \in Nat /\ taken \subseteq Nat /\ bits \subseteq taken
  BY <1>2 DEF IdsInv, Ids, NoLeak
<1>6. new <= size + 1
  <2>1. CASE new = 1
    BY <1>4, <2>1
  <2>2. CASE new > 1
    <3>1. new - 1 \in 1 .. new - 1
      BY <1>5, <2>2
    <3>2. new - 1 \in taken
      BY <3>1 DEF IdsInv, LowestFirst
    <3> QED BY <1>4, <1>5, <3>2
  <2> QED BY <1>2, <2>1, <2>2 DEF Ids
<1> DEFINE Grown == /\ size' \in Nat /\ capacity' \in Nat
                    /\ size <= size' /\ size' <= capacity' /\ new <= size'
           Whole == size' % Block = 0 /\ capacity' % Block = 0
<1>7. Grown /\ Whole
  <2>1. CASE new < size /\ UNCHANGED <<size, capacity>>
    <3>1. Grown
      BY <1>4, <1>5, <2>1
    <3>2. Whole
      BY <1>3, <2>1
    <3> QED BY <3>1, <3>2
  <2>2. CASE new >= size /\ size < capacity /\ Resize(capacity)
    <3>1. size' = capacity /\ capacity' \in Nat /\ size' <= capacity' /\ capacity' % Block = 0
      BY <1>4, <1>3, <2>2, ResizeIs
    <3>2. size' = capacity /\ capacity' \in Nat /\ size' <= capacity'
      BY <3>1
    <3>3. Grown
      BY <1>4, <1>5, <1>6, <2>2, <3>2
    <3>4. Whole
      BY <1>3, <3>1
    <3> QED BY <3>3, <3>4
  <2>3. CASE new >= size /\ size = capacity /\ Resize(Blocks(new))
    <3>1. Blocks(new) \in Nat /\ Blocks(new) >= new /\ Blocks(new) % Block = 0
      BY <1>5, BlocksIs
    <3>2. size' = Blocks(new) /\ capacity' \in Nat /\ size' <= capacity' /\ capacity' % Block = 0
      BY <1>4, <1>3, <2>3, <3>1, ResizeIs
    <3>3. size' \in Nat /\ size' >= new /\ capacity' \in Nat /\ size' <= capacity'
      BY <3>1, <3>2
    <3>4. Grown
      BY <1>4, <1>5, <2>3, <3>3
    <3>5. Whole
      BY <3>1, <3>2
    <3> QED BY <3>4, <3>5
  <2> QED BY <2>1, <2>2, <2>3 DEF GenerateInstanceId
<1>8. Grown
  BY <1>7
<1>9. Whole
  BY <1>7
<1>10. VectorInv'
  <2>1. ASSUME NEW j \in bits' PROVE j < size'
    BY <1>2, <1>4, <1>5, <1>8
  <2>2. ASSUME NEW j \in rows' \cup taken' PROVE j <= size'
    <3>1. j \in taken \/ j = new
      BY <1>2
    <3>2. CASE j \in taken
      <4>1. j \in Nat /\ j <= size
        BY <1>4, <1>5, <3>2
      <4>2. size \in Nat /\ size' \in Nat /\ size <= size'
        BY <1>4, <1>8
      <4> QED BY <4>1, <4>2
    <3>3. CASE j = new
      BY <1>8, <3>3
    <3> QED BY <3>1, <3>2, <3>3
  <2> QED BY <1>7, <2>1, <2>2 DEF VectorInv
<1>11. LoadInv' /\ NoLeak' /\ rows' \subseteq Ids /\ taken' \subseteq Ids
  BY <1>2, <1>5 DEF IdsInv, LoadInv, NoLeak
<1>12. LowestFirst'
  <2> SUFFICES ASSUME NEW j \in 1 .. i - 1 PROVE j \in taken'
    BY <1>1 DEF LowestFirst
  <2>1. CASE j < new
    BY <1>2, <2>1 DEF IdsInv, LowestFirst, Ids
  <2>2. CASE j = new
    BY <1>2, <2>2
  <2>3. CASE j > new
    BY <1>1, <1>2, <1>5, <2>3 DEF NextUnused, Ids
  <2> QED BY <1>5, <2>1, <2>2, <2>3
<1>13. nextInstanceId' \notin bits'
  BY <1>1, <1>2, <1>4, <1>5 DEF NextUnused
<1>14. \A j \in taken' \ bits' : j % Block = 0
  <2>1. new < size' \/ new = size'
    BY <1>5, <1>8
  <2>2. \A j \in taken \ bits : j % Block = 0
    BY DEF IdsInv
  <2> QED BY <1>2, <1>9, <2>1, <2>2
<1> QED BY <1>1, <1>10, <1>11, <1>12, <1>13, <1>14 DEF IdsInv

\* IdsInv is an inductive invariant.
THEOREM IdsInvariant == IdsSpec => []IdsInv
<1>1. IdsInv /\ [IdsNext]_idVars => IdsInv'
  <2> SUFFICES ASSUME IdsInv, [IdsNext]_idVars PROVE IdsInv'
    OBVIOUS
  <2>1. CASE InitInstanceIds
    BY <2>1, InitStep
  <2>2. ASSUME NEW i \in Ids, RegisterInstanceId(i) PROVE IdsInv'
    BY <2>2, RegisterStep
  <2>3. ASSUME NEW i \in Ids, FreeInstanceId(i) PROVE IdsInv'
    BY <2>3, FreeStep
  <2>4. CASE Loaded
    BY <2>4 DEF Loaded, IdsInv, VectorInv, LoadInv, NoLeak, LowestFirst
  <2>5. CASE GenerateInstanceId
    BY <2>5, GenerateStep
  <2>6. CASE UNCHANGED idVars
    BY <2>6 DEF idVars, IdsInv, VectorInv, LoadInv, NoLeak, LowestFirst
  <2> QED BY <2>1, <2>2, <2>3, <2>4, <2>5, <2>6 DEF IdsNext
<1> QED BY InitIds, <1>1, PTL DEF IdsSpec

\* The allocator is well typed in every reachable state: the size never
\* exceeds the capacity, and bits are set for ids only.
THEOREM IdsTypeCorrect == IdsSpec => []IdsTypeOK
<1> DEFINE PhaseOK == phase \in {"init", "load", "run"}
<1>1. IdsInit => PhaseOK
  BY DEF IdsInit
<1>2. PhaseOK /\ [IdsNext]_idVars => PhaseOK'
  BY DEF IdsNext, idVars, InitInstanceIds, RegisterInstanceId, FreeInstanceId, Loaded, GenerateInstanceId
<1>3. PhaseOK /\ IdsInv => IdsTypeOK
  <2> SUFFICES ASSUME PhaseOK, IdsInv PROVE IdsTypeOK
    OBVIOUS
  <2>1. bits \subseteq Ids
    BY DEF IdsInv, NoLeak
  <2> QED BY <2>1 DEF IdsTypeOK, IdsInv, VectorInv
<1> QED BY <1>1, <1>2, <1>3, IdsInvariant, PTL DEF IdsSpec

\* In every reachable state all ids below the next one are in use and every
\* bit that is set belongs to an instance, so that what FreeInstanceId gives
\* back is what GenerateInstanceId hands out first.
THEOREM FreedIdsAreReused == IdsSpec => [](LowestFirst /\ NoLeak)
<1>1. IdsInv => LowestFirst /\ NoLeak
  BY DEF IdsInv
<1> QED BY <1>1, IdsInvariant, PTL

\* GenerateInstanceId hands out an id that is in use only if the id is a
\* multiple of the block size, whatever was loaded, handed out and freed.
THEOREM DuplicatesAtBoundariesOnly == IdsSpec => []OnlyBoundaryIdsLost
<1>1. IdsInv => OnlyBoundaryIdsLost
  BY DEF IdsInv, OnlyBoundaryIdsLost
<1> QED BY <1>1, IdsInvariant, PTL

=============================================================================
