------------------------------ MODULE MapBarrier ------------------------------
(***************************************************************************)
(* What MapManager::Update relies on when it uses a MapUpdater, without    *)
(* threads, mutexes or counters: maps are updated in parallel, each by one *)
(* updater at a time, and between two such phases the world thread has all *)
(* of them to itself; only then are Map objects deleted.                   *)
(***************************************************************************)
CONSTANT Maps

VARIABLES
    live,       \* maps that exist
    updating,   \* maps being updated
    exclusive   \* the world thread is alone

vars == <<live, updating, exclusive>>

Init == live = {} /\ updating = {} /\ exclusive = FALSE

Create(m) ==
    /\ ~exclusive
    /\ m \notin live
    /\ live' = live \cup {m}
    /\ UNCHANGED <<updating, exclusive>>

Begin(m) ==
    /\ ~exclusive
    /\ m \in live \ updating
    /\ updating' = updating \cup {m}
    /\ UNCHANGED <<live, exclusive>>

End(m) ==
    /\ m \in updating
    /\ updating' = updating \ {m}
    /\ UNCHANGED <<live, exclusive>>

Destroy(m) ==
    /\ exclusive
    /\ m \in live
    /\ live' = live \ {m}
    /\ UNCHANGED <<updating, exclusive>>

Close ==
    /\ ~exclusive
    /\ updating = {}
    /\ exclusive' = TRUE
    /\ UNCHANGED <<live, updating>>

Open ==
    /\ exclusive
    /\ exclusive' = FALSE
    /\ UNCHANGED <<live, updating>>

Next ==
    \/ \E m \in Maps : Create(m) \/ Begin(m) \/ End(m) \/ Destroy(m)
    \/ Close
    \/ Open

Spec == Init /\ [][Next]_vars
=============================================================================
