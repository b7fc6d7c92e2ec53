------------------------------ MODULE InstanceIds ------------------------------
(***************************************************************************)
(* The allocator of instance ids in MapManager: a vector<bool> of the ids  *)
(* in use and the next id to hand out.  It is filled at start-up from the  *)
(* table `instance', in the order of the ids.                              *)
(*                                                                         *)
(* The vector has a size, which is what operator[] may touch, and a        *)
(* capacity, which the standard library rounds up to whole machine words.  *)
(* A write past the size is undefined; whatever else it destroys, the bit  *)
(* is not there when the vector grows over it.                             *)
(***************************************************************************)
EXTENDS Integers

CONSTANTS
    Block,    \* 32: the multiple the code resizes to
    WordBits, \* 64: bits in a machine word, the granularity of the capacity
    MaxId     \* bound: no id above it is handed out

ASSUME InstanceIdsAssumption ==
    /\ Block \in Nat \ {0}
    /\ WordBits \in Nat \ {0} /\ WordBits % Block = 0
    /\ MaxId \in Nat

VARIABLES
    phase,            \* "init", "load" or "run"
    rows,             \* ids of the table `instance' not read yet
    size, capacity,   \* of _instanceIds
    bits,             \* the ids whose bit is set
    nextInstanceId,   \* _nextInstanceId
    taken             \* ids that belong to an instance: loaded or handed out, not freed

idVars == <<phase, rows, size, capacity, bits, nextInstanceId, taken>>

Ids == 1 .. MaxId

IdsTypeOK ==
    /\ phase \in {"init", "load", "run"}
    /\ rows \subseteq Ids
    /\ size \in Nat /\ capacity \in Nat /\ size <= capacity
    /\ bits \subseteq Ids
    /\ nextInstanceId \in 1 .. MaxId + 1
    /\ taken \subseteq Ids

IdsInit ==
    /\ phase = "init"
    /\ rows \in SUBSET Ids
    /\ size = 0 /\ capacity = 0 /\ bits = {}
    /\ nextInstanceId = 1
    /\ taken = {}

-----------------------------------------------------------------------------
(* std::vector<bool>. *)

RoundUp(n, unit) == ((n + unit - 1) \div unit) * unit

\* Fault: rounded down.
BlocksRoundedDown(n) == (n \div Block) * Block

\* (n / 32) * 32 + (n % 32 > 0 ? 32 : 0)
Blocks(n) == (n \div Block) * Block + (IF n % Block > 0 THEN Block ELSE 0)

\* resize(n): new bits are false; a reallocation at least doubles the size.
Resize(n) ==
    /\ size' = n
    /\ capacity' = IF n <= capacity THEN capacity
                   ELSE RoundUp(IF n > 2 * size THEN n ELSE 2 * size, WordBits)

\* _instanceIds[i] = true, when the vector has size n.
SetBit(i, n) == bits' = IF i < n THEN bits \cup {i} ELSE bits

\* _instanceIds[i] = false
ClearBit(i) == bits' = IF i < size THEN bits \ {i} ELSE bits

-----------------------------------------------------------------------------
(* Start-up: InitInstanceIds, then LoadResetTimes with a row at a time. *)

InitInstanceIds ==
    /\ phase = "init"
    /\ phase' = "load"
    /\ nextInstanceId' = 1
    /\ \/ rows = {} /\ Resize(0)
       \/ \E maxId \in rows : (\A i \in rows : i <= maxId) /\ Resize(Blocks(maxId))
    /\ UNCHANGED <<rows, bits, taken>>

\* The head of the loop over the rows, and RegisterInstanceId.
RegisterInstanceId(i) ==
    /\ phase = "load"
    /\ i \in rows
    /\ \A j \in rows : i <= j
    /\ nextInstanceId' = IF nextInstanceId = i THEN i + 1 ELSE nextInstanceId
    /\ SetBit(i, size)
    /\ rows' = rows \ {i}
    /\ taken' = taken \cup {i}
    /\ UNCHANGED <<phase, size, capacity>>

Loaded ==
    /\ phase = "load" /\ rows = {}
    /\ phase' = "run"
    /\ UNCHANGED <<rows, size, capacity, bits, nextInstanceId, taken>>

-----------------------------------------------------------------------------
(* Operation. *)

\* i is the first id after n that the scan finds unused; it reads a bit only
\* below the size.
NextUnused(n, i) ==
    /\ i > n
    /\ i >= size \/ i \notin bits
    /\ \A j \in n + 1 .. i - 1 : j < size /\ j \in bits

GenerateInstanceId ==
    /\ phase = "run"
    /\ nextInstanceId <= MaxId
    /\ \E i \in 1 .. MaxId + 1 : NextUnused(nextInstanceId, i) /\ nextInstanceId' = i
    /\ \/ nextInstanceId < size /\ UNCHANGED <<size, capacity>>
       \/ nextInstanceId >= size /\ size < capacity /\ Resize(capacity)
       \/ nextInstanceId >= size /\ size = capacity /\ Resize(Blocks(nextInstanceId))
    /\ SetBit(nextInstanceId, size')
    /\ taken' = taken \cup {nextInstanceId}
    /\ UNCHANGED <<phase, rows>>

\* Fault: the comparison is the wrong way round.
FreeInstanceIdHigher(i) ==
    /\ phase = "run"
    /\ i \in taken
    /\ nextInstanceId' = IF i > nextInstanceId THEN i ELSE nextInstanceId
    /\ ClearBit(i)
    /\ taken' = taken \ {i}
    /\ UNCHANGED <<phase, rows, size, capacity>>

\* An instance is reset, or the map of a battleground is destroyed.
FreeInstanceId(i) ==
    /\ phase = "run"
    /\ i \in taken
    /\ nextInstanceId' = IF i < nextInstanceId THEN i ELSE nextInstanceId
    /\ ClearBit(i)
    /\ taken' = taken \ {i}
    /\ UNCHANGED <<phase, rows, size, capacity>>

IdsNext ==
    \/ InitInstanceIds
    \/ \E i \in Ids : RegisterInstanceId(i) \/ FreeInstanceId(i)
    \/ Loaded
    \/ GenerateInstanceId

IdsSpec == IdsInit /\ [][IdsNext]_idVars

-----------------------------------------------------------------------------
(* Correctness. *)

\* "the current NextInstanceId (which should be the lowest according to the
\* logic in FreeInstanceId())": no unused id is below the next one, so ids
\* that were freed are handed out again before new ones.
LowestFirst == \A i \in 1 .. nextInstanceId - 1 : i \in taken

\* Every set bit belongs to an instance: freeing an id always makes it
\* available again.
NoLeak == bits \subseteq taken

\* The converse holds up to the ids that are a multiple of the block size:
\* those are the only ones that can be in use without their bit being set,
\* and the only ones that can be handed out while in use.
OnlyBoundaryIdsLost ==
    /\ \A i \in taken \ bits : i % Block = 0
    /\ phase = "run" /\ nextInstanceId \in taken => nextInstanceId % Block = 0

\* What makes the three inductive: the vector grows in whole blocks and
\* every id in use is at most its size; rows are read in ascending order;
\* the next id has no bit set.
VectorInv ==
    /\ size \in Nat /\ capacity \in Nat /\ size <= capacity
    /\ size % Block = 0 /\ capacity % Block = 0
    /\ \A i \in bits : i < size
    /\ phase # "init" => \A i \in rows \cup taken : i <= size
LoadInv ==
    /\ phase = "init" => taken = {}
    /\ phase = "run" => rows = {}
    /\ \A r \in rows, t \in taken : t < r
IdsInv ==
    /\ rows \subseteq Ids /\ taken \subseteq Ids
    /\ nextInstanceId \in 1 .. MaxId + 1
    /\ VectorInv
    /\ LoadInv
    /\ nextInstanceId \notin bits
    /\ LowestFirst /\ NoLeak
    /\ \A i \in taken \ bits : i % Block = 0

=============================================================================
