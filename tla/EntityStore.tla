----------------------------- MODULE EntityStore -----------------------------
(***************************************************************************)
(* The entity store of the simulation core (core/include/dc/entity_store.h *)
(* and entity_id.h): dense rows in structure-of-arrays form, a slot table  *)
(* with generations that turns handles into rows, a LIFO list of free      *)
(* slots, deaths that are only marked during a tick, and the stable        *)
(* compaction at its end.                                                  *)
(*                                                                         *)
(* The compaction is modelled pass by pass of its loop (CompactStep), so   *)
(* that what holds between two passes can be stated and proved.  Nothing   *)
(* else runs in between: every other operation needs pc = "tick".          *)
(***************************************************************************)
EXTENDS Integers, FiniteSets

CONSTANTS
  CAPACITY,   \* config::MAX_ENTITIES
  GEN_MASK,   \* EntityId::GEN_MASK, the largest generation
  Payload,    \* the values the fields of a row can take; 0 is the initial one
  MaxSpawns   \* bound of the model: how many spawns a behaviour makes

ASSUME StoreAssumption ==
  /\ CAPACITY \in Nat \ {0}
  /\ GEN_MASK \in Nat \ {0}
  /\ MaxSpawns \in Nat
  /\ 0 \in Payload

Slot == 0 .. CAPACITY - 1
Row  == 0 .. CAPACITY - 1

(* EntityId: a slot and the generation of its use.  Generation 0 is the    *)
(* promise of no entity, so <<0, 0>> is invalid().                         *)
Handle  == Slot \X (0 .. GEN_MASK)
Invalid == <<0, 0>>

(* A row's fields that move together.  born numbers the spawns; val stands *)
(* for all the arrays the systems read and write.                          *)
Fields == [born : 0 .. MaxSpawns, val : Payload]

VARIABLES
  count,        \* rows in use, the ones marked dead included
  deadPending,  \* rows marked dead since the last compaction
  denseId,      \* row -> handle; rows from count on hold leftovers
  denseDead,    \* row -> marked dead
  fields,       \* row -> fields
  slotGen,      \* slot -> generation of the handle in use or next to be given
  slotToDense,  \* slot -> row, or -1
  freeSlots,    \* stack of free slots; entries from freeCount on are leftovers
  freeCount,
  pc,           \* "tick", or "compact" inside the compaction loop
  r, w,         \* the loop's read and write rows
  spawned,      \* number of spawns so far
  released,     \* history: how often each slot was given back
  retired       \* history: the handles whose entity was compacted away

vars == <<count, deadPending, denseId, denseDead, fields, slotGen, slotToDense,
          freeSlots, freeCount, pc, r, w, spawned, released, retired>>

table   == <<slotGen, slotToDense, freeSlots, freeCount>>
history == <<released, retired>>
loop    == <<pc, r, w>>

----------------------------------------------------------------------------
NextGenerationSame(g) == g                              \* mutant: old ids stay valid

(* EntityId::nextGeneration: wraps past GEN_MASK and skips 0.              *)
NextGeneration(g) == IF g = GEN_MASK THEN 1 ELSE g + 1

(* The row of a handle, or -1 when the handle is invalid or stale.         *)
DenseOf(h) ==
  IF h[2] # 0 /\ slotGen[h[1]] = h[2] THEN slotToDense[h[1]] ELSE -1

Alive(h) == DenseOf(h) # -1 /\ ~denseDead[DenseOf(h)]

(* The rows that hold an entity.  Inside the loop the rows from w to r - 1 *)
(* have been moved down or dropped.                                        *)
Occupied == IF pc = "tick" THEN 0 .. count - 1
                           ELSE (0 .. w - 1) \cup (r .. count - 1)

----------------------------------------------------------------------------
Init ==
  /\ count = 0
  /\ deadPending = 0
  /\ denseId = [d \in Row |-> Invalid]
  /\ denseDead = [d \in Row |-> FALSE]
  /\ fields = [d \in Row |-> [born |-> 0, val |-> 0]]
  /\ slotGen = [s \in Slot |-> 1]
  /\ slotToDense = [s \in Slot |-> -1]
  /\ freeSlots = [i \in Slot |-> CAPACITY - 1 - i]
  /\ freeCount = CAPACITY
  /\ pc = "tick" /\ r = 0 /\ w = 0
  /\ spawned = 0
  /\ released = [s \in Slot |-> 0]
  /\ retired = {}

(* spawn.  With no free slot it returns invalid() and changes nothing.     *)
Spawn(v) ==
  /\ pc = "tick"
  /\ spawned < MaxSpawns
  /\ freeCount # 0
  /\ LET slot == freeSlots[freeCount - 1]
     IN  /\ slotToDense' = [slotToDense EXCEPT ![slot] = count]
         /\ denseId' = [denseId EXCEPT ![count] = <<slot, slotGen[slot]>>]
  /\ freeCount' = freeCount - 1
  /\ count' = count + 1
  /\ denseDead' = [denseDead EXCEPT ![count] = FALSE]
  /\ fields' = [fields EXCEPT ![count] = [born |-> spawned + 1, val |-> v]]
  /\ spawned' = spawned + 1
  /\ UNCHANGED <<deadPending, slotGen, freeSlots, loop, history>>

(* The systems write the public arrays of a row directly, dead rows too    *)
(* (captureRenderPrev does so at every tick).                              *)
WriteRow(d, v) ==
  /\ pc = "tick"
  /\ d < count
  /\ fields' = [fields EXCEPT ![d].val = v]
  /\ UNCHANGED <<count, deadPending, denseId, denseDead, table, loop, spawned, history>>

(* The gate of markDead.                                                   *)
MayDie(h) == Alive(h)

(* markDead.  On a stale handle or a row already dead it returns false and *)
(* changes nothing.                                                        *)
MarkDead(h) ==
  /\ pc = "tick"
  /\ MayDie(h)
  /\ denseDead' = [denseDead EXCEPT ![DenseOf(h)] = TRUE]
  /\ deadPending' = deadPending + 1
  /\ UNCHANGED <<count, denseId, fields, table, loop, spawned, history>>

(* compact: returns at once when nothing died, else enters its loop.       *)
CompactBegin ==
  /\ pc = "tick"
  /\ deadPending # 0
  /\ pc' = "compact" /\ r' = 0 /\ w' = 0
  /\ UNCHANGED <<count, deadPending, denseId, denseDead, fields, table, spawned, history>>

PushBelowTop(slot) == [freeSlots EXCEPT ![IF freeCount = 0 THEN 0 ELSE freeCount - 1] = slot]
                                                        \* mutant: top overwritten

Unmap(slot) == [slotToDense EXCEPT ![slot] = -1]
Push(slot)  == [freeSlots EXCEPT ![freeCount] = slot]

(* The slot of a dead row goes back under its next generation.             *)
Release(slot) ==
  /\ slotGen' = [slotGen EXCEPT ![slot] = NextGeneration(@)]
  /\ freeSlots' = Push(slot)
  /\ freeCount' = freeCount + 1
  /\ released' = [released EXCEPT ![slot] = @ + 1]
  /\ retired' = retired \cup {denseId[r]}

(* mutant: the last row fills the hole (swap-remove).                      *)
CompactDropSwap ==
  LET last == count - 1
  IN  /\ pc = "compact" /\ r < count /\ denseDead[r]
      /\ Release(denseId[r][1])
      /\ slotToDense' = [Unmap(denseId[r][1]) EXCEPT ![denseId[last][1]] = IF r = last THEN -1 ELSE r]
      /\ denseId' = [denseId EXCEPT ![r] = denseId[last]]
      /\ denseDead' = [denseDead EXCEPT ![r] = denseDead[last]]
      /\ fields' = [fields EXCEPT ![r] = fields[last]]
      /\ count' = last
      /\ UNCHANGED <<deadPending, loop, spawned>>

(* A dead row is dropped.                                                  *)
CompactDrop ==
  /\ pc = "compact"
  /\ r < count
  /\ denseDead[r]
  /\ Release(denseId[r][1])
  /\ slotToDense' = Unmap(denseId[r][1])
  /\ r' = r + 1
  /\ UNCHANGED <<count, deadPending, denseId, denseDead, fields, pc, w, spawned>>

FieldsStay  == fields                                   \* mutant: a field array not moved

FieldsMoved == [fields EXCEPT ![w] = fields[r]]
SlotFollows == [slotToDense EXCEPT ![denseId[r][1]] = w]

(* A survivor moves down to row w (moveRow), and its slot follows.         *)
CompactKeep ==
  /\ pc = "compact"
  /\ r < count
  /\ ~denseDead[r]
  /\ denseId' = [denseId EXCEPT ![w] = denseId[r]]
  /\ denseDead' = [denseDead EXCEPT ![w] = denseDead[r]]
  /\ fields' = FieldsMoved
  /\ slotToDense' = SlotFollows
  /\ w' = w + 1
  /\ r' = r + 1
  /\ UNCHANGED <<count, deadPending, slotGen, freeSlots, freeCount, pc, spawned, history>>

(* The loop is done: count_ and deadPending_ are set.                      *)
CompactEnd ==
  /\ pc = "compact"
  /\ r = count
  /\ count' = w
  /\ deadPending' = 0
  /\ pc' = "tick" /\ r' = 0 /\ w' = 0
  /\ UNCHANGED <<denseId, denseDead, fields, table, spawned, history>>

CompactStep == CompactBegin \/ CompactDrop \/ CompactKeep \/ CompactEnd

Next ==
  \/ \E v \in Payload : Spawn(v)
  \/ \E d \in Row, v \in Payload : WriteRow(d, v)
  \/ \E h \in Handle : MarkDead(h)
  \/ CompactStep

Spec == Init /\ [][Next]_vars

----------------------------------------------------------------------------
(* Every variable has its type; spawn and the free list stay inside their  *)
(* arrays because the counters stay in range.                              *)
TypeOK ==
  /\ count \in 0 .. CAPACITY
  /\ deadPending \in Nat
  /\ denseId \in [Row -> Handle]
  /\ denseDead \in [Row -> BOOLEAN]
  /\ fields \in [Row -> Fields]
  /\ slotGen \in [Slot -> 1 .. GEN_MASK]
  /\ slotToDense \in [Slot -> -1 .. CAPACITY - 1]
  /\ freeSlots \in [Slot -> Slot]
  /\ freeCount \in 0 .. CAPACITY
  /\ pc \in {"tick", "compact"}
  /\ w \in 0 .. CAPACITY /\ r \in 0 .. CAPACITY
  /\ spawned \in 0 .. MaxSpawns
  /\ released \in [Slot -> Nat]
  /\ retired \subseteq Handle

(* Between ticks and during the loop, every row that holds an entity is    *)
(* the row its own handle resolves to (denseOf(idAt(d)) = d), so a system  *)
(* that keeps a handle across the compaction finds its own entity.         *)
HandlesResolve == \A d \in Occupied : DenseOf(denseId[d]) = d

(* The other way round: a slot that points at a row points at an occupied  *)
(* row that carries this slot, so no slot dangles into the leftovers.      *)
NoDanglingSlot ==
  \A s \in Slot : slotToDense[s] # -1 =>
    /\ slotToDense[s] \in Occupied
    /\ denseId[slotToDense[s]][1] = s

(* The free list holds each unused slot exactly once: no slot is lost and  *)
(* none is given out twice (test_entity_store.cpp, "no slot leak").        *)
FreeListExact ==
  /\ \A i, j \in 0 .. freeCount - 1 : freeSlots[i] = freeSlots[j] => i = j
  /\ {freeSlots[i] : i \in 0 .. freeCount - 1} = {s \in Slot : slotToDense[s] = -1}

(* Compaction is stable: rows are in the order their entities were         *)
(* spawned, whatever was deleted when (entity_store.h:245-253).            *)
SpawnOrder ==
  \A d, e \in Occupied : d < e => fields[d].born < fields[e].born

(* A handle whose entity is gone never resolves again, whoever uses its    *)
(* slot now, until the slot has been given back GEN_MASK times and its     *)
(* generations have wrapped.                                               *)
StaleNeverResolves ==
  \A h \in retired : released[h[1]] < GEN_MASK => DenseOf(h) = -1

----------------------------------------------------------------------------
(* The map the callers see: a handle stands for the row it resolves to.    *)
entityMap ==
  [h \in {g \in Handle : DenseOf(g) # -1} |->
     [born |-> fields[DenseOf(h)].born,
      val  |-> fields[DenseOf(h)].val,
      dead |-> denseDead[DenseOf(h)]]]

Abstract == INSTANCE EntityHandles WITH entity <- entityMap, Serial <- 0 .. MaxSpawns

(* The slots, rows and the moving of rows implement the plain handle map:  *)
(* every entity keeps its own fields wherever its row moves, and only      *)
(* entities marked dead disappear.                                         *)
ImplementsHandles == Abstract!Spec
=============================================================================
