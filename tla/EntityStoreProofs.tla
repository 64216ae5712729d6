-------------------------- MODULE EntityStoreProofs --------------------------
(***************************************************************************)
(* Proofs that the entity store keeps its promises for every capacity,     *)
(* every number of generations and every length of run.                    *)
(***************************************************************************)
EXTENDS EntityStore, FiniteSetTheorems, TLAPS

(* The counters account for every slot, also in the middle of the loop.    *)
Counting ==
  IF pc = "tick"
  THEN count + freeCount = CAPACITY
  ELSE w <= r /\ r <= count /\ w + (count - r) + freeCount = CAPACITY

(* Each occupied row and its slot point at each other.                     *)
RowsOwnSlots ==
  \A d \in Occupied :
    /\ slotToDense[denseId[d][1]] = d
    /\ slotGen[denseId[d][1]] = denseId[d][2]

FreeSlotsDistinct ==
  \A i, j \in 0 .. freeCount - 1 : freeSlots[i] = freeSlots[j] => i = j

FreeSlotsUnused == \A i \in 0 .. freeCount - 1 : slotToDense[freeSlots[i]] = -1

UnusedSlotsFree ==
  \A s \in Slot : slotToDense[s] = -1 => \E i \in 0 .. freeCount - 1 : freeSlots[i] = s

(* A slot's generation counts its releases until it wraps, and a retired   *)
(* handle is older than that.                                              *)
GenerationsCount == \A s \in Slot : released[s] < GEN_MASK => slotGen[s] = released[s] + 1
RetiredOlder     == \A h \in retired : released[h[1]] < GEN_MASK => h[2] <= released[h[1]]

TInv == TypeOK /\ Counting
SInv == /\ TInv
        /\ RowsOwnSlots
        /\ NoDanglingSlot
        /\ FreeSlotsDistinct /\ FreeSlotsUnused /\ UnusedSlotsFree
GInv == SInv /\ GenerationsCount /\ RetiredOlder
----------------------------------------------------------------------------
(* A row or slot number, as arithmetic.                                    *)
LEMMA Indices ==
  /\ \A x : x \in Slot <=> x \in Int /\ 0 <= x /\ x < CAPACITY
  /\ \A x : x \in Row <=> x \in Int /\ 0 <= x /\ x < CAPACITY
  /\ CAPACITY \in Nat /\ CAPACITY > 0 /\ GEN_MASK \in Nat /\ GEN_MASK > 0
  /\ MaxSpawns \in Nat /\ 0 \in Payload
  /\ \A x : x \in Slot => x \in -1 .. CAPACITY - 1
  /\ \A x : x \in 0 .. CAPACITY - 1 => x \in Slot
BY StoreAssumption, SMT DEF StoreAssumption, Slot, Row

(* Generations stay between 1 and GEN_MASK.                                *)
LEMMA NextGenerationType ==
  ASSUME NEW g \in 1 .. GEN_MASK
  PROVE  NextGeneration(g) \in 1 .. GEN_MASK
BY Indices, SMT DEF NextGeneration

(* A function updated at one point within its range keeps its type.        *)
LEMMA UpdateType ==
  ASSUME NEW S, NEW T, NEW f \in [S -> T], NEW x, NEW y \in T
  PROVE  [f EXCEPT ![x] = y] \in [S -> T]
OBVIOUS

(* The initial state satisfies the type invariant and the accounting.      *)
LEMMA InitTInv == Init => TInv
<1> SUFFICES ASSUME Init PROVE TInv
  OBVIOUS
<1>1. Invalid \in Handle
  BY Indices, SMT DEF Handle, Invalid
<1>2. [born |-> 0, val |-> 0] \in Fields
  BY Indices, SMT DEF Fields
<1>3. \A i \in Slot : CAPACITY - 1 - i \in Slot
  BY Indices, SMT
<1>4. Counting
  BY Indices, SMT DEF Init, Counting
<1>5. TypeOK
  <2>1. /\ denseId \in [Row -> Handle] /\ denseDead \in [Row -> BOOLEAN]
        /\ fields \in [Row -> Fields]
    BY <1>1, <1>2 DEF Init
  <2>2. /\ slotGen \in [Slot -> 1 .. GEN_MASK] /\ slotToDense \in [Slot -> -1 .. CAPACITY - 1]
        /\ freeSlots \in [Slot -> Slot] /\ released \in [Slot -> Nat]
    BY <1>3, Indices, SMT DEF Init
  <2> QED BY <2>1, <2>2, Indices, SMT DEF Init, TypeOK
<1> QED BY <1>4, <1>5 DEF TInv

(* Every step keeps them.                                                  *)
LEMMA NextTInv == TInv /\ [Next]_vars => TInv'
<1> SUFFICES ASSUME TInv, [Next]_vars PROVE TInv'
  OBVIOUS
<1> USE DEF TInv, TypeOK, Counting, table, history, loop
<1>1. ASSUME NEW v \in Payload, Spawn(v) PROVE TInv'
  <2>1. /\ count \in Row /\ freeCount - 1 \in Slot
        /\ freeSlots[freeCount - 1] \in Slot
    BY <1>1, Indices, SMT DEF Spawn
  <2>2. <<freeSlots[freeCount - 1], slotGen[freeSlots[freeCount - 1]]>> \in Handle
    BY <2>1, Indices, SMT DEF Handle
  <2>3. [born |-> spawned + 1, val |-> v] \in Fields
    BY <1>1, Indices, SMT DEF Fields, Spawn
  <2>4. count \in -1 .. CAPACITY - 1
    BY <2>1, Indices, SMT
  <2> QED BY <1>1, <2>1, <2>2, <2>3, <2>4, Indices, SMT DEF Spawn
<1>2. ASSUME NEW d \in Row, NEW v \in Payload, WriteRow(d, v) PROVE TInv'
  <2>1. [fields[d] EXCEPT !.val = v] \in Fields
    BY <1>2, SMT DEF Fields
  <2>2. fields' = [fields EXCEPT ![d] = [fields[d] EXCEPT !.val = v]]
    BY <1>2 DEF WriteRow
  <2>3. fields' \in [Row -> Fields]
    BY <2>1, <2>2, SMT
  <2> QED BY <1>2, <2>3, SMT DEF WriteRow
<1>3. ASSUME NEW h \in Handle, MarkDead(h) PROVE TInv'
  <2>1. denseDead' \in [Row -> BOOLEAN]
    BY <1>3 DEF MarkDead
  <2> QED BY <1>3, <2>1, SMT DEF MarkDead
<1>4. CASE CompactBegin
  BY <1>4, Indices, SMT DEF CompactBegin
<1>5. CASE CompactDrop
  <2>1. r \in Row /\ freeCount \in Slot /\ denseId[r] \in Handle
    BY <1>5, Indices, SMT DEF CompactDrop
  <2>2. denseId[r][1] \in Slot
    BY <2>1, SMT DEF Handle
  <2>3. \A s \in Slot : NextGeneration(slotGen[s]) \in 1 .. GEN_MASK
    BY NextGenerationType
  <2>4. slotGen' \in [Slot -> 1 .. GEN_MASK]
    <3>1. slotGen' = [slotGen EXCEPT ![denseId[r][1]] = NextGeneration(slotGen[denseId[r][1]])]
      BY <1>5 DEF CompactDrop, Release
    <3>2. NextGeneration(slotGen[denseId[r][1]]) \in 1 .. GEN_MASK
      BY <2>2, <2>3
    <3> QED BY <3>1, <3>2, UpdateType
  <2>5. slotToDense' \in [Slot -> -1 .. CAPACITY - 1]
    BY <1>5, <2>2, Indices, SMT DEF CompactDrop, Unmap
  <2>6. freeSlots' \in [Slot -> Slot] /\ freeCount' \in 0 .. CAPACITY
    BY <1>5, <2>1, <2>2, Indices, SMT DEF CompactDrop, Release, Push
  <2>7. released' \in [Slot -> Nat] /\ retired' \subseteq Handle
    <3>1. released[denseId[r][1]] + 1 \in Nat
      BY <2>2, SMT
    <3>2. released' = [released EXCEPT ![denseId[r][1]] = released[denseId[r][1]] + 1]
      BY <1>5 DEF CompactDrop, Release
    <3>3. released' \in [Slot -> Nat]
      BY <3>1, <3>2
    <3> QED BY <1>5, <2>1, <3>3 DEF CompactDrop, Release
  <2> QED BY <1>5, <2>1, <2>4, <2>5, <2>6, <2>7, Indices, SMT DEF CompactDrop, Release
<1>6. CASE CompactKeep
  <2>1. r \in Row /\ w \in Row /\ denseId[r] \in Handle
    BY <1>6, Indices, SMT DEF CompactKeep
  <2>2. denseId[r][1] \in Slot
    BY <2>1, SMT DEF Handle
  <2>3. fields' \in [Row -> Fields] /\ denseId' \in [Row -> Handle]
    BY <1>6, <2>1, SMT DEF CompactKeep, FieldsMoved
  <2>4. slotToDense' \in [Slot -> -1 .. CAPACITY - 1]
    BY <1>6, <2>1, <2>2, Indices, SMT DEF CompactKeep, SlotFollows
  <2> QED BY <1>6, <2>1, <2>3, <2>4, Indices, SMT DEF CompactKeep
<1>7. CASE CompactEnd
  BY <1>7, Indices, SMT DEF CompactEnd
<1>8. CASE UNCHANGED vars
  BY <1>8 DEF vars
<1> QED BY <1>1, <1>2, <1>3, <1>4, <1>5, <1>6, <1>7, <1>8 DEF Next, CompactStep

(* Type correctness of the store, and with it that count_, freeCount_ and  *)
(* every row and slot index stay inside their arrays in entity_store.h.    *)
THEOREM StoreTypeOK == Spec => []TypeOK
<1>1. TInv => TypeOK
  BY DEF TInv
<1> QED BY InitTInv, NextTInv, <1>1, PTL DEF Spec
----------------------------------------------------------------------------
(* The slot table.  A step that moves, adds or drops a row keeps rows and  *)
(* slots pointing at each other, and the free list holding the rest.       *)
LEMMA InitSInv == Init => SInv
<1> SUFFICES ASSUME Init PROVE SInv
  OBVIOUS
<1>1. TInv
  BY InitTInv
<1>2. Occupied = {}
  BY SMT DEF Init, Occupied
<1>3. \A s \in Slot : slotToDense[s] = -1
  BY DEF Init
<1>4. /\ \A i \in Slot : freeSlots[i] = CAPACITY - 1 - i /\ freeSlots[i] \in Slot
      /\ 0 .. freeCount - 1 = Slot
  BY Indices, SMT DEF Init, Slot
<1>5. RowsOwnSlots /\ NoDanglingSlot
  BY <1>2, <1>3 DEF RowsOwnSlots, NoDanglingSlot
<1>6. FreeSlotsDistinct
  <2> SUFFICES ASSUME NEW i \in Slot, NEW j \in Slot, freeSlots[i] = freeSlots[j]
               PROVE  i = j
    BY <1>4 DEF FreeSlotsDistinct
  <2>1. CAPACITY - 1 - i = CAPACITY - 1 - j
    BY <1>4
  <2> QED BY <2>1, Indices, SMT
<1>7. FreeSlotsUnused
  BY <1>3, <1>4 DEF FreeSlotsUnused
<1>8. UnusedSlotsFree
  <2> SUFFICES ASSUME NEW s \in Slot PROVE \E i \in 0 .. freeCount - 1 : freeSlots[i] = s
    BY DEF UnusedSlotsFree
  <2>1. CAPACITY - 1 - s \in Slot /\ freeSlots[CAPACITY - 1 - s] = s
    BY <1>4, Indices, SMT
  <2> QED BY <2>1, <1>4
<1> QED BY <1>1, <1>5, <1>6, <1>7, <1>8 DEF SInv

(* spawn pops the top of the free list and appends a row.                  *)
LEMMA SpawnSInv ==
  ASSUME SInv, TInv', NEW v \in Payload, Spawn(v)
  PROVE  SInv'
<1> DEFINE slot == freeSlots[freeCount - 1]
<1>1. /\ slot \in Slot /\ slotToDense[slot] = -1
      /\ count \in Row /\ freeCount \in 1 .. CAPACITY
      /\ freeCount - 1 \in 0 .. freeCount - 1
  BY Indices, SMT DEF SInv, TInv, TypeOK, Counting, FreeSlotsUnused, Spawn
<1>2. /\ Occupied = 0 .. count - 1 /\ Occupied' = 0 .. count
      /\ Occupied \subseteq Row
  <2>1. pc = "tick" /\ pc' = "tick" /\ count' = count + 1
    BY DEF Spawn, loop
  <2>2. Occupied = 0 .. count - 1 /\ Occupied' = 0 .. (count + 1) - 1
    BY <2>1 DEF Occupied
  <2> QED BY <1>1, <2>2, Indices, SMT
<1>3. /\ slotToDense' = [slotToDense EXCEPT ![slot] = count]
      /\ denseId' = [denseId EXCEPT ![count] = <<slot, slotGen[slot]>>]
      /\ slotGen' = slotGen /\ freeSlots' = freeSlots /\ freeCount' = freeCount - 1
  BY DEF Spawn
<1>4. /\ denseId \in [Row -> Handle] /\ slotToDense \in [Slot -> -1 .. CAPACITY - 1]
      /\ \A d \in Row : denseId[d][1] \in Slot
  BY SMT DEF SInv, TInv, TypeOK, Handle
<1>5. RowsOwnSlots'
  <2> SUFFICES ASSUME NEW d \in 0 .. count
               PROVE  /\ slotToDense'[denseId'[d][1]] = d
                      /\ slotGen'[denseId'[d][1]] = denseId'[d][2]
    BY <1>2 DEF RowsOwnSlots
  <2>1. CASE d = count
    BY <2>1, <1>1, <1>3, <1>4
  <2>2. CASE d # count
    <3>1. d \in Occupied /\ d \in Row /\ denseId'[d] = denseId[d]
      BY <2>2, <1>1, <1>2, <1>3, <1>4, Indices, SMT
    <3>2. slotToDense[denseId[d][1]] = d /\ slotGen[denseId[d][1]] = denseId[d][2]
      BY <3>1 DEF SInv, RowsOwnSlots
    <3>3. denseId[d][1] # slot
      BY <3>1, <3>2, <1>1, Indices, SMT
    <3> QED BY <3>1, <3>2, <3>3, <1>3, <1>4
  <2> QED BY <2>1, <2>2
<1>6. NoDanglingSlot'
  <2> SUFFICES ASSUME NEW s \in Slot, slotToDense'[s] # -1
               PROVE  slotToDense'[s] \in 0 .. count /\ denseId'[slotToDense'[s]][1] = s
    BY <1>2 DEF NoDanglingSlot
  <2>1. CASE s = slot
    BY <2>1, <1>1, <1>3, <1>4, Indices, SMT
  <2>2. CASE s # slot
    <3>1. slotToDense'[s] = slotToDense[s]
      BY <2>2, <1>3, <1>4
    <3>2. slotToDense[s] \in Occupied /\ denseId[slotToDense[s]][1] = s
      BY <3>1 DEF SInv, NoDanglingSlot
    <3>3. slotToDense[s] \in 0 .. count /\ slotToDense[s] # count
      BY <3>2, <1>1, <1>2, Indices, SMT
    <3> QED BY <3>1, <3>2, <3>3, <1>2, <1>3, <1>4
  <2> QED BY <2>1, <2>2
<1>7. FreeSlotsDistinct'
  BY <1>1, <1>3, SMT DEF SInv, FreeSlotsDistinct
<1>8. FreeSlotsUnused'
  <2> SUFFICES ASSUME NEW i \in 0 .. freeCount - 2 PROVE slotToDense'[freeSlots[i]] = -1
    BY <1>1, <1>3, SMT DEF FreeSlotsUnused
  <2>1. i \in 0 .. freeCount - 1 /\ i # freeCount - 1 /\ freeSlots[i] \in Slot
    <3>1. freeSlots \in [Slot -> Slot] /\ freeCount \in 0 .. CAPACITY
      BY Indices DEF SInv, TInv, TypeOK
    <3>2. i \in Slot
      BY <3>1, Indices
    <3> QED BY <3>1, <3>2
  <2>2. freeSlots[i] # slot /\ slotToDense[freeSlots[i]] = -1
    BY <2>1, <1>1 DEF SInv, FreeSlotsDistinct, FreeSlotsUnused
  <2> QED BY <2>1, <2>2, <1>3, <1>4
<1>9. UnusedSlotsFree'
  <2> SUFFICES ASSUME NEW s \in Slot, slotToDense'[s] = -1
               PROVE  \E i \in 0 .. freeCount - 2 : freeSlots[i] = s
    BY <1>1, <1>3, SMT DEF UnusedSlotsFree
  <2>1. s # slot
    BY <1>1, <1>3, <1>4, Indices, SMT
  <2>2. slotToDense[s] = -1
    BY <2>1, <1>3, <1>4
  <2>3. PICK i \in 0 .. freeCount - 1 : freeSlots[i] = s
    BY <2>2 DEF SInv, UnusedSlotsFree
  <2>4. i \in 0 .. freeCount - 2
    BY <2>1, <2>3, <1>1, SMT
  <2> QED BY <2>3, <2>4
<1> QED BY <1>5, <1>6, <1>7, <1>8, <1>9 DEF SInv

(* A dead row leaves; its slot is pushed on the free list.                 *)
LEMMA CompactDropSInv ==
  ASSUME SInv, TInv', CompactDrop
  PROVE  SInv'
<1> DEFINE slot == denseId[r][1]
<1>1. /\ r \in Row /\ r \in Occupied /\ r < count /\ w <= r
      /\ denseId[r] \in Handle /\ slot \in Slot /\ slotToDense[slot] = r
      /\ freeCount \in Slot /\ freeCount \in 0 .. freeCount
  <2>1. r \in Row /\ r < count /\ w <= r /\ denseId[r] \in Handle /\ freeCount \in Slot
    <3>1. /\ pc = "compact" /\ r < count /\ w <= r /\ w + (count - r) + freeCount = CAPACITY
          /\ r \in 0 .. CAPACITY /\ w \in 0 .. CAPACITY
          /\ count \in 0 .. CAPACITY /\ freeCount \in 0 .. CAPACITY
      BY DEF SInv, TInv, TypeOK, Counting, CompactDrop
    <3>2. r \in Row /\ freeCount \in Slot
      BY <3>1, Indices, SMT
    <3> QED BY <3>1, <3>2 DEF SInv, TInv, TypeOK
  <2>2. r \in Occupied
    BY <2>1, Indices, SMT DEF Occupied, CompactDrop, SInv, TInv, TypeOK
  <2>3. slot \in Slot
    BY <2>1, SMT DEF Handle
  <2>4. slotToDense[slot] = r
    BY <2>2 DEF SInv, RowsOwnSlots
  <2>5. freeCount \in 0 .. freeCount
    BY <2>1, Indices, SMT
  <2> QED BY <2>1, <2>2, <2>3, <2>4, <2>5
<1>2. Occupied' = Occupied \ {r} /\ Occupied \subseteq Row
  <2>1. pc = "compact" /\ pc' = "compact" /\ count' = count /\ w' = w /\ r' = r + 1
    BY DEF CompactDrop
  <2>2. /\ Occupied = (0 .. w - 1) \cup (r .. count - 1)
        /\ Occupied' = (0 .. w - 1) \cup (r + 1 .. count - 1)
    BY <2>1 DEF Occupied
  <2>3. w \in 0 .. CAPACITY /\ count \in 0 .. CAPACITY /\ r \in 0 .. CAPACITY
    BY DEF SInv, TInv, TypeOK
  <2> QED BY <1>1, <2>2, <2>3, Indices, SMT
<1>3. /\ slotToDense' = [slotToDense EXCEPT ![slot] = -1]
      /\ slotGen' = [slotGen EXCEPT ![slot] = NextGeneration(slotGen[slot])]
      /\ freeSlots' = [freeSlots EXCEPT ![freeCount] = slot] /\ freeCount' = freeCount + 1
      /\ denseId' = denseId
  BY DEF CompactDrop, Release, Unmap, Push
<1>4. /\ denseId \in [Row -> Handle] /\ slotToDense \in [Slot -> -1 .. CAPACITY - 1]
      /\ freeSlots \in [Slot -> Slot] /\ \A d \in Row : denseId[d][1] \in Slot
      /\ DOMAIN slotGen = Slot /\ freeCount' - 1 = freeCount
      /\ \A i \in 0 .. freeCount : i \in Slot
  <2>1. /\ denseId \in [Row -> Handle] /\ slotToDense \in [Slot -> -1 .. CAPACITY - 1]
        /\ freeSlots \in [Slot -> Slot] /\ DOMAIN slotGen = Slot /\ freeCount \in 0 .. CAPACITY
    BY DEF SInv, TInv, TypeOK
  <2>2. \A d \in Row : denseId[d][1] \in Slot
    BY <2>1, SMT DEF Handle
  <2>3. freeCount' - 1 = freeCount /\ \A i \in 0 .. freeCount : i \in Slot
    BY <1>1, <1>3, <2>1, Indices, SMT
  <2> QED BY <2>1, <2>2, <2>3
<1>5. RowsOwnSlots'
  <2> SUFFICES ASSUME NEW d \in Occupied, d # r
               PROVE  /\ slotToDense'[denseId[d][1]] = d
                      /\ slotGen'[denseId[d][1]] = denseId[d][2]
    BY <1>2, <1>3 DEF RowsOwnSlots
  <2>1. slotToDense[denseId[d][1]] = d /\ slotGen[denseId[d][1]] = denseId[d][2]
    BY DEF SInv, RowsOwnSlots
  <2>2. denseId[d][1] # slot /\ denseId[d][1] \in Slot
    BY <2>1, <1>1, <1>2, <1>4
  <2> QED BY <2>1, <2>2, <1>3, <1>4
<1>6. NoDanglingSlot'
  <2> SUFFICES ASSUME NEW s \in Slot, slotToDense'[s] # -1
               PROVE  /\ slotToDense'[s] \in Occupied /\ slotToDense'[s] # r
                      /\ denseId[slotToDense'[s]][1] = s
    BY <1>2, <1>3 DEF NoDanglingSlot
  <2>1. s # slot
    BY <1>1, <1>3, <1>4
  <2>2. slotToDense'[s] = slotToDense[s]
    BY <2>1, <1>3, <1>4
  <2>3. slotToDense[s] \in Occupied /\ denseId[slotToDense[s]][1] = s
    BY <2>2 DEF SInv, NoDanglingSlot
  <2> QED BY <2>1, <2>2, <2>3
<1>7. \A i \in 0 .. freeCount - 1 : /\ i \in 0 .. freeCount /\ i # freeCount /\ i \in Slot
                                    /\ freeSlots'[i] = freeSlots[i] /\ freeSlots[i] \in Slot
                                    /\ freeSlots[i] # slot
  <2> SUFFICES ASSUME NEW i \in 0 .. freeCount - 1
               PROVE  /\ i \in 0 .. freeCount /\ i # freeCount /\ i \in Slot
                      /\ freeSlots'[i] = freeSlots[i] /\ freeSlots[i] \in Slot
                      /\ freeSlots[i] # slot
    OBVIOUS
  <2>1. i \in 0 .. freeCount /\ i # freeCount /\ i \in Slot
    BY <1>1, Indices, SMT
  <2>2. freeSlots'[i] = freeSlots[i] /\ freeSlots[i] \in Slot
    BY <2>1, <1>3, <1>4
  <2>3. slotToDense[freeSlots[i]] = -1
    BY DEF SInv, FreeSlotsUnused
  <2>4. freeSlots[i] # slot
    BY <2>3, <1>1, Indices, SMT
  <2> QED BY <2>1, <2>2, <2>4
<1>8. freeSlots'[freeCount] = slot /\ \A i \in 0 .. freeCount : i = freeCount \/ i \in 0 .. freeCount - 1
  BY <1>1, <1>3, <1>4, Indices, SMT
<1>9. FreeSlotsDistinct'
  <2> SUFFICES ASSUME NEW i \in 0 .. freeCount, NEW j \in 0 .. freeCount,
                      freeSlots'[i] = freeSlots'[j]
               PROVE  i = j
    BY <1>4 DEF FreeSlotsDistinct
  <2>1. CASE i \in 0 .. freeCount - 1 /\ j \in 0 .. freeCount - 1
    BY <2>1, <1>7 DEF SInv, FreeSlotsDistinct
  <2> QED BY <2>1, <1>7, <1>8
<1>10. FreeSlotsUnused'
  <2> SUFFICES ASSUME NEW i \in 0 .. freeCount PROVE slotToDense'[freeSlots'[i]] = -1
    BY <1>4 DEF FreeSlotsUnused
  <2>1. CASE i = freeCount
    BY <2>1, <1>1, <1>3, <1>4, <1>8
  <2>2. CASE i \in 0 .. freeCount - 1
    BY <2>2, <1>3, <1>4, <1>7 DEF SInv, FreeSlotsUnused
  <2> QED BY <2>1, <2>2, <1>8
<1>11. UnusedSlotsFree'
  <2> SUFFICES ASSUME NEW s \in Slot, slotToDense'[s] = -1
               PROVE  \E i \in 0 .. freeCount : freeSlots'[i] = s
    BY <1>4 DEF UnusedSlotsFree
  <2>1. CASE s = slot
    BY <2>1, <1>1, <1>8
  <2>2. CASE s # slot
    <3>1. slotToDense[s] = -1
      BY <2>2, <1>3, <1>4
    <3>2. PICK i \in 0 .. freeCount - 1 : freeSlots[i] = s
      BY <3>1 DEF SInv, UnusedSlotsFree
    <3> QED BY <3>2, <1>7
  <2> QED BY <2>1, <2>2
<1> QED BY <1>5, <1>6, <1>9, <1>10, <1>11 DEF SInv

(* A survivor moves down; its slot follows, no other slot is involved.     *)
LEMMA CompactKeepSInv ==
  ASSUME SInv, TInv', CompactKeep
  PROVE  SInv'
<1> DEFINE slot == denseId[r][1]
<1>1. /\ pc = "compact" /\ r < count /\ w <= r
      /\ r \in 0 .. CAPACITY /\ w \in 0 .. CAPACITY
      /\ count \in 0 .. CAPACITY /\ freeCount \in 0 .. CAPACITY
  BY DEF SInv, TInv, TypeOK, Counting, CompactKeep
<1>2. /\ r \in Row /\ w \in Row /\ w \in -1 .. CAPACITY - 1
  BY <1>1, Indices, SMT
<1>3. /\ Occupied = (0 .. w - 1) \cup (r .. count - 1)
      /\ Occupied' = (0 .. (w + 1) - 1) \cup (r + 1 .. count - 1)
  BY <1>1 DEF CompactKeep, Occupied
<1>4. /\ Occupied \subseteq Row /\ r \in Occupied
      /\ \A d : d \in Occupied' <=> d = w \/ (d \in Occupied /\ d # r)
      /\ w \in Occupied => w = r
  BY <1>1, <1>3, Indices, SMT
<1>5. /\ denseId \in [Row -> Handle] /\ slotToDense \in [Slot -> -1 .. CAPACITY - 1]
      /\ DOMAIN slotGen = Slot
  BY DEF SInv, TInv, TypeOK
<1>6. \A d \in Row : denseId[d][1] \in Slot
  BY <1>5, SMT DEF Handle
<1>7. slot \in Slot /\ slotToDense[slot] = r /\ slotGen[slot] = denseId[r][2]
  BY <1>2, <1>4, <1>6 DEF SInv, RowsOwnSlots
<1>8. /\ slotToDense' = [slotToDense EXCEPT ![slot] = w]
      /\ denseId' = [denseId EXCEPT ![w] = denseId[r]]
      /\ slotGen' = slotGen /\ freeSlots' = freeSlots /\ freeCount' = freeCount
  BY DEF CompactKeep, SlotFollows
<1>9. RowsOwnSlots'
  <2> SUFFICES ASSUME NEW d \in Occupied'
               PROVE  /\ slotToDense'[denseId'[d][1]] = d
                      /\ slotGen[denseId'[d][1]] = denseId'[d][2]
    BY <1>8 DEF RowsOwnSlots
  <2>1. CASE d = w
    BY <2>1, <1>2, <1>5, <1>7, <1>8
  <2>2. CASE d # w
    <3>1. d \in Occupied /\ d # r /\ d \in Row /\ denseId'[d] = denseId[d]
      BY <2>2, <1>4, <1>5, <1>8
    <3>2. slotToDense[denseId[d][1]] = d /\ slotGen[denseId[d][1]] = denseId[d][2]
      BY <3>1 DEF SInv, RowsOwnSlots
    <3>3. denseId[d][1] # slot /\ denseId[d][1] \in Slot
      BY <3>1, <3>2, <1>6, <1>7
    <3> QED BY <3>1, <3>2, <3>3, <1>5, <1>8
  <2> QED BY <2>1, <2>2
<1>10. NoDanglingSlot'
  <2> SUFFICES ASSUME NEW s \in Slot, slotToDense'[s] # -1
               PROVE  /\ slotToDense'[s] \in Occupied'
                      /\ denseId'[slotToDense'[s]][1] = s
    BY DEF NoDanglingSlot
  <2>1. CASE s = slot
    BY <2>1, <1>2, <1>4, <1>5, <1>7, <1>8
  <2>2. CASE s # slot
    <3>1. slotToDense'[s] = slotToDense[s]
      BY <2>2, <1>5, <1>8
    <3>2. slotToDense[s] \in Occupied /\ denseId[slotToDense[s]][1] = s
      BY <3>1 DEF SInv, NoDanglingSlot
    <3>3. slotToDense[s] # r
      BY <3>2, <2>2
    <3>4. slotToDense[s] # w /\ slotToDense[s] \in Occupied'
      BY <3>2, <3>3, <1>4
    <3> QED BY <3>1, <3>2, <3>4, <1>4, <1>5, <1>8
  <2> QED BY <2>1, <2>2
<1>11. \A s \in Slot : slotToDense'[s] = -1 <=> slotToDense[s] = -1
  <2>1. w # -1 /\ r # -1
    BY <1>2, Indices, SMT
  <2> QED BY <2>1, <1>5, <1>7, <1>8
<1>12. \A i \in 0 .. freeCount - 1 : freeSlots[i] \in Slot
  <2>1. freeSlots \in [Slot -> Slot] /\ freeCount \in 0 .. CAPACITY
    BY DEF SInv, TInv, TypeOK
  <2>2. \A i \in 0 .. freeCount - 1 : i \in Slot
    BY <2>1, Indices, SMT DEF Slot
  <2> QED BY <2>1, <2>2
<1>13. FreeSlotsDistinct' /\ FreeSlotsUnused' /\ UnusedSlotsFree'
  BY <1>8, <1>11, <1>12 DEF SInv, FreeSlotsDistinct, FreeSlotsUnused, UnusedSlotsFree
<1> QED BY <1>9, <1>10, <1>13 DEF SInv

(* The steps that leave the slot table and the occupied rows alone.        *)
LEMMA SameTableSInv ==
  ASSUME SInv, TInv', Occupied' = Occupied,
         UNCHANGED <<denseId, slotGen, slotToDense, freeSlots, freeCount>>
  PROVE  SInv'
BY DEF SInv, RowsOwnSlots, NoDanglingSlot, FreeSlotsDistinct, FreeSlotsUnused, UnusedSlotsFree

LEMMA NextSInv == SInv /\ [Next]_vars => SInv'
<1> SUFFICES ASSUME SInv, [Next]_vars PROVE SInv'
  OBVIOUS
<1>0. TInv'
  BY NextTInv DEF SInv
<1>1. ASSUME NEW v \in Payload, Spawn(v) PROVE SInv'
  BY <1>0, <1>1, SpawnSInv
<1>2. ASSUME NEW d \in Row, NEW v \in Payload, WriteRow(d, v) PROVE SInv'
  BY <1>0, <1>2, SameTableSInv DEF WriteRow, Occupied, table, loop
<1>3. ASSUME NEW h \in Handle, MarkDead(h) PROVE SInv'
  BY <1>0, <1>3, SameTableSInv DEF MarkDead, Occupied, table, loop
<1>4. CASE CompactBegin
  <2>1. Occupied' = Occupied
    <3>1. Occupied = 0 .. count - 1 /\ Occupied' = (0 .. 0 - 1) \cup (0 .. count - 1)
      BY <1>4 DEF CompactBegin, Occupied
    <3> QED BY <3>1, SMT
  <2> QED BY <1>0, <1>4, <2>1, SameTableSInv DEF CompactBegin, table
<1>5. CASE CompactDrop
  BY <1>0, <1>5, CompactDropSInv
<1>6. CASE CompactKeep
  BY <1>0, <1>6, CompactKeepSInv
<1>7. CASE CompactEnd
  <2>1. Occupied' = Occupied
    <3>1. /\ Occupied' = 0 .. w - 1 /\ Occupied = (0 .. w - 1) \cup (count .. count - 1)
          /\ count \in 0 .. CAPACITY
      BY <1>7 DEF CompactEnd, Occupied, SInv, TInv, TypeOK
    <3> QED BY <3>1, Indices, SMT
  <2> QED BY <1>0, <1>7, <2>1, SameTableSInv DEF CompactEnd, table
<1>8. CASE UNCHANGED vars
  BY <1>0, <1>8, SameTableSInv DEF vars, Occupied
<1> QED BY <1>1, <1>2, <1>3, <1>4, <1>5, <1>6, <1>7, <1>8 DEF Next, CompactStep

(* A handle read off an occupied row is valid and of its slot's generation. *)
LEMMA RowsResolve == SInv => HandlesResolve
<1> SUFFICES ASSUME SInv, NEW d \in Occupied PROVE DenseOf(denseId[d]) = d
  BY DEF HandlesResolve
<1>1. slotToDense[denseId[d][1]] = d /\ slotGen[denseId[d][1]] = denseId[d][2]
  BY DEF SInv, RowsOwnSlots
<1>2. d \in Row
  <2>1. count \in 0 .. CAPACITY /\ w \in 0 .. CAPACITY /\ r \in 0 .. CAPACITY
    BY DEF SInv, TInv, TypeOK
  <2>2. pc # "tick" => w <= r /\ r <= count
    BY DEF SInv, TInv, Counting
  <2> QED BY <2>1, <2>2, Indices, SMT DEF Occupied
<1>3. denseId[d][1] \in Slot
  BY <1>2, SMT DEF SInv, TInv, TypeOK, Handle
<1>4. denseId[d][2] # 0
  <2>1. slotGen[denseId[d][1]] \in 1 .. GEN_MASK
    BY <1>3 DEF SInv, TInv, TypeOK
  <2> QED BY <2>1, <1>1, Indices, SMT
<1> QED BY <1>1, <1>4 DEF DenseOf

(* The handle a system reads off a row leads back to that row, before,     *)
(* between and after compactions of entity_store.h.                        *)
THEOREM StoreHandlesResolve == Spec => []HandlesResolve
  BY InitSInv, NextSInv, RowsResolve, PTL DEF Spec

(* No slot points into the leftovers behind count_.                        *)
THEOREM StoreNoDanglingSlot == Spec => []NoDanglingSlot
<1>1. SInv => NoDanglingSlot
  BY DEF SInv
<1> QED BY InitSInv, NextSInv, <1>1, PTL DEF Spec

(* The free list is exactly the unused slots, each once: nothing leaks and *)
(* no slot is handed to two entities.                                      *)
THEOREM StoreFreeListExact == Spec => []FreeListExact
<1>1. SInv => FreeListExact
  <2> SUFFICES ASSUME SInv PROVE FreeListExact
    OBVIOUS
  <2>1. \A i \in 0 .. freeCount - 1 : freeSlots[i] \in Slot
    BY Indices, SMT DEF SInv, TInv, TypeOK
  <2> QED BY <2>1 DEF SInv, FreeListExact, FreeSlotsDistinct, FreeSlotsUnused, UnusedSlotsFree
<1> QED BY InitSInv, NextSInv, <1>1, PTL DEF Spec

(* A slot that is released counts one more, under the next generation; the *)
(* handle that is retired with it is as old as that count.                 *)
LEMMA CompactDropGInv ==
  ASSUME GInv, SInv', CompactDrop
  PROVE  GInv'
<1> DEFINE slot == denseId[r][1]
<1>1. r \in Occupied /\ r \in Row
  <2>1. count \in 0 .. CAPACITY /\ r \in 0 .. CAPACITY /\ r < count /\ pc = "compact"
    BY DEF GInv, SInv, TInv, TypeOK, CompactDrop
  <2> QED BY <2>1, Indices, SMT DEF Occupied
<1>2. slot \in Slot /\ slotGen[slot] = denseId[r][2] /\ denseId[r] \in Handle
  <2>1. denseId[r] \in Handle
    BY <1>1 DEF GInv, SInv, TInv, TypeOK
  <2> QED BY <1>1, <2>1 DEF GInv, SInv, RowsOwnSlots, Handle
<1>3. /\ released \in [Slot -> Nat] /\ slotGen \in [Slot -> 1 .. GEN_MASK]
      /\ GEN_MASK \in Nat /\ retired \subseteq Handle
  BY Indices DEF GInv, SInv, TInv, TypeOK
<1>4. /\ slotGen' = [slotGen EXCEPT ![slot] = NextGeneration(@)]
      /\ released' = [released EXCEPT ![slot] = @ + 1]
      /\ retired' = retired \cup {denseId[r]}
  BY DEF CompactDrop, Release
<1> HIDE DEF slot
<1>5. ASSUME NEW s \in Slot, released'[s] < GEN_MASK PROVE slotGen'[s] = released'[s] + 1
  <2>1. CASE s = slot
    <3>1. released'[s] = released[s] + 1 /\ slotGen'[s] = NextGeneration(slotGen[s])
      BY <1>3, <1>4, <2>1
    <3>2. released[s] \in Nat
      BY <1>3
    <3>3. released[s] < GEN_MASK /\ slotGen[s] = released[s] + 1
      BY <1>3, <1>5, <3>1, <3>2 DEF GInv, GenerationsCount
    <3>4. slotGen[s] # GEN_MASK
      BY <1>3, <1>5, <3>1, <3>2, <3>3
    <3> QED BY <3>1, <3>3, <3>4 DEF NextGeneration
  <2>2. CASE s # slot
    BY <1>3, <1>4, <1>5, <2>2 DEF GInv, GenerationsCount
  <2> QED BY <2>1, <2>2
<1>6. ASSUME NEW h \in retired', released'[h[1]] < GEN_MASK PROVE h[2] <= released'[h[1]]
  <2>1. CASE h \in retired
    <3>1. h[1] \in Slot /\ h[2] \in Nat
      BY <1>3, <2>1 DEF Handle
    <3>2. released[h[1]] \in Nat /\ released'[h[1]] \in {released[h[1]], released[h[1]] + 1}
      BY <1>3, <1>4, <3>1
    <3>3. released[h[1]] < GEN_MASK
      BY <1>3, <1>6, <3>2
    <3>4. h[2] <= released[h[1]]
      BY <2>1, <3>3 DEF GInv, RetiredOlder
    <3> QED BY <3>1, <3>2, <3>4
  <2>2. CASE h \notin retired
    <3>1. h = denseId[r] /\ h[1] = slot
      BY <1>4, <2>2 DEF slot
    <3>2. released'[slot] = released[slot] + 1 /\ released[slot] \in Nat
      BY <1>2, <1>3, <1>4
    <3>3. released[slot] < GEN_MASK
      BY <1>3, <1>6, <3>1, <3>2
    <3>4. h[2] = released[slot] + 1
      BY <1>2, <3>1, <3>3 DEF GInv, GenerationsCount
    <3> QED BY <3>1, <3>2, <3>4
  <2> QED BY <2>1, <2>2
<1> QED BY <1>5, <1>6 DEF GInv, GenerationsCount, RetiredOlder

LEMMA NextGInv == GInv /\ [Next]_vars => GInv'
<1> SUFFICES ASSUME GInv, [Next]_vars PROVE GInv'
  OBVIOUS
<1>1. SInv'
  BY NextSInv DEF GInv
<1>2. CASE CompactDrop
  BY <1>1, <1>2, CompactDropGInv
<1>3. ASSUME UNCHANGED <<slotGen, released, retired>> PROVE GInv'
  BY <1>1, <1>3 DEF GInv, GenerationsCount, RetiredOlder
<1>4. CASE ~CompactDrop
  <2>1. UNCHANGED <<slotGen, released, retired>>
    BY <1>4 DEF Next, CompactStep, Spawn, WriteRow, MarkDead, CompactBegin, CompactKeep,
                CompactEnd, vars, table, history
  <2> QED BY <2>1, <1>3
<1> QED BY <1>2, <1>4

(* A handle kept for an entity that is gone (a target, a QTE source) never *)
(* resolves again before its slot's generations have wrapped.              *)
THEOREM StoreStaleNeverResolves == Spec => []StaleNeverResolves
<1>1. Init => GInv
  <2> SUFFICES ASSUME Init PROVE GInv
    OBVIOUS
  <2>1. SInv
    BY InitSInv
  <2> QED BY <2>1 DEF GInv, GenerationsCount, RetiredOlder, Init
<1>2. GInv => StaleNeverResolves
  <2> SUFFICES ASSUME GInv, NEW h \in retired, released[h[1]] < GEN_MASK PROVE DenseOf(h) = -1
    BY DEF StaleNeverResolves
  <2>1. h[1] \in Slot /\ h[2] \in Nat /\ released[h[1]] \in Nat
    BY DEF GInv, SInv, TInv, TypeOK, Handle
  <2>2. slotGen[h[1]] = released[h[1]] + 1 /\ h[2] <= released[h[1]]
    BY <2>1 DEF GInv, GenerationsCount, RetiredOlder
  <2>3. slotGen[h[1]] # h[2]
    BY <2>1, <2>2
  <2> QED BY <2>3 DEF DenseOf
<1> QED BY <1>1, <1>2, NextGInv, PTL DEF Spec
----------------------------------------------------------------------------
(* The entities in the rows were spawned in their order, and by now.       *)
OInv ==
  /\ TInv
  /\ SpawnOrder
  /\ \A d \in Occupied : fields[d].born <= spawned

(* The rows in use are rows, in the loop and outside of it.                *)
LEMMA OccupiedRows ==
  ASSUME TInv
  PROVE  Occupied \subseteq Row
<1>1. count \in 0 .. CAPACITY /\ w \in 0 .. CAPACITY /\ r \in 0 .. CAPACITY
  BY DEF TInv, TypeOK
<1>2. pc # "tick" => w <= r /\ r <= count
  BY DEF TInv, Counting
<1> QED BY <1>1, <1>2, Indices, SMT DEF Occupied

(* Rows that hold what they held before are still in order.                *)
LEMMA SameOrder ==
  ASSUME OInv, TInv', Occupied' \subseteq Occupied, spawned' = spawned,
         \A d \in Occupied' : fields'[d].born = fields[d].born
  PROVE  OInv'
BY DEF OInv, SpawnOrder

LEMMA SpawnOInv ==
  ASSUME OInv, TInv', NEW v \in Payload, Spawn(v)
  PROVE  OInv'
<1>1. /\ count \in 0 .. CAPACITY /\ freeCount \in 0 .. CAPACITY /\ count + freeCount = CAPACITY
      /\ pc = "tick" /\ pc' = "tick" /\ count' = count + 1 /\ freeCount # 0
      /\ spawned \in Nat /\ spawned' = spawned + 1
      /\ fields \in [Row -> Fields]
  BY SMT DEF OInv, TInv, TypeOK, Counting, Spawn, loop
<1>2. fields' = [fields EXCEPT ![count] = [born |-> spawned + 1, val |-> v]]
  BY DEF Spawn
<1>3. count \in Row /\ \A d \in 0 .. count - 1 : d \in Row /\ d # count
  BY <1>1, Indices, SMT
<1>4. /\ \A d \in 0 .. count - 1 : fields'[d].born = fields[d].born
      /\ fields'[count].born = spawned + 1
  BY <1>1, <1>2, <1>3
<1>5. Occupied = 0 .. count - 1 /\ Occupied' = 0 .. count
  BY <1>1 DEF Occupied
<1>6. \A d \in 0 .. count - 1 : fields[d].born \in Nat /\ fields[d].born <= spawned
  <2>1. \A d \in Row : fields[d].born \in Nat
    BY <1>1 DEF Fields
  <2> QED BY <2>1, <1>3, <1>5 DEF OInv
<1>7. \A d \in 0 .. count : d = count \/ d \in 0 .. count - 1
  BY <1>1
<1>8. \A d \in 0 .. count : fields'[d].born <= spawned'
  BY <1>1, <1>4, <1>6, <1>7
<1>9. ASSUME NEW d \in 0 .. count, NEW e \in 0 .. count, d < e
      PROVE  fields'[d].born < fields'[e].born
  <2>1. d \in 0 .. count - 1
    BY <1>1, <1>9
  <2>2. CASE e = count
    BY <2>1, <2>2, <1>1, <1>4, <1>6
  <2>3. CASE e \in 0 .. count - 1
    BY <2>1, <2>3, <1>4, <1>5, <1>9 DEF OInv, SpawnOrder
  <2> QED BY <2>2, <2>3, <1>7
<1> QED BY <1>5, <1>8, <1>9 DEF OInv, SpawnOrder

LEMMA CompactKeepOInv ==
  ASSUME OInv, TInv', CompactKeep
  PROVE  OInv'
<1>1. /\ count \in 0 .. CAPACITY /\ w \in 0 .. CAPACITY /\ r \in 0 .. CAPACITY
      /\ w <= r /\ r < count /\ pc = "compact" /\ pc' = "compact"
      /\ w' = w + 1 /\ r' = r + 1 /\ count' = count /\ spawned' = spawned
      /\ fields \in [Row -> Fields]
  BY SMT DEF OInv, TInv, TypeOK, Counting, CompactKeep
<1>2. fields' = [fields EXCEPT ![w] = fields[r]]
  BY DEF CompactKeep, FieldsMoved
<1>3. w \in Row /\ r \in Occupied
  BY <1>1, Indices, SMT DEF Occupied
<1>4. \A d \in Occupied' : d = w \/ (d \in Occupied /\ d # w /\ (d < w \/ d > r))
  BY <1>1, SMT DEF Occupied
<1>5. \A d \in Occupied' : d \in Int
  BY <1>1, SMT DEF Occupied
<1>6. /\ fields'[w] = fields[r]
      /\ \A d \in Occupied : d # w => fields'[d] = fields[d]
  BY <1>1, <1>2, <1>3, OccupiedRows DEF OInv
<1>7. \A d \in Occupied' : fields'[d].born <= spawned'
  BY <1>1, <1>3, <1>4, <1>6 DEF OInv
<1>8. ASSUME NEW d \in Occupied', NEW e \in Occupied', d < e
      PROVE  fields'[d].born < fields'[e].born
  <2>1. d \in Int /\ e \in Int /\ r \in Int /\ w \in Int
    BY <1>1, <1>5
  <2>2. CASE d = w
    <3>1. e \in Occupied /\ r < e /\ e # w
      BY <2>1, <2>2, <1>1, <1>4, <1>8
    <3> QED BY <3>1, <2>2, <1>3, <1>6 DEF OInv, SpawnOrder
  <2>3. CASE e = w
    <3>1. d \in Occupied /\ d < r /\ d # w
      BY <2>1, <2>3, <1>1, <1>4, <1>8
    <3> QED BY <3>1, <2>3, <1>3, <1>6 DEF OInv, SpawnOrder
  <2>4. CASE d # w /\ e # w
    BY <2>4, <1>4, <1>6, <1>8 DEF OInv, SpawnOrder
  <2> QED BY <2>2, <2>3, <2>4
<1> QED BY <1>7, <1>8 DEF OInv, SpawnOrder

LEMMA NextOInv == OInv /\ [Next]_vars => OInv'
<1> SUFFICES ASSUME OInv, [Next]_vars PROVE OInv'
  OBVIOUS
<1>1. TInv' /\ TInv
  BY NextTInv DEF OInv
<1>2. ASSUME NEW v \in Payload, Spawn(v) PROVE OInv'
  BY <1>1, <1>2, SpawnOInv
<1>3. ASSUME NEW d \in Row, NEW v \in Payload, WriteRow(d, v) PROVE OInv'
  <2>1. Occupied' = Occupied /\ spawned' = spawned /\ fields' = [fields EXCEPT ![d].val = v]
    BY <1>3 DEF WriteRow, Occupied, loop
  <2>2. fields \in [Row -> Fields]
    BY <1>1 DEF TInv, TypeOK
  <2>3. \A e \in Row : fields'[e].born = fields[e].born
    BY <2>1, <2>2 DEF Fields
  <2> QED BY <1>1, <2>1, <2>3, OccupiedRows, SameOrder
<1>4. CASE CompactKeep
  BY <1>1, <1>4, CompactKeepOInv
<1>5. CASE \/ \E h \in Handle : MarkDead(h)
           \/ CompactBegin \/ CompactDrop \/ CompactEnd \/ UNCHANGED vars
  <2>1. UNCHANGED <<fields, spawned>>
    BY <1>5 DEF MarkDead, CompactBegin, CompactDrop, CompactEnd, vars
  <2>2. /\ count \in 0 .. CAPACITY /\ w \in 0 .. CAPACITY /\ r \in 0 .. CAPACITY
        /\ pc # "tick" => w <= r /\ r <= count
    BY <1>1 DEF TInv, TypeOK, Counting
  <2>3. Occupied' \subseteq Occupied
    <3>1. CASE \E h \in Handle : MarkDead(h)
      BY <3>1 DEF MarkDead, Occupied, loop
    <3>2. CASE CompactBegin
      <4>1. /\ Occupied' = (0 .. 0 - 1) \cup (0 .. count - 1) /\ Occupied = 0 .. count - 1
        BY <3>2 DEF CompactBegin, Occupied
      <4> QED BY <4>1, <2>2, SMT
    <3>3. CASE CompactDrop
      <4>1. /\ Occupied' = (0 .. w - 1) \cup (r + 1 .. count - 1)
            /\ Occupied = (0 .. w - 1) \cup (r .. count - 1)
        BY <3>3 DEF CompactDrop, Occupied
      <4> QED BY <4>1, <2>2, SMT
    <3>4. CASE CompactEnd
      <4>1. Occupied' = 0 .. w - 1 /\ Occupied = (0 .. w - 1) \cup (r .. count - 1)
        BY <3>4 DEF CompactEnd, Occupied
      <4> QED BY <4>1
    <3>5. CASE UNCHANGED vars
      BY <3>5 DEF vars, Occupied
    <3> QED BY <1>5, <3>1, <3>2, <3>3, <3>4, <3>5
  <2> QED BY <1>1, <2>1, <2>3, SameOrder
<1> QED BY <1>2, <1>3, <1>4, <1>5 DEF Next, CompactStep

LEMMA InitOInv == Init => OInv
<1> SUFFICES ASSUME Init PROVE OInv
  OBVIOUS
<1>1. Occupied = {}
  BY SMT DEF Init, Occupied
<1> QED BY <1>1, InitTInv DEF OInv, SpawnOrder

(* The compaction is stable: the rows stay in the order of the spawns, the *)
(* order in which every system visits them.                                *)
THEOREM StoreSpawnOrder == Spec => []SpawnOrder
<1>1. OInv => SpawnOrder
  BY DEF OInv
<1> QED BY <1>1, InitOInv, NextOInv, PTL DEF Spec
----------------------------------------------------------------------------
(* The refinement: what the callers see in a state.                        *)
Live        == {g \in Handle : DenseOf(g) # -1}
EntityOf(h) == [born |-> fields[DenseOf(h)].born,
                val  |-> fields[DenseOf(h)].val,
                dead |-> denseDead[DenseOf(h)]]
MInv == SInv /\ OInv

LEMMA MapIs == entityMap = [h \in Live |-> EntityOf(h)]
BY DEF entityMap, Live, EntityOf

(* Handles that resolve and occupied rows are the same thing.              *)
LEMMA HandlesAreRows ==
  ASSUME MInv
  PROVE  /\ \A g \in Live : DenseOf(g) \in Occupied /\ denseId[DenseOf(g)] = g
         /\ \A d \in Occupied : denseId[d] \in Live /\ DenseOf(denseId[d]) = d
         /\ Occupied \subseteq Row
         /\ \A d \in Row : fields[d] \in Fields /\ denseDead[d] \in BOOLEAN /\ denseId[d] \in Handle
<1>1. Occupied \subseteq Row /\ TInv
  BY OccupiedRows DEF MInv, OInv
<1>2. \A d \in Row : fields[d] \in Fields /\ denseDead[d] \in BOOLEAN /\ denseId[d] \in Handle
  BY <1>1 DEF TInv, TypeOK
<1>3. ASSUME NEW d \in Occupied PROVE denseId[d] \in Live /\ DenseOf(denseId[d]) = d
  <2>1. DenseOf(denseId[d]) = d
    BY RowsResolve DEF MInv, HandlesResolve
  <2>2. d # -1
    BY <1>1, Indices, SMT
  <2> QED BY <2>1, <2>2, <1>1, <1>2 DEF Live
<1>4. ASSUME NEW g \in Live PROVE DenseOf(g) \in Occupied /\ denseId[DenseOf(g)] = g
  <2>1. DenseOf(g) = slotToDense[g[1]] /\ slotToDense[g[1]] # -1 /\ slotGen[g[1]] = g[2]
    BY DEF Live, DenseOf
  <2>2. g[1] \in Slot /\ g = <<g[1], g[2]>>
    BY DEF Live, Handle
  <2>3. slotToDense[g[1]] \in Occupied /\ denseId[slotToDense[g[1]]][1] = g[1]
    BY <2>1, <2>2 DEF MInv, SInv, NoDanglingSlot
  <2>4. denseId[slotToDense[g[1]]][2] = slotGen[g[1]]
    BY <2>3 DEF MInv, SInv, RowsOwnSlots
  <2>5. denseId[slotToDense[g[1]]] \in Slot \X (0 .. GEN_MASK)
    BY <2>3, <1>1, <1>2 DEF Handle
  <2> QED BY <2>1, <2>2, <2>3, <2>4, <2>5
<1> QED BY <1>1, <1>2, <1>3, <1>4

(* A step that leaves rows and table alone leaves the map alone.           *)
LEMMA SameMap ==
  ASSUME Live' = Live, \A g \in Live : EntityOf(g)' = EntityOf(g)
  PROVE  entityMap' = entityMap
<1>1. entityMap' = [h \in Live' |-> EntityOf(h)']
  BY DEF entityMap, Live, EntityOf
<1> QED BY <1>1, MapIs

(* A step that changes what one handle stands for changes the map there.   *)
LEMMA OnePointMap ==
  ASSUME NEW h \in Live, NEW x, Live' = Live, EntityOf(h)' = x,
         \A g \in Live : g # h => EntityOf(g)' = EntityOf(g)
  PROVE  entityMap' = [entityMap EXCEPT ![h] = x]
<1>1. entityMap' = [g \in Live' |-> EntityOf(g)']
  BY DEF entityMap, Live, EntityOf
<1>2. DOMAIN entityMap = Live /\ \A g \in Live : entityMap[g] = EntityOf(g)
  BY MapIs
<1>3. entityMap = [g \in Live |-> EntityOf(g)]
  BY MapIs
<1>4. \A g \in Live : entityMap'[g] = [entityMap EXCEPT ![h] = x][g]
  BY <1>1, <1>2, <1>3
<1> QED BY <1>1, <1>3, <1>4

(* spawn gives out a handle that resolved to nothing, for a youngest       *)
(* entity; nobody else's row or slot is touched.                           *)
LEMMA SpawnMaps ==
  ASSUME MInv, NEW v \in Payload, Spawn(v)
  PROVE  Abstract!Spawn
<1> DEFINE slot == freeSlots[freeCount - 1]
<1>1. /\ count \in Row /\ slot \in Slot /\ slotToDense[slot] = -1
      /\ slotGen[slot] \in 1 .. GEN_MASK /\ slotToDense \in [Slot -> -1 .. CAPACITY - 1]
      /\ count \notin Occupied
  <2>1. /\ count \in 0 .. CAPACITY /\ freeCount \in 0 .. CAPACITY /\ count + freeCount = CAPACITY
        /\ freeCount # 0 /\ freeSlots \in [Slot -> Slot]
        /\ slotGen \in [Slot -> 1 .. GEN_MASK] /\ slotToDense \in [Slot -> -1 .. CAPACITY - 1]
        /\ Occupied = 0 .. count - 1
    <3>1. pc = "tick"
      BY DEF Spawn
    <3> QED BY <3>1 DEF MInv, SInv, TInv, TypeOK, Counting, Spawn, Occupied
  <2>2. count \in Row /\ freeCount - 1 \in Slot /\ freeCount - 1 \in 0 .. freeCount - 1
    <3>1. count \in 0 .. CAPACITY /\ freeCount \in 0 .. CAPACITY /\ count + freeCount = CAPACITY /\ freeCount # 0
      BY <2>1
    <3> HIDE DEF slot
    <3>2. count \in Row /\ freeCount - 1 \in Slot
      BY <3>1, Indices, SMT
    <3> QED BY <3>1, <3>2, SMT
  <2>3. slotToDense[slot] = -1
    BY <2>2 DEF MInv, SInv, FreeSlotsUnused
  <2>4. count \notin Occupied
    BY <2>1, SMT
  <2>5. slot \in Slot
    BY <2>1, <2>2
  <2>6. slotGen[slot] \in 1 .. GEN_MASK
    BY <2>1, <2>5
  <2> HIDE DEF slot
  <2> QED BY <2>1, <2>2, <2>3, <2>4, <2>5, <2>6
<1>2. /\ slotToDense' = [slotToDense EXCEPT ![slot] = count]
      /\ denseDead' = [denseDead EXCEPT ![count] = FALSE]
      /\ fields' = [fields EXCEPT ![count] = [born |-> spawned + 1, val |-> v]]
      /\ slotGen' = slotGen
  BY DEF Spawn, table
<1> HIDE DEF slot
<1> SUFFICES ASSUME NEW h, h = <<slot, slotGen[slot]>> PROVE Abstract!Spawn
  OBVIOUS
<1>3. h \in Handle /\ h[1] = slot /\ h[2] = slotGen[slot] /\ h[2] # 0
  BY <1>1, Indices, SMT DEF Handle
<1>4. DenseOf(h) = -1 /\ DenseOf(h)' = count
  <2>1. slotToDense'[slot] = count /\ slotGen'[slot] = h[2]
    BY <1>1, <1>2, <1>3
  <2> QED BY <2>1, <1>1, <1>3 DEF DenseOf
<1>5. \A g \in Handle \ {h} : DenseOf(g)' = DenseOf(g)
  <2> SUFFICES ASSUME NEW g \in Handle \ {h} PROVE DenseOf(g)' = DenseOf(g)
    OBVIOUS
  <2>1. g = <<g[1], g[2]>> /\ g[1] \in Slot
    BY DEF Handle
  <2>2. g[1] # slot \/ g[2] # slotGen[slot]
    BY <2>1, <1>3
  <2>3. CASE g[1] # slot
    BY <2>1, <2>3, <1>1, <1>2 DEF DenseOf
  <2>4. CASE g[1] = slot /\ g[2] # slotGen[slot]
    BY <2>4, <1>2 DEF DenseOf
  <2> QED BY <2>2, <2>3, <2>4
<1>6. h \notin Live /\ Live' = Live \cup {h}
  <2>1. count # -1
    BY <1>1, Indices, SMT
  <2> QED BY <2>1, <1>3, <1>4, <1>5 DEF Live
<1>7. \A g \in Live : EntityOf(g)' = EntityOf(g)
  <2> SUFFICES ASSUME NEW g \in Live PROVE EntityOf(g)' = EntityOf(g)
    OBVIOUS
  <2>1. g # h /\ g \in Handle /\ DenseOf(g)' = DenseOf(g)
    BY <1>5, <1>6 DEF Live
  <2>2. DenseOf(g) \in Row /\ DenseOf(g) # count
    BY <1>1, HandlesAreRows
  <2>3. fields'[DenseOf(g)] = fields[DenseOf(g)] /\ denseDead'[DenseOf(g)] = denseDead[DenseOf(g)]
    BY <2>2, <1>2 DEF MInv, SInv, TInv, TypeOK
  <2> QED BY <2>1, <2>3 DEF EntityOf
<1>8. EntityOf(h)' = [born |-> spawned + 1, val |-> v, dead |-> FALSE]
  <2>1. fields'[count] = [born |-> spawned + 1, val |-> v] /\ denseDead'[count] = FALSE
    BY <1>1, <1>2 DEF MInv, SInv, TInv, TypeOK
  <2>2. DenseOf(h)' = count
    BY <1>4
  <2>3. EntityOf(h)' = [born |-> fields'[DenseOf(h)'].born, val |-> fields'[DenseOf(h)'].val,
                        dead |-> denseDead'[DenseOf(h)']]
    BY DEF EntityOf
  <2>4. /\ fields'[count].born = spawned + 1 /\ fields'[count].val = v
        /\ denseDead'[count] = FALSE
    BY <2>1
  <2>5. EntityOf(h)' = [born |-> fields'[count].born, val |-> fields'[count].val,
                        dead |-> denseDead'[count]]
    BY <2>2, <2>3
  <2> QED BY <2>4, <2>5
<1>9. spawned + 1 \in 0 .. MaxSpawns
  BY Indices, SMT DEF Spawn, MInv, SInv, TInv, TypeOK
<1>10. \A g \in DOMAIN entityMap : entityMap[g].born < spawned + 1
  <2> SUFFICES ASSUME NEW g \in Live PROVE EntityOf(g).born < spawned + 1
    BY MapIs
  <2>1. DenseOf(g) \in Occupied /\ fields[DenseOf(g)] \in Fields
    BY HandlesAreRows
  <2>2. fields[DenseOf(g)].born \in Nat /\ fields[DenseOf(g)].born <= spawned /\ spawned \in Nat
    BY <2>1 DEF MInv, OInv, TInv, TypeOK, Fields
  <2> QED BY <2>2 DEF EntityOf
<1>11. entityMap' = [g \in DOMAIN entityMap \cup {h} |->
                       IF g = h THEN [born |-> spawned + 1, val |-> v, dead |-> FALSE]
                                ELSE entityMap[g]]
  <2>1. entityMap' = [g \in Live' |-> EntityOf(g)']
    BY DEF entityMap, Live, EntityOf
  <2>2. DOMAIN entityMap = Live /\ \A g \in Live : entityMap[g] = EntityOf(g)
    BY MapIs
  <2> QED BY <2>1, <2>2, <1>6, <1>7, <1>8
<1>12. h \in Handle \ DOMAIN entityMap
  BY <1>3, <1>6, MapIs
<1> QED BY <1>9, <1>10, <1>11, <1>12 DEF Abstract!Spawn

(* A system writes a row of the entity its handle names.                   *)
LEMMA WriteRowMaps ==
  ASSUME MInv, NEW d \in Row, NEW v \in Payload, WriteRow(d, v)
  PROVE  Abstract!Write
<1> SUFFICES ASSUME NEW h, h = denseId[d] PROVE Abstract!Write
  OBVIOUS
<1>1. d \in Occupied
  <2>1. count \in 0 .. CAPACITY /\ pc = "tick" /\ d < count
    BY DEF MInv, SInv, TInv, TypeOK, WriteRow
  <2> QED BY <2>1, Indices, SMT DEF Occupied
<1>2. h \in Live /\ DenseOf(h) = d
  BY <1>1, HandlesAreRows
<1>3. UNCHANGED <<slotGen, slotToDense, denseDead>> /\ fields' = [fields EXCEPT ![d].val = v]
  BY DEF WriteRow, table
<1>4. Live' = Live /\ \A g \in Handle : DenseOf(g)' = DenseOf(g)
  BY <1>3 DEF Live, DenseOf
<1>5. ASSUME NEW g \in Live, g # h PROVE EntityOf(g)' = EntityOf(g)
  <2>1. DenseOf(g) \in Row /\ DenseOf(g) # d
    BY <1>5, HandlesAreRows
  <2>2. fields'[DenseOf(g)] = fields[DenseOf(g)]
    BY <2>1, <1>3 DEF MInv, SInv, TInv, TypeOK
  <2> QED BY <2>2, <1>3, <1>4 DEF EntityOf, Live
<1>6. EntityOf(h)' = [EntityOf(h) EXCEPT !.val = v]
  <2>1. fields[d] \in Fields
    BY HandlesAreRows
  <2>2. fields'[d].born = fields[d].born /\ fields'[d].val = v
    BY <2>1, <1>3 DEF Fields, MInv, SInv, TInv, TypeOK
  <2>3. DenseOf(h)' = d
    BY <1>2, <1>3 DEF DenseOf, WriteRow
  <2> QED BY <2>2, <2>3, <1>2, <1>3 DEF EntityOf
<1>7. entityMap' = [entityMap EXCEPT ![h].val = v]
  <2>1. entityMap' = [entityMap EXCEPT ![h] = [EntityOf(h) EXCEPT !.val = v]]
    BY <1>2, <1>4, <1>5, <1>6, OnePointMap
  <2> QED BY <2>1, <1>2, MapIs
<1> QED BY <1>2, <1>7, MapIs DEF Abstract!Write

(* An entity marked dead is the same entity otherwise.                     *)
LEMMA MarkedEntity ==
  ASSUME NEW b, NEW v, NEW m
  PROVE  [[born |-> b, val |-> v, dead |-> m] EXCEPT !.dead = TRUE]
         = [born |-> b, val |-> v, dead |-> TRUE]
<1>1. \A t : [[born |-> b, val |-> v, dead |-> m] EXCEPT !.dead = t]
              = [born |-> b, val |-> v, dead |-> t]
  OBVIOUS
<1> QED BY <1>1, Zenon

LEMMA MarkDeadMaps ==
  ASSUME MInv, NEW h \in Handle, MarkDead(h)
  PROVE  Abstract!Kill
<1> SUFFICES ASSUME NEW d, d = DenseOf(h) PROVE Abstract!Kill
  OBVIOUS
<1>1. h \in Live /\ d \in Occupied /\ d \in Row /\ ~denseDead[d]
  BY HandlesAreRows DEF MarkDead, MayDie, Alive, Live
<1>2. UNCHANGED <<slotGen, slotToDense, fields>> /\ denseDead' = [denseDead EXCEPT ![d] = TRUE]
  BY DEF MarkDead, table
<1>3. Live' = Live /\ \A g \in Handle : DenseOf(g)' = DenseOf(g)
  BY <1>2 DEF Live, DenseOf
<1>4. ASSUME NEW g \in Live, g # h PROVE EntityOf(g)' = EntityOf(g)
  <2>1. DenseOf(g) \in Row /\ DenseOf(g) # d
    BY <1>1, <1>4, HandlesAreRows
  <2>2. denseDead'[DenseOf(g)] = denseDead[DenseOf(g)]
    BY <2>1, <1>2 DEF MInv, SInv, TInv, TypeOK
  <2> QED BY <2>2, <1>2, <1>3 DEF EntityOf, Live
<1>5. EntityOf(h)' = [EntityOf(h) EXCEPT !.dead = TRUE]
  <2>1. denseDead'[d] = TRUE
    BY <1>1, <1>2 DEF MInv, SInv, TInv, TypeOK
  <2>2. DenseOf(h)' = d /\ fields'[d] = fields[d]
    BY <1>2, <1>3
  <2>3. EntityOf(h)' = [born |-> fields'[DenseOf(h)'].born, val |-> fields'[DenseOf(h)'].val,
                        dead |-> denseDead'[DenseOf(h)']]
    BY DEF EntityOf
  <2>4. EntityOf(h)' = [born |-> fields[d].born, val |-> fields[d].val, dead |-> TRUE]
    BY <2>1, <2>2, <2>3
  <2>5. EntityOf(h) = [born |-> fields[d].born, val |-> fields[d].val, dead |-> denseDead[d]]
    BY DEF EntityOf
  <2> QED BY <2>4, <2>5, MarkedEntity
<1>6. entityMap' = [entityMap EXCEPT ![h].dead = TRUE]
  <2>1. entityMap' = [entityMap EXCEPT ![h] = [EntityOf(h) EXCEPT !.dead = TRUE]]
    BY <1>1, <1>3, <1>4, <1>5, OnePointMap
  <2> QED BY <2>1, <1>1, MapIs
<1>7. ~entityMap[h].dead
  BY <1>1, MapIs DEF EntityOf
<1> QED BY <1>1, <1>6, <1>7, MapIs DEF Abstract!Kill

(* A dropped row's handle, and no other, stops resolving.                  *)
LEMMA CompactDropMaps ==
  ASSUME MInv, CompactDrop
  PROVE  Abstract!Reap
<1> SUFFICES ASSUME NEW h, NEW slot, h = denseId[r], slot = denseId[r][1] PROVE Abstract!Reap
  OBVIOUS
<1>1. r \in Occupied /\ r \in Row /\ denseDead[r]
  <2>1. count \in 0 .. CAPACITY /\ r \in 0 .. CAPACITY /\ r < count /\ pc = "compact" /\ denseDead[r]
    BY DEF MInv, SInv, TInv, TypeOK, CompactDrop
  <2> QED BY <2>1, Indices, SMT DEF Occupied
<1>2. h \in Live /\ DenseOf(h) = r /\ h \in Handle /\ slot \in Slot
  BY <1>1, HandlesAreRows DEF Handle
<1>3. /\ slotToDense' = [slotToDense EXCEPT ![slot] = -1]
      /\ slotGen' = [slotGen EXCEPT ![slot] = NextGeneration(@)]
      /\ UNCHANGED <<fields, denseDead>>
  BY DEF CompactDrop, Release, Unmap
<1>4. /\ slotToDense \in [Slot -> -1 .. CAPACITY - 1] /\ slotGen \in [Slot -> 1 .. GEN_MASK]
      /\ slotGen[slot] = h[2]
  BY <1>1 DEF MInv, SInv, TInv, TypeOK, RowsOwnSlots
<1>5. ASSUME NEW g \in Handle, g[1] = slot PROVE DenseOf(g)' = -1 /\ (g # h => DenseOf(g) = -1)
  <2>1. slotToDense'[slot] = -1
    BY <1>2, <1>3, <1>4
  <2>2. DenseOf(g)' = -1
    BY <2>1, <1>5 DEF DenseOf
  <2>3. ASSUME g # h PROVE g[2] # slotGen[slot]
    BY <2>3, <1>2, <1>4, <1>5 DEF Handle
  <2> QED BY <2>2, <2>3, <1>5 DEF DenseOf
<1>6. ASSUME NEW g \in Handle, g[1] # slot PROVE DenseOf(g)' = DenseOf(g)
  <2>1. g[1] \in Slot
    BY DEF Handle
  <2> QED BY <2>1, <1>3, <1>4, <1>6 DEF DenseOf
<1>7. Live' = Live \ {h}
  <2>1. h[1] = slot
    OBVIOUS
  <2> QED BY <2>1, <1>2, <1>5, <1>6 DEF Live
<1>8. \A g \in Live \ {h} : EntityOf(g)' = EntityOf(g)
  <2> SUFFICES ASSUME NEW g \in Live \ {h} PROVE EntityOf(g)' = EntityOf(g)
    OBVIOUS
  <2>1. g \in Handle /\ g[1] # slot
    BY <1>5 DEF Live
  <2> QED BY <2>1, <1>3, <1>6 DEF EntityOf
<1>9. entityMap' = [g \in DOMAIN entityMap \ {h} |-> entityMap[g]]
  <2>1. entityMap' = [g \in Live' |-> EntityOf(g)']
    BY DEF entityMap, Live, EntityOf
  <2> QED BY <2>1, <1>7, <1>8, MapIs
<1>10. h \in DOMAIN entityMap /\ entityMap[h].dead
  BY <1>1, <1>2, MapIs DEF EntityOf
<1> QED BY <1>9, <1>10 DEF Abstract!Reap

(* A row moved down is the same entity under the same handle.              *)
LEMMA CompactKeepMaps ==
  ASSUME MInv, CompactKeep
  PROVE  entityMap' = entityMap
<1> SUFFICES ASSUME NEW h, NEW slot, h = denseId[r], slot = denseId[r][1] PROVE entityMap' = entityMap
  OBVIOUS
<1>1. r \in Occupied /\ r \in Row /\ w \in Row /\ (w \in Occupied => w = r)
  <2>1. /\ count \in 0 .. CAPACITY /\ r \in 0 .. CAPACITY /\ w \in 0 .. CAPACITY
        /\ w <= r /\ r < count /\ pc = "compact"
    BY DEF MInv, SInv, TInv, TypeOK, Counting, CompactKeep
  <2> QED BY <2>1, Indices, SMT DEF Occupied
<1>2. h \in Live /\ DenseOf(h) = r /\ h \in Handle /\ slot \in Slot
  BY <1>1, HandlesAreRows DEF Handle
<1>3. /\ slotToDense' = [slotToDense EXCEPT ![slot] = w] /\ slotGen' = slotGen
      /\ fields' = [fields EXCEPT ![w] = fields[r]]
      /\ denseDead' = [denseDead EXCEPT ![w] = denseDead[r]]
  BY DEF CompactKeep, SlotFollows, FieldsMoved
<1>4. /\ slotToDense \in [Slot -> -1 .. CAPACITY - 1]
      /\ fields \in [Row -> Fields] /\ denseDead \in [Row -> BOOLEAN]
      /\ slotGen[slot] = h[2] /\ h[2] # 0
  <2>1. h[2] # 0
    BY <1>1, <1>2, Indices, SMT DEF DenseOf
  <2> QED BY <1>1, <2>1 DEF MInv, SInv, TInv, TypeOK, RowsOwnSlots
<1>5. DenseOf(h)' = w
  <2>1. slotToDense'[slot] = w /\ slotGen'[slot] = h[2]
    BY <1>2, <1>3, <1>4
  <2> QED BY <2>1, <1>2, <1>4 DEF DenseOf
<1>6. ASSUME NEW g \in Handle, g # h PROVE DenseOf(g)' = DenseOf(g)
  <2>1. g[1] \in Slot /\ (g[1] = slot => g[2] # slotGen[slot])
    BY <1>2, <1>4, <1>6 DEF Handle
  <2> QED BY <2>1, <1>3, <1>4 DEF DenseOf
<1>7. Live' = Live
  <2>1. w # -1
    BY <1>1, Indices, SMT
  <2> QED BY <2>1, <1>2, <1>5, <1>6 DEF Live
<1>8. EntityOf(h)' = EntityOf(h)
  <2>1. fields'[w] = fields[r] /\ denseDead'[w] = denseDead[r]
    BY <1>1, <1>3, <1>4
  <2> QED BY <2>1, <1>2, <1>5 DEF EntityOf
<1>9. ASSUME NEW g \in Live, g # h PROVE EntityOf(g)' = EntityOf(g)
  <2>1. DenseOf(g) \in Occupied /\ DenseOf(g) \in Row /\ denseId[DenseOf(g)] = g
    BY HandlesAreRows
  <2>2. DenseOf(g) # w
    BY <2>1, <1>1, <1>9
  <2>3. DenseOf(g)' = DenseOf(g)
    BY <1>6, <1>9 DEF Live
  <2> QED BY <2>1, <2>2, <2>3, <1>3, <1>4 DEF EntityOf
<1> QED BY <1>7, <1>8, <1>9, SameMap

LEMMA SameTableMaps ==
  ASSUME UNCHANGED <<slotGen, slotToDense, denseDead, fields>>
  PROVE  entityMap' = entityMap
BY DEF entityMap, DenseOf

LEMMA InitMaps == Init => Abstract!Init
<1> SUFFICES ASSUME Init PROVE Abstract!Init
  OBVIOUS
<1>1. \A g \in Handle : DenseOf(g) = -1
  <2>1. \A g \in Handle : slotToDense[g[1]] = -1
    BY DEF Init, Handle
  <2> QED BY <2>1 DEF DenseOf
<1> QED BY <1>1 DEF entityMap, Abstract!Init

LEMMA StepMaps == MInv /\ [Next]_vars => [Abstract!Next]_entityMap
<1> SUFFICES ASSUME MInv, [Next]_vars PROVE Abstract!Next \/ entityMap' = entityMap
  OBVIOUS
<1>1. ASSUME NEW v \in Payload, Spawn(v) PROVE Abstract!Next
  BY <1>1, SpawnMaps DEF Abstract!Next
<1>2. ASSUME NEW d \in Row, NEW v \in Payload, WriteRow(d, v) PROVE Abstract!Next
  BY <1>2, WriteRowMaps DEF Abstract!Next
<1>3. ASSUME NEW h \in Handle, MarkDead(h) PROVE Abstract!Next
  BY <1>3, MarkDeadMaps DEF Abstract!Next
<1>4. CASE CompactBegin
  BY <1>4, SameTableMaps DEF CompactBegin, table
<1>5. CASE CompactDrop
  BY <1>5, CompactDropMaps DEF Abstract!Next
<1>6. CASE CompactKeep
  BY <1>6, CompactKeepMaps
<1>7. CASE CompactEnd
  BY <1>7, SameTableMaps DEF CompactEnd, table
<1>8. CASE UNCHANGED vars
  BY <1>8, SameTableMaps DEF vars
<1> QED BY <1>1, <1>2, <1>3, <1>4, <1>5, <1>6, <1>7, <1>8 DEF Next, CompactStep

(* The store implements the plain handle map, with every pass of the       *)
(* compaction loop a step of its own: a moved survivor is invisible, and a *)
(* handle keeps naming its entity until that entity is reaped.             *)
THEOREM StoreImplementsHandles == Spec => ImplementsHandles
<1>1. Init => MInv
  BY InitOInv, InitSInv DEF MInv
<1>2. MInv /\ [Next]_vars => MInv'
  BY NextSInv, NextOInv DEF MInv
<1> QED BY <1>1, <1>2, InitMaps, StepMaps, PTL DEF Spec, ImplementsHandles, Abstract!Spec
=============================================================================
