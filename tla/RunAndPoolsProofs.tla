------------------------- MODULE RunAndPoolsProofs -------------------------
(* Proofs about a run's progress and about the pools of the field, two     *)
(* components that share nothing but the lemmas about numbers.  Of the run *)
(* that it is cleared by the boss's death alone, that a boss who is due    *)
(* finds a row and that no elite is lost, of the pools that their loops    *)
(* take out what has ended and nothing else.                               *)
EXTENDS RunProgress, Pools, FiniteSetTheorems, SequenceTheorems, WellFoundedInduction,
        TLAPS

N == Cardinality(Elites)

----------------------------------------------------------------------------
(* The constants, whatever the tables hold.                                *)
LEMMA RunConstants ==
  /\ MAX_ENTITIES \in Nat /\ summonCount \in Nat /\ clearTargetPoints \in Nat
  /\ trashPoints \in Nat /\ elitePoints \in Nat
  /\ segmentsPerMap \in Nat \ {0} /\ segmentStartPoints[0] = 0
  /\ \A s \in Segments : /\ segmentStartPoints[s] \in Nat /\ capBySegment[s] \in Nat
                         /\ batchBySegment[s] \in Nat
  /\ N \in Nat /\ Elites = 1 .. N
  /\ \A k \in Elites : eliteSpawns[k] \in Nat
<1>1. N \in Nat /\ eliteSpawns \in [1 .. N -> Nat]
  BY FS_CardinalityType, RunAssumption DEF RunAssumption, N
<1>2. Elites = 1 .. N
  BY <1>1 DEF Elites
<1> QED  BY <1>1, <1>2, RunAssumption DEF RunAssumption

(* The constants, with what the tables keep to.                            *)
LEMMA Tables ==
  /\ MAX_ENTITIES \in Nat /\ summonCount \in Nat /\ clearTargetPoints \in Nat
  /\ trashPoints \in Nat /\ elitePoints \in Nat
  /\ segmentsPerMap \in Nat \ {0} /\ segmentStartPoints[0] = 0
  /\ \A s \in Segments : /\ segmentStartPoints[s] \in Nat /\ capBySegment[s] \in Nat
                         /\ batchBySegment[s] \in Nat
                         /\ capBySegment[s] + N < MAX_ENTITIES
  /\ N \in Nat /\ Elites = 1 .. N
  /\ \A k \in Elites : eliteSpawns[k] \in Nat /\ eliteSpawns[k] <= clearTargetPoints
  BY RunConstants, RowsAssumption DEF RowsAssumption, N

(* Every set of numbers that is not empty has a least one.                 *)
LEMMA LeastNatural ==
  ASSUME NEW T \in SUBSET Nat, T # {}
  PROVE  \E x \in T : \A y \in T : x <= y
<1>1. PICK x \in T : \A y \in T : ~ (<<y, x>> \in OpToRel(<, Nat))
  BY WFMin, NatLessThanWellFounded, Zenon
<1>2. ASSUME NEW y \in T PROVE x <= y
  <2>1. <<y, x>> \in Nat \X Nat /\ ~(<<y, x>> \in {ss \in Nat \X Nat : ss[1] < ss[2]})
    BY <1>1 DEF OpToRel
  <2> QED  BY <2>1
<1> QED  BY <1>2

(* segmentForPoints finds a segment.                                       *)
LEMMA SegmentExists ==
  ASSUME NEW p \in Nat
  PROVE  SegmentForPoints(p) \in Segments
<1> DEFINE reached == {s \in Segments : segmentStartPoints[s] <= p}
           back    == {n \in Nat : segmentsPerMap - n \in reached}
<1>1. 0 \in reached
  BY RunConstants DEF Segments
<1>2. segmentsPerMap \in back
  BY <1>1, RunConstants
<1>3. PICK b \in back : \A y \in back : b <= y
  BY <1>2, LeastNatural
<1>4. segmentsPerMap - b \in reached /\ b \in Nat
  BY <1>3
<1>5. ASSUME NEW q \in Segments, segmentStartPoints[q] <= p PROVE q <= segmentsPerMap - b
  <2>1. segmentsPerMap - q \in Nat /\ segmentsPerMap - (segmentsPerMap - q) = q
    BY RunConstants DEF Segments
  <2>2. segmentsPerMap - q \in back
    BY <2>1, <1>5
  <2>3. b <= segmentsPerMap - q
    BY <2>2, <1>3
  <2> QED  BY <2>1, <2>3, <1>4, RunConstants DEF Segments
<1> QED  BY <1>4, <1>5 DEF SegmentForPoints

(* The elite loop stops somewhere, at an elite only before its points.     *)
LEMMA EliteStopExists ==
  ASSUME nextElite \in 1 .. N + 1, NEW p \in Nat
  PROVE  /\ EliteStop(p) \in nextElite .. N + 1
         /\ EliteStop(p) \in Elites => eliteSpawns[EliteStop(p)] > p
<1> DEFINE late == {e \in nextElite .. N + 1 : e \in Elites => eliteSpawns[e] > p}
           P(stop) == /\ \A e \in nextElite .. stop - 1 : eliteSpawns[e] <= p
                      /\ stop \in Elites => eliteSpawns[stop] > p
<1>1. N + 1 \in late /\ late \subseteq Nat
  BY RunConstants
<1>2. PICK m \in late : \A y \in late : m <= y
  BY <1>1, LeastNatural
<1>3. \A e \in nextElite .. m - 1 : eliteSpawns[e] <= p
  <2> SUFFICES ASSUME NEW e \in nextElite .. m - 1 PROVE eliteSpawns[e] <= p
    OBVIOUS
  <2>1. m \in nextElite .. N + 1
    BY <1>2
  <2>2. e \in nextElite .. N + 1 /\ e < m /\ e \in Elites
    BY <2>1, RunConstants
  <2>3. e \notin late
    BY <2>1, <2>2, <1>2, RunConstants
  <2> QED  BY <2>2, <2>3, RunConstants
<1>4. m \in nextElite .. N + 1 /\ P(m)
  BY <1>2, <1>3
<1>5. EliteStop(p) = CHOOSE stop \in nextElite .. N + 1 : P(stop)
  BY DEF EliteStop, EliteStopFrom, N
<1>6. EliteStop(p) \in nextElite .. N + 1 /\ P(EliteStop(p))
  <2> HIDE DEF P
  <2> QED  BY <1>4, <1>5
<1> QED  BY <1>6

(* It does not stop before the end once the boss's points are reached.     *)
LEMMA EliteStopLast ==
  ASSUME nextElite \in 1 .. N + 1, NEW p \in Nat, p >= clearTargetPoints
  PROVE  EliteStop(p) = N + 1
<1>1. /\ EliteStop(p) \in nextElite .. N + 1
      /\ EliteStop(p) \in Elites => eliteSpawns[EliteStop(p)] > p
  BY EliteStopExists
<1>2. EliteStop(p) \notin Elites
  BY <1>1, Tables
<1> QED  BY <1>1, <1>2, Tables

(* The smaller of two numbers is a number and above neither.               *)
LEMMA SmallerIs ==
  ASSUME NEW a \in Int, NEW b \in Int
  PROVE  /\ Smaller(a, b) \in Int /\ Smaller(a, b) <= a /\ Smaller(a, b) <= b
         /\ Smaller(a, b) = a \/ Smaller(a, b) = b
BY DEF Smaller
----------------------------------------------------------------------------
(* How a run can end.                                                      *)
Ends ==
  /\ phase \in {"progress", "spawn", "fight", "boss", "end", "over"}
  /\ boss \in {"none", "fresh", "half", "dead"}
  /\ bossSpawned \in BOOLEAN /\ bossAlive \in BOOLEAN
  /\ bossSpawned <=> boss # "none"
  /\ bossAlive <=> boss \in {"fresh", "half"}
  /\ outcome \in {"Running", "Cleared", "Dead"}
  /\ outcome = "Cleared" <=> boss = "dead"
  /\ outcome = "Dead" => phase = "over"

(* The strengthened invariant of the ways a run ends holds at first.       *)
LEMMA EndsInit == Init => Ends
BY DEF Init, Ends

(* Every step keeps it.                                                    *)
LEMMA EndsNext == Ends /\ [Next]_vars => Ends'
<1> SUFFICES ASSUME Ends, [Next]_vars PROVE Ends'
  OBVIOUS
<1>1. CASE SpawnRun
  <2>1. /\ phase = "spawn" /\ phase' = "fight"
        /\ \E b \in {0, 1} : /\ b = 1 => BossDue
                             /\ bossSpawned' = (bossSpawned \/ b = 1)
                             /\ bossAlive' = (bossAlive \/ b = 1)
                             /\ boss' = (IF b = 1 THEN "fresh" ELSE boss)
        /\ outcome' = outcome
    BY <1>1 DEF SpawnRun
  <2> QED  BY <2>1 DEF Ends, BossDue
<1>2. CASE KillBoss
  BY <1>2 DEF KillBoss, Ends, bossFlags
<1>3. CASE EndTick
  <2>1. /\ phase = "end" /\ phase' = (IF Verdict = "Running" THEN "progress" ELSE "over")
        /\ outcome' = Verdict
        /\ UNCHANGED <<boss, bossSpawned, bossAlive>>
    BY <1>3 DEF EndTick, enemies, bossFlags
  <2>2. Verdict \in {outcome, "Dead"} /\ (outcome # "Running" => Verdict = outcome)
    BY DEF Verdict
  <2> QED  BY <2>1, <2>2 DEF Ends
<1>4. CASE HurtBoss
  BY <1>4 DEF HurtBoss, Ends, bossFlags
<1>5. CASE \/ ProgressRun \/ FightEnds \/ BossPhaseRun \/ KillTrash \/ KillElite
           \/ \E c \in 0 .. CorruptionMax + 1 : Corrupt(c)
  <2>1. /\ UNCHANGED <<boss, bossSpawned, bossAlive, outcome>>
        /\ \/ phase' = phase
           \/ phase \in {"progress", "fight", "boss"} /\ phase' \in {"spawn", "boss", "end"}
    BY <1>5 DEF ProgressRun, FightEnds, BossPhaseRun, KillTrash, KillElite, Corrupt, enemies, bossFlags
  <2> QED  BY <2>1 DEF Ends
<1>6. CASE UNCHANGED vars
  BY <1>6 DEF vars, enemies, bossFlags, Ends
<1> QED  BY <1>1, <1>2, <1>3, <1>4, <1>5, <1>6 DEF Next, Systems

(* A run is cleared exactly when its boss has died.                        *)
THEOREM RunClearedMeansBossDead == Spec => []ClearedMeansBossDead
<1>1. Ends => ClearedMeansBossDead
  BY DEF Ends, ClearedMeansBossDead
<1> QED  BY EndsInit, EndsNext, <1>1, PTL DEF Spec

----------------------------------------------------------------------------
(* The row of the boss, whatever the tables hold: the store is never       *)
(* overfull, and the kill that fills the gauge of clear points frees a row.*)
Free ==
  /\ segment \in Segments /\ points \in Nat
  /\ trash \in Nat /\ elites \in Nat /\ nextElite \in 1 .. N + 1
  /\ Alive <= MAX_ENTITIES
  /\ BossDue => Alive < MAX_ENTITIES

(* The store is empty at first and no point is made.                       *)
LEMMA FreeInit == Init => Free
<1> SUFFICES ASSUME Init PROVE Free
  OBVIOUS
<1>1. 0 \in Segments /\ 1 \in 1 .. N + 1 /\ MAX_ENTITIES \in Nat /\ clearTargetPoints \in Nat
  BY RunConstants DEF Segments
<1>2. Alive = 0 /\ ~BossDue
  BY <1>1 DEF Init, Alive, BossDue
<1> QED  BY <1>1, <1>2 DEF Init, Free

(* spawnRun adds no more than there are rows, and the boss first.          *)
LEMMA SpawnLeavesFree ==
  ASSUME Free, Ends, SpawnRun
  PROVE  Free'
<1> DEFINE room == MAX_ENTITIES - Alive
           b    == IF BossDue /\ room > 0 THEN 1 ELSE 0
           stop == EliteStop(points)
           e    == Smaller(room - b, stop - nextElite)
           s    == Summoned(room - b - e)
           t    == Upkeep(Alive + b + e + s, room - b - e - s)
<1>1. /\ bossSpawned' = (bossSpawned \/ b = 1) /\ bossAlive' = (bossAlive \/ b = 1)
      /\ nextElite' = stop /\ elites' = elites + e /\ trash' = trash + s + t
      /\ UNCHANGED <<segment, points>>
  BY DEF SpawnRun
<1>2. Alive \in Nat /\ MAX_ENTITIES \in Nat /\ Alive <= MAX_ENTITIES
  BY RunConstants DEF Free, Alive
<1>3. room \in Nat /\ b \in {0, 1} /\ room - b \in Nat /\ (b = 1 => BossDue) /\ (BossDue => b = 1)
  BY <1>2 DEF Free
<1>4. stop \in nextElite .. N + 1 /\ stop \in 1 .. N + 1 /\ stop - nextElite \in Nat
  <2>1. N \in Nat /\ nextElite \in 1 .. N + 1 /\ points \in Nat
    BY RunConstants DEF Free
  <2>2. EliteStop(points) \in nextElite .. N + 1
    BY <2>1, EliteStopExists
  <2> HIDE DEF stop
  <2>3. stop \in nextElite .. N + 1
    BY <2>2 DEF stop
  <2> QED  BY <2>1, <2>3
<1> HIDE DEF room, b, stop
<1>5. e \in Nat /\ room - b - e \in Nat
  BY <1>3, <1>4 DEF Smaller
<1> HIDE DEF e
<1>6. s \in Nat /\ room - b - e - s \in Nat
  <2> DEFINE r == room - b - e
  <2>1. Smaller(r, summonCount) \in Nat /\ r - Smaller(r, summonCount) \in Nat
    BY <1>5, RunConstants DEF Smaller
  <2>2. s = Smaller(r, summonCount) \/ s = 0
    BY DEF Summoned
  <2> HIDE DEF s, r
  <2>3. s \in Nat /\ r - s \in Nat
    BY <1>5, <2>1, <2>2 DEF r
  <2> QED  BY <2>3 DEF r
<1> HIDE DEF s
<1>7. t \in Nat /\ room - b - e - s - t \in Nat
  <2> DEFINE r == room - b - e - s
             alive == Alive + b + e + s
             most == Smaller(batchBySegment[segment], capBySegment[segment] - alive)
  <2>1. r \in Nat /\ alive \in Nat /\ batchBySegment[segment] \in Nat /\ capBySegment[segment] \in Nat
    BY <1>2, <1>3, <1>5, <1>6, RunConstants DEF Free
  <2>2. t = IF spawnIn > 0 \/ alive >= capBySegment[segment] THEN 0 ELSE Smaller(r, most)
    BY DEF Upkeep
  <2> HIDE DEF t, r, alive
  <2>3. t = 0 \/ (alive < capBySegment[segment] /\ t = Smaller(r, most))
    BY <2>1, <2>2
  <2>4. ASSUME alive < capBySegment[segment] PROVE most \in Nat
    BY <2>1, <2>4 DEF Smaller
  <2> HIDE DEF most
  <2>5. t \in Nat /\ r - t \in Nat
    BY <2>1, <2>3, <2>4 DEF Smaller
  <2> QED  BY <2>5 DEF r
<1> HIDE DEF t
<1>8. trash \in Nat /\ elites \in Nat /\ Alive = trash + elites + (IF bossAlive THEN 1 ELSE 0)
  BY DEF Free, Alive
<1>9. (IF bossAlive' THEN 1 ELSE 0) = (IF bossAlive THEN 1 ELSE 0) + b
  <2>1. b = 1 => ~bossAlive
    BY <1>3 DEF Ends, BossDue
  <2>2. bossAlive \in BOOLEAN /\ (bossAlive' <=> bossAlive \/ b = 1)
    BY <1>1 DEF Ends
  <2> QED  BY <1>3, <2>1, <2>2
<1>10. Alive' = Alive + b + e + s + t
  <2>1. Alive' = trash' + elites' + (IF bossAlive' THEN 1 ELSE 0)
    BY DEF Alive
  <2> QED  BY <1>1, <1>3, <1>5, <1>6, <1>7, <1>8, <1>9, <2>1
<1>11. Alive' <= MAX_ENTITIES
  <2>1. room = MAX_ENTITIES - Alive
    BY DEF room
  <2> QED  BY <1>2, <1>3, <1>5, <1>6, <1>7, <1>10, <2>1
<1>12. ~BossDue'
  <2>1. BossDue' => ~bossSpawned' /\ clearTargetPoints > 0 /\ points' >= clearTargetPoints
    BY DEF BossDue
  <2>2. CASE b = 1
    BY <1>1, <2>1, <2>2
  <2>3. CASE b # 1
    <3>1. ~BossDue
      BY <1>3, <2>3
    <3>2. bossSpawned' = bossSpawned /\ points' = points
      BY <1>1, <2>3 DEF Ends
    <3> QED  BY <2>1, <3>1, <3>2 DEF BossDue
  <2> QED  BY <2>2, <2>3
<1>13. trash' \in Nat /\ elites' \in Nat
  BY <1>1, <1>5, <1>6, <1>7, <1>8
<1> QED  BY <1>1, <1>4, <1>11, <1>12, <1>13 DEF Free

(* Every step leaves the boss a row.                                       *)
LEMMA FreeNext == Free /\ Ends /\ [Next]_vars => Free'
<1> SUFFICES ASSUME Free, Ends, [Next]_vars PROVE Free'
  OBVIOUS
<1>0. Alive \in Nat /\ Alive = trash + elites + (IF bossAlive THEN 1 ELSE 0) /\ MAX_ENTITIES \in Nat
  BY RunConstants DEF Free, Alive
<1>1. CASE SpawnRun
  BY <1>1, SpawnLeavesFree
<1>2. CASE KillTrash \/ KillElite
  <2>1. /\ UNCHANGED <<segment, nextElite, bossSpawned, bossAlive>>
        /\ points' \in {points + trashPoints, points + elitePoints}
        /\ \/ trash > 0 /\ trash' = trash - 1 /\ elites' = elites
           \/ elites > 0 /\ elites' = elites - 1 /\ trash' = trash
    BY <1>2 DEF KillTrash, KillElite, bossFlags
  <2>2. points' \in Nat
    BY <2>1, RunConstants DEF Free
  <2>3. trash' \in Nat /\ elites' \in Nat /\ trash' + elites' = trash + elites - 1
    BY <2>1 DEF Free
  <2> DEFINE alive == IF bossAlive THEN 1 ELSE 0
  <2>4. /\ Alive' = trash' + elites' + alive /\ Alive = trash + elites + alive
        /\ alive \in Nat /\ trash \in Nat /\ elites \in Nat
    BY <1>0, <2>1 DEF Alive, Free
  <2> HIDE DEF alive
  <2>5. Alive' = Alive - 1
    <3>1. CASE trash' = trash - 1 /\ elites' = elites
      BY <3>1, <2>4
    <3>2. CASE elites' = elites - 1 /\ trash' = trash
      BY <3>2, <2>4
    <3> QED  BY <3>1, <3>2, <2>1
  <2>6. Alive' < MAX_ENTITIES
    <3>1. Alive <= MAX_ENTITIES
      BY DEF Free
    <3>2. Alive \in Nat /\ MAX_ENTITIES \in Nat
      BY <1>0
    <3> QED  BY <3>1, <3>2, <2>5
  <2>7. Alive' \in Int
    BY <1>0, <2>5
  <2> QED  BY <1>0, <2>1, <2>2, <2>3, <2>6, <2>7 DEF Free
<1>3. CASE KillBoss
  <2>1. /\ UNCHANGED <<segment, points, nextElite, trash, elites, bossSpawned>>
        /\ bossSpawned /\ bossAlive' = FALSE
    BY <1>3 DEF KillBoss, Ends, history
  <2>2. Alive' = trash + elites
    BY <2>1 DEF Alive, Free
  <2>3. Alive' <= MAX_ENTITIES
    BY <1>0, <2>2 DEF Free
  <2>4. ~BossDue'
    BY <2>1 DEF BossDue
  <2> QED  BY <2>1, <2>3, <2>4 DEF Free
<1>4. CASE \/ ProgressRun \/ HurtBoss \/ FightEnds \/ BossPhaseRun \/ EndTick \/ UNCHANGED vars
           \/ \E c \in 0 .. CorruptionMax + 1 : Corrupt(c)
  <2>1. UNCHANGED <<points, nextElite, trash, elites, bossSpawned, bossAlive>>
    BY <1>4 DEF ProgressRun, HurtBoss, FightEnds, BossPhaseRun, EndTick, Corrupt, vars, enemies, bossFlags, history
  <2>2. segment' \in Segments
    <3>1. CASE ProgressRun
      BY <3>1, SegmentExists DEF ProgressRun, Free
    <3>2. CASE ~ProgressRun
      BY <1>4, <3>2 DEF HurtBoss, FightEnds, BossPhaseRun, EndTick, Corrupt, vars, Free
    <3> QED  BY <3>1, <3>2
  <2>3. Alive' = Alive /\ BossDue' = BossDue
    BY <2>1 DEF Alive, BossDue
  <2> QED  BY <2>1, <2>2, <2>3 DEF Free
<1> QED  BY <1>1, <1>2, <1>3, <1>4 DEF Next, Systems

(* The store is never full when the boss is due, so the retry on a later   *)
(* tick that spawnRun provides for (spawn.h:139) is never taken: the kill  *)
(* that filled the gauge has freed a row.  The tables need not keep to     *)
(* RowsAssumption for this.                                                *)
THEOREM BossFindsARow == Spec => [](BossDue => Alive < MAX_ENTITIES)
<1>1. Free => (BossDue => Alive < MAX_ENTITIES)
  BY DEF Free
<1> QED  BY EndsInit, EndsNext, FreeInit, FreeNext, <1>1, PTL DEF Spec

----------------------------------------------------------------------------
(* The rows in use.  Until the boss has come no summons pass the cap; when *)
(* it comes, the last elite has come, too.                                 *)
Rows ==
  /\ segment \in Segments /\ points \in Nat
  /\ trash \in Nat /\ elites \in Nat /\ elitesMade \in Nat
  /\ nextElite \in 1 .. N + 1
  /\ elitesMade = nextElite - 1 /\ elites <= elitesMade
  /\ bossSpawned \in BOOLEAN /\ bossAlive \in BOOLEAN /\ bossPhase2 \in BOOLEAN
  /\ bossAlive => bossSpawned
  /\ bossPhase2 => bossSpawned
  /\ bossSpawned => nextElite = N + 1
  /\ ~bossSpawned => \E s \in Segments : trash <= capBySegment[s]
  /\ Alive \in Nat /\ Alive <= MAX_ENTITIES

(* There are rows enough at first.                                         *)
LEMMA RowsInit == Init => Rows
<1> SUFFICES ASSUME Init PROVE Rows
  OBVIOUS
<1>1. 0 \in Segments
  BY Tables DEF Segments
<1>2. 0 <= capBySegment[0]
  BY <1>1, Tables
<1>3. 1 \in 1 .. N + 1 /\ 0 <= MAX_ENTITIES
  BY Tables
<1>4. Alive = 0
  BY DEF Init, Alive
<1>5. /\ segment \in Segments /\ points \in Nat
      /\ trash \in Nat /\ elites \in Nat /\ elitesMade \in Nat
      /\ nextElite \in 1 .. N + 1 /\ elitesMade = nextElite - 1 /\ elites <= elitesMade
  BY <1>1, <1>3 DEF Init
<1>6. ~bossSpawned /\ ~bossAlive /\ ~bossPhase2
      /\ bossSpawned \in BOOLEAN /\ bossAlive \in BOOLEAN /\ bossPhase2 \in BOOLEAN
  BY DEF Init
<1>7. \E s \in Segments : trash <= capBySegment[s]
  BY <1>1, <1>2 DEF Init
<1> QED  BY <1>3, <1>4, <1>5, <1>6, <1>7 DEF Rows

(* What spawnRun adds, given where the elite loop stops.                   *)
LEMMA SpawnAdds ==
  ASSUME Rows, SpawnRun
  PROVE  Rows'
<1> DEFINE room == MAX_ENTITIES - Alive
           b    == IF BossDue /\ room > 0 THEN 1 ELSE 0
           stop == EliteStop(points)
           e    == Smaller(room - b, stop - nextElite)
           s    == Summoned(room - b - e)
           t    == Upkeep(Alive + b + e + s, room - b - e - s)
<1>1. /\ bossSpawned' = (bossSpawned \/ b = 1) /\ bossAlive' = (bossAlive \/ b = 1)
      /\ nextElite' = stop
      /\ elites' = elites + e /\ elitesMade' = elitesMade + e
      /\ trash' = trash + s + t
      /\ UNCHANGED <<segment, points, bossPhase2>>
  BY DEF SpawnRun
<1>2. /\ room \in Int /\ room >= 0 /\ b \in {0, 1} /\ (b = 1 => BossDue /\ room > 0)
      /\ (BossDue /\ room > 0 => b = 1)
  BY Tables DEF Rows
<1>3. stop \in nextElite .. N + 1 /\ (BossDue => stop = N + 1)
  BY EliteStopExists, EliteStopLast DEF Rows, BossDue
<1>4. Alive = trash + elites + (IF bossAlive THEN 1 ELSE 0)
  BY DEF Alive
<1>5. e = stop - nextElite /\ e \in Nat /\ e <= room - b
  <2>1. nextElite \in 1 .. N + 1 /\ N \in Nat
    BY Tables DEF Rows
  <2>2. CASE bossSpawned
    <3>1. b = 0 /\ stop = nextElite
      BY <2>2, <1>2, <1>3, <2>1 DEF Rows, BossDue
    <3> HIDE DEF room, b, stop
    <3> QED  BY <3>1, <2>1, <1>2 DEF Smaller
  <2>3. CASE ~bossSpawned
    <3>1. PICK z \in Segments : trash <= capBySegment[z]
      BY <2>3 DEF Rows
    <3>2. capBySegment[z] \in Nat /\ capBySegment[z] + N < MAX_ENTITIES /\ MAX_ENTITIES \in Nat
      BY <3>1, Tables
    <3>3. ~bossAlive /\ trash \in Nat /\ elites \in Nat /\ elites <= nextElite - 1
      BY <2>3 DEF Rows
    <3>4. room = MAX_ENTITIES - (trash + elites)
      BY <3>3, <1>4
    <3>5. stop - nextElite < room
      <4> HIDE DEF room, stop
      <4> QED  BY <3>1, <3>2, <3>3, <3>4, <2>1, <1>3
    <3> HIDE DEF room, b, stop
    <3> QED  BY <3>5, <2>1, <1>2, <1>3 DEF Smaller
  <2> QED  BY <2>2, <2>3 DEF Rows
<1>6. b = 1 <=> BossDue
  <2>1. BossDue => room > 0
    <3> SUFFICES ASSUME BossDue PROVE room > 0
      OBVIOUS
    <3>1. PICK z \in Segments : trash <= capBySegment[z]
      BY DEF Rows, BossDue
    <3>2. capBySegment[z] \in Nat /\ capBySegment[z] + N < MAX_ENTITIES /\ MAX_ENTITIES \in Nat
      BY <3>1, Tables
    <3>3. ~bossAlive /\ trash \in Nat /\ elites \in Nat /\ elites <= N /\ N \in Nat
      BY Tables DEF Rows, BossDue
    <3> QED  BY <3>1, <3>2, <3>3, <1>4
  <2> QED  BY <2>1, <1>2
<1>7. s \in Nat /\ s <= room - b - e /\ (~bossSpawned => s = 0)
  <2> HIDE DEF room, b, e
  <2>1. s = 0 \/ s = Smaller(room - b - e, summonCount)
    BY DEF Summoned
  <2>2. room - b - e \in Nat
    BY <1>2, <1>5
  <2>3. Smaller(room - b - e, summonCount) \in Nat /\ Smaller(room - b - e, summonCount) <= room - b - e
    BY <2>2, Tables DEF Smaller
  <2>4. ~bossSpawned => s = 0
    BY DEF Summoned, SummonsDue, Rows
  <2> HIDE DEF s
  <2> QED  BY <2>1, <2>2, <2>3, <2>4
<1>8. /\ t \in Nat /\ t <= room - b - e - s
      /\ t = 0 \/ Alive + b + e + s + t <= capBySegment[segment]
  <2> DEFINE alive == Alive + b + e + s
             rest  == room - b - e - s
             most  == Smaller(batchBySegment[segment], capBySegment[segment] - alive)
  <2>1. alive \in Nat /\ rest \in Nat
    <3> HIDE DEF room, b, e, s
    <3> QED  BY <1>2, <1>5, <1>7 DEF Rows
  <2>2. batchBySegment[segment] \in Nat /\ capBySegment[segment] \in Nat
    BY Tables DEF Rows
  <2>3. t = (IF spawnIn > 0 \/ alive >= capBySegment[segment] THEN 0 ELSE Smaller(rest, most))
    BY DEF Upkeep
  <2> HIDE DEF alive, rest, t
  <2>4. t = 0 \/ (alive < capBySegment[segment] /\ t = Smaller(rest, most))
    BY <2>1, <2>2, <2>3
  <2>5. ASSUME alive < capBySegment[segment], t = Smaller(rest, most)
        PROVE  t \in Nat /\ t <= rest /\ alive + t <= capBySegment[segment]
    BY <2>1, <2>2, <2>5 DEF Smaller
  <2>6. t \in Nat /\ t <= rest /\ (t = 0 \/ alive + t <= capBySegment[segment])
    BY <2>1, <2>4, <2>5
  <2> QED  BY <2>6 DEF alive, rest
<1> HIDE DEF room, b, stop, e, s, t
<1>9. room = MAX_ENTITIES - Alive
  BY DEF room
<1>10. /\ trash' \in Nat /\ elites' \in Nat /\ elitesMade' \in Nat /\ nextElite' \in 1 .. N + 1
       /\ elitesMade' = nextElite' - 1 /\ elites' <= elitesMade'
  BY <1>1, <1>3, <1>5, <1>7, <1>8, Tables DEF Rows
<1>11. /\ bossSpawned' \in BOOLEAN /\ bossAlive' \in BOOLEAN
       /\ bossAlive' => bossSpawned'
       /\ bossPhase2' => bossSpawned'
  BY <1>1 DEF Rows
<1>12. bossSpawned' => nextElite' = N + 1
  <2>1. CASE bossSpawned
    BY <2>1, <1>1, <1>3, Tables DEF Rows
  <2>2. CASE ~bossSpawned
    BY <2>2, <1>1, <1>3, <1>6
  <2> QED  BY <2>1, <2>2
<1>13. ~bossSpawned' => \E z \in Segments : trash' <= capBySegment[z]
  <2> SUFFICES ASSUME ~bossSpawned' PROVE \E z \in Segments : trash' <= capBySegment[z]
    OBVIOUS
  <2>1. ~bossSpawned /\ s = 0
    BY <1>1, <1>7
  <2>2. CASE t = 0
    <3>1. trash' = trash
      BY <2>1, <2>2, <1>1 DEF Rows
    <3> QED  BY <3>1, <2>1 DEF Rows
  <2>3. CASE Alive + b + e + s + t <= capBySegment[segment]
    <3>1. segment \in Segments /\ capBySegment[segment] \in Nat
      BY Tables DEF Rows
    <3>2. trash \in Nat /\ elites \in Nat /\ Alive \in Nat /\ trash <= Alive
      BY <1>4 DEF Rows
    <3>3. trash' <= capBySegment[segment]
      BY <2>1, <2>3, <3>1, <3>2, <1>1, <1>2, <1>5, <1>8
    <3> QED  BY <3>1, <3>3
  <2> QED  BY <2>2, <2>3, <1>8
<1>14. Alive' = Alive + b + e + s + t
  <2>1. Alive' = trash' + elites' + (IF bossAlive' THEN 1 ELSE 0)
    BY DEF Alive
  <2>2. (IF bossAlive' THEN 1 ELSE 0) = (IF bossAlive THEN 1 ELSE 0) + b
    <3>1. b = 1 => ~bossAlive
      BY <1>6 DEF Rows, BossDue
    <3>2. CASE b = 1
      <4>1. bossAlive' /\ ~bossAlive
        BY <3>1, <3>2, <1>1
      <4> QED  BY <4>1, <3>2
    <3>3. CASE b = 0
      <4>1. b # 1
        BY <3>3
      <4>2. bossAlive' <=> bossAlive
        BY <4>1, <1>1, Zenon
      <4> QED  BY <4>2, <3>3
    <3> QED  BY <3>2, <3>3, <1>2
  <2>3. trash \in Nat /\ elites \in Nat
    BY DEF Rows
  <2> QED  BY <2>1, <2>2, <2>3, <1>1, <1>2, <1>4, <1>5, <1>7, <1>8
<1>15. Alive' \in Nat /\ Alive' <= MAX_ENTITIES
  <2>1. Alive \in Nat /\ MAX_ENTITIES \in Nat
    BY Tables DEF Rows
  <2>2. b \in Nat /\ e \in Nat /\ s \in Nat /\ t \in Nat /\ t <= room - b - e - s
    BY <1>2, <1>5, <1>7, <1>8
  <2> QED  BY <2>1, <2>2, <1>9, <1>14
<1> QED  BY <1>1, <1>10, <1>11, <1>12, <1>13, <1>15 DEF Rows

(* Every step leaves rows enough.                                          *)
LEMMA RowsNext == Rows /\ Ends /\ [Next]_vars => Rows'
<1> SUFFICES ASSUME Rows, Ends, [Next]_vars PROVE Rows'
  OBVIOUS
<1>1. CASE SpawnRun
  BY <1>1, SpawnAdds
<1>2. CASE ProgressRun
  <2>1. segment' \in Segments
    BY <1>2, SegmentExists DEF ProgressRun, Rows
  <2>2. UNCHANGED <<points, nextElite, trash, elites, bossSpawned, bossAlive, bossPhase2, elitesMade>>
    BY <1>2 DEF ProgressRun, enemies, bossFlags
  <2> QED  BY <2>1, <2>2 DEF Rows, Alive
<1>3. CASE KillTrash
  <2>1. /\ trash > 0 /\ trash' = trash - 1 /\ points' = points + trashPoints
        /\ UNCHANGED <<segment, nextElite, elites, bossSpawned, bossAlive, bossPhase2, elitesMade>>
    BY <1>3 DEF KillTrash, bossFlags, history
  <2>2. trash' \in Nat /\ points' \in Nat /\ trash' <= trash
    BY <2>1, Tables DEF Rows
  <2>3. ~bossSpawned => \E s \in Segments : trash' <= capBySegment[s]
    BY <2>1, Tables DEF Rows
  <2>4. Alive' \in Nat /\ Alive' <= MAX_ENTITIES
    BY <2>1, <2>2, Tables DEF Rows, Alive
  <2> QED  BY <2>1, <2>2, <2>3, <2>4 DEF Rows
<1>4. CASE KillElite
  <2>1. /\ elites > 0 /\ elites' = elites - 1 /\ points' = points + elitePoints
        /\ UNCHANGED <<segment, nextElite, trash, bossSpawned, bossAlive, bossPhase2, elitesMade>>
    BY <1>4 DEF KillElite, bossFlags, history
  <2>2. elites' \in Nat /\ points' \in Nat /\ elites' <= elitesMade'
    BY <2>1, Tables DEF Rows
  <2>3. Alive' \in Nat /\ Alive' <= MAX_ENTITIES
    BY <2>1, <2>2, Tables DEF Rows, Alive
  <2> QED  BY <2>1, <2>2, <2>3 DEF Rows
<1>5. CASE KillBoss
  <2>1. /\ bossAlive' = FALSE
        /\ UNCHANGED <<segment, points, nextElite, trash, elites, bossSpawned, bossPhase2, elitesMade>>
    BY <1>5 DEF KillBoss, history
  <2>2. Alive' \in Nat /\ Alive' <= MAX_ENTITIES
    BY <2>1, Tables DEF Rows, Alive
  <2> QED  BY <2>1, <2>2 DEF Rows
<1>6. CASE BossPhaseRun
  <2>1. /\ UNCHANGED <<segment, points, nextElite, trash, elites, bossSpawned, bossAlive, elitesMade>>
        /\ bossPhase2' = bossPhase2 \/ (bossPhase2' /\ bossPhase2' \in BOOLEAN /\ bossAlive)
    BY <1>6 DEF BossPhaseRun, enemies
  <2>2. bossPhase2 \in BOOLEAN /\ (bossPhase2 => bossSpawned) /\ (bossAlive => bossSpawned)
    BY DEF Rows
  <2>3. bossPhase2' \in BOOLEAN /\ (bossPhase2' => bossSpawned)
    <3>1. CASE bossPhase2' = bossPhase2
      BY <3>1, <2>1, <2>2
    <3>2. CASE bossPhase2' /\ bossPhase2' \in BOOLEAN /\ bossAlive
      BY <3>2, <2>1, <2>2
    <3> QED  BY <2>1, <3>1, <3>2
  <2> QED  BY <2>1, <2>3 DEF Rows, Alive
<1>7. CASE HurtBoss \/ FightEnds \/ EndTick \/ \E c \in 0 .. CorruptionMax + 1 : Corrupt(c)
  <2>1. UNCHANGED <<segment, points, nextElite, trash, elites, bossSpawned, bossAlive, bossPhase2, elitesMade>>
    BY <1>7 DEF HurtBoss, FightEnds, EndTick, Corrupt, enemies, bossFlags, history
  <2> QED  BY <2>1 DEF Rows, Alive
<1>8. CASE UNCHANGED vars
  BY <1>8 DEF vars, enemies, bossFlags, history, Rows, Alive
<1> QED  BY <1>1, <1>2, <1>3, <1>4, <1>5, <1>6, <1>7, <1>8 DEF Next, Systems

(* Every elite that was due got its row, although the index moves on when  *)
(* the store has none.                                                     *)
THEOREM RunNoEliteLost == Spec => []NoEliteLost
<1>1. Rows => NoEliteLost
  BY DEF Rows, NoEliteLost
<1> QED  BY EndsInit, EndsNext, RowsInit, RowsNext, <1>1, PTL DEF Spec

----------------------------------------------------------------------------
(* The pools: orbs and zones.                                              *)

(* Induction over a set of numbers.                                        *)
LEMMA SetInduction ==
  ASSUME NEW T, NEW n \in Nat, 0 \in T, \A k \in 0 .. n - 1 : k \in T => k + 1 \in T
  PROVE  \A k \in 0 .. n : k \in T
<1> DEFINE out == {k \in 0 .. n : k \notin T}
<1> SUFFICES ASSUME out # {} PROVE FALSE
  OBVIOUS
<1>0. out \in SUBSET Nat
  OBVIOUS
<1>1. PICK x \in out : \A y \in out : x <= y
  <2> HIDE DEF out
  <2> QED  BY <1>0, LeastNatural
<1>2. x # 0 /\ x \in Nat /\ x <= n
  BY <1>1
<1>3. x - 1 \in 0 .. n - 1 /\ x - 1 \in T
  BY <1>1, <1>2
<1> QED  BY <1>1, <1>2, <1>3

(* Rows in the order of their serials.                                     *)
InOrder(q) == \A i, j \in 1 .. Len(q) : i < j => q[i].serial < q[j].serial

(* Taking one entry out moves up those behind it.                          *)
LEMMA TakenOutIs ==
  ASSUME NEW S, NEW q \in Seq(S), NEW i \in 1 .. Len(q)
  PROVE  /\ TakenOut(q, i) \in Seq(S)
         /\ Len(TakenOut(q, i)) = Len(q) - 1
         /\ \A j \in 1 .. Len(q) - 1 : TakenOut(q, i)[j] = IF j < i THEN q[j] ELSE q[j + 1]
<1>1. Len(q) \in Nat /\ i - 1 \in Int /\ i + 1 \in Int /\ \A j \in 1 .. Len(q) : q[j] \in S
  OBVIOUS
<1> DEFINE a == SubSeq(q, 1, i - 1)
           b == SubSeq(q, i + 1, Len(q))
<1>2. a \in Seq(S) /\ Len(a) = i - 1 /\ \A j \in 1 .. i - 1 : a[j] = q[j]
  <2>1. \A j \in 1 .. i - 1 : q[j] \in S
    BY <1>1
  <2>2. /\ a \in Seq(S) /\ Len(a) = (IF 1 <= i - 1 THEN (i - 1) - 1 + 1 ELSE 0)
        /\ \A j \in 1 .. (i - 1) - 1 + 1 : a[j] = q[1 + j - 1]
    BY <1>1, <2>1, SubSeqProperties
  <2> QED  BY <2>2, <1>1
<1>3. b \in Seq(S) /\ Len(b) = Len(q) - i /\ \A j \in 1 .. Len(q) - i : b[j] = q[i + j]
  <2>1. \A j \in i + 1 .. Len(q) : q[j] \in S
    BY <1>1
  <2>2. /\ b \in Seq(S) /\ Len(b) = (IF i + 1 <= Len(q) THEN Len(q) - (i + 1) + 1 ELSE 0)
        /\ \A j \in 1 .. Len(q) - (i + 1) + 1 : b[j] = q[(i + 1) + j - 1]
    BY <1>1, <2>1, SubSeqProperties
  <2> QED  BY <2>2, <1>1
<1> HIDE DEF a, b
<1>4. /\ a \o b \in Seq(S) /\ Len(a \o b) = Len(a) + Len(b)
      /\ \A j \in 1 .. Len(a) + Len(b) : (a \o b)[j] = IF j <= Len(a) THEN a[j] ELSE b[j - Len(a)]
  BY <1>2, <1>3, ConcatProperties
<1>5. TakenOut(q, i) = a \o b
  BY DEF TakenOut, RemoveAt, a, b
<1>6. Len(a \o b) = Len(q) - 1
  BY <1>1, <1>2, <1>3, <1>4
<1>7. ASSUME NEW j \in 1 .. Len(q) - 1
      PROVE  (a \o b)[j] = IF j < i THEN q[j] ELSE q[j + 1]
  <2>1. j \in 1 .. Len(a) + Len(b)
    BY <1>4, <1>6
  <2>2. CASE j < i
    BY <1>2, <1>4, <2>1, <2>2
  <2>3. CASE ~(j < i)
    <3>1. ~(j <= Len(a)) /\ j - Len(a) = j - (i - 1) /\ j - (i - 1) \in 1 .. Len(q) - i
      BY <1>2, <2>3
    <3>2. (a \o b)[j] = b[j - (i - 1)]
      BY <1>4, <2>1, <3>1
    <3>3. b[j - (i - 1)] = q[i + (j - (i - 1))] /\ i + (j - (i - 1)) = j + 1
      BY <1>3, <3>1
    <3> QED  BY <2>3, <3>2, <3>3
  <2> QED  BY <2>2, <2>3
<1> QED  BY <1>4, <1>5, <1>6, <1>7

(* What is taken out leaves the order of the others, and loses no other.   *)
KeptBut(q, i, t) ==
  /\ InOrder(t)
  /\ \A j \in 1 .. Len(q) - 1 : \E k \in 1 .. Len(q) : k # i /\ t[j] = q[k]
  /\ \A k \in 1 .. Len(q) : k # i => \E j \in 1 .. Len(q) - 1 : t[j] = q[k]

LEMMA TakenOutKeeps ==
  ASSUME NEW S, NEW q \in Seq(S), NEW i \in 1 .. Len(q),
         \A x \in S : x.serial \in Nat, InOrder(q)
  PROVE  KeptBut(q, i, TakenOut(q, i))
<1> DEFINE p == TakenOut(q, i)
<1>1. /\ p \in Seq(S) /\ Len(p) = Len(q) - 1
      /\ \A j \in 1 .. Len(q) - 1 : p[j] = IF j < i THEN q[j] ELSE q[j + 1]
  BY TakenOutIs
<1> HIDE DEF p
<1>2. ASSUME NEW a \in 1 .. Len(p), NEW b \in 1 .. Len(p), a < b
      PROVE  p[a].serial < p[b].serial
  <2> DEFINE c == IF a < i THEN a ELSE a + 1
             d == IF b < i THEN b ELSE b + 1
  <2>1. c \in 1 .. Len(q) /\ d \in 1 .. Len(q) /\ c < d
    BY <1>1, <1>2
  <2>2. p[a] = q[c] /\ p[b] = q[d]
    BY <1>1, <1>2
  <2> HIDE DEF c, d
  <2> QED  BY <2>1, <2>2 DEF InOrder
<1>3. ASSUME NEW j \in 1 .. Len(q) - 1
      PROVE  \E k \in 1 .. Len(q) : k # i /\ p[j] = q[k]
  <2>1. CASE j < i
    <3>1. j \in 1 .. Len(q) /\ j # i /\ p[j] = q[j]
      BY <1>1, <2>1
    <3> QED  BY <3>1
  <2>2. CASE ~(j < i)
    <3>1. j + 1 \in 1 .. Len(q) /\ j + 1 # i /\ p[j] = q[j + 1]
      BY <1>1, <2>2
    <3> QED  BY <3>1
  <2> QED  BY <2>1, <2>2
<1>4. ASSUME NEW k \in 1 .. Len(q), k # i
      PROVE  \E j \in 1 .. Len(q) - 1 : p[j] = q[k]
  <2>1. CASE k < i
    <3>1. k \in 1 .. Len(q) - 1
      BY <2>1
    <3>2. p[k] = q[k]
      BY <1>1, <2>1, <3>1
    <3> QED  BY <3>1, <3>2
  <2>2. CASE k > i
    <3>1. k - 1 \in 1 .. Len(q) - 1 /\ ~(k - 1 < i) /\ (k - 1) + 1 = k
      BY <2>2
    <3>2. p[k - 1] = q[k]
      BY <1>1, <3>1
    <3> QED  BY <3>1, <3>2
  <2> QED  BY <1>4, <2>1, <2>2
<1> QED  BY <1>2, <1>3, <1>4 DEF KeptBut, InOrder, p

(* The loop that sweeps has a result for every index it starts from.       *)
Sweeps(f, q, gone) ==
  f = [i \in 1 .. Len(q) + 1 |->
         IF i > Len(q) THEN q
         ELSE IF q[i].serial \in gone THEN TakenOut(f[i + 1], i) ELSE f[i + 1]]

(* The recursive definition of the loop is satisfied by some function.     *)
LEMMA SweepExists ==
  ASSUME NEW q, NEW gone, Len(q) \in Nat
  PROVE  \E f : Sweeps(f, q, gone)
<1> DEFINE n == Len(q)
           step(f, i) == IF i > n THEN q
                         ELSE IF q[i].serial \in gone THEN TakenOut(f[i + 1], i) ELSE f[i + 1]
           From(k) == n + 1 - k .. n + 1
           T == {k \in 0 .. n : \E f : /\ f = [i \in 1 .. n + 1 |-> f[i]]
                                       /\ \A i \in From(k) : f[i] = step(f, i)}
<1>0. n \in Nat
  OBVIOUS
<1>1. 0 \in T
  <2> DEFINE f == [i \in 1 .. n + 1 |-> q]
  <2>1. f = [i \in 1 .. n + 1 |-> f[i]]
    OBVIOUS
  <2>2. ASSUME NEW i \in From(0) PROVE f[i] = step(f, i)
    <3>1. i = n + 1 /\ i > n /\ i \in 1 .. n + 1
      BY <1>0
    <3>2. f[i] = q
      BY <3>1
    <3>3. step(f, i) = q
      BY <3>1
    <3> QED  BY <3>2, <3>3
  <2> HIDE DEF f, step, From
  <2>3. 0 \in 0 .. n
    BY <1>0
  <2> QED  BY <2>1, <2>2, <2>3
<1>2. ASSUME NEW k \in 0 .. n - 1, k \in T PROVE k + 1 \in T
  <2>1. PICK f : f = [i \in 1 .. n + 1 |-> f[i]] /\ \A i \in From(k) : f[i] = step(f, i)
    BY <1>2
  <2> DEFINE m == n + 1 - (k + 1)
             v == step(f, m)
             h == [i \in 1 .. n + 1 |-> IF i = m THEN v ELSE f[i]]
  <2>2. m \in 1 .. n /\ m + 1 \in 1 .. n + 1 /\ k + 1 \in 0 .. n
    BY <1>0
  <2>3. h = [i \in 1 .. n + 1 |-> h[i]]
    <3> HIDE DEF v, m
    <3> QED  OBVIOUS
  <2>4. \A i \in 1 .. n + 1 : i # m => h[i] = f[i]
    <3> HIDE DEF v, m
    <3> QED  OBVIOUS
  <2>5. h[m] = v
    <3> HIDE DEF v
    <3> QED  BY <2>2
  <2> HIDE DEF h
  <2>6. ASSUME NEW i \in From(k + 1) PROVE h[i] = step(h, i)
    <3>1. i \in m .. n + 1 /\ i \in 1 .. n + 1
      BY <1>0
    <3>2. CASE i = n + 1
      <4>1. step(h, i) = q /\ step(f, i) = q
        BY <3>2, <1>0
      <4>2. i \in From(k) /\ i # m
        BY <3>2, <1>0
      <4> QED  BY <4>1, <4>2, <2>1, <2>4, <3>1
    <3>3. CASE i # n + 1
      <4>1. i + 1 \in 1 .. n + 1 /\ i + 1 # m
        BY <3>1, <3>3, <1>0
      <4>2. h[i + 1] = f[i + 1]
        BY <4>1, <2>4
      <4>3. step(h, i) = step(f, i)
        BY <4>2
      <4>4. i = m \/ i \in From(k)
        BY <3>1, <1>0
      <4> HIDE DEF step, From
      <4> QED  BY <4>3, <4>4, <2>1, <2>4, <2>5, <3>1 DEF v
    <3> QED  BY <3>2, <3>3
  <2> HIDE DEF step, From
  <2> QED  BY <2>2, <2>3, <2>6
<1>3. n \in T
  <2> HIDE DEF T, n
  <2>1. \A k \in 0 .. n - 1 : k \in T => k + 1 \in T
    BY <1>2
  <2>2. \A k \in 0 .. n : k \in T
    BY <1>0, <1>1, <2>1, SetInduction
  <2> QED  BY <1>0, <2>2
<1>4. PICK f : f = [i \in 1 .. n + 1 |-> f[i]] /\ \A i \in From(n) : f[i] = step(f, i)
  BY <1>3
<1>5. \A i \in 1 .. n + 1 : f[i] = step(f, i)
  <2>1. From(n) = 1 .. n + 1
    BY <1>0
  <2> HIDE DEF From, step
  <2> QED  BY <1>4, <2>1
<1>6. f = [i \in 1 .. n + 1 |-> step(f, i)]
  <2> HIDE DEF step
  <2> QED  BY <1>4, <1>5
<1> QED  BY <1>6 DEF Sweeps

(* What the loop has made of q when it has come down to index i: the       *)
(* entries below i are as they were, those above are the ones to stay.     *)
SweptFrom(p, q, gone, S, i) ==
  /\ p \in Seq(S) /\ Len(p) >= i - 1 /\ InOrder(p)
  /\ \A j \in 1 .. i - 1 : p[j] = q[j]
  /\ \A j \in i .. Len(p) : \E k \in i .. Len(q) : p[j] = q[k] /\ q[k].serial \notin gone
  /\ \A k \in i .. Len(q) : q[k].serial \notin gone => \E j \in i .. Len(p) : p[j] = q[k]

(* One turn of the loop, down from i + 1.                                  *)
LEMMA SweepStep ==
  ASSUME NEW S, NEW q \in Seq(S), NEW gone, NEW i \in 1 .. Len(q), NEW p,
         \A x \in S : x.serial \in Nat, SweptFrom(p, q, gone, S, i + 1)
  PROVE  SweptFrom(IF q[i].serial \in gone THEN TakenOut(p, i) ELSE p, q, gone, S, i)
<1>1. /\ p \in Seq(S) /\ Len(p) >= i /\ InOrder(p) /\ Len(p) \in Nat /\ Len(q) \in Nat
      /\ \A j \in 1 .. i : p[j] = q[j]
      /\ \A j \in i + 1 .. Len(p) : \E k \in i + 1 .. Len(q) : p[j] = q[k] /\ q[k].serial \notin gone
      /\ \A k \in i + 1 .. Len(q) : q[k].serial \notin gone => \E j \in i + 1 .. Len(p) : p[j] = q[k]
  BY DEF SweptFrom
<1>2. i \in 1 .. Len(p)
  BY <1>1
<1>3. CASE q[i].serial \in gone
  <2> DEFINE r == TakenOut(p, i)
  <2>1. /\ r \in Seq(S) /\ Len(r) = Len(p) - 1 /\ InOrder(r)
        /\ \A j \in 1 .. Len(p) - 1 : r[j] = IF j < i THEN p[j] ELSE p[j + 1]
    BY <1>1, <1>2, TakenOutIs, TakenOutKeeps DEF KeptBut
  <2> HIDE DEF r
  <2>2. ASSUME NEW j \in 1 .. i - 1 PROVE r[j] = q[j]
    <3>1. j \in 1 .. Len(p) - 1 /\ j < i /\ j \in 1 .. i
      BY <1>1
    <3>2. r[j] = p[j]
      BY <2>1, <3>1
    <3> QED  BY <1>1, <3>1, <3>2
  <2>3. ASSUME NEW j \in i .. Len(r)
        PROVE  \E k \in i .. Len(q) : r[j] = q[k] /\ q[k].serial \notin gone
    <3>1. j \in 1 .. Len(p) - 1 /\ ~(j < i) /\ j + 1 \in i + 1 .. Len(p)
      BY <1>1, <2>1
    <3>2. r[j] = p[j + 1]
      BY <2>1, <3>1
    <3>3. PICK k \in i + 1 .. Len(q) : p[j + 1] = q[k] /\ q[k].serial \notin gone
      BY <1>1, <3>1
    <3>4. k \in i .. Len(q)
      OBVIOUS
    <3> QED  BY <3>2, <3>3, <3>4
  <2>4. ASSUME NEW k \in i .. Len(q), q[k].serial \notin gone
        PROVE  \E j \in i .. Len(r) : r[j] = q[k]
    <3>1. k \in i + 1 .. Len(q)
      BY <1>3, <2>4
    <3>2. PICK j \in i + 1 .. Len(p) : p[j] = q[k]
      BY <1>1, <2>4, <3>1
    <3>3. j - 1 \in 1 .. Len(p) - 1 /\ ~(j - 1 < i) /\ (j - 1) + 1 = j /\ j - 1 \in i .. Len(r)
      BY <2>1, <1>1
    <3>4. r[j - 1] = p[j]
      BY <2>1, <3>3
    <3> QED  BY <3>2, <3>3, <3>4
  <2>5. Len(r) >= i - 1
    BY <1>1, <2>1
  <2>6. SweptFrom(r, q, gone, S, i)
    BY <2>1, <2>2, <2>3, <2>4, <2>5 DEF SweptFrom
  <2> QED  BY <1>3, <2>6 DEF r
<1>4. CASE q[i].serial \notin gone
  <2>1. p[i] = q[i] /\ i \in i .. Len(q) /\ i \in i .. Len(p)
    BY <1>1
  <2>2. ASSUME NEW j \in i .. Len(p)
        PROVE  \E k \in i .. Len(q) : p[j] = q[k] /\ q[k].serial \notin gone
    <3>1. CASE j = i
      BY <1>4, <2>1, <3>1
    <3>2. CASE j # i
      <4>1. j \in i + 1 .. Len(p)
        BY <3>2
      <4>2. PICK k \in i + 1 .. Len(q) : p[j] = q[k] /\ q[k].serial \notin gone
        BY <4>1, <1>1
      <4>3. k \in i .. Len(q)
        OBVIOUS
      <4> QED  BY <4>2, <4>3
    <3> QED  BY <3>1, <3>2
  <2>3. ASSUME NEW k \in i .. Len(q), q[k].serial \notin gone
        PROVE  \E j \in i .. Len(p) : p[j] = q[k]
    <3>1. CASE k = i
      BY <2>1, <3>1
    <3>2. CASE k # i
      <4>1. k \in i + 1 .. Len(q)
        BY <3>2
      <4>2. PICK j \in i + 1 .. Len(p) : p[j] = q[k]
        BY <4>1, <2>3, <1>1
      <4>3. j \in i .. Len(p)
        OBVIOUS
      <4> QED  BY <4>2, <4>3
    <3> QED  BY <3>1, <3>2
  <2>4. Len(p) >= i - 1 /\ \A j \in 1 .. i - 1 : p[j] = q[j]
    BY <1>1
  <2>5. SweptFrom(p, q, gone, S, i)
    BY <1>1, <2>2, <2>3, <2>4 DEF SweptFrom
  <2> QED  BY <1>4, <2>5
<1> QED  BY <1>3, <1>4

(* A sweep takes out exactly the entries that are to go, and keeps the     *)
(* order of the others.                                                    *)
LEMMA SweptIs ==
  ASSUME NEW S, NEW q \in Seq(S), NEW gone, \A x \in S : x.serial \in Nat, InOrder(q)
  PROVE  LET p == Swept(q, gone)
         IN  /\ p \in Seq(S) /\ InOrder(p)
             /\ \A j \in 1 .. Len(p) : \E k \in 1 .. Len(q) : p[j] = q[k] /\ q[k].serial \notin gone
             /\ \A k \in 1 .. Len(q) : q[k].serial \notin gone => \E j \in 1 .. Len(p) : p[j] = q[k]
<1> DEFINE n == Len(q)
           F == CHOOSE f : Sweeps(f, q, gone)
           T == {k \in 0 .. n : SweptFrom(F[n + 1 - k], q, gone, S, n + 1 - k)}
<1>0. n \in Nat
  OBVIOUS
<1>1. Sweeps(F, q, gone)
  <2>1. \E f : Sweeps(f, q, gone)
    BY <1>0, SweepExists
  <2> QED  BY <2>1, Zenon
<1>2. Swept(q, gone) = F[1]
  BY Zenon DEF Swept, Sweeps
<1> HIDE DEF F
<1>3. \A i \in 1 .. n + 1 : F[i] = IF i > n THEN q
                                   ELSE IF q[i].serial \in gone THEN TakenOut(F[i + 1], i) ELSE F[i + 1]
  BY <1>1, Zenon DEF Sweeps
<1>4. 0 \in T
  <2>1. F[n + 1] = q
    BY <1>0, <1>3
  <2>2. SweptFrom(q, q, gone, S, n + 1)
    BY <1>0 DEF SweptFrom
  <2>3. n + 1 - 0 = n + 1 /\ 0 \in 0 .. n
    BY <1>0
  <2> QED  BY <2>1, <2>2, <2>3
<1>5. ASSUME NEW k \in 0 .. n - 1, k \in T PROVE k + 1 \in T
  <2> DEFINE i == n - k
  <2>1. i \in 1 .. Len(q) /\ ~(i > n) /\ i \in 1 .. n + 1 /\ n + 1 - k = i + 1 /\ n + 1 - (k + 1) = i
        /\ k + 1 \in 0 .. n
    BY <1>0
  <2>2. SweptFrom(F[i + 1], q, gone, S, i + 1)
    BY <1>5, <2>1
  <2>3. F[i] = IF q[i].serial \in gone THEN TakenOut(F[i + 1], i) ELSE F[i + 1]
    BY <1>3, <2>1
  <2> HIDE DEF i
  <2>4. SweptFrom(F[i], q, gone, S, i)
    BY <2>1, <2>2, <2>3, SweepStep
  <2> QED  BY <2>1, <2>4
<1>6. n \in T
  <2> HIDE DEF T, n
  <2>1. \A k \in 0 .. n - 1 : k \in T => k + 1 \in T
    BY <1>5
  <2>2. \A k \in 0 .. n : k \in T
    BY <1>0, <1>4, <2>1, SetInduction
  <2> QED  BY <1>0, <2>2
<1>7. SweptFrom(Swept(q, gone), q, gone, S, 1)
  <2>1. n + 1 - n = 1
    BY <1>0
  <2> QED  BY <1>2, <1>6, <2>1
<1> QED  BY <1>7 DEF SweptFrom

(* A pool that is full has an entry that ends first.                       *)
LEMMA OldestIs ==
  ASSUME NEW S, NEW q \in Seq(S), \A x \in S : x.expire \in Nat, Len(q) > 0
  PROVE  Oldest(q) \in 1 .. Len(q)
<1> DEFINE ends == {q[i].expire : i \in 1 .. Len(q)}
<1>1. \A i \in 1 .. Len(q) : q[i] \in S /\ q[i].expire \in Nat
  OBVIOUS
<1>2. 1 \in 1 .. Len(q)
  OBVIOUS
<1>3. ends \in SUBSET Nat /\ q[1].expire \in ends
  BY <1>1, <1>2
<1>4. PICK x \in ends : \A y \in ends : x <= y
  <2> HIDE DEF ends
  <2> QED  BY <1>3, LeastNatural
<1> DEFINE first == {i \in 1 .. Len(q) : q[i].expire = x}
<1>5. first \in SUBSET Nat /\ first # {}
  BY <1>4
<1>6. PICK a \in first : \A b \in first : a <= b
  <2> HIDE DEF first
  <2> QED  BY <1>5, LeastNatural
<1>7. a \in 1 .. Len(q) /\ q[a].expire = x
  BY <1>6
<1>8. ASSUME NEW j \in 1 .. Len(q)
      PROVE  q[a].expire < q[j].expire \/ (q[a].expire = q[j].expire /\ a <= j)
  <2>1. x <= q[j].expire /\ x \in Nat /\ q[j].expire \in Nat
    BY <1>1, <1>3, <1>4
  <2>2. q[j].expire = x => a <= j
    BY <1>6
  <2> HIDE DEF first, ends
  <2> QED  BY <1>7, <2>1, <2>2
<1> HIDE DEF first, ends
<1>9. \E i \in 1 .. Len(q) : \A j \in 1 .. Len(q) :
        q[i].expire < q[j].expire \/ (q[i].expire = q[j].expire /\ i <= j)
  BY <1>7, <1>8
<1> QED  BY <1>9, Zenon DEF Oldest

(* What is pushed comes last; of the others at most the oldest is missing. *)
LEMMA PushedIs ==
  ASSUME NEW S, NEW q \in Seq(S), NEW max \in Nat \ {0}, NEW x \in S,
         \A y \in S : y.serial \in Nat /\ y.expire \in Nat,
         InOrder(q), \A i \in 1 .. Len(q) : q[i].serial < x.serial
  PROVE  LET p == Pushed(q, max, x)
         IN  /\ p \in Seq(S) /\ InOrder(p)
             /\ \A j \in 1 .. Len(p) : p[j] = x \/ \E k \in 1 .. Len(q) : p[j] = q[k]
             /\ \E j \in 1 .. Len(p) : p[j] = x
<1> DEFINE r == IF Len(q) >= max THEN TakenOut(q, Oldest(q)) ELSE q
           p == Append(r, x)
<1>1. /\ r \in Seq(S) /\ InOrder(r)
      /\ \A j \in 1 .. Len(r) : \E k \in 1 .. Len(q) : r[j] = q[k]
  <2>1. CASE Len(q) >= max
    <3>1. Oldest(q) \in 1 .. Len(q)
      BY <2>1, OldestIs
    <3> DEFINE o == Oldest(q)
               t == TakenOut(q, o)
    <3> HIDE DEF o
    <3>2. o \in 1 .. Len(q) /\ \A y \in S : y.serial \in Nat
      BY <3>1 DEF o
    <3>3. t \in Seq(S) /\ Len(t) = Len(q) - 1
      BY <3>2, TakenOutIs
    <3>4. /\ InOrder(t)
          /\ \A j \in 1 .. Len(q) - 1 : \E k \in 1 .. Len(q) : k # o /\ t[j] = q[k]
      <4>1. KeptBut(q, o, t)
        BY <3>2, TakenOutKeeps
      <4> QED  BY <4>1, Zenon DEF KeptBut
    <3>5. r = t
      BY <2>1 DEF o
    <3> HIDE DEF t, r
    <3> QED  BY <3>3, <3>4, <3>5
  <2>2. CASE ~(Len(q) >= max)
    BY <2>2
  <2> QED  BY <2>1, <2>2
<1> HIDE DEF r
<1>2. /\ p \in Seq(S) /\ Len(p) = Len(r) + 1 /\ Len(r) \in Nat
      /\ \A i \in 1 .. Len(r) : p[i] = r[i]
      /\ p[Len(r) + 1] = x
  BY <1>1, AppendProperties
<1> HIDE DEF p
<1>3. ASSUME NEW j \in 1 .. Len(p)
      PROVE  p[j] = x \/ \E k \in 1 .. Len(q) : p[j] = q[k]
  <2>1. j = Len(r) + 1 \/ j \in 1 .. Len(r)
    BY <1>2
  <2> QED  BY <1>1, <1>2, <2>1
<1>4. ASSUME NEW a \in 1 .. Len(p), NEW b \in 1 .. Len(p), a < b
      PROVE  p[a].serial < p[b].serial
  <2>1. a \in 1 .. Len(r) /\ p[a] = r[a]
    BY <1>2, <1>4
  <2>2. CASE b = Len(r) + 1
    <3>1. PICK k \in 1 .. Len(q) : r[a] = q[k]
      BY <1>1, <2>1
    <3> QED  BY <1>2, <2>1, <2>2, <3>1
  <2>3. CASE b # Len(r) + 1
    <3>1. b \in 1 .. Len(r) /\ p[b] = r[b]
      BY <1>2, <2>3
    <3> QED  BY <1>1, <1>4, <2>1, <3>1 DEF InOrder
  <2> QED  BY <2>2, <2>3
<1>5. Len(r) + 1 \in 1 .. Len(p)
  BY <1>2
<1>6. Pushed(q, max, x) = p
  BY DEF Pushed, p, r
<1>7. InOrder(p)
  BY <1>4 DEF InOrder
<1> HIDE DEF p
<1>8. p \in Seq(S) /\ p[Len(r) + 1] = x
  BY <1>2
<1> QED  BY <1>3, <1>5, <1>6, <1>7, <1>8
---------------------------------------------------------------------------
(* Orbs.                                                                   *)

Orb == [serial : Nat, expire : Nat]

OrbInv ==
  /\ now \in Nat /\ dropped \in Nat
  /\ orbs \in Seq(Orb) /\ InOrder(orbs)
  /\ \A i \in 1 .. Len(orbs) : orbs[i].serial \in 1 .. dropped
  /\ reach \in SUBSET (0 .. dropped)
  /\ system = "combatRun" =>
       \A i \in 1 .. Len(orbs) : ~Over(orbs[i]) /\ orbs[i].serial \notin reach

(* A new orb is the last, ends later than now and is not reached yet.      *)
LEMMA DropOrbKeeps ==
  ASSUME OrbInv, DropOrb
  PROVE  OrbInv'
<1> DEFINE x == [serial |-> dropped', expire |-> now + OrbLifetime]
           p == Pushed(orbs, MAX_ORBS, x)
<1>0. /\ now \in Nat /\ dropped \in Nat /\ orbs \in Seq(Orb) /\ InOrder(orbs)
      /\ \A i \in 1 .. Len(orbs) : orbs[i].serial \in 1 .. dropped
      /\ reach \in SUBSET (0 .. dropped)
      /\ system = "combatRun" =>
           \A i \in 1 .. Len(orbs) : ~Over(orbs[i]) /\ orbs[i].serial \notin reach
  BY DEF OrbInv
<1>1. /\ dropped' = dropped + 1 /\ orbs' = p /\ now' = now /\ system' = system /\ reach' = reach
  BY DEF DropOrb
<1>2. MAX_ORBS \in Nat \ {0} /\ OrbLifetime \in Nat \ {0}
  BY PoolAssumption DEF PoolAssumption
<1>3. x \in Orb /\ x.serial = dropped + 1 /\ x.expire > now
  BY <1>0, <1>1, <1>2 DEF Orb
<1>4. \A y \in Orb : y.serial \in Nat /\ y.expire \in Nat
  BY DEF Orb
<1>5. \A i \in 1 .. Len(orbs) : orbs[i].serial < x.serial
  BY <1>0, <1>3
<1> HIDE DEF x
<1>6. /\ p \in Seq(Orb) /\ InOrder(p)
      /\ \A j \in 1 .. Len(p) : p[j] = x \/ \E k \in 1 .. Len(orbs) : p[j] = orbs[k]
  <2>1. x \in Orb /\ orbs \in Seq(Orb) /\ InOrder(orbs) /\ MAX_ORBS \in Nat \ {0}
    BY <1>0, <1>2, <1>3
  <2> QED  BY <1>4, <1>5, <2>1, PushedIs
<1> HIDE DEF p
<1>7. ASSUME NEW j \in 1 .. Len(p)
      PROVE  /\ p[j].serial \in 1 .. dropped + 1
             /\ system = "combatRun" => ~(now >= p[j].expire) /\ p[j].serial \notin reach
  <2>1. CASE p[j] = x
    BY <1>0, <1>3, <2>1 DEF Orb
  <2>2. CASE \E k \in 1 .. Len(orbs) : p[j] = orbs[k]
    <3>1. PICK k \in 1 .. Len(orbs) : p[j] = orbs[k]
      BY <2>2
    <3>2. orbs[k].serial \in 1 .. dropped
      BY <1>0
    <3> QED  BY <1>0, <3>1, <3>2 DEF Over
  <2> QED  BY <1>6, <2>1, <2>2
<1> QED  BY <1>0, <1>1, <1>6, <1>7 DEF OrbInv, InOrder, Over

(* orbRun leaves neither an orb that has ended nor one under the hero.     *)
LEMMA OrbRunKeeps ==
  ASSUME OrbInv, OrbRun
  PROVE  OrbInv'
<1> DEFINE gone == Overdue(orbs) \cup reach'
           p == Swept(orbs, gone)
<1>0. /\ now \in Nat /\ dropped \in Nat /\ orbs \in Seq(Orb) /\ InOrder(orbs)
      /\ \A i \in 1 .. Len(orbs) : orbs[i].serial \in 1 .. dropped
  BY DEF OrbInv
<1>1. /\ dropped' = dropped /\ orbs' = p /\ now' = now /\ reach' \in SUBSET Serials(orbs)
  BY DEF OrbRun
<1>2. \A y \in Orb : y.serial \in Nat
  BY DEF Orb
<1>3. /\ p \in Seq(Orb) /\ InOrder(p)
      /\ \A j \in 1 .. Len(p) : \E k \in 1 .. Len(orbs) : p[j] = orbs[k] /\ orbs[k].serial \notin gone
  <2> HIDE DEF gone
  <2> QED  BY <1>0, <1>2, SweptIs
<1> HIDE DEF p
<1>4. ASSUME NEW j \in 1 .. Len(p)
      PROVE  p[j].serial \in 1 .. dropped /\ ~(now >= p[j].expire) /\ p[j].serial \notin reach'
  <2>1. PICK k \in 1 .. Len(orbs) : p[j] = orbs[k] /\ orbs[k].serial \notin gone
    BY <1>3
  <2>2. ~Over(orbs[k])
    BY <2>1 DEF Overdue
  <2> QED  BY <1>0, <2>1, <2>2 DEF Over
<1>5. reach' \in SUBSET (0 .. dropped)
  BY <1>0, <1>1 DEF Serials
<1> QED  BY <1>0, <1>1, <1>3, <1>4, <1>5 DEF OrbInv, InOrder, Over

(* Every step keeps the invariant of the orbs.                             *)
LEMMA OrbInvHolds ==
  /\ PoolsInit => OrbInv
  /\ OrbInv /\ [PoolsNext]_poolVars => OrbInv'
<1>1. PoolsInit => OrbInv
  BY DEF PoolsInit, OrbInv, InOrder
<1>2. ASSUME OrbInv, [PoolsNext]_poolVars
      PROVE  OrbInv'
  <2>1. CASE BeginTick
    BY <1>2, <2>1 DEF BeginTick, OrbInv, InOrder
  <2>2. CASE DropOrb
    BY <1>2, <2>2, DropOrbKeeps
  <2>3. CASE ZoneRun
    BY <1>2, <2>3 DEF ZoneRun, OrbInv, InOrder
  <2>4. CASE OrbRun
    BY <1>2, <2>4, OrbRunKeeps
  <2>5. CASE PoolsEndTick
    BY <1>2, <2>5 DEF PoolsEndTick, OrbInv, InOrder
  <2>6. ASSUME NEW k \in Kinds, LayZone(k)
        PROVE  OrbInv'
    BY <1>2, <2>6 DEF LayZone, OrbInv, InOrder, Over
  <2>7. CASE UNCHANGED poolVars
    BY <1>2, <2>7 DEF poolVars, OrbInv, InOrder, Over
  <2> QED  BY <1>2, <2>1, <2>2, <2>3, <2>4, <2>5, <2>6, <2>7 DEF PoolsNext
<1> QED  BY <1>1, <1>2

---------------------------------------------------------------------------
(* Zones.                                                                  *)

Zone == [serial : Nat, kind : Kinds, expire : Nat]

(* The tick's zoneRun has been there since the zone's end.                 *)
Ended(z) == z.expire < now \/ (z.expire = now /\ system # "zoneRun")

InPool(s) == \E i \in 1 .. Len(zones) : zones[i].serial = s

(* The pool holds the zones that were laid, have not ended and were not    *)
(* given up, each as it was laid.                                          *)
ZoneTypes ==
  /\ now \in Nat
  /\ laid \in Seq(Zone) /\ \A s \in 1 .. Len(laid) : laid[s].serial = s
  /\ zones \in Seq(Zone) /\ InOrder(zones)
  /\ evicted \in SUBSET (1 .. Len(laid))
  /\ blasts \in SUBSET ((1 .. Len(laid)) \X Nat)

ZoneInv ==
  /\ ZoneTypes
  /\ \A i \in 1 .. Len(zones) : zones[i].serial \in 1 .. Len(laid) /\ zones[i] = laid[zones[i].serial]
  /\ \A s \in 1 .. Len(laid) : InPool(s) <=> s \notin evicted /\ ~Ended(laid[s])
  /\ ExplodesOnce

(* What ExplodesOnce says of the zone s.                                   *)
Due(s) == laid[s].kind = "Aftershock" /\ s \notin evicted /\ Ended(laid[s])
BlastsOf(s) == {b \in blasts : b[1] = s}

(* The property in terms of the zones that were laid.                      *)
LEMMA ExplodesOnceIs ==
  ExplodesOnce <=> \A s \in 1 .. Len(laid) :
                     BlastsOf(s) = IF Due(s) THEN {<<s, laid[s].expire>>} ELSE {}
BY DEF ExplodesOnce, BlastsOf, Due, Ended

(* The parts of a zone.                                                    *)
LEMMA LaidTypes ==
  ASSUME ZoneTypes
  PROVE  /\ Len(laid) \in Nat /\ Len(zones) \in Nat
         /\ \A s \in 1 .. Len(laid) :
              laid[s] \in Zone /\ laid[s].serial = s /\ laid[s].expire \in Nat /\ laid[s].kind \in Kinds
         /\ \A i \in 1 .. Len(zones) :
              zones[i] \in Zone /\ zones[i].serial \in Nat /\ zones[i].expire \in Nat
<1>1. /\ laid \in Seq(Zone) /\ \A s \in 1 .. Len(laid) : laid[s].serial = s
      /\ zones \in Seq(Zone)
  BY DEF ZoneTypes
<1>2. \A z \in Zone : z.serial \in Nat /\ z.expire \in Nat /\ z.kind \in Kinds
  BY DEF Zone
<1> QED  BY <1>1, <1>2

(* A tick begins: which zones have ended stays the same until zoneRun.     *)
LEMMA TickKeepsZones ==
  ASSUME ZoneInv, BeginTick
  PROVE  ZoneInv'
<1>0. ZoneTypes
  BY DEF ZoneInv
<1>1. /\ now' = now + 1 /\ system = "beginTick" /\ system' = "zoneRun"
      /\ zones' = zones /\ laid' = laid /\ evicted' = evicted /\ blasts' = blasts
  BY DEF BeginTick
<1>2. now \in Nat
  BY DEF ZoneInv, ZoneTypes
<1>3. \A s \in 1 .. Len(laid) : Ended(laid[s])' <=> Ended(laid[s])
  BY <1>0, <1>1, <1>2, LaidTypes DEF Ended
<1>4. ZoneTypes'
  BY <1>0, <1>1, <1>2 DEF ZoneTypes, InOrder
<1>5. \A s \in 1 .. Len(laid') : InPool(s)' <=> s \notin evicted' /\ ~Ended(laid[s])'
  BY <1>1, <1>3 DEF ZoneInv, InPool
<1>6. ExplodesOnce'
  <2>1. \A s \in 1 .. Len(laid) : Due(s)' <=> Due(s)
    BY <1>1, <1>3 DEF Due
  <2>2. \A s \in 1 .. Len(laid) : BlastsOf(s) = IF Due(s) THEN {<<s, laid[s].expire>>} ELSE {}
    BY ExplodesOnceIs DEF ZoneInv
  <2>3. \A s \in 1 .. Len(laid) : BlastsOf(s)' = IF Due(s)' THEN {<<s, laid'[s].expire>>} ELSE {}
    BY <1>1, <2>1, <2>2 DEF BlastsOf
  <2> QED  BY <1>1, <2>3 DEF ExplodesOnce, BlastsOf, Due, Ended
<1> QED  BY <1>1, <1>4, <1>5, <1>6 DEF ZoneInv

(* Steps that leave the zones alone and do not pass zoneRun.               *)
LEMMA OthersKeepZones ==
  ASSUME ZoneInv, UNCHANGED <<now, zones, laid, evicted, blasts>>,
         system' = "zoneRun" <=> system = "zoneRun"
  PROVE  ZoneInv'
<1>1. \A s \in 1 .. Len(laid) : Ended(laid[s])' <=> Ended(laid[s])
  BY DEF Ended
<1>2. ZoneTypes'
  BY DEF ZoneInv, ZoneTypes, InOrder
<1>3. \A s \in 1 .. Len(laid') : InPool(s)' <=> s \notin evicted' /\ ~Ended(laid[s])'
  BY <1>1 DEF ZoneInv, InPool
<1>4. ExplodesOnce'
  <2>1. \A s \in 1 .. Len(laid) : BlastsOf(s) = IF Due(s) THEN {<<s, laid[s].expire>>} ELSE {}
    BY ExplodesOnceIs DEF ZoneInv
  <2>2. \A s \in 1 .. Len(laid) : (Due(s)' <=> Due(s)) /\ BlastsOf(s)' = BlastsOf(s)
    BY <1>1 DEF Due, BlastsOf
  <2>3. \A s \in 1 .. Len(laid) : BlastsOf(s)' = IF Due(s)' THEN {<<s, laid'[s].expire>>} ELSE {}
    BY <2>1, <2>2
  <2> QED  BY <2>3 DEF ExplodesOnce, BlastsOf, Due, Ended
<1> QED  BY <1>2, <1>3, <1>4 DEF ZoneInv

(* zoneRun: what ends now was in the pool until now; it explodes and goes. *)
LEMMA ZoneRunKeepsZones ==
  ASSUME ZoneInv, ZoneRun
  PROVE  ZoneInv'
<1> DEFINE gone == Overdue(zones)
           p == Swept(zones, gone)
<1>0. ZoneTypes /\ now \in Nat /\ zones \in Seq(Zone) /\ InOrder(zones)
  BY DEF ZoneInv, ZoneTypes
<1>1. /\ system = "zoneRun" /\ system' = "orbRun" /\ blasts' = Exploded(zones) /\ zones' = p
      /\ now' = now /\ laid' = laid /\ evicted' = evicted
  BY DEF ZoneRun
<1>2. /\ Len(laid) \in Nat /\ Len(zones) \in Nat
      /\ \A s \in 1 .. Len(laid) :
           laid[s] \in Zone /\ laid[s].serial = s /\ laid[s].expire \in Nat /\ laid[s].kind \in Kinds
      /\ \A i \in 1 .. Len(zones) :
           zones[i] \in Zone /\ zones[i].serial \in Nat /\ zones[i].expire \in Nat
  BY <1>0, LaidTypes
<1>3. /\ \A i \in 1 .. Len(zones) :
           zones[i].serial \in 1 .. Len(laid) /\ zones[i] = laid[zones[i].serial]
      /\ \A s \in 1 .. Len(laid) : InPool(s) <=> s \notin evicted /\ ~Ended(laid[s])
      /\ \A s \in 1 .. Len(laid) : BlastsOf(s) = IF Due(s) THEN {<<s, laid[s].expire>>} ELSE {}
  BY ExplodesOnceIs DEF ZoneInv
<1>4. /\ p \in Seq(Zone) /\ InOrder(p)
      /\ \A j \in 1 .. Len(p) : \E k \in 1 .. Len(zones) : p[j] = zones[k] /\ zones[k].serial \notin gone
      /\ \A k \in 1 .. Len(zones) : zones[k].serial \notin gone => \E j \in 1 .. Len(p) : p[j] = zones[k]
  <2>1. \A y \in Zone : y.serial \in Nat
    BY DEF Zone
  <2> HIDE DEF gone
  <2> QED  BY <1>0, <2>1, SweptIs
<1>5. \A k \in 1 .. Len(zones) : zones[k].serial \in gone <=> zones[k].expire <= now
  <2> SUFFICES ASSUME NEW k \in 1 .. Len(zones)
               PROVE  zones[k].serial \in gone <=> zones[k].expire <= now
    OBVIOUS
  <2>1. zones[k].expire <= now => zones[k].serial \in gone
    BY <1>0, <1>2 DEF Overdue, Over
  <2>2. ASSUME zones[k].serial \in gone
        PROVE  zones[k].expire <= now
    <3>1. PICK j \in 1 .. Len(zones) : Over(zones[j]) /\ zones[j].serial = zones[k].serial
      BY <2>2 DEF Overdue
    <3>2. zones[j] = zones[k]
      BY <1>3, <3>1
    <3> QED  BY <1>0, <1>2, <3>1, <3>2 DEF Over
  <2> QED  BY <2>1, <2>2
<1> HIDE DEF p, gone
<1>6. \A s \in 1 .. Len(laid) : Ended(laid[s]) <=> laid[s].expire < now
  BY <1>1 DEF Ended
<1>7. \A s \in 1 .. Len(laid) : Ended(laid[s])' <=> laid[s].expire <= now
  BY <1>0, <1>1, <1>2 DEF Ended
<1>8. \A i \in 1 .. Len(zones') :
        zones'[i].serial \in 1 .. Len(laid') /\ zones'[i] = laid'[zones'[i].serial]
  BY <1>1, <1>3, <1>4
<1>9. ASSUME NEW s \in 1 .. Len(laid)
      PROVE  InPool(s)' <=> s \notin evicted /\ ~(laid[s].expire <= now)
  <2>1. ASSUME InPool(s)'
        PROVE  s \notin evicted /\ ~(laid[s].expire <= now)
    <3>1. PICK j \in 1 .. Len(p) : p[j].serial = s
      BY <1>1, <2>1 DEF InPool
    <3>2. PICK k \in 1 .. Len(zones) : p[j] = zones[k] /\ zones[k].serial \notin gone
      BY <1>4
    <3>3. InPool(s) /\ zones[k] = laid[s] /\ ~(zones[k].expire <= now)
      BY <1>3, <1>5, <3>1, <3>2 DEF InPool
    <3> QED  BY <1>3, <3>3
  <2>2. ASSUME s \notin evicted, ~(laid[s].expire <= now)
        PROVE  InPool(s)'
    <3>1. InPool(s)
      BY <1>0, <1>2, <1>3, <1>6, <2>2
    <3>2. PICK k \in 1 .. Len(zones) : zones[k].serial = s
      BY <3>1 DEF InPool
    <3>3. zones[k] = laid[s] /\ zones[k].serial \notin gone
      BY <1>3, <1>5, <2>2, <3>2
    <3>4. PICK j \in 1 .. Len(p) : p[j] = zones[k]
      BY <1>4, <3>3
    <3> QED  BY <1>1, <3>2, <3>4 DEF InPool
  <2> QED  BY <2>1, <2>2
<1>10. blasts' = blasts \cup {<<zones[i].serial, now>> : i \in Exploding(zones)}
  BY <1>1 DEF Exploded
<1>11. \A i \in Exploding(zones) : /\ i \in 1 .. Len(zones) /\ zones[i].kind = "Aftershock"
                                   /\ zones[i].expire <= now
  BY <1>0, <1>2 DEF Exploding
<1>12. ZoneTypes'
  <2>1. blasts' \in SUBSET ((1 .. Len(laid)) \X Nat)
    BY <1>0, <1>3, <1>10, <1>11 DEF ZoneTypes
  <2> QED  BY <1>0, <1>1, <1>4, <2>1 DEF ZoneTypes, InOrder
<1>13. ASSUME NEW s \in 1 .. Len(laid)
       PROVE  BlastsOf(s)' = IF Due(s)' THEN {<<s, laid[s].expire>>} ELSE {}
  <2>1. Due(s)' <=> laid[s].kind = "Aftershock" /\ s \notin evicted /\ laid[s].expire <= now
    BY <1>1, <1>7 DEF Due
  <2>2. Due(s) <=> laid[s].kind = "Aftershock" /\ s \notin evicted /\ laid[s].expire < now
    BY <1>6 DEF Due
  <2>3. ASSUME NEW i \in Exploding(zones), zones[i].serial = s
        PROVE  laid[s].kind = "Aftershock" /\ s \notin evicted /\ laid[s].expire = now
    <3>1. i \in 1 .. Len(zones) /\ zones[i].kind = "Aftershock" /\ zones[i].expire <= now
      BY <1>11
    <3>2. zones[i] = laid[s] /\ InPool(s)
      BY <1>3, <2>3, <3>1 DEF InPool
    <3>3. s \notin evicted /\ ~(laid[s].expire < now)
      BY <1>3, <1>6, <3>2
    <3>4. laid[s].expire \in Nat
      BY <1>2
    <3> QED  BY <1>0, <3>1, <3>2, <3>3, <3>4
  <2>4. ASSUME laid[s].kind = "Aftershock", s \notin evicted, laid[s].expire = now
        PROVE  \E i \in Exploding(zones) : zones[i].serial = s
    <3>1. InPool(s)
      BY <1>0, <1>3, <1>6, <2>4
    <3>2. PICK i \in 1 .. Len(zones) : zones[i].serial = s
      BY <3>1 DEF InPool
    <3>3. zones[i] = laid[s]
      BY <1>3, <3>2
    <3>4. i \in Exploding(zones)
      BY <1>0, <2>4, <3>3 DEF Exploding
    <3> QED  BY <3>2, <3>4
  <2>5. BlastsOf(s)' = BlastsOf(s) \cup {b \in {<<zones[i].serial, now>> : i \in Exploding(zones)} : b[1] = s}
    BY <1>10 DEF BlastsOf
  <2>6. CASE laid[s].kind = "Aftershock" /\ s \notin evicted /\ laid[s].expire = now
    <3>1. PICK i \in Exploding(zones) : zones[i].serial = s
      BY <2>4, <2>6
    <3>2. {b \in {<<zones[j].serial, now>> : j \in Exploding(zones)} : b[1] = s} = {<<s, now>>}
      BY <3>1
    <3>3. BlastsOf(s) = {} /\ Due(s)'
      BY <1>0, <1>3, <2>1, <2>2, <2>6
    <3> QED  BY <2>5, <2>6, <3>2, <3>3
  <2>7. CASE ~(laid[s].kind = "Aftershock" /\ s \notin evicted /\ laid[s].expire = now)
    <3>1. {b \in {<<zones[j].serial, now>> : j \in Exploding(zones)} : b[1] = s} = {}
      BY <2>3, <2>7
    <3>2. laid[s].expire \in Nat
      BY <1>2
    <3>3. Due(s)' <=> Due(s)
      BY <1>0, <2>1, <2>2, <2>7, <3>2
    <3> QED  BY <1>3, <2>5, <3>1, <3>3
  <2> QED  BY <2>6, <2>7
<1>14. ExplodesOnce'
  BY <1>1, <1>13 DEF ExplodesOnce, BlastsOf, Due, Ended
<1>15. \A s \in 1 .. Len(laid') : InPool(s)' <=> s \notin evicted' /\ ~Ended(laid[s])'
  BY <1>1, <1>7, <1>9
<1> QED  BY <1>8, <1>12, <1>14, <1>15 DEF ZoneInv

(* A zone is laid: it ends later than now, and what it pushes out is given *)
(* up.                                                                     *)
LEMMA LayZoneKeepsZones ==
  ASSUME ZoneInv, NEW kind \in Kinds, LayZone(kind)
  PROVE  ZoneInv'
<1>length. PICK n : n = Len(laid)
  OBVIOUS
<1> DEFINE z == [serial |-> n + 1, kind |-> kind, expire |-> now + Duration[kind]]
           p == Pushed(zones, MAX_ZONES, z)
<1>0. ZoneTypes /\ now \in Nat /\ zones \in Seq(Zone) /\ InOrder(zones) /\ laid \in Seq(Zone)
      /\ evicted \in SUBSET (1 .. n) /\ blasts \in SUBSET ((1 .. n) \X Nat)
  BY <1>length DEF ZoneInv, ZoneTypes
<1>1. /\ system = "combatRun" /\ system' = system /\ now' = now /\ blasts' = blasts
      /\ laid' = Append(laid, z) /\ zones' = p
      /\ evicted' = evicted \cup (Serials(zones) \ Serials(zones'))
  BY <1>length DEF LayZone
<1>2. /\ n \in Nat /\ Len(zones) \in Nat
      /\ \A s \in 1 .. n :
           laid[s] \in Zone /\ laid[s].serial = s /\ laid[s].expire \in Nat /\ laid[s].kind \in Kinds
      /\ \A i \in 1 .. Len(zones) :
           zones[i] \in Zone /\ zones[i].serial \in Nat /\ zones[i].expire \in Nat
  BY <1>0, <1>length, LaidTypes
<1>3. /\ \A i \in 1 .. Len(zones) : zones[i].serial \in 1 .. n /\ zones[i] = laid[zones[i].serial]
      /\ \A s \in 1 .. n : InPool(s) <=> s \notin evicted /\ ~Ended(laid[s])
      /\ \A s \in 1 .. n : BlastsOf(s) = IF Due(s) THEN {<<s, laid[s].expire>>} ELSE {}
  BY <1>length, ExplodesOnceIs DEF ZoneInv
<1>4. z \in Zone /\ z.serial = n + 1 /\ z.expire \in Nat /\ z.expire > now
  <2>1. Duration[kind] \in Nat \ {0}
    BY PoolAssumption DEF PoolAssumption
  <2> QED  BY <1>0, <1>2, <2>1 DEF Zone
<1> HIDE DEF z
<1>5. /\ p \in Seq(Zone) /\ InOrder(p)
      /\ \A j \in 1 .. Len(p) : p[j] = z \/ \E k \in 1 .. Len(zones) : p[j] = zones[k]
      /\ \E j \in 1 .. Len(p) : p[j] = z
  <2>1. \A y \in Zone : y.serial \in Nat /\ y.expire \in Nat
    BY DEF Zone
  <2>2. \A i \in 1 .. Len(zones) : zones[i].serial < z.serial
    BY <1>2, <1>3, <1>4
  <2>3. z \in Zone /\ zones \in Seq(Zone) /\ InOrder(zones) /\ MAX_ZONES \in Nat \ {0}
    BY <1>0, <1>4, PoolAssumption DEF PoolAssumption
  <2> DEFINE max == MAX_ZONES
  <2> HIDE DEF max
  <2>4. max \in Nat \ {0}
    BY <2>3 DEF max
  <2> DEFINE r == Pushed(zones, max, z)
  <2>5. /\ r \in Seq(Zone) /\ InOrder(r)
        /\ \A j \in 1 .. Len(r) : r[j] = z \/ \E k \in 1 .. Len(zones) : r[j] = zones[k]
        /\ \E j \in 1 .. Len(r) : r[j] = z
    BY <2>1, <2>2, <2>3, <2>4, PushedIs
  <2> QED  BY <2>5 DEF max
<1> HIDE DEF p
<1>6. /\ laid' \in Seq(Zone) /\ Len(laid') = n + 1
      /\ \A s \in 1 .. n : laid'[s] = laid[s]
      /\ laid'[n + 1] = z
  BY <1>0, <1>1, <1>4, <1>length, AppendProperties
<1>7. \A s \in 1 .. n + 1 : s \in 1 .. n \/ s = n + 1
  BY <1>2
<1>8. \A s \in 1 .. n : s \in 1 .. n + 1
  BY <1>2
<1>9. Serials(zones) = {s \in 1 .. n : InPool(s)}
  BY <1>3 DEF Serials, InPool
<1>10. \A s : s \in Serials(zones') <=> InPool(s)'
  BY <1>1 DEF Serials, InPool
<1>11. \A i \in 1 .. Len(p) : p[i].serial \in 1 .. n + 1 /\ p[i] = laid'[p[i].serial]
  <2> TAKE i \in 1 .. Len(p)
  <2>1. CASE p[i] = z
    BY <1>2, <1>4, <1>6, <2>1
  <2>2. CASE \E k \in 1 .. Len(zones) : p[i] = zones[k]
    BY <1>3, <1>6, <1>8, <2>2
  <2> QED  BY <1>5, <2>1, <2>2
<1>12. \A s \in 1 .. n : Ended(laid[s])' <=> Ended(laid[s])
  BY <1>1, <1>6 DEF Ended
<1>13. ~Ended(laid[n + 1])'
  BY <1>0, <1>1, <1>4, <1>6 DEF Ended
<1>14. ASSUME NEW s \in 1 .. n, InPool(s)' PROVE InPool(s)
  <2>1. PICK j \in 1 .. Len(p) : p[j].serial = s
    BY <1>1, <1>14 DEF InPool
  <2>2. p[j] # z
    BY <1>2, <1>4, <2>1
  <2>3. PICK k \in 1 .. Len(zones) : p[j] = zones[k]
    BY <1>5, <2>2
  <2> QED  BY <2>1, <2>3 DEF InPool
<1>15. InPool(n + 1)'
  BY <1>1, <1>4, <1>5 DEF InPool
<1>16. ASSUME NEW s \in 1 .. n
       PROVE  s \in evicted' <=> s \in evicted \/ (InPool(s) /\ ~InPool(s)')
  BY <1>1, <1>9, <1>10
<1>17. evicted' \in SUBSET (1 .. n) /\ n + 1 \notin evicted'
  <2>1. evicted' \in SUBSET (1 .. n)
    BY <1>0, <1>1, <1>9
  <2>2. n + 1 \notin 1 .. n
    BY <1>2
  <2> QED  BY <2>1, <2>2
<1>18. ASSUME NEW s \in 1 .. n + 1
       PROVE  InPool(s)' <=> s \notin evicted' /\ ~Ended(laid[s])'
  <2>1. CASE s \in 1 .. n
    BY <1>3, <1>12, <1>14, <1>16, <2>1
  <2>2. CASE s = n + 1
    BY <1>13, <1>15, <1>17, <2>2
  <2> QED  BY <1>7, <2>1, <2>2
<1>19. ASSUME NEW s \in 1 .. n + 1
       PROVE  BlastsOf(s)' = IF Due(s)' THEN {<<s, laid'[s].expire>>} ELSE {}
  <2>1. BlastsOf(s)' = BlastsOf(s)
    BY <1>1 DEF BlastsOf
  <2>2. CASE s \in 1 .. n
    <3>1. Due(s)' <=> Due(s)
      BY <1>3, <1>6, <1>12, <1>16, <2>2 DEF Due
    <3> QED  BY <1>3, <1>6, <2>1, <2>2, <3>1
  <2>3. CASE s = n + 1
    <3>1. ~Due(s)'
      BY <1>13, <2>3 DEF Due
    <3>2. BlastsOf(s) = {}
      <4>1. n + 1 \notin 1 .. n
        BY <1>2
      <4> QED  BY <1>0, <2>3, <4>1 DEF BlastsOf
    <3> QED  BY <2>1, <3>1, <3>2
  <2> QED  BY <1>7, <2>2, <2>3
<1>20. ZoneTypes'
  <2>1. evicted' \in SUBSET (1 .. n + 1) /\ blasts' \in SUBSET ((1 .. n + 1) \X Nat)
    BY <1>0, <1>1, <1>8, <1>17, <1>length
  <2>2. \A s \in 1 .. n + 1 : laid'[s].serial = s
    BY <1>2, <1>4, <1>6, <1>7
  <2> QED  BY <1>0, <1>1, <1>5, <1>6, <2>1, <2>2 DEF ZoneTypes, InOrder
<1>21. ExplodesOnce'
  BY <1>6, <1>19 DEF ExplodesOnce, BlastsOf, Due, Ended
<1>22. \A s \in 1 .. Len(laid') : InPool(s)' <=> s \notin evicted' /\ ~Ended(laid[s])'
  BY <1>6, <1>18 DEF Ended
<1>23. \A i \in 1 .. Len(zones') : zones'[i].serial \in 1 .. Len(laid') /\ zones'[i] = laid'[zones'[i].serial]
  BY <1>1, <1>6, <1>11
<1> QED  BY <1>20, <1>21, <1>22, <1>23 DEF ZoneInv

(* Every step keeps the invariant of the zones.                            *)
LEMMA ZoneInvHolds ==
  /\ PoolsInit => ZoneInv
  /\ ZoneInv /\ [PoolsNext]_poolVars => ZoneInv'
<1>1. ASSUME PoolsInit
      PROVE  ZoneInv
  <2>1. now = 0 /\ laid = <<>> /\ zones = <<>> /\ evicted = {} /\ blasts = {}
    BY <1>1 DEF PoolsInit
  <2>2. ZoneTypes
    BY <2>1 DEF ZoneTypes, InOrder
  <2>3. ExplodesOnce
    BY <2>1 DEF ExplodesOnce
  <2> QED  BY <2>1, <2>2, <2>3 DEF ZoneInv
<1>2. ASSUME ZoneInv, [PoolsNext]_poolVars
      PROVE  ZoneInv'
  <2>1. CASE BeginTick
    BY <1>2, <2>1, TickKeepsZones
  <2>2. CASE DropOrb
    BY <1>2, <2>2, OthersKeepZones DEF DropOrb
  <2>3. CASE ZoneRun
    BY <1>2, <2>3, ZoneRunKeepsZones
  <2>4. CASE OrbRun
    BY <1>2, <2>4, OthersKeepZones DEF OrbRun
  <2>5. CASE PoolsEndTick
    BY <1>2, <2>5, OthersKeepZones DEF PoolsEndTick
  <2>6. ASSUME NEW k \in Kinds, LayZone(k)
        PROVE  ZoneInv'
    BY <1>2, <2>6, LayZoneKeepsZones
  <2>7. CASE UNCHANGED poolVars
    BY <1>2, <2>7, OthersKeepZones DEF poolVars
  <2> QED  BY <1>2, <2>1, <2>2, <2>3, <2>4, <2>5, <2>6, <2>7 DEF PoolsNext
<1> QED  BY <1>1, <1>2

(* In every reachable state both invariants hold.                          *)
LEMMA PoolInvHolds == PoolsSpec => [](OrbInv /\ ZoneInv)
<1>1. PoolsInit => OrbInv /\ ZoneInv
  BY OrbInvHolds, ZoneInvHolds
<1>2. OrbInv /\ ZoneInv /\ [PoolsNext]_poolVars => OrbInv' /\ ZoneInv'
  BY OrbInvHolds, ZoneInvHolds
<1> QED  BY <1>1, <1>2, PTL DEF PoolsSpec

(* After its run a pool holds nothing that has ended, and no orb is left   *)
(* under the hero, however many went in the same loop (combat.h:932,       *)
(* 1000).                                                                  *)
THEOREM PoolsNothingOverdue == PoolsSpec => []NothingOverdue
<1>1. OrbInv /\ ZoneInv => NothingOverdue
  <2> SUFFICES ASSUME OrbInv, ZoneInv
               PROVE  NothingOverdue
    OBVIOUS
  <2>1. ASSUME system \in {"orbRun", "combatRun", "beginTick"}, NEW i \in 1 .. Len(zones)
        PROVE  ~Over(zones[i])
    <3> DEFINE s == zones[i].serial
    <3>1. s \in 1 .. Len(laid) /\ zones[i] = laid[s] /\ InPool(s)
      BY DEF ZoneInv, InPool
    <3>2. ~Ended(laid[s])
      BY <3>1 DEF ZoneInv
    <3>3. now \in Nat /\ zones[i].expire \in Nat
      BY LaidTypes DEF ZoneInv, ZoneTypes
    <3> QED  BY <2>1, <3>1, <3>2, <3>3 DEF Ended, Over
  <2>2. system = "combatRun" =>
          \A i \in 1 .. Len(orbs) : ~Over(orbs[i]) /\ orbs[i].serial \notin reach
    BY DEF OrbInv
  <2> QED  BY <2>1, <2>2 DEF NothingOverdue
<1> QED  BY <1>1, PoolInvHolds, PTL

(* An aftershock explodes once, in the tick in which its fuse ends, unless *)
(* it was given up for room before (world.h:228, combat.h:945).            *)
THEOREM PoolsExplodesOnce == PoolsSpec => []ExplodesOnce
<1>1. ZoneInv => ExplodesOnce
  BY DEF ZoneInv
<1> QED  BY <1>1, PoolInvHolds, PTL

(* Both arrays list their entries as they were pushed, whatever is swept   *)
(* or given up between (combat.h:930).                                     *)
THEOREM PoolsOrderKept == PoolsSpec => []OrderKept
<1>1. OrbInv /\ ZoneInv => OrderKept
  BY DEF OrbInv, ZoneInv, ZoneTypes, InOrder, OrderKept
<1> QED  BY <1>1, PoolInvHolds, PTL
=============================================================================
