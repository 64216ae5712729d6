---------------------------- MODULE RunProgress ----------------------------
(* One run from its first tick to its end: segments that follow the clear  *)
(* points, the spawns (boss, elites at point thresholds, summons, upkeep   *)
(* of the cap on living enemies), the kills with their points, the boss's  *)
(* phase 2 and the two ways a run ends (spawn.h, combat.h, sim.h).         *)
(*                                                                         *)
(* A tick is the sequence progress, spawn, fight, boss, end.  In the fight *)
(* any number of enemies may die, in any order, and the corruption gauge   *)
(* may rise and fall: which systems do it, and by how much, is abstracted. *)
(* Tick counts are kept as what is left of them.                           *)
EXTENDS Integers, FiniteSets

CONSTANTS MAX_ENTITIES,     \* rows of the entity store
          segmentsPerMap,
          segmentStartPoints, \* [0 .. segmentsPerMap-1 -> Nat]
          capBySegment, batchBySegment,  \* by segment
          eliteSpawns,      \* [1 .. n -> Nat]: the points at which an elite comes
          trashPoints, elitePoints, clearTargetPoints,
          spawnIntervalTicks, summonCount, summonPeriod,
          segmentClearPurge, bossPhase2Purge,
          CorruptionMax,
          MAX_POINTS        \* bound of the model: no kills beyond these points

Elites == DOMAIN eliteSpawns
Segments == 0 .. segmentsPerMap - 1

ASSUME RunAssumption ==
  /\ MAX_ENTITIES \in Nat /\ segmentsPerMap \in Nat \ {0}
  /\ segmentStartPoints \in [Segments -> Nat] /\ segmentStartPoints[0] = 0
  /\ capBySegment \in [Segments -> Nat] /\ batchBySegment \in [Segments -> Nat]
  /\ IsFiniteSet(Elites) /\ eliteSpawns \in [1 .. Cardinality(Elites) -> Nat]
  /\ trashPoints \in Nat /\ elitePoints \in Nat /\ clearTargetPoints \in Nat
  /\ summonCount \in Nat

(* What the tables of spawn.json and segments.json keep to and no code     *)
(* checks: the last elite comes before the boss or with it, and the store  *)
(* has rows for the cap, all the elites and the boss.                      *)
ASSUME RowsAssumption ==
  /\ \A k \in Elites : eliteSpawns[k] <= clearTargetPoints
  /\ \A s \in Segments : capBySegment[s] + Cardinality(Elites) < MAX_ENTITIES

VARIABLES phase,            \* which system of the tick is next
          segment,          \* run.segmentIndex
          points,           \* run.clearPoints
          nextElite,        \* spawn.nextEliteIndex
          trash, elites,    \* living trash and elites
          boss,             \* "none", "fresh", "half" (at phase2_at_permille) or "dead"
          bossSpawned, bossAlive, bossPhase2,   \* the flags in RunState
          spawnIn, summonIn,  \* ticks until nextSpawnTick and bossSummonNextTick
          corruption,       \* hero.corruption
          outcome,          \* run.outcome
          elitesMade        \* history: elites that got a row

enemies == <<trash, elites, boss>>
bossFlags == <<bossSpawned, bossAlive, bossPhase2>>
history == <<elitesMade>>
vars == <<phase, segment, points, nextElite, enemies, bossFlags, spawnIn, summonIn,
          corruption, outcome, history>>

Smaller(a, b) == IF a < b THEN a ELSE b

(* segmentForPoints                                                        *)
SegmentForPoints(p) ==
  CHOOSE s \in Segments :
    /\ segmentStartPoints[s] <= p
    /\ \A q \in Segments : segmentStartPoints[q] <= p => q <= s

(* aliveCount                                                              *)
Alive == trash + elites + (IF bossAlive THEN 1 ELSE 0)

(* purgeCorruption: the gauge stops at zero.                               *)
Purged(amount) == IF corruption < amount THEN 0 ELSE corruption - amount

----------------------------------------------------------------------------
Init ==
  /\ phase = "progress" /\ segment = 0 /\ points = 0 /\ nextElite = 1
  /\ trash = 0 /\ elites = 0 /\ boss = "none"
  /\ bossSpawned = FALSE /\ bossAlive = FALSE /\ bossPhase2 = FALSE
  /\ spawnIn = 0 /\ summonIn = 0
  /\ corruption = 0 /\ outcome = "Running"
  /\ elitesMade = 0

(* progressRun: the segment only goes up, and pays a purge per segment.    *)
ProgressRun ==
  LET s == SegmentForPoints(points)
  IN  /\ phase = "progress" /\ phase' = "spawn"
      /\ IF s > segment
         THEN /\ segment' = s
              /\ corruption' = Purged((s - segment) * segmentClearPurge)
         ELSE UNCHANGED <<segment, corruption>>
      /\ UNCHANGED <<points, nextElite, enemies, bossFlags, spawnIn, summonIn, outcome, elitesMade>>

(* mutant: the boss waits for one point more.                              *)
BossDueLate == ~bossSpawned /\ clearTargetPoints > 0 /\ points > clearTargetPoints

(* The gauge of clear points is full and the boss has no row yet.          *)
BossDue == ~bossSpawned /\ clearTargetPoints > 0 /\ points >= clearTargetPoints

(* The index where the elite loop of spawnRun stops when it starts at k:   *)
(* the first elite whose points are not reached.                           *)
EliteStopFrom(k, p) ==
  CHOOSE stop \in k .. Cardinality(Elites) + 1 :
    /\ \A e \in k .. stop - 1 : eliteSpawns[e] <= p
    /\ stop \in Elites => eliteSpawns[stop] > p

EliteStop(p) == EliteStopFrom(nextElite, p)

(* The next summons of phase 2 are due.                                    *)
SummonsDue == bossPhase2 /\ bossAlive /\ summonIn = 0

(* How many the summons of phase 2 add.                                    *)
Summoned(room) == IF SummonsDue THEN Smaller(room, summonCount) ELSE 0

(* mutant: the upkeep does not look at the cap.                            *)
UpkeepNoCap(alive, room) == IF spawnIn > 0 THEN 0 ELSE Smaller(room, batchBySegment[segment])

(* How many the upkeep of the cap adds.                                    *)
Upkeep(alive, room) ==
  IF spawnIn > 0 \/ alive >= capBySegment[segment] THEN 0
  ELSE Smaller(room, Smaller(batchBySegment[segment], capBySegment[segment] - alive))

(* spawnRun: the boss, the elites whose points are reached, the summons    *)
(* (which may pass the cap) and the upkeep, each into the rows that the    *)
(* ones before left free.  Dead rows were compacted at the last tick's end. *)
SpawnRun ==
  LET room   == MAX_ENTITIES - Alive
      b      == IF BossDue /\ room > 0 THEN 1 ELSE 0
      stop   == EliteStop(points)
      e      == Smaller(room - b, stop - nextElite)
      s      == Summoned(room - b - e)
      t      == Upkeep(Alive + b + e + s, room - b - e - s)
  IN  /\ phase = "spawn" /\ phase' = "fight"
      /\ bossSpawned' = (bossSpawned \/ b = 1) /\ bossAlive' = (bossAlive \/ b = 1)
      /\ boss' = IF b = 1 THEN "fresh" ELSE boss
      /\ nextElite' = stop
      /\ elites' = elites + e /\ elitesMade' = elitesMade + e
      /\ trash' = trash + s + t
      /\ summonIn' = IF SummonsDue THEN summonPeriod ELSE summonIn
      /\ spawnIn' = IF spawnIn > 0 THEN spawnIn ELSE spawnIntervalTicks
      /\ UNCHANGED <<segment, points, bossPhase2, corruption, outcome>>

(* A kill in applySkillHit: trash and elites give points.                  *)
KillTrash ==
  /\ phase = "fight" /\ trash > 0
  /\ points + trashPoints <= MAX_POINTS
  /\ trash' = trash - 1 /\ points' = points + trashPoints
  /\ UNCHANGED <<phase, segment, nextElite, elites, boss, bossFlags, spawnIn, summonIn, corruption, outcome, history>>

KillElite ==
  /\ phase = "fight" /\ elites > 0
  /\ points + elitePoints <= MAX_POINTS
  /\ elites' = elites - 1 /\ points' = points + elitePoints
  /\ UNCHANGED <<phase, segment, nextElite, trash, boss, bossFlags, spawnIn, summonIn, corruption, outcome, history>>

(* Damage takes the boss to the threshold of its phase 2.                  *)
HurtBoss ==
  /\ phase = "fight" /\ boss = "fresh" /\ boss' = "half"
  /\ UNCHANGED <<phase, segment, points, nextElite, trash, elites, bossFlags, spawnIn, summonIn, corruption, outcome, history>>

(* The boss's death clears the run at once; the tick goes on.              *)
KillBoss ==
  /\ phase = "fight" /\ boss \in {"fresh", "half"}
  /\ boss' = "dead" /\ bossAlive' = FALSE
  /\ outcome' = IF outcome = "Running" THEN "Cleared" ELSE outcome
  /\ UNCHANGED <<phase, segment, points, nextElite, trash, elites, bossSpawned, bossPhase2, spawnIn, summonIn,
                 corruption, history>>

(* Attacks and the mass of enemies fill the gauge, orbs and leech empty it. *)
Corrupt(c) ==
  /\ phase = "fight"
  /\ corruption' = c
  /\ UNCHANGED <<phase, segment, points, nextElite, enemies, bossFlags, spawnIn, summonIn, outcome, history>>

FightEnds ==
  /\ phase = "fight" /\ phase' = "boss"
  /\ UNCHANGED <<segment, points, nextElite, enemies, bossFlags, spawnIn, summonIn, corruption, outcome, history>>

(* bossPhaseRun: on the first tick in which a living boss is below the     *)
(* threshold it purges once and sets the first summons one period away.    *)
(* From then on its aura fills the gauge.                                  *)
BossPhaseRun ==
  /\ phase = "boss" /\ phase' = "end"
  /\ IF ~bossPhase2 /\ bossAlive /\ boss = "half"
     THEN /\ bossPhase2' = TRUE
          /\ corruption' \in {Purged(bossPhase2Purge), Purged(bossPhase2Purge) + 1}
          /\ summonIn' = summonPeriod
     ELSE /\ corruption' \in IF bossPhase2 /\ bossAlive THEN {corruption, corruption + 1} ELSE {corruption}
          /\ UNCHANGED <<bossPhase2, summonIn>>
  /\ UNCHANGED <<segment, points, nextElite, enemies, bossSpawned, bossAlive, spawnIn, outcome, elitesMade>>

(* mutant: a full gauge ends the run whatever ended it before.             *)
VerdictOverrides == IF corruption >= CorruptionMax THEN "Dead" ELSE outcome

(* The end of stepWorld: a full gauge ends a run that still goes on.       *)
Verdict == IF outcome = "Running" /\ corruption >= CorruptionMax THEN "Dead" ELSE outcome

Left(n) == IF n > 0 THEN n - 1 ELSE 0

(* endTick, the outcome, and the clock of the next tick's begin.  dc_step  *)
(* runs no tick of a run that is over.                                     *)
EndTick ==
  /\ phase = "end" /\ phase' = IF Verdict = "Running" THEN "progress" ELSE "over"
  /\ outcome' = Verdict
  /\ spawnIn' = Left(spawnIn) /\ summonIn' = Left(summonIn)
  /\ UNCHANGED <<segment, points, nextElite, enemies, bossFlags, corruption, elitesMade>>

Systems == ProgressRun \/ SpawnRun \/ FightEnds \/ BossPhaseRun \/ EndTick

Next ==
  \/ Systems
  \/ KillTrash \/ KillElite \/ HurtBoss \/ KillBoss
  \/ \E c \in 0 .. CorruptionMax + 1 : Corrupt(c)

Spec == Init /\ [][Next]_vars

(* The driver calls the next tick and a tick runs through.                 *)
FairSpec == Spec /\ WF_vars(Systems)

----------------------------------------------------------------------------
(* The elite index moves on even when the store had no row (spawn.h:164),  *)
(* yet every elite that was due got one: the cap keeps enough rows free.   *)
NoEliteLost == elitesMade = nextElite - 1

(* A run is cleared exactly when its boss is dead, also when the gauge is  *)
(* full in the same tick (combat.h:520, sim.h:75).                         *)
ClearedMeansBossDead == outcome = "Cleared" <=> bossSpawned /\ ~bossAlive

(* Enough points bring the boss, unless the run ends first.                *)
BossComes ==
  clearTargetPoints > 0 /\ points >= clearTargetPoints ~> bossSpawned \/ outcome # "Running"
=============================================================================
