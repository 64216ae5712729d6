------------------------------- MODULE Battle -------------------------------
(* The systems of a tick that move and strike, in the order of stepWorld   *)
(* (core/include/dc/sim.h): the hero chooses a target, the crowd is parted,*)
(* everybody walks, the dots, relics and zones strike, the stun gauges     *)
(* sink, a QTE verdict falls, the hero attacks.  All enemies are there     *)
(* from the start; the enemies' own attacks, spawns and the pools are      *)
(* modelled in Telegraph, RunProgress and Pools.                           *)
EXTENDS Strikes

CONSTANTS
  Formations,   \* where the enemies may stand at first, by row
  Pointed       \* whom the player may have pointed at, or NOBODY

(* Raw coordinates.                                                        *)
ASSUME BattleAssumption == Formations \subseteq [Enemies -> [x : Int, y : Int]]

VARIABLE system       \* the system of the tick that runs

vars == <<strikeVars, system>>

(* stepWorld                                                               *)
Systems ==
  <<"beginTick", "selectTarget", "separationRun", "movementRun", "decayRun", "boltRun",
    "stormRun", "zoneRun", "ccDecayRun", "qteRun", "heroTurn", "enemiesTurn">>

After(s) ==
  LET i == CHOOSE k \in 1 .. Len(Systems) : Systems[k] = s
  IN  Systems[(i % Len(Systems)) + 1]

Init ==
  /\ hero = [x |-> 0, y |-> 0] /\ at \in Formations
  /\ target = NOBODY /\ manual \in Pointed
  /\ StrikesInit
  /\ system = "enemiesTurn"

(* The next system begins when the one before it has made all its calls;   *)
(* no tick begins once the run is over.                                    *)
Enter(s) ==
  /\ work = <<>> /\ After(system) = s /\ system' = s
  /\ s = "beginTick" => score.outcome = "Running"

Part == SeparationRun /\ UNCHANGED <<build, trials, score, work, dealt, cooldown, window, qteCooldown, boltIn, history>>
Walk == MovementRun /\ UNCHANGED <<build, trials, score, work, dealt, cooldown, window, qteCooldown, boltIn, history>>
Aim  == SelectTarget /\ UNCHANGED <<build, trials, score, work, dealt, cooldown, window, qteCooldown, boltIn, history>>

RunSystem ==
  \/ Enter("beginTick") /\ BeginTick
  \/ Enter("selectTarget") /\ Aim
  \/ Enter("separationRun") /\ Part
  \/ Enter("movementRun") /\ Walk
  \/ Enter("decayRun") /\ DecayRun
  \/ Enter("boltRun") /\ BoltRun
  \/ Enter("stormRun") /\ StormRun
  \/ Enter("zoneRun") /\ ZoneRun
  \/ Enter("ccDecayRun") /\ CcDecayRun
  \/ Enter("qteRun") /\ QteRun
  \/ Enter("heroTurn") /\ HeroTurn
  \/ Enter("enemiesTurn") /\ EnemiesTurn

(* The run is over and its last tick done: stepWorld returns at once.      *)
Over == work = <<>> /\ system = "enemiesTurn" /\ score.outcome # "Running"

Next == RunSystem \/ (CallStep /\ UNCHANGED system) \/ (Over /\ UNCHANGED vars)

Spec == Init /\ [][Next]_vars

(* The driver keeps on calling dc_step, and a tick runs to its end.  This  *)
(* is WF_vars(Next) with its ENABLED spelled out: <<Next>>_vars is enabled *)
(* unless the run is over.                                                 *)
TicksGoOn == []<>Over \/ []<><<Next>>_vars
FairSpec == Spec /\ TicksGoOn

----------------------------------------------------------------------------
Dead(kind) == {e \in Enemies : foe[e].dead /\ Archetype[e] = kind}

(* A death pays once, whichever of the many calls caused it and however    *)
(* many more were already under way to the same row: kills, points,        *)
(* experience, and one roll of rngItems for every trash kill, on which     *)
(* replays depend.                                                         *)
KillsPaidOnce ==
  /\ score.trash = Cardinality(Dead("Trash")) /\ score.elites = Cardinality(Dead("Elite"))
  /\ score.points = score.trash * trashPoints + score.elites * elitePoints
  /\ score.exp = FoldFunction(+, 0, [e \in Enemies |-> IF foe[e].dead THEN exp[e] ELSE 0])
  /\ score.rolls = score.trash
  /\ score.outcome = "Cleared" <=> Dead("Boss") # {}

(* Leech is paid for every point of damage that the rows have taken since  *)
(* the cast or the zones began, executions included, whoever struck, but   *)
(* what pierced (applyPierce returns nothing): combat.h:376-387 and 964-982*)
(* tell of two ways of striking that once fell out of this sum.            *)
LeechSeesEveryHit ==
  Doing("leech") =>
    dealt = FoldFunction(+, 0, [e \in Enemies |-> foe[e].taken - cast.before[e]]) - cast.pierced

(* The rings of a centrifuge end with everybody struck once who stood in   *)
(* the last circle, which is as large as the zone's rule (centrifugeRadius)*)
(* says it would be, in no more passes than there can be stacks, and one.  *)
RingsFillTheirDisc ==
  ring.over /\ ring.grows =>
    /\ ring.radius = CentrifugeRadius(ring.center, ring.base, ring.among)
    /\ ring.struck = {e \in ring.among : Within(at[e], ring.center, ring.radius)}
    /\ ring.passes <= centrifugeMaxStacks + 1

(* A dot that takes anything runs for decayTicks from the hero's last      *)
(* strike, and no tick longer: its own hits and those of zones and blades  *)
(* do not renew it.                                                        *)
DecayRunsOut ==
  system = "enemiesTurn" /\ DotPerTick > 0 =>
    \A e \in Living : /\ foe[e].left = decayTicks - unhurt[e]
                      /\ foe[e].dot > 0 <=> foe[e].left > 0

(* The hero's target, right after it was chosen, is the player's choice or *)
(* the first of the living in an order that leaves no tie.                 *)
TargetIsBest == system = "selectTarget" => AimsAtBest

(* Before the crowd is parted: the pairs that will be looked at are all    *)
(* that overlap, each once.                                                *)
PartsEveryPair == system = "selectTarget" => MeetsEveryOverlap

(* The fight ends: neither the parting of the crowd nor the truncated      *)
(* steps keep the hero out of reach of his target for ever (sim.h:46-54    *)
(* and combat.h:38-42 tell of two such standstills).                       *)
FightEnds == <>(score.outcome = "Cleared")

(* combat.h:476-478: dots, zones, R_BOLT and RL_STORM do not execute; only *)
(* the hero's strikes do.                                                  *)
OnlyStrikesExecute ==
  [][Doing("hit") /\ system \notin {"qteRun", "heroTurn"} =>
       LET c == Head(work)  f == foe[c.who]
       IN  foe'[c.who].dead => f.dead \/ f.taken + DamageOf(f, c.who, c.power, c.hooks) >= maxHp[c.who]]_vars
=============================================================================
