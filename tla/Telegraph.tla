------------------------------ MODULE Telegraph ------------------------------
(***************************************************************************)
(* The combat of one tick (core/include/dc/sim.h, combat.h, qte.h): the    *)
(* enemies' attack cycle with its telegraphs, the one QTE window the hero  *)
(* has, the player's graded input, stuns, and the order in which the       *)
(* systems of a tick see each other's results.                             *)
(*                                                                         *)
(* Time is relative: left stands for closeTick - tick, so a behaviour may  *)
(* run for ever.  Geometry, damage and random draws are abstracted to what *)
(* they decide here: who is in range, who dies, who is stunned, whether    *)
(* the basic attack procs a skill, and whether the hero dies.  Enemies are *)
(* numbered in spawn order, which is row order (EntityStore, SpawnOrder).  *)
(***************************************************************************)
EXTENDS Integers, Sequences, FiniteSets

CONSTANTS
  MaxEnemies,     \* bound of the model: how many enemies a behaviour spawns
  Pattern,        \* enemy -> its attack patterns, used in turn
  Boss,           \* the enemies whose death clears the run
  CcSkills,       \* skills with cc_gain_permille > 0
  OtherSkills,    \* the other skills
  GroggyTicks, PerfectWindow, QteCooldown, HeroInterval    \* hero.json

Enemy == 1 .. MaxEnemies
Skill == CcSkills \cup OtherSkills

ASSUME TelegraphAssumption ==
  /\ MaxEnemies \in Nat
  /\ Pattern \in [Enemy -> Seq([windup : Nat, cooldown : Nat \ {0}])]
  /\ \A e \in Enemy : Pattern[e] # <<>>
  /\ Boss \subseteq Enemy
  /\ CcSkills \cap OtherSkills = {}
  /\ GroggyTicks \in Nat \ {0}
  /\ PerfectWindow \in Nat
  /\ QteCooldown \in Nat
  /\ HeroInterval \in Nat \ {0}

Grade == {"Miss", "Success", "Perfect"}

(* No window, and no skill or source in one that does not need it.         *)
NoSkill == "none"
Closed  == [kind |-> "None", source |-> 0, skill |-> NoSkill, left |-> 0,
            input |-> "Miss", hasInput |-> FALSE, shown |-> 0]

VARIABLES
  status,         \* enemy -> absent, live, dead (marked in this tick) or gone
  loaded,         \* enemy -> the pattern whose damage and times it carries
  patternIndex,   \* enemy -> the pattern of its next cycle
  attackCooldown, windupLeft, groggyLeft, groggy,
  qte,            \* the window; shown is history: the pattern it announced
  qteCooldown, heroCooldown,
  phase, turn,    \* the system of the tick to run next, and the enemy loop
  over,           \* the run has an outcome
  hits,           \* history: enemy -> its hits on the hero in this tick
  rest            \* history: enemy -> ticks since its last attack was over

enemyVars == <<status, loaded, patternIndex, attackCooldown, windupLeft, groggyLeft, groggy>>
heroVars  == <<qte, qteCooldown, heroCooldown>>
history   == <<hits, rest>>
vars      == <<enemyVars, heroVars, phase, turn, over, history>>

Windup(e)   == Pattern[e][loaded[e]].windup
Interval(e) == Pattern[e][loaded[e]].cooldown

Live == {e \in Enemy : status[e] = "live"}
Open == qte.kind # "None"

(* Histories stop counting where nothing depends on them any more.         *)
RestCap(e) == 1 + (CHOOSE c \in {Pattern[e][i].cooldown : i \in DOMAIN Pattern[e]} :
                     \A i \in DOMAIN Pattern[e] : Pattern[e][i].cooldown <= c)
CountTo(cap, n) == IF n < cap THEN n + 1 ELSE n

----------------------------------------------------------------------------
Init ==
  /\ status = [e \in Enemy |-> "absent"]
  /\ loaded = [e \in Enemy |-> 1]
  /\ patternIndex = [e \in Enemy |-> 1]
  /\ attackCooldown = [e \in Enemy |-> 0]
  /\ windupLeft = [e \in Enemy |-> 0]
  /\ groggyLeft = [e \in Enemy |-> 0]
  /\ groggy = [e \in Enemy |-> FALSE]
  /\ qte = Closed
  /\ qteCooldown = 0 /\ heroCooldown = 0
  /\ phase = "input" /\ turn = 1
  /\ over = FALSE
  /\ hits = [e \in Enemy |-> 0]
  /\ rest = [e \in Enemy |-> RestCap(e)]

(* QteWindow::judge.  The window is open, so tick >= openTick.             *)
Judge(claimed) ==
  IF qte.left <= 0 THEN "Miss"
  ELSE IF claimed = "Perfect" /\ qte.left - 1 > PerfectWindow THEN "Success"
  ELSE claimed

(* World::applyInput for QteGrade, between two ticks.  A later input of    *)
(* the same window replaces an earlier one; the run may be over.           *)
InputQte(claimed) ==
  /\ phase = "input"
  /\ Open
  /\ qte' = [qte EXCEPT !.input = Judge(claimed), !.hasInput = TRUE]
  /\ UNCHANGED <<enemyVars, qteCooldown, heroCooldown, phase, turn, over, history>>

(* dc_step stops at the end of a run; beginTick advances the clock.  Past  *)
(* closeTick, left would stay at -1.                                       *)
BeginTick ==
  /\ phase = "input"
  /\ ~over
  /\ phase' = "spawn"
  /\ qte' = IF Open /\ qte.left > -1 THEN [qte EXCEPT !.left = @ - 1] ELSE qte
  /\ hits' = [e \in Enemy |-> 0]
  /\ rest' = [e \in Enemy |-> CountTo(RestCap(e), rest[e])]
  /\ UNCHANGED <<enemyVars, qteCooldown, heroCooldown, turn, over>>

(* spawnRun: some number of new rows, each with its first attack a full    *)
(* cooldown away (EntityStore::spawn).                                     *)
SpawnRun ==
  /\ phase = "spawn"
  /\ \E n \in 0 .. MaxEnemies :
       LET new == {e \in Enemy : e <= n /\ status[e] = "absent"}
       IN  /\ status' = [e \in Enemy |-> IF e \in new THEN "live" ELSE status[e]]
           /\ attackCooldown' =
                [e \in Enemy |-> IF e \in new THEN Interval(e) ELSE attackCooldown[e]]
  /\ phase' = "effects"
  /\ UNCHANGED <<loaded, patternIndex, windupLeft, groggyLeft, groggy, heroVars, turn, over, history>>

(* applySkillHit on every enemy it kills: the row is only marked, and the  *)
(* boss's death ends the run at once.                                      *)
Die(killed) ==
  /\ status' = [e \in Enemy |-> IF e \in killed THEN "dead" ELSE status[e]]
  /\ over' = (over \/ killed \cap Boss # {})

(* applyCc on those whose gauge it fills, or who have none.                *)
Stun(stunned) ==
  /\ groggyLeft' = [e \in Enemy |-> IF e \in stunned THEN GroggyTicks ELSE groggyLeft[e]]
  /\ groggy' = [e \in Enemy |-> groggy[e] \/ e \in stunned]

(* decayRun, boltRun, stormRun and zoneRun, whose damage comes before the  *)
(* windows and the attacks of the tick.                                    *)
EffectsRun ==
  /\ phase = "effects"
  /\ \E killed \in SUBSET Live : Die(killed)
  /\ phase' = "qte"
  /\ UNCHANGED <<loaded, patternIndex, attackCooldown, windupLeft, groggyLeft, groggy,
                 heroVars, turn, history>>

----------------------------------------------------------------------------
(* openSkillQte and openCrisisQte.                                         *)
OpenSkill(s) ==
  /\ qte' = [Closed EXCEPT !.kind = "SkillAmplify", !.skill = s, !.left = 4 * PerfectWindow + 4]
  /\ qteCooldown' = QteCooldown

OpenCrisis(e, p, w) ==
  /\ qte' = [Closed EXCEPT !.kind = "CrisisEvade", !.source = e, !.left = w, !.shown = p]
  /\ qteCooldown' = QteCooldown

(* qteRun takes one off its cooldown before anything else.                 *)
QteTurn == phase = "qte" /\ qteCooldown' = (IF qteCooldown > 0 THEN qteCooldown - 1 ELSE 0)

Due == Open /\ qte.left <= 0
Verdict == IF qte.hasInput THEN qte.input ELSE "Miss"

QteWaits ==
  /\ QteTurn
  /\ ~Due
  /\ phase' = "hero"
  /\ UNCHANGED <<enemyVars, qte, heroCooldown, turn, over, history>>

(* A skill window: whatever the grade the skill is executed, and the       *)
(* grade only scales its damage.                                           *)
QteSkill ==
  /\ QteTurn
  /\ Due
  /\ qte.kind = "SkillAmplify"
  /\ qte' = Closed
  /\ \E killed \in SUBSET Live : \E stunned \in SUBSET (Live \ killed) :
       /\ qte.skill \notin CcSkills => stunned = {}
       /\ Die(killed)
       /\ Stun(stunned)
  /\ phase' = "hero"
  /\ UNCHANGED <<loaded, patternIndex, attackCooldown, windupLeft, heroCooldown, turn, history>>

(* mutant: the early return comes before the window is reset.              *)
QteSourceStays ==
  /\ QteTurn
  /\ Due
  /\ qte.kind = "CrisisEvade"
  /\ status[qte.source] = "gone"
  /\ phase' = "hero"
  /\ UNCHANGED <<enemyVars, qte, heroCooldown, turn, over, history>>

(* A crisis window whose source's row is gone: nothing happens.            *)
QteSourceGone ==
  /\ QteTurn
  /\ Due
  /\ qte.kind = "CrisisEvade"
  /\ status[qte.source] = "gone"
  /\ qte' = Closed
  /\ phase' = "hero"
  /\ UNCHANGED <<enemyVars, heroCooldown, turn, over, history>>

RestartNot(e) == UNCHANGED attackCooldown   \* mutant: qteRun leaves the cooldown alone
Restart(e) == attackCooldown' = [attackCooldown EXCEPT ![e] = Interval(e)]

(* The source attacks again only after its interval; a miss hits the hero, *)
(* and a perfect evasion may stun the source (applyCc, not when dead).     *)
Attacked(e) == rest' = [rest EXCEPT ![e] = 0] /\ Restart(e)

QteCrisis ==
  LET e == qte.source
  IN  /\ QteTurn
      /\ Due
      /\ qte.kind = "CrisisEvade"
      /\ status[e] # "gone"
      /\ qte' = Closed
      /\ Attacked(e)
      /\ hits' = IF Verdict = "Miss" THEN [hits EXCEPT ![e] = @ + 1] ELSE hits
      /\ \E stunned \in SUBSET ({e} \cap Live) :
           /\ Verdict # "Perfect" => stunned = {}
           /\ Stun(stunned)
      /\ phase' = "hero"
      /\ UNCHANGED <<status, loaded, patternIndex, windupLeft, heroCooldown, turn, over>>

QteRun == QteWaits \/ QteSkill \/ QteSourceGone \/ QteCrisis

----------------------------------------------------------------------------
(* combatRun, the hero's part.  Without a live target in range, or before  *)
(* the cooldown is over, the hero does not attack.                         *)
HeroWaits ==
  /\ phase = "hero"
  /\ heroCooldown' = (IF heroCooldown > 0 THEN heroCooldown - 1 ELSE 0)
  /\ phase' = "enemy" /\ turn' = 1
  /\ UNCHANGED <<enemyVars, qte, qteCooldown, over, history>>

HeroAttack ==
  /\ phase = "hero"
  /\ heroCooldown <= 1
  /\ Live # {}
  /\ heroCooldown' = HeroInterval
  /\ phase' = "enemy" /\ turn' = 1

(* A basic attack, with the others it pierces, echoes or chains to.        *)
HeroStrikes ==
  /\ HeroAttack
  /\ \E killed \in SUBSET Live : Die(killed)
  /\ UNCHANGED <<loaded, patternIndex, attackCooldown, windupLeft, groggyLeft, groggy,
                 qte, qteCooldown, history>>

MayOpenSkill == ~Open /\ qteCooldown <= 0

(* A basic attack that procs: the window opens before the attack lands.    *)
HeroProcsQte(s) ==
  /\ HeroAttack
  /\ MayOpenSkill
  /\ OpenSkill(s)
  /\ \E killed \in SUBSET Live : Die(killed)
  /\ UNCHANGED <<loaded, patternIndex, attackCooldown, windupLeft, groggyLeft, groggy, hits, rest>>

(* The window cannot be opened: the skill is executed at once.             *)
HeroProcsSkill(s) ==
  /\ HeroAttack
  /\ ~MayOpenSkill
  /\ \E killed \in SUBSET Live : \E stunned \in SUBSET (Live \ killed) :
       /\ s \notin CcSkills => stunned = {}
       /\ Die(killed)
       /\ Stun(stunned)
  /\ UNCHANGED <<loaded, patternIndex, attackCooldown, windupLeft, qte, qteCooldown, history>>

----------------------------------------------------------------------------
(* combatRun, the loop over the enemies: one row per step.                 *)
Turn(e) == phase = "enemy" /\ turn = e /\ turn' = e + 1

EnemyAbsent(e) ==
  /\ Turn(e)
  /\ status[e] # "live"
  /\ UNCHANGED <<enemyVars, heroVars, phase, over, history>>

FlagAfter(e) == [groggy EXCEPT ![e] = groggyLeft[e] # 1]

(* mutant: the range is looked at first, so a far stunned enemy is skipped.*)
GroggyNearOnly(e) ==
  /\ Turn(e)
  /\ status[e] = "live"
  /\ groggyLeft[e] > 0
  /\ \/ UNCHANGED <<groggyLeft, groggy>>
     \/ groggyLeft' = [groggyLeft EXCEPT ![e] = @ - 1] /\ groggy' = FlagAfter(e)
  /\ UNCHANGED <<status, loaded, patternIndex, attackCooldown, windupLeft, heroVars, phase, over, history>>

(* A stunned enemy only counts down, in range or not.                      *)
EnemyGroggy(e) ==
  /\ Turn(e)
  /\ status[e] = "live"
  /\ groggyLeft[e] > 0
  /\ groggyLeft' = [groggyLeft EXCEPT ![e] = @ - 1]
  /\ groggy' = FlagAfter(e)
  /\ UNCHANGED <<status, loaded, patternIndex, attackCooldown, windupLeft, heroVars, phase, over, history>>

(* Where an enemy stands is up to the movement and separation systems.     *)
Awake(e) == Turn(e) /\ status[e] = "live" /\ groggyLeft[e] <= 0

EnemyFar(e) ==
  /\ Awake(e)
  /\ UNCHANGED <<enemyVars, heroVars, phase, over, history>>

(* mutant: the boss's next pattern is loaded before the windup is looked at. *)
EnemyWindsUpLoading(e) ==
  /\ Awake(e)
  /\ windupLeft[e] > 0
  /\ windupLeft' = [windupLeft EXCEPT ![e] = @ - 1]
  /\ loaded' = [loaded EXCEPT ![e] = patternIndex[e]]
  /\ UNCHANGED <<status, patternIndex, attackCooldown, groggyLeft, groggy,
                 heroVars, phase, over, history>>

EnemyWindsUp(e) ==
  /\ Awake(e)
  /\ windupLeft[e] > 0
  /\ windupLeft' = [windupLeft EXCEPT ![e] = @ - 1]
  /\ UNCHANGED <<status, loaded, patternIndex, attackCooldown, groggyLeft, groggy,
                 heroVars, phase, over, history>>

EnemyCoolsDown(e) ==
  /\ Awake(e)
  /\ windupLeft[e] <= 0
  /\ attackCooldown[e] > 0
  /\ attackCooldown' = [attackCooldown EXCEPT ![e] = @ - 1]
  /\ UNCHANGED <<status, loaded, patternIndex, windupLeft, groggyLeft, groggy,
                 heroVars, phase, over, history>>

NextPattern(e) == (patternIndex[e] % Len(Pattern[e])) + 1

(* loadBossPattern: the next pattern is put in place.  With one pattern    *)
(* this changes nothing, which is the elites' and the trash's case.        *)
Ready(e) ==
  /\ Awake(e)
  /\ windupLeft[e] <= 0
  /\ attackCooldown[e] <= 0
  /\ loaded' = [loaded EXCEPT ![e] = patternIndex[e]]
  /\ patternIndex' = [patternIndex EXCEPT ![e] = NextPattern(e)]

NextWindup(e) == Pattern[e][patternIndex[e]].windup
Telegraphs(e) == NextWindup(e) > 0 /\ ~Open

BeginWindup(e) == windupLeft' = [windupLeft EXCEPT ![e] = NextWindup(e)]

(* A pattern with a telegraph, when no window is open, opens one.          *)
EnemyAnnounces(e) ==
  /\ Ready(e)
  /\ Telegraphs(e)
  /\ BeginWindup(e)
  /\ OpenCrisis(e, patternIndex[e], NextWindup(e))
  /\ UNCHANGED <<status, attackCooldown, groggyLeft, groggy, heroCooldown, phase, over, hits, rest>>

(* Any other attack lands at once, a telegraphed one as well when a window *)
(* is open already.                                                        *)
EnemyHits(e) ==
  /\ Ready(e)
  /\ ~Telegraphs(e)
  /\ attackCooldown' = [attackCooldown EXCEPT ![e] = Pattern[e][patternIndex[e]].cooldown]
  /\ rest' = [rest EXCEPT ![e] = 0]
  /\ hits' = [hits EXCEPT ![e] = @ + 1]
  /\ UNCHANGED <<status, windupLeft, groggyLeft, groggy, heroVars, phase, over>>

EnemyTurn(e) ==
  \/ EnemyAbsent(e) \/ EnemyGroggy(e) \/ EnemyFar(e) \/ EnemyWindsUp(e)
  \/ EnemyCoolsDown(e) \/ EnemyAnnounces(e) \/ EnemyHits(e)

(* endTick drops the marked rows; the hero may have died in this tick.     *)
Dropped(column, default) ==
  [e \in Enemy |-> IF status[e] = "dead" THEN default ELSE column[e]]

EndTick ==
  /\ phase = "enemy"
  /\ turn = MaxEnemies + 1
  /\ status' = Dropped(status, "gone")
  /\ loaded' = Dropped(loaded, 1)
  /\ patternIndex' = Dropped(patternIndex, 1)
  /\ attackCooldown' = Dropped(attackCooldown, 0)
  /\ windupLeft' = Dropped(windupLeft, 0)
  /\ groggyLeft' = Dropped(groggyLeft, 0)
  /\ groggy' = Dropped(groggy, FALSE)
  /\ \E heroDead \in BOOLEAN : over' = (over \/ heroDead)
  /\ phase' = "input" /\ turn' = 1
  /\ UNCHANGED <<heroVars, history>>

Tick ==
  \/ BeginTick \/ SpawnRun \/ EffectsRun \/ QteRun
  \/ HeroWaits \/ HeroStrikes
  \/ \E s \in Skill : HeroProcsQte(s) \/ HeroProcsSkill(s)
  \/ \E e \in Enemy : EnemyTurn(e)
  \/ EndTick

Next == Tick \/ \E g \in Grade : InputQte(g)

Spec == Init /\ [][Next]_vars

(* The host steps the simulation again and again, and a tick runs to its   *)
(* end; nothing is assumed of the player.                                  *)
FairSpec == Spec /\ WF_vars(Tick)

----------------------------------------------------------------------------
(* The attack a crisis window resolves is the one it announced: while the  *)
(* window is open its source never loads another pattern, though stuns and *)
(* range stretch the source's own windup (combat.h:1465-1479, qteRun reads *)
(* the damage the source carries at closeTick).                            *)
AnnouncedAttackLands ==
  qte.kind = "CrisisEvade" /\ status[qte.source] # "gone" => loaded[qte.source] = qte.shown

(* Attacks keep their rhythm: between the end of one attack of an enemy,   *)
(* landed or evaded, and its next attack or telegraph, more ticks than its *)
(* cooldown pass, whichever of qteRun and combatRun ended the first.       *)
BeginsAttack(e) ==
  phase = "enemy" /\ (hits'[e] > hits[e] \/ (qte'.kind = "CrisisEvade" /\ ~Open /\ qte'.source = e))
AttackRhythm == [][\A e \in Enemy : BeginsAttack(e) => rest[e] > Interval(e)]_vars

(* A window that opens is resolved, whatever became of its source and      *)
(* whether or not the player answers, unless the run ends.                 *)
WindowResolves == Open ~> (~Open \/ over)

(* A stun ends, wherever the stunned enemy stands (the deadlock described  *)
(* at combat.h:1439-1443), unless it is stunned anew again and again.      *)
StunnedAnew(e) == groggyLeft'[e] > groggyLeft[e]
StunEnds ==
  \A e \in Enemy : \/ []<>(groggyLeft[e] = 0 \/ status[e] # "live" \/ over)
                   \/ []<><<StunnedAnew(e)>>_vars

=============================================================================
