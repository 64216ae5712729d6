------------------------------ MODULE Strikes ------------------------------
(* What the hero's attack and skills, the dot, the relics and the zones do *)
(* to the enemies (core/include/dc/combat.h): every one of them ends in    *)
(* applySkillHit, one enemy after the other, where an enemy dies at most   *)
(* once and pays at once.  A system that strikes puts its calls on work,   *)
(* and each action takes the first one: what it collects it collects then, *)
(* among those who still live.                                             *)
(*                                                                         *)
(* AttackPower stands for the hero's attack times the multipliers that the *)
(* code reads when it computes a power (swarmMult, heroPowerMult, critical *)
(* hits); it is one number here, although swarmMult counts the living and  *)
(* so may fall from one power to the next.  A kill's orb and the events    *)
(* are left to Pools and CardLoop; here only the roll for it is counted.   *)
EXTENDS Field, Prd

CONSTANTS
  Archetype, maxHp, armor, ccGaugeMax, ExecuteImmune, exp,   \* by row
  armorK, tickHz, AttackPower,
  Skills, aoe, forward, mult, ccGain,   \* aoe and forward are sets of skills
  uniqueSkill,                \* of each legend that belongs to one skill
  Grades,                     \* what a window may multiply the power by
  Builds,                     \* the cards that a run may hold, and the skills it may draw
  QteLength, qteCooldownTicks,
  AoeRadius, PierceWidth, PierceLength, ShockwaveWidth,
  decayTicks, groggyTicks, bossCcResistStep, ccDecayPerTick,
  executeThresholdPermille, executeWeakBonus,
  centrifugeStep, centrifugeMaxStacks,
  stormPower, StormRadius, boltIntervalTicks,
  vortexPower, aftershockPower, fissureSlow, FissureRadius, fissurePower,
  zoneTicks,                  \* how long the zones of each legend stay
  trashPoints, elitePoints,
  attackInterval

VARIABLES
  build,     \* engraves and relics held, by value, legends, and skills with a weight
  score,     \* kills, points, experience, rolls of rngItems, outcome
  work,      \* the calls still to be made by the system that runs
  dealt,     \* what leech will be paid for
  cooldown,  \* hero.attackCooldown
  window,    \* the QTE window of a skill: which one, and ticks until closeTick
  qteCooldown,
  boltIn,    \* ticks until boltNextTick
  cast,      \* history: the rows when the strikes began, what was pierced
  ring,      \* history: the rings of the last centrifuge
  unhurt     \* history: ticks since the hero's last strike at a row

NO_SKILL == "none"
ZoneKinds == {"Burn", "Aftershock", "Fissure"}
ZoneLegends == {"Vortex", "Aftershock", "Fissure"}

(* The kinds of the rows, raw integers, and cards whose values add up from *)
(* nothing (cards.json); what a circle or a ring is made of is not below   *)
(* zero, and W_CENTRIFUGE is held only where its numbers are set.          *)
ASSUME StrikesAssumption ==
  /\ Archetype \in [Enemies -> {"Trash", "Elite", "Boss"}]
  /\ {maxHp, armor, ccGaugeMax, exp} \subseteq [Enemies -> Int]
  /\ {mult, ccGain} \subseteq [Skills -> Int] /\ NO_SKILL \notin Skills
  /\ zoneTicks \in [ZoneLegends -> Int] /\ Grades \subseteq Int
  /\ tickHz \in Nat \ {0} /\ {AoeRadius, decayTicks} \subseteq Nat
  /\ {centrifugeStep, centrifugeMaxStacks} \subseteq Nat \ {0}
  /\ {armorK, AttackPower, QteLength, qteCooldownTicks, groggyTicks, bossCcResistStep,
      ccDecayPerTick, executeWeakBonus, stormPower, boltIntervalTicks, vortexPower,
      aftershockPower, fissureSlow, FissureRadius, fissurePower, trashPoints, elitePoints,
      attackInterval} \subseteq Int
  /\ Builds \subseteq [chain : Nat, pierce : Nat, decay : Nat, wide : Nat, rend : Nat, beacon : Nat,
                      bolt : Nat, legends : SUBSET STRING, skills : SUBSET Skills]

places == <<hero, at, target, manual>>
history == <<cast, ring, unhurt>>
strikeVars == <<hero, at, target, manual, foe, zones, build, trials, score, work, dealt,
                cooldown, window, qteCooldown, boltIn, cast, ring, unhurt>>

Mul(a, b) == Quot(a * b, ONE)
Has(legend) == legend \in build.legends
OnSkill(legend, s) == Has(legend) /\ uniqueSkill[legend] = s

----------------------------------------------------------------------------
(* applySkillHit and what it calls, as functions of one row.               *)
Mitigate(damage, a) == IF armorK <= 0 THEN damage
                       ELSE Quot(damage * armorK * ONE, armorK * ONE + AtLeast(a, 0))

RendArmor(a) == IF build.rend <= 0 \/ a <= 0 THEN a ELSE Mul(a, AtLeast(ONE - build.rend, 0))

BeaconMult(e) == IF Archetype[e] = "Trash" THEN ONE ELSE ONE + build.beacon

BelowExecuteThreshold(f, e) ==
  LET left == maxHp[e] - f.taken
  IN  left > 0 /\ left * 1000 <= maxHp[e] * executeThresholdPermille

ExecuteWeakenMult(f, e) ==
  IF Has("Execute") /\ BelowExecuteThreshold(f, e) THEN ONE + executeWeakBonus ELSE ONE

(* executeIfBelowThreshold: the health it takes.                           *)
Executed(f, e) ==
  IF Has("Execute") /\ e \notin ExecuteImmune /\ BelowExecuteThreshold(f, e)
  THEN maxHp[e] - f.taken ELSE 0

(* applyDecay: a new strike starts the dot anew, the stronger dot stays.   *)
DotPerTick == Quot(Mul(AttackPower, build.decay), tickHz)

Decayed(f) ==
  IF DotPerTick <= 0 \/ decayTicks <= 0 THEN f
  ELSE [f EXCEPT !.dot = AtLeast(f.dot, DotPerTick), !.left = decayTicks]

DamageOf(f, e, power, hooks) ==
  LET weaken == IF hooks THEN ExecuteWeakenMult(f, e) ELSE ONE
  IN  Mitigate(Mul(Mul(power, BeaconMult(e)), weaken), RendArmor(armor[e]))

(* mutant: an execution does not say how much health it took.              *)
ReturnedUnexecuted(f, e, power, hooks) == IF f.dead THEN 0 ELSE DamageOf(f, e, power, hooks)

(* What applySkillHit returns.                                             *)
Returned(f, e, power, hooks) ==
  IF f.dead THEN 0
  ELSE LET d == DamageOf(f, e, power, hooks)
       IN  d + (IF hooks THEN Executed([f EXCEPT !.taken = @ + d], e) ELSE 0)

(* mutant: a hit that was asked for no hooks starts the dot anew all the   *)
(* same.                                                                   *)
StruckAlwaysDecays(f, e, power, hooks) ==
  LET f1 == [f EXCEPT !.taken = @ + DamageOf(f, e, power, hooks)]
      f2 == IF hooks THEN [f1 EXCEPT !.taken = @ + Executed(f1, e)] ELSE f1
  IN  IF f.dead THEN f
      ELSE IF f2.taken >= maxHp[e] THEN [f2 EXCEPT !.dead = TRUE]
      ELSE Decayed(f2)

(* The row after it.                                                       *)
Struck(f, e, power, hooks) ==
  LET f1 == [f EXCEPT !.taken = @ + DamageOf(f, e, power, hooks)]
      f2 == IF hooks THEN [f1 EXCEPT !.taken = @ + Executed(f1, e)] ELSE f1
  IN  IF f.dead THEN f
      ELSE IF f2.taken >= maxHp[e] THEN [f2 EXCEPT !.dead = TRUE]
      ELSE IF hooks THEN Decayed(f2) ELSE f2

(* What a death pays, in the call that causes it.                          *)
Paid(s, e) ==
  LET p == [s EXCEPT !.exp = @ + exp[e]]
  IN  CASE Archetype[e] = "Trash" ->
             [p EXCEPT !.trash = @ + 1, !.points = @ + trashPoints, !.rolls = @ + 1]
        [] Archetype[e] = "Boss"  -> [p EXCEPT !.outcome = "Cleared"]
        [] OTHER -> [p EXCEPT !.elites = @ + 1, !.points = @ + elitePoints]

(* mutant: whoever is found dead after a hit pays.                         *)
ScoreOfTheDead(f, e) == IF f.dead THEN Paid(score, e) ELSE score

ScoreAfter(f, e) == IF f.dead /\ ~foe[e].dead THEN Paid(score, e) ELSE score

----------------------------------------------------------------------------
(* ccThreshold: the boss resists more with every stun.                     *)
CcThreshold(f, e) ==
  IF Archetype[e] # "Boss" THEN ccGaugeMax[e]
  ELSE Mul(ccGaugeMax[e], ONE + bossCcResistStep * f.triggers)

(* applyCc: who has no gauge is stunned at once.                           *)
Stunned(f, e, gain) ==
  LET filled == f.gauge + Mul(ccGaugeMax[e], gain)
  IN  IF gain <= 0 \/ f.dead \/ groggyTicks <= 0 THEN f
      ELSE IF ccGaugeMax[e] <= 0 THEN [f EXCEPT !.groggy = groggyTicks]
      ELSE IF CcThreshold(f, e) <= 0 \/ filled < CcThreshold(f, e) THEN [f EXCEPT !.gauge = filled]
      ELSE [f EXCEPT !.gauge = 0, !.triggers = @ + 1, !.groggy = groggyTicks]

(* ccDecayRun, for one row.                                                *)
CcLess(f, e) ==
  IF f.dead THEN f ELSE [f EXCEPT !.gauge = AtLeast(@ - Mul(ccGaugeMax[e], ccDecayPerTick), 0)]

----------------------------------------------------------------------------
(* collectInLine: the strip along the line from the hero through the       *)
(* target, behind the target or from the hero on.                          *)
InLine(width, length, fromHero) ==
  LET dx == at[target].x - hero.x   dy == at[target].y - hero.y
      len == Isqrt(dx * dx + dy * dy)
      along(e) == Quot((at[e].x - hero.x) * dx + (at[e].y - hero.y) * dy, len)
      aside(e) == Abs(Quot((at[e].x - hero.x) * dy - (at[e].y - hero.y) * dx, len))
  IN  IF len = 0 THEN {}
      ELSE {e \in Living \ {target} :
              /\ IF fromHero THEN along(e) >= 0 ELSE along(e) > len
              /\ along(e) <= len + length /\ aside(e) <= width}

WideRadius == Mul(AoeRadius, ONE + build.wide)

(* aoeCenterOf: around the hero, or one radius ahead of him.               *)
AoeCenter(s) ==
  LET len == Distance(at[target], hero)
      ahead(t, h) == h + Quot((t - h) * WideRadius, len)
  IN  IF s \notin forward \/ target = NOBODY \/ len = 0 THEN hero
      ELSE [x |-> ahead(at[target].x, hero.x), y |-> ahead(at[target].y, hero.y)]

(* mutant: a ring adds to the one before it.                               *)
StackedAnew(stacks, fresh) == Min({fresh, centrifugeMaxStacks})

(* How far the rings reach after so many stacks.                           *)
RingRadius(base, stacks) == Mul(base, ONE + centrifugeStep * stacks)
Stacked(stacks, fresh) == Min({stacks + fresh, centrifugeMaxStacks})

(* centrifugeRadius: what the rings would reach among these rows, without  *)
(* striking: for a zone.                                                   *)
CentrifugeRadius(center, base, rows) ==
  LET n(r) == Cardinality({e \in rows : Within(at[e], center, r)})
      grow[k \in 0 .. centrifugeMaxStacks + 1] ==
        IF k = 0 THEN [r |-> base, stacks |-> 0, reached |-> 0]
        ELSE LET g == grow[k - 1]
                 fresh == n(g.r) - g.reached
             IN  IF fresh <= 0 \/ g.stacks >= centrifugeMaxStacks THEN g
                 ELSE [r |-> RingRadius(base, Stacked(g.stacks, fresh)),
                       stacks |-> Stacked(g.stacks, fresh), reached |-> n(g.r)]
  IN  grow[centrifugeMaxStacks + 1].r

----------------------------------------------------------------------------
(* mutant: the strikes around a single target are left out of the sum.     *)
CountedButWide == {"skill", "shock", "ring", "zone"}

(* Who adds what applySkillHit returns to what leech is paid for: a cast   *)
(* (its own strike, its shockwave, those around, its rings) and zoneRun.   *)
(* applyPierce, the attack, the bolt and the storm drop it.                *)
Counted == {"skill", "shock", "wide", "ring", "zone"}

(* The calls.  by is the code that makes the hit.                          *)
HitCall(e, power, hooks, by) ==
  [do |-> "hit", who |-> e, power |-> power, hooks |-> hooks, by |-> by]
HitCalls(rows, power, hooks, by) ==
  [i \in 1 .. Cardinality(rows) |-> HitCall(InArrayOrder(rows)[i], power, hooks, by)]
CcCall(e, gain)         == [do |-> "cc", who |-> e, gain |-> gain]
LineCall(kind, power)   == [do |-> kind, power |-> power]
RingCall(center, base, power, gain, grows, stacks, struck) ==
  [do |-> "ring", center |-> center, base |-> base, power |-> power, gain |-> gain,
   grows |-> grows, stacks |-> stacks, struck |-> struck]
Call(kind)              == [do |-> kind]

Doing(kind) == work # <<>> /\ Head(work).do = kind

(* The strikes begin: nothing is dealt yet.                                *)
Fresh == [before |-> [e \in Enemies |-> foe[e].taken], pierced |-> 0]

NoRing == [struck |-> {}, among |-> {}, radius |-> 0, base |-> 0, center |-> [x |-> 0, y |-> 0],
           grows |-> FALSE, over |-> TRUE, passes |-> 0]

Hit ==
  /\ Doing("hit")
  /\ LET c == Head(work)
         f == foe[c.who]
         got == Returned(f, c.who, c.power, c.hooks)
     IN  /\ foe' = [foe EXCEPT ![c.who] = Struck(f, c.who, c.power, c.hooks)]
         /\ score' = ScoreAfter(foe'[c.who], c.who)
         /\ dealt' = IF c.by \in Counted THEN dealt + got ELSE dealt
         /\ cast' = IF c.by # "pierce" THEN cast ELSE [cast EXCEPT !.pierced = @ + foe'[c.who].taken - f.taken]
         /\ unhurt' = IF c.hooks THEN [unhurt EXCEPT ![c.who] = 0] ELSE unhurt
  /\ work' = Tail(work)
  /\ UNCHANGED <<places, zones, build, trials, cooldown, window, qteCooldown, boltIn, ring>>

Cc ==
  /\ Doing("cc")
  /\ foe' = [foe EXCEPT ![Head(work).who] = Stunned(@, Head(work).who, Head(work).gain)]
  /\ work' = Tail(work)
  /\ UNCHANGED <<places, zones, build, trials, score, dealt, cooldown, window, qteCooldown, boltIn, history>>

(* What a call collects takes its place on work.                           *)
Expand(calls) ==
  /\ work' = calls \o Tail(work)
  /\ UNCHANGED <<places, foe, zones, build, trials, score, dealt, cooldown, window, qteCooldown, boltIn, cast, unhurt>>

Pierce ==
  /\ Doing("pierce")
  /\ Expand(IF build.pierce <= 0 \/ PierceWidth <= 0 THEN <<>>
            ELSE HitCalls(InLine(PierceWidth, PierceLength, FALSE),
                          Mul(Head(work).power, build.pierce), TRUE, "pierce"))
  /\ UNCHANGED ring

Shockwave ==
  /\ Doing("shock")
  /\ Expand(IF ShockwaveWidth <= 0 THEN <<>>
            ELSE HitCalls(InLine(ShockwaveWidth, PierceLength, TRUE), Head(work).power, TRUE, "shock"))
  /\ UNCHANGED ring

(* E_WIDE for a single strike: those around the target.                    *)
Wide ==
  /\ Doing("wide")
  /\ Expand(IF build.wide <= 0 THEN <<>>
            ELSE HitCalls(InRadius(at[target], WideRadius) \ {target},
                          Mul(Head(work).power, build.wide), TRUE, "wide"))
  /\ UNCHANGED ring

(* RL_ECHO: the attack once more, if its target lived through the first.   *)
Echo ==
  /\ Doing("echo")
  /\ Expand(IF Has("Echo") /\ target \in Living
            THEN <<HitCall(target, Head(work).power, TRUE, "attack"), LineCall("pierce", Head(work).power)>>
            ELSE <<>>)
  /\ UNCHANGED ring

(* applyAoeHits, one pass: those in the circle who were not struck yet,    *)
(* each hit and then stunned; the circle grows by them.                    *)
Ring ==
  /\ Doing("ring")
  /\ LET c      == Head(work)
         radius == RingRadius(c.base, c.stacks)
         fresh  == InRadius(c.center, radius) \ c.struck
         order  == InArrayOrder(fresh)
         grows  == c.grows /\ fresh # {} /\ c.stacks < centrifugeMaxStacks
         next   == RingCall(c.center, c.base, c.power, c.gain, TRUE,
                            Stacked(c.stacks, Cardinality(fresh)), c.struck \cup fresh)
     IN  /\ Expand([i \in 1 .. 2 * Cardinality(fresh) |->
                      IF i % 2 = 1 THEN HitCall(order[(i + 1) \div 2], c.power, TRUE, "ring")
                                   ELSE CcCall(order[i \div 2], c.gain)]
                   \o (IF grows THEN <<next>> ELSE <<>>))
         /\ ring' = [struck |-> c.struck \cup fresh, radius |-> radius, center |-> c.center,
                     base |-> c.base, grows |-> c.grows, over |-> ~grows,
                     among  |-> IF c.struck = {} /\ c.stacks = 0 THEN Living ELSE ring.among,
                     passes |-> IF c.stacks = 0 THEN 1 ELSE ring.passes + 1]

(* E_LEECH is paid for what the strikes or the zones took.  How much the   *)
(* gauge holds is RunProgress's.                                           *)
Leech ==
  /\ Doing("leech")
  /\ work' = Tail(work) /\ dealt' = 0 /\ ring' = NoRing
  /\ UNCHANGED <<places, foe, zones, build, trials, score, cooldown, window, qteCooldown, boltIn, cast, unhurt>>

----------------------------------------------------------------------------
(* The entries of a sequence at these indices, in its order.               *)
Entries(q, indices) ==
  [k \in 1 .. Cardinality(indices) |-> q[InArrayOrder(indices)[k]]]

Zone(kind, legend, center, radius, value) ==
  [kind |-> kind, at |-> center, radius |-> radius, value |-> value, left |-> zoneTicks[legend]]

(* What a cast leaves on the ground behind its strikes.                    *)
Laid(s, grade) ==
  (IF OnSkill("Aftershock", s) /\ aftershockPower > 0
   THEN <<Zone("Aftershock", "Aftershock", AoeCenter(s), WideRadius, Mul(aftershockPower, grade))>> ELSE <<>>)
  \o (IF OnSkill("Fissure", s) /\ fissureSlow > 0
      THEN <<Zone("Fissure", "Fissure", AoeCenter(s), FissureRadius, fissureSlow)>> ELSE <<>>)
  \o (IF OnSkill("Fissure", s) /\ fissurePower > 0
      THEN <<Zone("Burn", "Fissure", AoeCenter(s), WideRadius, Mul(fissurePower, grade))>> ELSE <<>>)

(* W_VORTEX: a zone in place of the strikes.                               *)
Vortex(s, grade) ==
  <<Zone("Burn", "Vortex", AoeCenter(s),
         IF OnSkill("Centrifuge", s) THEN CentrifugeRadius(AoeCenter(s), WideRadius, Living)
         ELSE WideRadius,
         Mul(vortexPower, grade))>>

(* CC comes with the first pass only.                                      *)
GainOf(s, pass) == IF pass = 1 THEN ccGain[s] ELSE 0

(* One pass of executeSkill.                                               *)
Pass(s, power, pass) ==
  IF s \in aoe THEN <<RingCall(AoeCenter(s), WideRadius, power, GainOf(s, pass),
                               OnSkill("Centrifuge", s), 0, {})>>
  ELSE IF target = NOBODY THEN <<>>
  ELSE <<HitCall(target, power, TRUE, "skill"), CcCall(target, GainOf(s, pass)), LineCall("pierce", power)>>
       \o (IF OnSkill("Shockwave", s) THEN <<LineCall("shock", power)>> ELSE <<>>)
       \o <<LineCall("wide", power)>>

(* executeSkill: its calls, with E_CHAIN in two passes of a share each.    *)
CastCalls(s, grade) ==
  LET power == Mul(Mul(AttackPower, mult[s]), grade)
      share == Quot(Mul(power, ONE + build.chain), 2)
  IN  IF OnSkill("Vortex", s) THEN <<[do |-> "lay", zones |-> Vortex(s, grade)]>>
      ELSE (IF build.chain > 0 THEN Pass(s, share, 1) \o Pass(s, share, 2) ELSE Pass(s, power, 1))
           \o <<Call("leech"), [do |-> "lay", zones |-> Laid(s, grade)]>>

Lay ==
  /\ Doing("lay")
  /\ zones' = zones \o Head(work).zones
  /\ work' = Tail(work)
  /\ UNCHANGED <<places, foe, build, trials, score, dealt, cooldown, window, qteCooldown, boltIn, history>>

(* zoneRun strikes with every zone in turn, pays leech, and then drops     *)
(* those that have ended.                                                  *)
ZoneStrikes ==
  /\ Doing("zone")
  /\ LET z == Head(work).zone
     IN  Expand(HitCalls(InRadius(z.at, z.radius), z.value, FALSE, "zone"))
  /\ UNCHANGED ring

Sweep ==
  /\ Doing("sweep")
  /\ zones' = Entries(zones, {i \in DOMAIN zones : zones[i].left > 0})
  /\ work' = Tail(work)
  /\ UNCHANGED <<places, foe, build, trials, score, dealt, cooldown, window, qteCooldown, boltIn, history>>

(* One row of decayRun: the dot hits without hooks, and ends.              *)
Dot ==
  /\ Doing("dot")
  /\ LET e == Head(work).who
         f == [foe[e] EXCEPT !.left = @ - 1]
         g == Struck(f, e, f.dot, FALSE)
     IN  /\ foe' = [foe EXCEPT ![e] = IF g.left <= 0 THEN [g EXCEPT !.dot = 0] ELSE g]
         /\ score' = ScoreAfter(foe'[e], e)
  /\ work' = Tail(work)
  /\ UNCHANGED <<places, zones, build, trials, dealt, cooldown, window, qteCooldown, boltIn, history>>

----------------------------------------------------------------------------
(* The systems that strike: each puts its calls on work.                   *)
Begin(calls) == work' = calls /\ cast' = Fresh /\ dealt' = 0

DecayRun ==
  LET due == InArrayOrder({e \in Living : foe[e].left > 0})
  IN  /\ Begin([i \in 1 .. Len(due) |-> [do |-> "dot", who |-> due[i]]])
      /\ UNCHANGED <<places, foe, zones, build, trials, score, cooldown, window, qteCooldown, boltIn, ring, unhurt>>

(* boltRun strikes one of the living; the roll is made if there is one.    *)
BoltRun ==
  /\ IF build.bolt <= 0 \/ boltIntervalTicks <= 0 \/ boltIn > 0
     THEN boltIn' = boltIn /\ Begin(<<>>)
     ELSE /\ boltIn' = boltIntervalTicks
          /\ IF Living = {} THEN Begin(<<>>)
             ELSE \E e \in Living : Begin(<<HitCall(e, Mul(AttackPower, build.bolt), TRUE, "bolt")>>)
  /\ UNCHANGED <<places, foe, zones, build, trials, score, cooldown, window, qteCooldown, ring, unhurt>>

StormRun ==
  /\ Begin(IF Has("Storm") /\ stormPower > 0
           THEN HitCalls(InRadius(hero, StormRadius), stormPower, FALSE, "storm") ELSE <<>>)
  /\ UNCHANGED <<places, foe, zones, build, trials, score, cooldown, window, qteCooldown, boltIn, ring, unhurt>>

ZoneRun ==
  LET strikes(z) == /\ z.kind # "Fissure" /\ z.value > 0
                    /\ z.kind = "Aftershock" => z.left <= 0
      active == Entries(zones, {i \in DOMAIN zones : strikes(zones[i])})
  IN  /\ Begin([i \in 1 .. Len(active) |-> [do |-> "zone", zone |-> active[i]]]
               \o <<Call("leech"), Call("sweep")>>)
      /\ UNCHANGED <<places, foe, zones, build, trials, score, cooldown, window, qteCooldown, boltIn, ring, unhurt>>

CcDecayRun ==
  /\ foe' = [e \in Enemies |-> CcLess(foe[e], e)]
  /\ UNCHANGED <<places, zones, build, trials, score, work, dealt, cooldown, window, qteCooldown, boltIn, history>>

Closed == [skill |-> NO_SKILL, left |-> 0]

(* qteRun, of a skill's window: when it closes, the skill goes off with    *)
(* the grade that the player's press or its absence gives it.              *)
QteRun ==
  /\ qteCooldown' = AtLeast(qteCooldown - 1, 0)
  /\ IF window.skill = NO_SKILL \/ window.left > 0
     THEN Begin(<<>>) /\ UNCHANGED window
     ELSE window' = Closed /\ \E g \in Grades : Begin(CastCalls(window.skill, g))
  /\ UNCHANGED <<places, foe, zones, build, trials, score, cooldown, boltIn, ring, unhurt>>

(* openSkillQte                                                            *)
MayOpen == window.skill = NO_SKILL /\ qteCooldown = 0

(* combatRun, the hero: an attack in reach rolls for a skill, which waits  *)
(* in a window if one can be opened and goes off at once, before the       *)
(* attack itself, if not.                                                  *)
HeroAttacks(skill) ==
  LET waits == skill # NO_SKILL /\ MayOpen
      now   == IF skill = NO_SKILL \/ waits THEN <<>> ELSE CastCalls(skill, ONE)
  IN  /\ Roll(skill # NO_SKILL)
      /\ window' = IF waits THEN [skill |-> skill, left |-> QteLength] ELSE window
      /\ qteCooldown' = IF waits THEN qteCooldownTicks ELSE qteCooldown
      /\ Begin(now \o <<HitCall(target, AttackPower, TRUE, "attack"), LineCall("pierce", AttackPower),
                        LineCall("echo", AttackPower)>>)
      /\ cooldown' = attackInterval

HeroTurn ==
  /\ IF cooldown <= 1 /\ target \in Living /\ Within(at[target], hero, HeroRange)
     THEN \E skill \in build.skills \cup {NO_SKILL} : HeroAttacks(skill)
     ELSE /\ cooldown' = AtLeast(cooldown - 1, 0)
          /\ Begin(<<>>)
          /\ UNCHANGED <<trials, window, qteCooldown>>
  /\ UNCHANGED <<places, foe, zones, build, score, boltIn, ring, unhurt>>

(* combatRun, the enemies: of their turn only the stun that runs out.      *)
EnemiesTurn ==
  /\ foe' = [e \in Enemies |-> IF foe[e].dead THEN foe[e] ELSE [foe[e] EXCEPT !.groggy = AtLeast(@ - 1, 0)]]
  /\ UNCHANGED <<places, zones, build, trials, score, work, dealt, cooldown, window, qteCooldown, boltIn, history>>

(* beginTick                                                               *)
BeginTick ==
  /\ zones' = [z \in 1 .. Len(zones) |-> [zones[z] EXCEPT !.left = @ - 1]]
  /\ boltIn' = AtLeast(boltIn - 1, 0)
  /\ unhurt' = [e \in Enemies |-> Min({unhurt[e] + 1, decayTicks})]
  /\ window' = [window EXCEPT !.left = AtLeast(@ - 1, 0)]
  /\ UNCHANGED <<places, foe, build, trials, score, work, dealt, cooldown, qteCooldown, cast, ring>>

CallStep ==
  \/ Hit \/ Cc \/ Pierce \/ Shockwave \/ Wide \/ Echo \/ Ring \/ Leech \/ Lay \/ ZoneStrikes \/ Sweep \/ Dot

StrikesInit ==
  /\ foe = [e \in Enemies |-> [taken |-> 0, dead |-> FALSE, left |-> 0, dot |-> 0,
                               gauge |-> 0, triggers |-> 0, groggy |-> 0]]
  /\ zones = <<>> /\ build \in Builds /\ PrdInit
  /\ score = [trash |-> 0, elites |-> 0, points |-> 0, exp |-> 0, rolls |-> 0, outcome |-> "Running"]
  /\ work = <<>> /\ dealt = 0 /\ cooldown = 0 /\ window = Closed /\ qteCooldown = 0 /\ boltIn = 0
  /\ cast = Fresh /\ unhurt = [e \in Enemies |-> decayTicks]
  /\ ring = NoRing
=============================================================================
