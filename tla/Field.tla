------------------------------- MODULE Field -------------------------------
(* Where everybody stands: which enemy the hero aims at, how overlapping   *)
(* enemies are pushed apart, and how the hero walks to the target and the  *)
(* enemies to the hero (core/include/dc/targeting.h, grid.h, separation.h, *)
(* movement.h and movementRun in combat.h).  Coordinates are the raw       *)
(* integers of the fixed-point type, with every division truncated towards *)
(* zero as there.  Rows are numbers in array order, which is the order of  *)
(* spawning; who is dead and who is stunned is decided by Strikes.         *)
EXTENDS Integers, SequencesExt

CONSTANTS
  Enemies,          \* the rows, 1 .. n
  Id,               \* the bits of each row's EntityId
  targetPriority, approachSpeed, attackRange,   \* by row
  ONE,              \* ONE_RAW: one tile
  DIM,              \* cells of the grid per side
  minSep, heroSep,  \* raw distances
  HeroRange, HeroStep, ApproachMargin,
  FalloffPerTile,   \* targetPriorityFalloffPerTile
  FrostAura, FrostRadius    \* relic R_FROST

NOBODY == 0

ASSUME FieldAssumption ==
  /\ IsFiniteSet(Enemies) /\ Enemies = 1 .. Cardinality(Enemies)
  /\ Id \in [Enemies -> Nat \ {0}] /\ \A i, j \in Enemies : Id[i] = Id[j] => i = j
  /\ {targetPriority, approachSpeed, attackRange} \subseteq [Enemies -> Int]
  /\ {ONE, DIM, minSep} \subseteq Nat \ {0} /\ heroSep \in Nat
  /\ {HeroRange, HeroStep, ApproachMargin, FalloffPerTile, FrostAura, FrostRadius} \subseteq Int

VARIABLES
  hero,    \* where the hero is, a record of x and y
  at,      \* where each row is
  target,  \* hero.target, a row or NOBODY
  manual,  \* hero.manualTarget
  foe,     \* the rows: damage taken, dead, stunned ... (Strikes)
  zones    \* what lies on the ground, in array order (Strikes)

----------------------------------------------------------------------------
Abs(n) == IF n < 0 THEN -n ELSE n

(* Division as in C++11: towards zero.                                     *)
Quot(a, b) == IF (a < 0) = (b < 0) THEN Abs(a) \div Abs(b) ELSE -(Abs(a) \div Abs(b))

(* isqrt64: the floor of the root.                                         *)
Isqrt(n) == CHOOSE r \in 0 .. n : r * r <= n /\ (r + 1) * (r + 1) > n

DistanceSq(p, q) == (p.x - q.x) * (p.x - q.x) + (p.y - q.y) * (p.y - q.y)
Distance(p, q)   == Isqrt(DistanceSq(p, q))
Within(p, q, r)  == DistanceSq(p, q) <= r * r

Clamped(n, low, high) == IF n < low THEN low ELSE IF n > high THEN high ELSE n
AtLeast(n, low)       == IF n < low THEN low ELSE n

Living == {e \in Enemies : ~foe[e].dead}

(* The members of a finite set by their keys, which are different numbers: *)
(* the k-th has k - 1 below it.                                            *)
Ranked(S, key) ==
  [k \in 1 .. Cardinality(S) |->
     CHOOSE e \in S : Cardinality({f \in S : key[f] < key[e]}) = k - 1]

InArrayOrder(rows) == Ranked(rows, [e \in rows |-> e])

(* collectInRadius                                                         *)
InRadius(p, r) == {e \in Living : Within(at[e], p, r)}

----------------------------------------------------------------------------
(* effectivePriority: every tile beyond the hero's reach costs falloff.    *)
EffectivePriority(e) ==
  LET beyond == Distance(at[e], hero) - HeroRange
  IN  IF FalloffPerTile <= 0 \/ beyond <= 0 THEN targetPriority[e]
      ELSE targetPriority[e] - Quot(beyond * FalloffPerTile, ONE)

(* mutant: of two that are equal so far, the first row stays.              *)
PreferredFirstRow(e, best) ==
  LET p == EffectivePriority(e)  q == EffectivePriority(best)
      d == DistanceSq(at[e], hero)  c == DistanceSq(at[best], hero)
  IN  p > q \/ (p = q /\ d < c)

(* Whether a row takes the place of the best so far in selectAutoTarget.   *)
Preferred(e, best) ==
  LET p == EffectivePriority(e)  q == EffectivePriority(best)
      d == DistanceSq(at[e], hero)  c == DistanceSq(at[best], hero)
  IN  p > q \/ (p = q /\ (d < c \/ (d = c /\ Id[e] < Id[best])))

SelectAutoTarget ==
  FoldLeft(LAMBDA best, e : IF best = NOBODY \/ Preferred(e, best) THEN e ELSE best,
           NOBODY, InArrayOrder(Living))

(* selectTarget: the player's choice as long as it lives.                  *)
SelectTarget ==
  /\ target' = IF manual \in Living THEN manual ELSE SelectAutoTarget
  /\ UNCHANGED <<hero, at, manual, foe, zones>>

----------------------------------------------------------------------------
(* UniformGrid::build: cells of minSep, the hero in the middle; who is     *)
(* outside is put into the cell at the edge.                               *)
Cell(p) ==
  LET half == (minSep * DIM) \div 2
      on(v, h) == Clamped(Quot(v - (h - half), minSep), 0, DIM - 1)
  IN  [x |-> on(p.x, hero.x), y |-> on(p.y, hero.y)]

(* mutant: only the cells behind are searched, "since each pair is met     *)
(* once anyway".                                                           *)
NeighboursAhead(a, b) == b.x - a.x \in 0 .. 1 /\ b.y - a.y \in 0 .. 1

(* The 3 x 3 cells that separationRun searches.                            *)
Neighbours(a, b) == b.x - a.x \in -1 .. 1 /\ b.y - a.y \in -1 .. 1

(* The pairs in the order of the loops: by row, by the other's cell, row   *)
(* after row, and in a cell by the other's row.                            *)
Pairs ==
  LET met == {p \in Living \X Living :
                p[1] < p[2] /\ Neighbours(Cell(at[p[1]]), Cell(at[p[2]]))}
      place(p) == LET c == Cell(at[p[2]])
                  IN  ((p[1] * DIM + c.y) * DIM + c.x) * Cardinality(Enemies) + p[2]
  IN  Ranked(met, [p \in met |-> place(p)])

Moved(p, dx, dy) == [x |-> p.x + dx, y |-> p.y + dy]

Bit(n, b) == (n \div b) % 2

(* The vector and distance from j to i that a pair is pushed along; two at *)
(* the same point part in a direction that their ids decide.               *)
Apart(i, j, p) ==
  LET d    == Distance(p[i], p[j])
      side(b) == IF Bit(Id[i], b) # Bit(Id[j], b) THEN minSep ELSE -minSep
      v    == IF d = 0 THEN [x |-> side(1), y |-> side(2)]
              ELSE [x |-> p[i].x - p[j].x, y |-> p[i].y - p[j].y]
  IN  [x |-> v.x, y |-> v.y, d |-> Isqrt(v.x * v.x + v.y * v.y), close |-> d < minSep]

(* One pair: what one gets, the other gets the other way.                  *)
Pushed(p, pair) ==
  LET i == pair[1]  j == pair[2]  v == Apart(i, j, p)
      push == Quot(minSep - v.d, 2)
      dx == Quot(v.x * push, v.d)  dy == Quot(v.y * push, v.d)
  IN  IF ~v.close THEN p
      ELSE [p EXCEPT ![i] = Moved(@, dx, dy), ![j] = Moved(@, -dx, -dy)]

PairsParted == FoldLeft(Pushed, at, Pairs)

(* The second loop: enemies leave the hero's circle, the hero stays.       *)
OutOfHero(p) ==
  LET d == Distance(p, hero)
  IN  IF d >= heroSep \/ d = 0 THEN p
      ELSE Moved(p, Quot((p.x - hero.x) * (heroSep - d), d), Quot((p.y - hero.y) * (heroSep - d), d))

SeparationRun ==
  /\ at' = [e \in Enemies |-> IF e \in Living THEN OutOfHero(PairsParted[e]) ELSE at[e]]
  /\ UNCHANGED <<hero, target, manual, foe, zones>>

----------------------------------------------------------------------------
(* stepToward                                                              *)
StepToward(p, to, step, stopAt) ==
  LET d      == Distance(p, to)
      travel == IF step > d - stopAt THEN d - stopAt ELSE step
  IN  IF d <= stopAt \/ d = 0 THEN p
      ELSE Moved(p, Quot((to.x - p.x) * travel, d), Quot((to.y - p.y) * travel, d))

(* mutant: no margin.                                                      *)
ApproachStopAtReach(range) == range

(* approachStop: the margin inside the reach.                              *)
ApproachStop(range) == AtLeast(range - ApproachMargin, 0)

(* slowMult: the hero's aura and the strongest fissure add up, and the     *)
(* sum stops an enemy at most.                                             *)
SlowMult(e) ==
  LET aura  == IF FrostAura > 0 /\ Within(at[e], hero', FrostRadius) THEN FrostAura ELSE 0
      under == {zones[z].value : z \in {y \in 1 .. Len(zones) :
                  zones[y].kind = "Fissure" /\ Within(at[e], zones[y].at, zones[y].radius)}}
  IN  AtLeast(ONE - (aura + Max(under \cup {0})), 0)

(* movementRun: the hero first, and then the enemies to where he is now.   *)
MovementRun ==
  /\ hero' = IF target \in Living /\ HeroStep > 0
             THEN StepToward(hero, at[target], HeroStep, ApproachStop(HeroRange)) ELSE hero
  /\ at' = [e \in Enemies |->
              IF e \in Living /\ approachSpeed[e] > 0 /\ foe[e].groggy = 0
              THEN StepToward(at[e], hero', Quot(approachSpeed[e] * SlowMult(e), ONE),
                              ApproachStop(attackRange[e]))
              ELSE at[e]]
  /\ UNCHANGED <<target, manual, foe, zones>>

----------------------------------------------------------------------------
(* The target is the one that a total order on the living puts first,      *)
(* whichever row it is in, unless the player's choice lives                *)
(* (targeting.h: no tie is left, the layout of the arrays does not show).  *)
AimsAtBest ==
  LET rank(e) == <<-EffectivePriority(e), DistanceSq(at[e], hero), Id[e]>>
      before(a, b) == \E k \in 1 .. 3 : a[k] < b[k] /\ \A l \in 1 .. k - 1 : a[l] = b[l]
  IN  IF manual \in Living THEN target = manual
      ELSE Living # {} =>
             target \in Living /\ \A e \in Living \ {target} : before(rank(target), rank(e))

(* Nobody who overlaps is missed by the search of neighbouring cells, not  *)
(* even beyond the edge of the grid, and no pair is met twice              *)
(* (separation.h: each pair exactly once).                                 *)
MeetsEveryOverlap ==
  /\ \A i, j \in Living :
       i < j /\ Distance(at[i], at[j]) < minSep => \E k \in 1 .. Len(Pairs) : Pairs[k] = <<i, j>>
  /\ Len(Pairs) = Cardinality(ToSet(Pairs))
=============================================================================
