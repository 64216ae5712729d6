-------------------------------- MODULE Prd --------------------------------
(* The proc channel of the hero's basic attack (PrdChannel in              *)
(* core/include/dc/prd.h): the chance of a roll grows by C with every      *)
(* failure since the last success, so that a failure becomes impossible    *)
(* after prdMaxStreak of them.  Chances are parts of Q16_ONE.              *)
EXTENDS Integers

CONSTANTS Q16_ONE, C

ASSUME PrdAssumption == Q16_ONE \in Nat \ {0} /\ C \in 1 .. Q16_ONE

VARIABLE trials   \* failures since the last success

PrdInit == trials = 0

(* mutant: the roll uses the failures before it, so that the first one     *)
(* after a success can only fail and certainty comes one roll later.       *)
ChanceLate(t) == IF C * t >= Q16_ONE THEN Q16_ONE ELSE C * t

(* prdChanceQ16                                                            *)
Chance(t) == IF C * (t + 1) >= Q16_ONE THEN Q16_ONE ELSE C * (t + 1)

(* Rng::chanceQ16: what a roll may say at a chance of q.                   *)
MaySay(q, success) == IF success THEN q > 0 ELSE q < Q16_ONE

(* PrdChannel::roll                                                        *)
Roll(success) ==
  /\ MaySay(Chance(trials), success)
  /\ trials' = IF success THEN 0 ELSE trials + 1

(* prdMaxStreak                                                            *)
MaxStreak == ((Q16_ONE + C - 1) \div C) - 1

(* The streak without a success never exceeds what prdMaxStreak announces. *)
StreakBounded == trials \in 0 .. MaxStreak
=============================================================================
