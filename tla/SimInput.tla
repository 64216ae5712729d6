------------------------------ MODULE SimInput ------------------------------
(***************************************************************************)
(* The inputs a world takes (core sim.h applyInput, world.h), over what of *)
(* the world decides whether one is taken: the enemies alive, the QTE      *)
(* window, the cards on the screen and, of the bag, the craftable bit that *)
(* is derived from the material in it.                                     *)
(***************************************************************************)
EXTENDS Integers, FiniteSets

CONSTANTS
  Foes,        \* handles an enemy can have; 0 is none of them
  Cost         \* material a recipe takes

ASSUME SimInputAssumption == 0 \notin Foes /\ Cost \in Nat

Grades == 0 .. 2        \* QteGrade: Miss, Success, Perfect

(* QteWindow::judge: a Perfect outside its ticks is a Success.             *)
Judge(w, grade) ==
  IF w.tick < w.openTick \/ w.tick >= w.closeTick THEN 0
  ELSE IF grade = 2 /\ w.tick \notin w.perfect THEN 1
  ELSE grade

(* applyInput returns true for an enemy that is alive or 0, for a grade in *)
(* an open window, for a card on the screen, for a recipe whose bit is set.*)
TakesInput(w, e) ==
  \/ e.kind = "ManualTarget" /\ e.value \in {0} \cup w.foes
  \/ e.kind = "QteGrade" /\ w.open /\ e.value \in Grades
  \/ e.kind = "CardChoice" /\ e.value < w.offer
  \/ e.kind = "Craft" /\ w.craftable

(* Inventory: the counts are 16 bits wide, and a change refreshes the bit. *)
WithBag(w, n) == [w EXCEPT !.bag = n % 65536, !.craftable = n % 65536 >= Cost]

AfterInput(w, e) ==
  IF e.kind = "ManualTarget" THEN [w EXCEPT !.manual = e.value]
  ELSE IF e.kind = "QteGrade" THEN [w EXCEPT !.input = Judge(w, e.value), !.hasInput = TRUE]
  ELSE IF e.kind = "CardChoice" THEN [w EXCEPT !.offer = 0, !.cards = @ + 1]
  ELSE [WithBag(w, w.bag - Cost) EXCEPT !.made = @ + 1]
=============================================================================
