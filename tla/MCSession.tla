------------------------------ MODULE MCSession ------------------------------
(* A run of three ticks in which every kind of input can be taken, some of *)
(* them in one tick only; the manual target decides what the run becomes.  *)
EXTENDS Session, SimInput

MCStart ==
  [tick |-> 0, foes |-> Foes, manual |-> 0, open |-> FALSE, openTick |-> 0, closeTick |-> 0,
   perfect |-> {}, input |-> 0, hasInput |-> FALSE, offer |-> 0, cards |-> 0, bag |-> 0,
   craftable |-> Cost = 0, made |-> 0, over |-> FALSE]

MCTick(w) == w.tick
MCOver(w) == w.over

(* World::checksum reads the counts of the bag and not the craftable bits. *)
MCChecksum(w) == [w EXCEPT !.craftable = FALSE]

(* A tick of the stand-in: the target dies and leaves material, a window   *)
(* opens at tick 1 and closes at 3, a screen opens when an enemy has died, *)
(* and the run ends at tick 3 unless the window was answered.              *)
MCStepWorld(w) ==
  LET t == w.tick + 1
      dies == w.foes \cap {w.manual}
      v == IF dies # {} THEN WithBag(w, w.bag + Cardinality(dies)) ELSE w
  IN  [v EXCEPT !.tick = t,
                !.foes = @ \ dies,
                !.offer = IF dies # {} THEN 2 ELSE @,
                !.open = t \in 1 .. 2,
                !.openTick = 1, !.closeTick = 3, !.perfect = {2},
                !.over = t = 3 /\ w.input = 0]

MCInput ==
  {[kind |-> "ManualTarget", value |-> 1], [kind |-> "ManualTarget", value |-> 0],
   [kind |-> "QteGrade", value |-> 2], [kind |-> "CardChoice", value |-> 1],
   [kind |-> "Craft", value |-> 0]}

(* The worlds that can be reached, whatever the order of inputs and ticks. *)
RECURSIVE Reach(_)
Reach(ws) ==
  LET more == {MCStepWorld(w) : w \in {v \in ws : v.tick < MaxTick /\ ~v.over}}
                \cup {AfterInput(p[1], p[2]) :
                        p \in {q \in ws \X MCInput : TakesInput(q[1], q[2])}}
  IN  IF more \subseteq ws THEN ws ELSE Reach(ws \cup more)

(* Damaged bytes: another world altogether, or the material of one enemy   *)
(* with its craftable bit lost.                                            *)
MCGarbled ==
  {MCStepWorld(MCStart),
   [MCStepWorld([MCStart EXCEPT !.manual = 1]) EXCEPT !.craftable = FALSE]}

MCWorld == Reach({MCStart} \cup MCGarbled)

(* The last of the sets is the total that differs by its tick or seed.     *)
MCDiffs ==
  {{}, {"hero", "total"}, {"rng", "entities", "total"}, {"total"}}

(* Three runs of ticks 0 to 2; and too little scratch, a negative number   *)
(* of ticks, no run.                                                       *)
MCArguments ==
  {[ticks |-> 2, runs |-> 3, scratch |-> 3], [ticks |-> 2, runs |-> 3, scratch |-> 2],
   [ticks |-> -1, runs |-> 3, scratch |-> 3], [ticks |-> 2, runs |-> 0, scratch |-> 3]}
=============================================================================
