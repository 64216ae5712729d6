--------------------------- MODULE MCRunProgress ---------------------------
(* Three segments, two elites of which the second comes with the boss, a   *)
(* store that is just large enough, and summons that can fill it.          *)
EXTENDS RunProgress

MCStart == [s \in 0 .. 2 |-> IF s = 0 THEN 0 ELSE IF s = 1 THEN 2 ELSE 4]
MCCap == [s \in 0 .. 2 |-> IF s = 0 THEN 1 ELSE 2]
MCBatch == [s \in 0 .. 2 |-> s + 1]
MCElites == [k \in 1 .. 2 |-> IF k = 1 THEN 1 ELSE 5]
=============================================================================
