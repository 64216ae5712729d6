----------------------------- MODULE MCTelegraph -----------------------------
(* A boss that alternates a plain and a telegraphed pattern, and an elite  *)
(* whose only attack is telegraphed; every time is as short as lets the    *)
(* windows, windups, cooldowns and stuns overlap.                          *)
EXTENDS Telegraph

MCPattern == <<<<[windup |-> 0, cooldown |-> 1], [windup |-> 2, cooldown |-> 1]>>,
               <<[windup |-> 2, cooldown |-> 1]>>>>
MCBoss    == {1}
=============================================================================
