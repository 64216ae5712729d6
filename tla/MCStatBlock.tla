---------------------------- MODULE MCStatBlock ----------------------------
(* Two stats, two modifiers at a time, and a Fixed number with two binary  *)
(* places: products round, so that their order shows.                      *)
EXTENDS StatBlock, TLC

Threshold(a, b) == [kind |-> "CorruptionThreshold", paramA |-> a, paramB |-> b]
Until(t)        == [kind |-> "TimeWindow", paramA |-> t, paramB |-> 0]
Against(a)      == [kind |-> "TargetArchetype", paramA |-> a, paramB |-> 0]

MCStat == {"attack", "max"}
MCBase == "attack" :> 9 @@ "max" :> 10
MCMinValue == [s \in MCStat |-> 1]
MCMinPct == [s \in MCStat |-> -4]
MCAmount == <<-1, 3>>
MCCapacity == [mults |-> 1, overrides |-> 1, conditionals |-> 2]
MCConditions == {Threshold(600, 400), Until(1), Until(2), Against(1)}
MCAdditions == {<<"accumPctAdd", -5>>, <<"accumPctAdd", 5>>}
=============================================================================
