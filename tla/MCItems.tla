------------------------------ MODULE MCItems ------------------------------
(* Two commons, two recipes that share one of them, and a stat with the    *)
(* game's permille values, which round.                                    *)
EXTENDS CraftQuery, TLC

R(result, a, b, c) == [result |-> result, needs |-> "a" :> a @@ "b" :> b @@ "c" :> c]

MCItem == {"a", "b", "c"}
MCItemTypes == "t" :> MCItem
MCRecipes == "t" :> (1 :> R("b", 2, 0, 0) @@ 2 :> R("c", 1, 1, 0) @@ 3 :> R("c", 0, 2, 0))
MCItemStats ==
  "a" :> ("atk" :> 49 @@ "hp" :> 25) @@ "b" :> ("atk" :> 123 @@ "hp" :> -31) @@ "c" :> ("atk" :> 307 @@ "hp" :> 0)
MCItemSlowAura == "a" :> 0 @@ "b" :> 50 @@ "c" :> 80
=============================================================================
