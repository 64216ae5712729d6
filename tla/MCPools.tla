------------------------------ MODULE MCPools ------------------------------
(* A few places in each pool, an aftershock that ends before a burn and a    *)
(* fissure that were laid earlier.                                         *)
EXTENDS Pools, TLC

MCDuration == "Burn" :> 3 @@ "Aftershock" :> 1 @@ "Fissure" :> 2
=============================================================================
