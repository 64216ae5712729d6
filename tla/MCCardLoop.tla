----------------------------- MODULE MCCardLoop ------------------------------
(* A deck with two legends and pools that one screen uses up, and a queue  *)
(* that can overflow; one kill can pay for two levels, so that a screen    *)
(* can wait behind another.                                                *)
EXTENDS CardLoop

MCTotalExp == <<0, 1, 3, 4, 6>>
=============================================================================
