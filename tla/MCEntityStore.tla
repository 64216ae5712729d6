---------------------------- MODULE MCEntityStore ----------------------------
(* The entity store on three rows; two generations, so that two releases of a slot *)
(* wrap its generation and a retired handle is given out again.            *)
EXTENDS EntityStore

MCPayload == {0, 1}
=============================================================================
