---------------------------- MODULE EntityHandles ----------------------------
(***************************************************************************)
(* What the entity store promises its callers, with no slots, no rows and  *)
(* no compaction: a finite map from handles to entities.  A handle is      *)
(* given out once for an entity, keeps naming that entity and its fields   *)
(* while it lives, and stops resolving when the entity is reaped.          *)
(*                                                                         *)
(* EntityStore implements this specification; see its refinement mapping.  *)
(***************************************************************************)
EXTENDS Naturals

CONSTANTS
  Handle,     \* every handle a caller can hold
  Payload,    \* what the fields of an entity can be
  Serial      \* the numbers spawns are counted with

VARIABLES
  entity      \* a function from the handles that resolve to their entities

(* An entity: the number of the spawn that made it, its fields, and        *)
(* whether it was marked dead and waits for the end of the tick.           *)
Entity == [born : Serial, val : Payload, dead : BOOLEAN]

Init == entity = [h \in {} |-> [born |-> 0, val |-> 0, dead |-> FALSE]]

(* A handle that resolves to nothing now names a new entity, younger than  *)
(* all others; every other handle is untouched.                            *)
Spawn ==
  \E h \in Handle \ DOMAIN entity, n \in Serial, v \in Payload :
    /\ \A g \in DOMAIN entity : entity[g].born < n
    /\ entity' = [g \in DOMAIN entity \cup {h} |->
                    IF g = h THEN [born |-> n, val |-> v, dead |-> FALSE]
                             ELSE entity[g]]

(* A system writes the fields of one entity.                               *)
Write ==
  \E h \in DOMAIN entity, v \in Payload :
    entity' = [entity EXCEPT ![h].val = v]

(* A live entity is marked dead; it still resolves.                        *)
Kill ==
  \E h \in DOMAIN entity :
    /\ ~entity[h].dead
    /\ entity' = [entity EXCEPT ![h].dead = TRUE]

(* A dead entity stops resolving; nobody else notices.                     *)
Reap ==
  \E h \in DOMAIN entity :
    /\ entity[h].dead
    /\ entity' = [g \in DOMAIN entity \ {h} |-> entity[g]]

Next == Spawn \/ Write \/ Kill \/ Reap

Spec == Init /\ [][Next]_entity
=============================================================================
