------------------------------ MODULE ItemBag ------------------------------
(* What the inventory promises: a bag of items in which a recipe takes     *)
(* exactly its ingredients and leaves its result, and nothing happens in   *)
(* part.  There is no cache and no table to agree with.                    *)
EXTENDS Integers

CONSTANTS Item,       \* the item types
          Recipe,     \* a set of [result |-> item, needs |-> [Item -> Nat]]
          MAX_COUNT   \* how many items of one type the bag can hold

VARIABLE bag          \* [Item -> 0 .. MAX_COUNT]

Init == bag = [i \in Item |-> 0]

(* Items of one type arrive.                                               *)
Gain(i, n) ==
  /\ bag[i] + n <= MAX_COUNT
  /\ bag' = [bag EXCEPT ![i] = @ + n]

(* Items of one type leave.                                                *)
Lose(i, n) ==
  /\ n <= bag[i]
  /\ bag' = [bag EXCEPT ![i] = @ - n]

(* Every ingredient is there, all of them go, one result comes.            *)
Combine(r) ==
  /\ \A i \in Item : r.needs[i] <= bag[i]
  /\ bag[r.result] < MAX_COUNT
  /\ bag' = [i \in Item |-> bag[i] - r.needs[i] + (IF i = r.result THEN 1 ELSE 0)]

Next ==
  \/ \E i \in Item, n \in 1 .. MAX_COUNT : Gain(i, n) \/ Lose(i, n)
  \/ \E r \in Recipe : Combine(r)

Spec == Init /\ [][Next]_bag
=============================================================================
