----------------------------- MODULE Inventory -----------------------------
(* The inventory (core/include/dc/inventory.h) over recipe tables          *)
(* (item.h): a count per item type, and one cached bit per recipe index    *)
(* that says whether the recipe can be crafted now.  add, remove and craft *)
(* re-evaluate only the recipes that the table's reverse index lists for   *)
(* the items that changed; craft trusts the bit and does not look at the   *)
(* counts of its ingredients again.                                        *)
(*                                                                         *)
(* A table is named, and its data hash is the name: two tables never share *)
(* a hash here.  A recipe's ingredient list is the multiplicity of each    *)
(* item in it.                                                             *)
EXTENDS Integers

CONSTANTS Item,        \* item ids
          Index,       \* recipe indices, MAX_RECIPES of them
          Tables,      \* the recipe tables that were built
          ItemTypes,   \* [Tables -> SUBSET Item], the ids below itemTypeCount
          Recipes,     \* [Tables -> recipes by index]
          MAX_COUNT    \* the largest uint16 count

InRecipe(t, f) ==
  /\ f.result \in ItemTypes[t]
  /\ f.needs \in [Item -> 0 .. 3]
  /\ \A i \in Item \ ItemTypes[t] : f.needs[i] = 0
  /\ \E i \in Item : f.needs[i] \in 1 .. 3

(* What RecipeTable::build accepts.                                        *)
ASSUME InventoryAssumption ==
  /\ MAX_COUNT \in Nat \ {0}
  /\ \A t \in Tables :
       /\ ItemTypes[t] \subseteq Item
       /\ DOMAIN Recipes[t] \subseteq Index
       /\ \A r \in DOMAIN Recipes[t] : InRecipe(t, Recipes[t][r])

VARIABLES counts,      \* counts_
          craftable,   \* the indices whose bit is set in craftableBits_
          table        \* tableHash_

invVars == <<counts, craftable, table>>

(* The table argument of a call is the one the cache was built for.        *)
Matches(t) == t = table

(* A count stored back into its uint16.                                    *)
Narrow(x) == IF x < 0 THEN x + MAX_COUNT + 1 ELSE x

(* evaluate, past its check of the table.                                  *)
Evaluate(cnt, t, r) ==
  /\ r \in DOMAIN Recipes[t]
  /\ \A i \in Item : Recipes[t][r].needs[i] <= cnt[i]

(* mutant: a recipe is listed only for an item it takes two of.            *)
RecipesUsingPairs(t, i) == {r \in DOMAIN Recipes[t] : Recipes[t][r].needs[i] > 1}

(* The reverse index: the recipes of t with item i among the ingredients.  *)
RecipesUsing(t, i) == {r \in DOMAIN Recipes[t] : Recipes[t][r].needs[i] > 0}

(* refreshItem for each item that changed, on the counts after the change. *)
Refresh(t, items) ==
  LET touched == UNION {RecipesUsing(t, i) : i \in items}
  IN  craftable' = (craftable \ touched) \cup {r \in touched : Evaluate(counts', t, r)}

----------------------------------------------------------------------------
Init ==
  /\ counts = [i \in Item |-> 0]
  /\ craftable = {}
  /\ table \in Tables

(* add: the count must still fit.                                          *)
Add(t, i, n) ==
  /\ Matches(t) /\ i \in ItemTypes[t]
  /\ counts[i] + n <= MAX_COUNT
  /\ counts' = [counts EXCEPT ![i] = @ + n]
  /\ Refresh(t, {i})
  /\ UNCHANGED table

(* remove                                                                  *)
Remove(t, i, n) ==
  /\ Matches(t) /\ i \in ItemTypes[t]
  /\ n <= counts[i]
  /\ counts' = [counts EXCEPT ![i] = @ - n]
  /\ Refresh(t, {i})
  /\ UNCHANGED table

(* The ingredients of a recipe.                                            *)
Ingredients(recipe) == {i \in Item : recipe.needs[i] > 0}

(* mutant: an ingredient that is listed twice is taken once.               *)
CraftTakesOne(t, r) ==
  /\ Matches(t) /\ r \in DOMAIN Recipes[t]
  /\ r \in craftable
  /\ LET recipe == Recipes[t][r]
     IN  /\ counts[recipe.result] + 1 <= MAX_COUNT
         /\ counts' = [i \in Item |-> counts[i] - (IF recipe.needs[i] > 0 THEN 1 ELSE 0)
                                              + (IF i = recipe.result THEN 1 ELSE 0)]
         /\ Refresh(t, Ingredients(recipe) \cup {recipe.result})
  /\ UNCHANGED table

(* craft: the bit decides, and room for the result is checked before the   *)
(* ingredients go.                                                         *)
Craft(t, r) ==
  /\ Matches(t) /\ r \in DOMAIN Recipes[t]
  /\ r \in craftable
  /\ LET recipe == Recipes[t][r]
     IN  /\ counts[recipe.result] + 1 <= MAX_COUNT
         /\ counts' = [i \in Item |->
                         Narrow(counts[i] - recipe.needs[i] + (IF i = recipe.result THEN 1 ELSE 0))]
         /\ Refresh(t, Ingredients(recipe) \cup {recipe.result})
  /\ UNCHANGED table

(* rebuildCraftable: evaluate compares with the table known so far, which  *)
(* becomes t only after the loop.                                          *)
RebuildCraftable(t) ==
  /\ craftable' = {r \in DOMAIN Recipes[t] : Matches(t) /\ Evaluate(counts, t, r)}
  /\ table' = t
  /\ UNCHANGED counts

Next ==
  \E t \in Tables :
    \/ \E i \in Item, n \in 1 .. MAX_COUNT : Add(t, i, n) \/ Remove(t, i, n)
    \/ \E r \in Index : Craft(t, r)
    \/ RebuildCraftable(t)

Spec == Init /\ [][Next]_invVars

----------------------------------------------------------------------------
(* Counts fit their uint16 and only indices of the current table are set.  *)
TypeOK ==
  /\ counts \in [Item -> 0 .. MAX_COUNT]
  /\ table \in Tables
  /\ craftable \subseteq DOMAIN Recipes[table]

(* A set bit is never a lie: whatever craft() is allowed to do by the cache *)
(* the counts can pay for, also after a reload of the table.               *)
CraftableSound == \A r \in craftable : Evaluate(counts, table, r)

(* The cache is the evaluation of every recipe: no button is dead and none *)
(* is missing (inventory.h:138-139 promises it after a reload of the data). *)
CraftableExact == craftable = {r \in Index : Evaluate(counts, table, r)}

AllRecipes == UNION {{Recipes[t][r] : r \in DOMAIN Recipes[t]} : t \in Tables}

(* The inventory is a plain bag of items: a craft that goes through takes  *)
(* exactly its ingredients, none of which wraps below zero, for one result. *)
Bag == INSTANCE ItemBag WITH bag <- counts, Recipe <- AllRecipes
ImplementsBag == Bag!Spec
=============================================================================
