----------------------------- MODULE CraftQuery -----------------------------
(* What the crafting screen is told (core/include/dc/craft_query.h): for   *)
(* each recipe its ingredients with how many are needed and held, what is  *)
(* missing, and by how much the stats would change.  Nothing here changes  *)
(* the inventory; the screen decides by it which button to offer, craft    *)
(* decides by its own cached bit.                                          *)
EXTENDS Items

(* mutant: each place of an ingredient that is listed twice is a kind of   *)
(* its own, for which one item is enough.                                  *)
NeededOfOne(recipe, i) == IF recipe.needs[i] > 0 THEN 1 ELSE 0

(* neededOf: how often a recipe lists an item.                             *)
NeededOf(recipe, i) == recipe.needs[i]

Short(recipe, cnt, i) == NeededOf(recipe, i) - cnt[i]

(* viewRecipe: an ingredient listed twice is one place with its number.    *)
ViewRecipe(t, cnt, r) ==
  LET recipe  == Recipes[t][r]
      places  == {i \in Item : NeededOf(recipe, i) > 0}
      missing == {i \in places : Short(recipe, cnt, i) > 0}
  IN  [recipeIndex  |-> r, result |-> recipe.result,
       ingredients  |-> {[item |-> i, need |-> NeededOf(recipe, i), have |-> cnt[i]] : i \in places},
       missingKinds |-> Cardinality(missing),
       missingTotal |-> MapThenSumSet(LAMBDA i : Short(recipe, cnt, i), missing)]

(* RecipeView::ready                                                       *)
ReadyView(view) == view.missingKinds = 0

(* craftStatDelta: what the result carries less what its ingredients do.   *)
CraftStatDelta(t, r, s) ==
  LET recipe == Recipes[t][r]
  IN  (IF recipe.result \in ItemTypes[t] THEN ItemStats[recipe.result][s] ELSE 0)
      - MapThenSumSet(LAMBDA i : ItemStats[i][s] * recipe.needs[i], ItemTypes[t])

(* viewRecipesUsing: what the screen shows of an item that is tapped, as   *)
(* far as there is room for it, in the order of the recipes.               *)
ViewRecipesUsing(t, cnt, i, outMax) ==
  LET using == RecipesUsing(t, i)
      first == {r \in using : Cardinality({q \in using : q < r}) < outMax}
  IN  {ViewRecipe(t, cnt, r) : r \in first}

----------------------------------------------------------------------------
More(cnt, d) == [i \in Item |-> cnt[i] + d[i]]
After(recipe) == [i \in Item |-> counts[i] - recipe.needs[i] + (IF i = recipe.result THEN 1 ELSE 0)]

(* The screen and the simulation agree, though each works it out for       *)
(* itself (craft_query.h: a button that does nothing when it is pressed):  *)
(* a recipe is shown as ready exactly if its bit is set, what is shown as  *)
(* missing is the least number of items that would make it ready, and the  *)
(* change of the stats is what the hero's items would add up to after the  *)
(* craft, less what they add up to now.                                    *)
ScreenTellsTheTruth ==
  \A i \in ItemTypes[table] : \A view \in ViewRecipesUsing(table, counts, i, Cardinality(Index)) :
    LET r == view.recipeIndex
        enough == {d \in [Item -> 0 .. 3] : Evaluate(More(counts, d), table, r)}
        number(d) == MapThenSumSet(LAMBDA j : d[j], Item)
    IN  /\ ReadyView(view) <=> r \in craftable
        /\ \E d \in enough : number(d) = view.missingTotal
        /\ \A d \in enough : number(d) >= view.missingTotal
        /\ r \in craftable => \A s \in Stat :
             CraftStatDelta(table, r, s) =
               HeldStat(After(Recipes[table][r]), s) - HeldStat(counts, s)
=============================================================================
