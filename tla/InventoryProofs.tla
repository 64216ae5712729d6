-------------------------- MODULE InventoryProofs --------------------------
(* Proofs about Inventory, Items and CraftQuery: the cache of craftable    *)
(* recipes tells the truth, crafting implements a plain bag, the hero's    *)
(* stats are those of the items held, and what the crafting screen shows   *)
(* is what the simulation does.                                            *)
EXTENDS CraftQuery, FiniteSetTheorems, WellFoundedInduction, TLAPS

(* A recipe with none of the changed items among its ingredients evaluates *)
(* as before: the reverse index loses nothing.                             *)
LEMMA EvaluateKept ==
  ASSUME NEW t \in Tables, NEW r \in DOMAIN Recipes[t],
         NEW S \in SUBSET Item,
         NEW cnt \in [Item -> 0 .. MAX_COUNT], NEW new \in [Item -> 0 .. MAX_COUNT],
         \A i \in Item \ S : new[i] = cnt[i],
         r \notin UNION {RecipesUsing(t, i) : i \in S},
         Evaluate(cnt, t, r)
  PROVE  Evaluate(new, t, r)
<1> DEFINE needs == Recipes[t][r].needs
<1>1. needs \in [Item -> 0 .. 3] /\ MAX_COUNT \in Nat
  BY InventoryAssumption DEF InRecipe
<1>2. ASSUME NEW i \in Item PROVE needs[i] <= new[i]
  <2>1. CASE i \in S
    <3>1. r \notin RecipesUsing(t, i)
      BY <2>1
    <3>2. ~(needs[i] > 0)
      BY <3>1 DEF RecipesUsing
    <3>3. needs[i] \in 0 .. 3 /\ new[i] \in 0 .. MAX_COUNT
      BY <1>1
    <3> QED BY <3>2, <3>3
  <2>2. CASE i \notin S
    BY <2>2 DEF Evaluate
  <2> QED BY <2>1, <2>2
<1> QED BY <1>2 DEF Evaluate

(* Refreshing the changed items keeps a truthful cache truthful.           *)
LEMMA RefreshSound ==
  ASSUME TypeOK, CraftableSound, counts' \in [Item -> 0 .. MAX_COUNT], UNCHANGED table,
         NEW S \in SUBSET Item, \A i \in Item \ S : counts'[i] = counts[i],
         Refresh(table, S)
  PROVE  CraftableSound' /\ craftable' \subseteq DOMAIN Recipes[table]
<1> DEFINE touched == UNION {RecipesUsing(table, i) : i \in S}
<1>1. craftable' = (craftable \ touched) \cup {r \in touched : Evaluate(counts', table, r)}
  BY DEF Refresh
<1>2. touched \subseteq DOMAIN Recipes[table]
  BY DEF RecipesUsing
<1>3. craftable \subseteq DOMAIN Recipes[table] /\ table \in Tables /\ counts \in [Item -> 0 .. MAX_COUNT]
  BY DEF TypeOK
<1>4. ASSUME NEW r \in craftable' PROVE Evaluate(counts', table, r)
  <2>1. CASE r \in touched
    BY <1>1, <2>1
  <2>2. CASE r \notin touched
    <3>1. r \in craftable /\ r \in DOMAIN Recipes[table]
      BY <1>1, <1>3, <2>2
    <3>2. Evaluate(counts, table, r)
      BY <3>1 DEF CraftableSound
    <3> QED BY <3>1, <3>2, <2>2, <1>3, EvaluateKept
  <2> QED BY <2>1, <2>2
<1> QED BY <1>1, <1>2, <1>3, <1>4 DEF CraftableSound

(* The same for an exact cache.                                            *)
LEMMA RefreshExact ==
  ASSUME TypeOK, CraftableExact, counts' \in [Item -> 0 .. MAX_COUNT], UNCHANGED table,
         NEW S \in SUBSET Item, \A i \in Item \ S : counts'[i] = counts[i],
         Refresh(table, S)
  PROVE  CraftableExact'
<1> DEFINE touched == UNION {RecipesUsing(table, i) : i \in S}
<1>1. craftable' = (craftable \ touched) \cup {r \in touched : Evaluate(counts', table, r)}
  BY DEF Refresh
<1>2. CraftableSound
  BY DEF CraftableSound, CraftableExact
<1>3. CraftableSound' /\ craftable' \subseteq DOMAIN Recipes[table]
  BY <1>2, RefreshSound
<1>4. DOMAIN Recipes[table] \subseteq Index /\ table \in Tables /\ counts \in [Item -> 0 .. MAX_COUNT]
  BY InventoryAssumption DEF TypeOK
<1>5. ASSUME NEW r \in Index, Evaluate(counts', table, r) PROVE r \in craftable'
  <2>1. r \in DOMAIN Recipes[table]
    BY <1>5 DEF Evaluate
  <2>2. CASE r \in touched
    BY <1>1, <1>5, <2>2
  <2>3. CASE r \notin touched
    <3>1. \A i \in Item \ S : counts[i] = counts'[i]
      OBVIOUS
    <3>2. Evaluate(counts, table, r)
      BY <2>1, <2>3, <3>1, <1>4, <1>5, EvaluateKept
    <3>3. r \in craftable
      BY <3>2 DEF CraftableExact
    <3> QED BY <1>1, <2>3, <3>3
  <2> QED BY <2>2, <2>3
<1> QED BY <1>3, <1>4, <1>5 DEF CraftableSound, CraftableExact

----------------------------------------------------------------------------
(* What a step of each operation does to the counts.                       *)
Changes(S) ==
  /\ counts' \in [Item -> 0 .. MAX_COUNT]
  /\ S \subseteq Item
  /\ \A i \in Item \ S : counts'[i] = counts[i]
  /\ Refresh(table, S)
  /\ UNCHANGED table

LEMMA AddChanges ==
  ASSUME TypeOK, NEW t \in Tables, NEW i \in Item, NEW n \in 1 .. MAX_COUNT, Add(t, i, n)
  PROVE  Changes({i})
<1>1. counts \in [Item -> 0 .. MAX_COUNT] /\ MAX_COUNT \in Nat
  BY InventoryAssumption DEF TypeOK
<1>2. counts' = [counts EXCEPT ![i] = @ + n] /\ counts[i] + n <= MAX_COUNT /\ t = table
      /\ Refresh(t, {i}) /\ table' = table
  BY DEF Add, Matches
<1>3. counts[i] + n \in 0 .. MAX_COUNT
  BY <1>1, <1>2
<1> QED BY <1>1, <1>2, <1>3 DEF Changes

LEMMA RemoveChanges ==
  ASSUME TypeOK, NEW t \in Tables, NEW i \in Item, NEW n \in 1 .. MAX_COUNT, Remove(t, i, n)
  PROVE  Changes({i})
<1>1. counts \in [Item -> 0 .. MAX_COUNT] /\ MAX_COUNT \in Nat
  BY InventoryAssumption DEF TypeOK
<1>2. counts' = [counts EXCEPT ![i] = @ - n] /\ n <= counts[i] /\ t = table
      /\ Refresh(t, {i}) /\ table' = table
  BY DEF Remove, Matches
<1>3. counts[i] - n \in 0 .. MAX_COUNT
  BY <1>1, <1>2
<1> QED BY <1>1, <1>2, <1>3 DEF Changes

(* A truthful bit means that no ingredient wraps below zero.               *)
LEMMA CraftPays ==
  ASSUME TypeOK, CraftableSound, NEW t \in Tables, NEW r \in Index, Craft(t, r)
  PROVE  /\ r \in DOMAIN Recipes[t]
         /\ Recipes[t][r].result \in Item /\ counts[Recipes[t][r].result] < MAX_COUNT
         /\ \A i \in Item : Recipes[t][r].needs[i] <= counts[i]
         /\ counts' = [i \in Item |-> counts[i] - Recipes[t][r].needs[i]
                                        + (IF i = Recipes[t][r].result THEN 1 ELSE 0)]
         /\ Changes(Ingredients(Recipes[t][r]) \cup {Recipes[t][r].result})
<1> DEFINE recipe == Recipes[t][r]
           left(i) == counts[i] - recipe.needs[i] + (IF i = recipe.result THEN 1 ELSE 0)
<1>1. counts \in [Item -> 0 .. MAX_COUNT] /\ MAX_COUNT \in Nat
  BY InventoryAssumption DEF TypeOK
<1>2. /\ r \in DOMAIN Recipes[t] /\ r \in craftable /\ t = table /\ table' = table
      /\ counts[recipe.result] + 1 <= MAX_COUNT
      /\ counts' = [i \in Item |-> Narrow(left(i))]
      /\ Refresh(t, Ingredients(recipe) \cup {recipe.result})
  BY DEF Craft, Matches
<1>3. recipe.result \in Item /\ recipe.needs \in [Item -> 0 .. 3]
  BY <1>2, InventoryAssumption DEF InRecipe
<1>4. \A i \in Item : recipe.needs[i] <= counts[i]
  BY <1>2 DEF CraftableSound, Evaluate
<1>5. counts[recipe.result] < MAX_COUNT
  BY <1>1, <1>2, <1>3
<1>6. ASSUME NEW i \in Item PROVE left(i) \in 0 .. MAX_COUNT /\ Narrow(left(i)) = left(i)
  <2>1. /\ counts[i] \in 0 .. MAX_COUNT /\ recipe.needs[i] \in 0 .. 3
        /\ recipe.needs[i] <= counts[i]
        /\ (i = recipe.result => counts[i] < MAX_COUNT)
    BY <1>1, <1>3, <1>4, <1>5
  <2>2. left(i) \in 0 .. MAX_COUNT
    BY <2>1, <1>1
  <2> QED BY <2>2, <1>1 DEF Narrow
<1>7. counts' = [i \in Item |-> left(i)]
  BY <1>2, <1>6
<1>8. counts' \in [Item -> 0 .. MAX_COUNT]
  BY <1>6, <1>7
<1>9. Ingredients(recipe) \cup {recipe.result} \subseteq Item
  BY <1>3 DEF Ingredients
<1>10. ASSUME NEW i \in Item \ (Ingredients(recipe) \cup {recipe.result}) PROVE counts'[i] = counts[i]
  <2>1. i # recipe.result /\ ~(recipe.needs[i] > 0)
    BY DEF Ingredients
  <2>2. recipe.needs[i] = 0
    BY <2>1, <1>3
  <2>3. counts'[i] = counts[i] - recipe.needs[i] + 0
    BY <1>7, <2>1
  <2> QED BY <2>2, <2>3, <1>1
<1>11. Changes(Ingredients(recipe) \cup {recipe.result})
  BY <1>2, <1>8, <1>9, <1>10 DEF Changes
<1> HIDE DEF recipe
<1> QED BY <1>2, <1>3, <1>4, <1>5, <1>7, <1>11 DEF recipe
----------------------------------------------------------------------------
(* The cache starts truthful, and every operation keeps it so.             *)
LEMMA InitTruthful == Init => TypeOK /\ CraftableSound
<1> SUFFICES ASSUME Init PROVE TypeOK /\ CraftableSound
  OBVIOUS
<1>1. MAX_COUNT \in Nat
  BY InventoryAssumption
<1> QED BY <1>1 DEF Init, TypeOK, CraftableSound

LEMMA NextTruthful == TypeOK /\ CraftableSound /\ [Next]_invVars => TypeOK' /\ CraftableSound'
<1> SUFFICES ASSUME TypeOK, CraftableSound, [Next]_invVars PROVE TypeOK' /\ CraftableSound'
  OBVIOUS
<1>1. ASSUME NEW S, Changes(S) PROVE TypeOK' /\ CraftableSound'
  <2>1. CraftableSound' /\ craftable' \subseteq DOMAIN Recipes[table]
    BY <1>1, RefreshSound DEF Changes
  <2> QED BY <1>1, <2>1 DEF Changes, TypeOK
<1>2. ASSUME NEW t \in Tables, NEW i \in Item, NEW n \in 1 .. MAX_COUNT, Add(t, i, n)
      PROVE  TypeOK' /\ CraftableSound'
  BY <1>1, <1>2, AddChanges
<1>3. ASSUME NEW t \in Tables, NEW i \in Item, NEW n \in 1 .. MAX_COUNT, Remove(t, i, n)
      PROVE  TypeOK' /\ CraftableSound'
  BY <1>1, <1>3, RemoveChanges
<1>4. ASSUME NEW t \in Tables, NEW r \in Index, Craft(t, r)
      PROVE  TypeOK' /\ CraftableSound'
  BY <1>1, <1>4, CraftPays
<1>5. ASSUME NEW t \in Tables, RebuildCraftable(t)
      PROVE  TypeOK' /\ CraftableSound'
  BY <1>5 DEF RebuildCraftable, Matches, TypeOK, CraftableSound
<1>6. CASE UNCHANGED invVars
  BY <1>6 DEF invVars, TypeOK, CraftableSound, Evaluate
<1> QED BY <1>2, <1>3, <1>4, <1>5, <1>6 DEF Next

(* Counts fit their uint16 in every behaviour, also through reloads.       *)
THEOREM InventoryTypeOK == Spec => []TypeOK
<1>1. Spec => [](TypeOK /\ CraftableSound)
  BY InitTruthful, NextTruthful, PTL DEF Spec
<1> QED BY <1>1, PTL

(* A set bit is always backed by the counts: craft(), which looks only at  *)
(* the bit, never takes an ingredient that is not there.                   *)
THEOREM InventoryCraftableSound == Spec => []CraftableSound
<1>1. Spec => [](TypeOK /\ CraftableSound)
  BY InitTruthful, NextTruthful, PTL DEF Spec
<1> QED BY <1>1, PTL

(* Every step of the inventory, cache and tables aside, is a step of the   *)
(* plain bag of items.                                                     *)
THEOREM InventoryImplementsBag == Spec => ImplementsBag
<1>1. Init => Bag!Init
  BY DEF Init, Bag!Init
<1>2. TypeOK /\ CraftableSound /\ [Next]_invVars => [Bag!Next]_counts
  <2> SUFFICES ASSUME TypeOK, CraftableSound, [Next]_invVars PROVE [Bag!Next]_counts
    OBVIOUS
  <2>1. ASSUME NEW t \in Tables, NEW i \in Item, NEW n \in 1 .. MAX_COUNT, Add(t, i, n)
        PROVE  Bag!Next
    <3>1. Bag!Gain(i, n)
      BY <2>1 DEF Add, Bag!Gain
    <3> QED BY <3>1 DEF Bag!Next
  <2>2. ASSUME NEW t \in Tables, NEW i \in Item, NEW n \in 1 .. MAX_COUNT, Remove(t, i, n)
        PROVE  Bag!Next
    <3>1. Bag!Lose(i, n)
      BY <2>2 DEF Remove, Bag!Lose
    <3> QED BY <3>1 DEF Bag!Next
  <2>3. ASSUME NEW t \in Tables, NEW r \in Index, Craft(t, r)
        PROVE  Bag!Next
    <3>1. Recipes[t][r] \in AllRecipes
      <4>1. r \in DOMAIN Recipes[t]
        BY <2>3, CraftPays
      <4>2. Recipes[t][r] \in {Recipes[t][q] : q \in DOMAIN Recipes[t]}
        BY <4>1
      <4> QED BY <4>2 DEF AllRecipes
    <3>2. Bag!Combine(Recipes[t][r])
      BY <2>3, CraftPays DEF Bag!Combine
    <3> QED BY <3>1, <3>2 DEF Bag!Next
  <2>4. ASSUME NEW t \in Tables, RebuildCraftable(t)
        PROVE  UNCHANGED counts
    BY <2>4 DEF RebuildCraftable
  <2>5. CASE UNCHANGED invVars
    BY <2>5 DEF invVars
  <2> QED BY <2>1, <2>2, <2>3, <2>4, <2>5 DEF Next
<1>3. Spec => [](TypeOK /\ CraftableSound)
  BY InitTruthful, NextTruthful, PTL DEF Spec
<1> QED BY <1>1, <1>2, <1>3, PTL DEF Spec, ImplementsBag, Bag!Spec

----------------------------------------------------------------------------
(* Every set of numbers that is not empty has a least one.                 *)
LEMMA LeastNatural ==
  ASSUME NEW T \in SUBSET Nat, T # {}
  PROVE  \E x \in T : \A y \in T : x <= y
<1>1. PICK x \in T : \A y \in T : ~ (<<y, x>> \in OpToRel(<, Nat))
  BY WFMin, NatLessThanWellFounded, Zenon
<1>2. ASSUME NEW y \in T PROVE x <= y
  <2>1. <<y, x>> \in Nat \X Nat /\ ~(<<y, x>> \in {ss \in Nat \X Nat : ss[1] < ss[2]})
    BY <1>1 DEF OpToRel
  <2> QED  BY <2>1
<1> QED  BY <1>2

(* Induction over a set of numbers.                                        *)
LEMMA SetInduction ==
  ASSUME NEW T, NEW n \in Nat, 0 \in T, \A k \in 0 .. n - 1 : k \in T => k + 1 \in T
  PROVE  \A k \in 0 .. n : k \in T
<1> DEFINE out == {k \in 0 .. n : k \notin T}
<1> SUFFICES ASSUME out # {} PROVE FALSE
  OBVIOUS
<1>0. out \in SUBSET Nat
  OBVIOUS
<1>1. PICK x \in out : \A y \in out : x <= y
  <2> HIDE DEF out
  <2> QED  BY <1>0, LeastNatural
<1>2. x # 0 /\ x \in Nat /\ x <= n
  BY <1>1
<1>3. x - 1 \in 0 .. n - 1 /\ x - 1 \in T
  BY <1>1, <1>2
<1> QED  BY <1>1, <1>2, <1>3

(* The sum of a function's values, and the function of sets it is made by. *)
SumIter(f, S) ==
  CHOOSE g : g = [s \in SUBSET S |-> IF s = {} THEN 0
                                     ELSE f[CHOOSE x \in s : TRUE] + g[s \ {CHOOSE x \in s : TRUE}]]

(* The recursive definition of the sum has the values it says.             *)
LEMMA SumExists ==
  ASSUME NEW S, IsFiniteSet(S), NEW f \in [S -> Int]
  PROVE  /\ SumIter(f, S) \in [SUBSET S -> Int]
         /\ \A s \in SUBSET S :
              SumIter(f, S)[s] = IF s = {} THEN 0
                                 ELSE f[CHOOSE x \in s : TRUE] + SumIter(f, S)[s \ {CHOOSE x \in s : TRUE}]
<1> DEFINE All == SUBSET S
           some(s) == CHOOSE x \in s : TRUE
           step(g, s) == IF s = {} THEN 0 ELSE f[some(s)] + g[s \ {some(s)}]
           n == Cardinality(S)
           T == {m \in 0 .. n : \E g \in [All -> Int] :
                                  \A s \in All : Cardinality(s) <= m => g[s] = step(g, s)}
<1>0. n \in Nat /\ \A s \in All : IsFiniteSet(s) /\ Cardinality(s) \in 0 .. n
  BY FS_CardinalityType, FS_Subset
<1>1. \A s \in All : s # {} => /\ some(s) \in s /\ some(s) \in S /\ s \ {some(s)} \in All
                              /\ Cardinality(s \ {some(s)}) = Cardinality(s) - 1
  BY <1>0, FS_RemoveElement
<1>2. 0 \in T
  <2>1. [s \in All |-> 0] \in [All -> Int]
    OBVIOUS
  <2>2. \A s \in All : Cardinality(s) <= 0 => s = {}
    BY <1>0, FS_EmptySet
  <2>3. \A s \in All : Cardinality(s) <= 0 => [t \in All |-> 0][s] = step([t \in All |-> 0], s)
    BY <2>2
  <2> HIDE DEF All, step, n
  <2> QED  BY <2>1, <2>3, <1>0
<1> HIDE DEF some
<1>3. ASSUME NEW m \in 0 .. n - 1, m \in T PROVE m + 1 \in T
  <2>1. PICK g \in [All -> Int] : \A s \in All : Cardinality(s) <= m => g[s] = step(g, s)
    BY <1>3
  <2> DEFINE h == [s \in All |-> IF Cardinality(s) <= m THEN g[s] ELSE f[some(s)] + g[s \ {some(s)}]]
  <2>2. h \in [All -> Int]
    <3>1. ASSUME NEW s \in All, ~(Cardinality(s) <= m) PROVE f[some(s)] + g[s \ {some(s)}] \in Int
      <4>1. s # {}
        BY <3>1, <1>0, FS_EmptySet
      <4>2. some(s) \in S /\ s \ {some(s)} \in All
        BY <4>1, <1>1
      <4>3. f[some(s)] \in Int /\ g[s \ {some(s)}] \in Int
        BY <4>2
      <4> QED  BY <4>3
    <3> QED  BY <3>1
  <2>3. ASSUME NEW s \in All, Cardinality(s) <= m + 1 PROVE h[s] = step(h, s)
    <3>1. CASE s = {}
      <4>1. Cardinality(s) <= m /\ h[s] = g[s] /\ g[s] = 0
        BY <3>1, <2>1, FS_EmptySet
      <4> QED  BY <4>1, <3>1
    <3>2. CASE s # {}
      <4>0. Cardinality(s \ {some(s)}) = Cardinality(s) - 1 /\ Cardinality(s) \in Nat
        BY <3>2, <1>0, <1>1
      <4>1. s \ {some(s)} \in All /\ Cardinality(s \ {some(s)}) <= m
        BY <3>2, <1>1, <4>0, <2>3, <1>0
      <4>2. h[s \ {some(s)}] = g[s \ {some(s)}]
        BY <4>1
      <4>3. h[s] = f[some(s)] + g[s \ {some(s)}]
        BY <2>1, <3>2
      <4> QED  BY <3>2, <4>2, <4>3
    <3> QED  BY <3>1, <3>2
  <2> HIDE DEF h, step, All
  <2>4. m + 1 \in 0 .. n
    BY <1>0
  <2> QED  BY <2>2, <2>3, <2>4
<1>4. n \in T
  <2> HIDE DEF T
  <2> QED  BY <1>0, <1>2, <1>3, SetInduction
<1>5. PICK g \in [All -> Int] : \A s \in All : g[s] = step(g, s)
  <2>1. PICK g \in [All -> Int] : \A s \in All : Cardinality(s) <= n => g[s] = step(g, s)
    BY <1>4
  <2> HIDE DEF step, All
  <2> QED  BY <2>1, <1>0
<1>6. g = [s \in All |-> step(g, s)]
  BY <1>5
<1>7. SumIter(f, S) = [s \in All |-> step(SumIter(f, S), s)]
  BY <1>6, Zenon DEF SumIter, some
<1> DEFINE G == SumIter(f, S)
<1>8. \A s \in All : G[s] = step(G, s)
  BY <1>7
<1>9. ASSUME NEW s \in All PROVE G[s] \in Int
  <2> DEFINE U == {m \in 0 .. n : \A t \in All : Cardinality(t) <= m => G[t] \in Int}
  <2>1. 0 \in U
    <3>1. \A t \in All : Cardinality(t) <= 0 => t = {}
      BY <1>0, FS_EmptySet
    <3>2. \A t \in All : t = {} => G[t] = 0
      BY <1>8
    <3> HIDE DEF G, All
    <3> QED  BY <3>1, <3>2, <1>0
  <2>2. ASSUME NEW m \in 0 .. n - 1, m \in U PROVE m + 1 \in U
    <3>1. ASSUME NEW t \in All, Cardinality(t) <= m + 1 PROVE G[t] \in Int
      <4>0. G[t] = step(G, t)
        BY <1>8
      <4> HIDE DEF G
      <4>1. CASE t = {}
        BY <4>1, <4>0
      <4>2. CASE t # {}
        <5>1. t \ {some(t)} \in All /\ Cardinality(t \ {some(t)}) <= m /\ some(t) \in S
          BY <4>2, <1>0, <1>1, <3>1
        <5>2. G[t \ {some(t)}] \in Int
          BY <5>1, <2>2
        <5>3. G[t] = f[some(t)] + G[t \ {some(t)}]
          BY <4>2, <4>0
        <5>4. f[some(t)] \in Int
          BY <5>1
        <5> QED  BY <5>2, <5>3, <5>4
      <4> QED  BY <4>1, <4>2
    <3> HIDE DEF G, All
    <3> QED  BY <3>1, <1>0
  <2>3. n \in U
    <3> HIDE DEF U
    <3> QED  BY <2>1, <2>2, <1>0, SetInduction
  <2> QED  BY <2>3, <1>0
<1>10. G \in [All -> Int]
  <2> HIDE DEF G, step
  <2>1. G = [s \in All |-> step(G, s)]
    BY <1>7 DEF G
  <2>2. \A s \in All : step(G, s) \in Int
    BY <1>8, <1>9
  <2> HIDE DEF All
  <2> QED  BY <2>1, <2>2
<1> QED  BY <1>10, <1>8 DEF some

(* Induction over the subsets of a finite set.                             *)
LEMMA SubsetInduction ==
  ASSUME NEW S, IsFiniteSet(S), NEW T,
         \A s \in SUBSET S : (\A x \in s : s \ {x} \in T) => s \in T
  PROVE  \A s \in SUBSET S : s \in T
<1> DEFINE n == Cardinality(S)
           U == {m \in 0 .. n : \A s \in SUBSET S : Cardinality(s) <= m => s \in T}
<1>1. n \in Nat /\ \A s \in SUBSET S : IsFiniteSet(s) /\ Cardinality(s) \in 0 .. n
  BY FS_CardinalityType, FS_Subset
<1>2. 0 \in U
  <2>1. \A s \in SUBSET S : Cardinality(s) <= 0 => s = {}
    BY <1>1, FS_EmptySet
  <2>2. {} \in T
    OBVIOUS
  <2> HIDE DEF n
  <2> QED  BY <1>1, <2>1, <2>2
<1>3. \A m \in 0 .. n - 1 : m \in U => m + 1 \in U
  <2>1. ASSUME NEW m \in 0 .. n - 1, m \in U, NEW s \in SUBSET S, Cardinality(s) <= m + 1
        PROVE  s \in T
    <3>1. ASSUME NEW x \in s PROVE s \ {x} \in T
      <4>1. Cardinality(s \ {x}) = Cardinality(s) - 1
        BY <1>1, FS_RemoveElement
      <4>2. Cardinality(s \ {x}) <= m
        BY <1>1, <2>1, <4>1
      <4> QED  BY <2>1, <4>2
    <3> QED  BY <3>1
  <2> HIDE DEF n
  <2> QED  BY <1>1, <2>1
<1>4. n \in U
  <2> HIDE DEF U
  <2>1. \A m \in 0 .. n : m \in U
    BY <1>1, <1>2, <1>3, SetInduction
  <2> QED  BY <1>1, <2>1
<1> QED  BY <1>1, <1>4

(* The sum takes any element apart, not only the one that is chosen.       *)
AddsUp(F, f, S) ==
  /\ F \in [SUBSET S -> Int] /\ F[{}] = 0
  /\ \A s \in SUBSET S : \A x \in s : F[s] = F[s \ {x}] + f[x]

LEMMA SumAddsUp ==
  ASSUME NEW S, IsFiniteSet(S), NEW f \in [S -> Int]
  PROVE  AddsUp(SumIter(f, S), f, S)
<1> DEFINE some(s) == CHOOSE x \in s : TRUE
<1>1. PICK F : F = SumIter(f, S)
  OBVIOUS
<1>2. /\ F \in [SUBSET S -> Int]
      /\ \A s \in SUBSET S : F[s] = IF s = {} THEN 0 ELSE f[some(s)] + F[s \ {some(s)}]
  <2>1. /\ SumIter(f, S) \in [SUBSET S -> Int]
        /\ \A s \in SUBSET S :
             SumIter(f, S)[s] = IF s = {} THEN 0 ELSE f[some(s)] + SumIter(f, S)[s \ {some(s)}]
    BY SumExists
  <2> HIDE DEF some
  <2> QED  BY <1>1, <2>1, Zenon
<1>3. \A s \in SUBSET S : s # {} => some(s) \in s
  OBVIOUS
<1> HIDE DEF some
<1> DEFINE T == {s \in SUBSET S : \A x \in s : F[s] = F[s \ {x}] + f[x]}
<1>4. ASSUME NEW s \in SUBSET S, \A x \in s : s \ {x} \in T, NEW x \in s
      PROVE  F[s] = F[s \ {x}] + f[x]
  <2>1. PICK y \in s : y = some(s)
    BY <1>3
  <2>2. F[s] = f[y] + F[s \ {y}]
    BY <1>2, <2>1
  <2>3. f[x] \in Int /\ f[y] \in Int /\ \A t \in SUBSET S : F[t] \in Int
    BY <1>2
  <2>4. CASE x = y
    <3>1. s \ {y} \in SUBSET S
      OBVIOUS
    <3>2. F[s \ {y}] \in Int
      BY <2>3, <3>1
    <3> QED  BY <2>2, <2>3, <2>4, <3>2
  <2>5. CASE x # y
    <3>1. F[s \ {x}] = F[(s \ {x}) \ {y}] + f[y] /\ F[s \ {y}] = F[(s \ {y}) \ {x}] + f[x]
      BY <1>4, <2>5
    <3>2. (s \ {x}) \ {y} = (s \ {y}) \ {x} /\ (s \ {x}) \ {y} \in SUBSET S
      OBVIOUS
    <3>3. PICK z \in Int : z = F[(s \ {x}) \ {y}]
      BY <2>3, <3>2
    <3>4. F[s] = f[y] + (z + f[x]) /\ F[s \ {x}] = z + f[y]
      BY <2>2, <3>1, <3>2, <3>3
    <3> QED  BY <2>3, <3>3, <3>4
  <2> QED  BY <2>4, <2>5
<1>5. \A s \in SUBSET S : (\A x \in s : s \ {x} \in T) => s \in T
  BY <1>4
<1>6. \A s \in SUBSET S : s \in T
  <2> HIDE DEF T
  <2> QED  BY <1>5, SubsetInduction
<1>7. F[{}] = 0
  BY <1>2
<1> QED  BY <1>1, <1>2, <1>6, <1>7 DEF AddsUp

(* The sum of f over all of S.                                             *)
Total(f, S) == SumIter(f, S)[S]

LEMMA TotalInt ==
  ASSUME NEW S, IsFiniteSet(S), NEW f \in [S -> Int]
  PROVE  Total(f, S) \in Int
<1>1. AddsUp(SumIter(f, S), f, S)
  BY SumAddsUp
<1> QED  BY <1>1 DEF AddsUp, Total

(* Sums are added value by value ...                                       *)
LEMMA TotalOfSum ==
  ASSUME NEW S, IsFiniteSet(S), NEW f \in [S -> Int], NEW g \in [S -> Int], NEW h \in [S -> Int],
         \A x \in S : h[x] = f[x] + g[x]
  PROVE  Total(h, S) = Total(f, S) + Total(g, S)
<1>1. PICK F, G, H : F = SumIter(f, S) /\ G = SumIter(g, S) /\ H = SumIter(h, S)
  OBVIOUS
<1>2. AddsUp(F, f, S) /\ AddsUp(G, g, S) /\ AddsUp(H, h, S)
  BY <1>1, SumAddsUp
<1> DEFINE T == {s \in SUBSET S : H[s] = F[s] + G[s]}
<1>3. ASSUME NEW s \in SUBSET S, \A x \in s : s \ {x} \in T
      PROVE  s \in T
  <2>1. CASE s = {}
    BY <1>2, <2>1 DEF AddsUp
  <2>2. CASE s # {}
    <3>1. PICK x \in s : s \ {x} \in SUBSET S
      BY <2>2
    <3>2. /\ F[s] = F[s \ {x}] + f[x] /\ G[s] = G[s \ {x}] + g[x] /\ H[s] = H[s \ {x}] + h[x]
          /\ F[s \ {x}] \in Int /\ G[s \ {x}] \in Int
      BY <1>2, <3>1 DEF AddsUp
    <3>3. H[s \ {x}] = F[s \ {x}] + G[s \ {x}]
      BY <1>3
    <3>4. f[x] \in Int /\ g[x] \in Int /\ h[x] = f[x] + g[x]
      OBVIOUS
    <3>5. H[s] = F[s] + G[s]
      BY <3>2, <3>3, <3>4
    <3> QED  BY <3>5
  <2> QED  BY <2>1, <2>2
<1>4. \A s \in SUBSET S : s \in T
  <2> HIDE DEF T
  <2> QED  BY <1>3, SubsetInduction
<1> QED  BY <1>1, <1>4 DEF Total

(* ... they keep an order of all values ...                                *)
LEMMA TotalGrows ==
  ASSUME NEW S, IsFiniteSet(S), NEW f \in [S -> Int], NEW g \in [S -> Int], \A x \in S : f[x] <= g[x]
  PROVE  Total(f, S) <= Total(g, S)
<1>1. PICK F, G : F = SumIter(f, S) /\ G = SumIter(g, S)
  OBVIOUS
<1>2. AddsUp(F, f, S) /\ AddsUp(G, g, S)
  BY <1>1, SumAddsUp
<1> DEFINE T == {s \in SUBSET S : F[s] <= G[s]}
<1>3. ASSUME NEW s \in SUBSET S, \A x \in s : s \ {x} \in T
      PROVE  s \in T
  <2>1. CASE s = {}
    BY <1>2, <2>1 DEF AddsUp
  <2>2. CASE s # {}
    <3>1. PICK x \in s : s \ {x} \in SUBSET S
      BY <2>2
    <3>2. /\ F[s] = F[s \ {x}] + f[x] /\ G[s] = G[s \ {x}] + g[x]
          /\ F[s \ {x}] \in Int /\ G[s \ {x}] \in Int
      BY <1>2, <3>1 DEF AddsUp
    <3>3. F[s \ {x}] <= G[s \ {x}]
      BY <1>3
    <3>4. f[x] \in Int /\ g[x] \in Int /\ f[x] <= g[x]
      OBVIOUS
    <3>5. F[s] <= G[s]
      BY <3>2, <3>3, <3>4
    <3> QED  BY <3>5
  <2> QED  BY <2>1, <2>2
<1>4. \A s \in SUBSET S : s \in T
  <2> HIDE DEF T
  <2> QED  BY <1>3, SubsetInduction
<1> QED  BY <1>1, <1>4 DEF Total

(* ... zeros do not count, nor does what is outside of a smaller set.      *)
LEMMA TotalOfPart ==
  ASSUME NEW S, IsFiniteSet(S), NEW P \in SUBSET S, NEW f \in [S -> Int], NEW g \in [P -> Int],
         \A x \in S : f[x] = IF x \in P THEN g[x] ELSE 0
  PROVE  Total(f, S) = Total(g, P)
<1>1. PICK F, G : F = SumIter(f, S) /\ G = SumIter(g, P)
  OBVIOUS
<1>2. AddsUp(F, f, S) /\ AddsUp(G, g, P)
  <2>1. IsFiniteSet(P)
    BY FS_Subset
  <2> QED  BY <1>1, <2>1, SumAddsUp
<1> DEFINE T == {s \in SUBSET S : F[s] = G[s \cap P]}
<1>3. ASSUME NEW s \in SUBSET S, \A x \in s : s \ {x} \in T
      PROVE  s \in T
  <2>1. CASE s = {}
    <3>1. s \cap P = {}
      BY <2>1
    <3> QED  BY <1>2, <2>1, <3>1 DEF AddsUp
  <2>2. CASE s # {}
    <3>1. PICK x \in s : s \ {x} \in SUBSET S
      BY <2>2
    <3>2. F[s] = F[s \ {x}] + f[x] /\ F[s \ {x}] \in Int
      BY <1>2, <3>1 DEF AddsUp
    <3>3. F[s \ {x}] = G[(s \ {x}) \cap P]
      BY <1>3
    <3>4. CASE x \in P
      <4>1. s \cap P \in SUBSET P /\ x \in s \cap P /\ (s \ {x}) \cap P = (s \cap P) \ {x}
        BY <3>4
      <4>2. G[s \cap P] = G[(s \cap P) \ {x}] + g[x]
        BY <1>2, <4>1 DEF AddsUp
      <4>3. f[x] = g[x]
        BY <3>4
      <4> QED  BY <3>2, <3>3, <4>1, <4>2, <4>3
    <3>5. CASE x \notin P
      <4>1. (s \ {x}) \cap P = s \cap P /\ f[x] = 0
        BY <3>5
      <4> QED  BY <3>2, <3>3, <4>1
    <3> QED  BY <3>4, <3>5
  <2> QED  BY <2>1, <2>2
<1>4. \A s \in SUBSET S : s \in T
  <2> HIDE DEF T
  <2> QED  BY <1>3, SubsetInduction
<1>5. S \cap P = P
  OBVIOUS
<1> QED  BY <1>1, <1>4, <1>5 DEF Total

(* The sum of a single value is the value.                                 *)
LEMMA TotalOfOne ==
  ASSUME NEW S, IsFiniteSet(S), NEW e \in S, NEW v \in Int
  PROVE  Total([x \in S |-> IF x = e THEN v ELSE 0], S) = v
<1>1. PICK f : f = [x \in S |-> IF x = e THEN v ELSE 0]
  OBVIOUS
<1>2. PICK g : g = [x \in {e} |-> v]
  OBVIOUS
<1>3. f \in [S -> Int] /\ g \in [{e} -> Int] /\ IsFiniteSet({e})
  <2>1. IsFiniteSet({e})
    BY FS_Singleton
  <2>2. f \in [S -> Int] /\ g \in [{e} -> Int]
    BY <1>1, <1>2
  <2> QED  BY <2>1, <2>2
<1>4. Total(f, S) = Total(g, {e})
  <2>1. \A x \in S : f[x] = IF x \in {e} THEN g[x] ELSE 0
    BY <1>1, <1>2
  <2>2. {e} \in SUBSET S
    OBVIOUS
  <2> QED  BY <1>3, <2>1, <2>2, TotalOfPart
<1>5. Total(g, {e}) = v
  <2>1. PICK G : G = SumIter(g, {e})
    OBVIOUS
  <2>2. AddsUp(G, g, {e})
    BY <1>3, <2>1, SumAddsUp
  <2>3. G[{e}] = G[{e} \ {e}] + g[e] /\ G[{}] = 0 /\ {e} \ {e} = {}
    BY <2>2 DEF AddsUp
  <2> QED  BY <1>2, <2>1, <2>3 DEF Total
<1> QED  BY <1>1, <1>4, <1>5

(* The equation by which the folds of the library define a sum.            *)
SumEquation(G, f, S) ==
  G = [s \in SUBSET S |-> IF s = {} THEN 0
                          ELSE f[CHOOSE x \in s : TRUE] + G[s \ {CHOOSE x \in s : TRUE}]]

(* Whatever satisfies the equation of the sum is the sum.                  *)
LEMMA EquationIsTotal ==
  ASSUME NEW S, IsFiniteSet(S), NEW f \in [S -> Int], NEW G,
         SumEquation(G, f, S)
  PROVE  G[S] = Total(f, S)
<1> DEFINE some(s) == CHOOSE x \in s : TRUE
           step(g, s) == IF s = {} THEN 0 ELSE f[some(s)] + g[s \ {some(s)}]
<1>1. PICK F : F = SumIter(f, S)
  OBVIOUS
<1>2. \A s \in SUBSET S : F[s] = step(F, s)
  <2>1. \A s \in SUBSET S : SumIter(f, S)[s] = step(SumIter(f, S), s)
    BY SumExists
  <2> HIDE DEF step
  <2> QED  BY <1>1, <2>1, Zenon
<1>3. \A s \in SUBSET S : G[s] = step(G, s)
  <2>1. G = [s \in SUBSET S |-> step(G, s)]
    BY Zenon DEF SumEquation
  <2> HIDE DEF step
  <2> QED  BY <2>1
<1>4. \A s \in SUBSET S : s # {} => some(s) \in s
  OBVIOUS
<1> HIDE DEF some
<1> DEFINE T == {s \in SUBSET S : G[s] = F[s]}
<1>5. \A s \in SUBSET S : (\A x \in s : s \ {x} \in T) => s \in T
  <2> SUFFICES ASSUME NEW s \in SUBSET S, \A x \in s : s \ {x} \in T
               PROVE  G[s] = F[s]
    OBVIOUS
  <2>1. CASE s = {}
    BY <1>2, <1>3, <2>1
  <2>2. CASE s # {}
    <3>1. G[s \ {some(s)}] = F[s \ {some(s)}]
      BY <1>4, <2>2
    <3>2. G[s] = f[some(s)] + G[s \ {some(s)}] /\ F[s] = f[some(s)] + F[s \ {some(s)}]
      BY <1>2, <1>3, <2>2
    <3> QED  BY <3>1, <3>2
  <2> QED  BY <2>1, <2>2
<1>6. \A s \in SUBSET S : s \in T
  <2> HIDE DEF T
  <2> QED  BY <1>5, SubsetInduction
<1> QED  BY <1>1, <1>6 DEF Total

(* There is a solution of the equation of the sum.                         *)
LEMMA EquationExists ==
  ASSUME NEW S, IsFiniteSet(S), NEW f \in [S -> Int]
  PROVE  \E g : SumEquation(g, f, S)
<1> DEFINE some(s) == CHOOSE x \in s : TRUE
           step(g, s) == IF s = {} THEN 0 ELSE f[some(s)] + g[s \ {some(s)}]
<1>1. PICK F : F = SumIter(f, S)
  OBVIOUS
<1>2. F \in [SUBSET S -> Int] /\ \A s \in SUBSET S : F[s] = step(F, s)
  <2>1. /\ SumIter(f, S) \in [SUBSET S -> Int]
        /\ \A s \in SUBSET S : SumIter(f, S)[s] = step(SumIter(f, S), s)
    BY SumExists
  <2> HIDE DEF step
  <2> QED  BY <1>1, <2>1, Zenon
<1>3. F = [s \in SUBSET S |-> step(F, s)]
  <2> HIDE DEF step
  <2> QED  BY <1>2
<1>4. SumEquation(F, f, S)
  BY <1>3, Zenon DEF SumEquation
<1> QED  BY <1>4, Zenon

(* The stats of a bag, as a sum over the item types.                       *)
Worth(t, cnt, s) == [i \in ItemTypes[t] |-> ItemStats[i][s] * cnt[i]]

LEMMA BagStatIsTotal ==
  ASSUME NEW t \in Tables, NEW cnt \in [Item -> Int], NEW s \in Stat
  PROVE  /\ IsFiniteSet(ItemTypes[t]) /\ Worth(t, cnt, s) \in [ItemTypes[t] -> Int]
         /\ BagStat(t, cnt, s) = Total(Worth(t, cnt, s), ItemTypes[t])
<1>1. PICK S : S = ItemTypes[t]
  OBVIOUS
<1>2. S \subseteq Item /\ IsFiniteSet(S)
  <2>1. S \subseteq Item /\ IsFiniteSet(Item)
    BY <1>1, InventoryAssumption, ItemsAssumption
  <2> QED  BY <2>1, FS_Subset
<1>3. PICK f : f = [i \in S |-> ItemStats[i][s] * cnt[i]]
  OBVIOUS
<1>4. f \in [S -> Int] /\ f = Worth(t, cnt, s)
  <2>1. \A i \in S : ItemStats[i][s] \in Int /\ cnt[i] \in Int
    BY <1>2, ItemsAssumption
  <2>2. \A i \in S : ItemStats[i][s] * cnt[i] \in Int
    BY <2>1
  <2> QED  BY <1>1, <1>3, <2>2 DEF Worth
<1> DEFINE some(u) == CHOOSE x \in u : TRUE
           step(g, u) == ItemStats[some(u)][s] * cnt[some(u)] + g[u \ {some(u)}]
           G == CHOOSE g : g = [u \in SUBSET S |-> IF u = {} THEN 0 ELSE step(g, u)]
<1>5. BagStat(t, cnt, s) = G[S]
  BY <1>1, Zenon DEF BagStat, MapThenSumSet, MapThenFoldSet
<1>6. \A u \in SUBSET S : u # {} => f[some(u)] = ItemStats[some(u)][s] * cnt[some(u)]
  BY <1>3
<1>7. PICK h : SumEquation(h, f, S)
  BY <1>2, <1>4, EquationExists, Zenon
<1>8. h = [u \in SUBSET S |-> IF u = {} THEN 0 ELSE f[some(u)] + h[u \ {some(u)}]]
  BY <1>7, Zenon DEF SumEquation
<1> HIDE DEF some
<1>9. h = [u \in SUBSET S |-> IF u = {} THEN 0 ELSE step(h, u)]
  BY <1>6, <1>8
<1>10. G = [u \in SUBSET S |-> IF u = {} THEN 0 ELSE step(G, u)]
  BY <1>9, Zenon
<1> HIDE DEF G
<1>11. G = [u \in SUBSET S |-> IF u = {} THEN 0 ELSE f[some(u)] + G[u \ {some(u)}]]
  BY <1>6, <1>10
<1>12. SumEquation(G, f, S)
  BY <1>11, Zenon DEF some, SumEquation
<1>13. G[S] = Total(f, S)
  BY <1>2, <1>4, <1>12, EquationIsTotal, Zenon
<1> QED  BY <1>1, <1>2, <1>4, <1>5, <1>13

(* The stat of a bag is a whole number of permilles.                       *)
LEMMA BagStatInt ==
  ASSUME NEW t \in Tables, NEW cnt \in [Item -> Int], NEW s \in Stat
  PROVE  BagStat(t, cnt, s) \in Int
<1>1. /\ IsFiniteSet(ItemTypes[t]) /\ Worth(t, cnt, s) \in [ItemTypes[t] -> Int]
      /\ BagStat(t, cnt, s) = Total(Worth(t, cnt, s), ItemTypes[t])
  BY BagStatIsTotal
<1> QED  BY <1>1, TotalInt

(* An empty bag carries no stats.                                          *)
LEMMA BagStatEmpty ==
  ASSUME NEW t \in Tables, NEW s \in Stat, NEW cnt, cnt = [i \in Item |-> 0]
  PROVE  BagStat(t, cnt, s) = 0
<1>1. PICK S : S = ItemTypes[t]
  OBVIOUS
<1>2. PICK f : f = Worth(t, cnt, s)
  OBVIOUS
<1>3. cnt \in [Item -> Int]
  OBVIOUS
<1>4. IsFiniteSet(S) /\ f \in [S -> Int] /\ BagStat(t, cnt, s) = Total(f, S)
  BY <1>1, <1>2, <1>3, BagStatIsTotal
<1>5. \A i \in S : f[i] = 0
  <2>1. \A i \in S : ItemStats[i][s] \in Int /\ cnt[i] = 0
    BY <1>1, ItemsAssumption, InventoryAssumption
  <2> SUFFICES ASSUME NEW i \in S PROVE f[i] = 0
    OBVIOUS
  <2>2. PICK a \in Int : a = ItemStats[i][s]
    BY <2>1
  <2>3. f[i] = a * cnt[i] /\ cnt[i] = 0 /\ a * 0 = 0
    BY <1>1, <1>2, <2>1, <2>2 DEF Worth
  <2> QED  BY <2>3
<1>6. \A i \in S : f[i] = f[i] + f[i]
  <2> SUFFICES ASSUME NEW i \in S PROVE f[i] = f[i] + f[i]
    OBVIOUS
  <2>1. f[i] = 0
    BY <1>5
  <2> QED  BY <2>1
<1>7. Total(f, S) = Total(f, S) + Total(f, S)
  BY <1>4, <1>6, TotalOfSum
<1>8. PICK x \in Int : x = Total(f, S)
  BY <1>4, TotalInt
<1>9. x = x + x
  BY <1>7, <1>8, Zenon
<1>10. x = 0
  BY <1>9
<1> QED  BY <1>4, <1>8, <1>10, Zenon

----------------------------------------------------------------------------
(* In the simulation the table stays, and the cache is exact.  The stats   *)
(* need one more part: what was applied last is what is held now.          *)
ItemsTypeOK ==
  /\ itemStatApplied \in [Stat -> Int]
  /\ accumPctAdd \in [Stat -> Int]
  /\ cardAdds \in [Stat -> Int]

AppliedIsHeld == \A s \in Stat : itemStatApplied[s] = HeldStat(counts, s)

ItemsInv == TypeOK /\ CraftableExact /\ ItemsTypeOK /\ AppliedIsHeld /\ StatsAreWhatIsHeld

LEMMA FromPermilleInt == ASSUME NEW x \in Int PROVE FromPermille(x) \in Int
<1>1. ONE_RAW \in Int /\ ONE_RAW \in Nat
  BY ItemsAssumption
<1>2. x * ONE_RAW \in Int /\ (-x) * ONE_RAW \in Int /\ -x * ONE_RAW \in Int
  BY <1>1
<1>3. \A y \in Int : y \div 1000 \in Int
  OBVIOUS
<1> QED BY <1>2, <1>3 DEF FromPermille

(* The old contribution leaves exactly as it came: nothing is left of it.  *)
LEMMA RefreshStats ==
  ASSUME ItemsInv, table \in Tables, counts' \in [Item -> 0 .. MAX_COUNT], UNCHANGED <<table, cardAdds>>,
         RefreshItemStats
  PROVE  ItemsTypeOK' /\ AppliedIsHeld' /\ StatsAreWhatIsHeld'
<1> DEFINE new(s) == BagStat(table, counts', s)
<1>1. \A s \in Stat : new(s) \in Int
  <2>1. counts' \in [Item -> Int]
    BY InventoryAssumption
  <2> QED BY <2>1, BagStatInt
<1>2. itemStatApplied' = [s \in Stat |-> new(s)]
  BY DEF RefreshItemStats, HeldStat
<1>3. accumPctAdd' = [s \in Stat |-> accumPctAdd[s] - FromPermille(itemStatApplied[s]) + FromPermille(new(s))]
  BY <1>2 DEF RefreshItemStats
<1> HIDE DEF new
<1>4. ASSUME NEW s \in Stat
      PROVE  /\ accumPctAdd'[s] = cardAdds[s] + FromPermille(new(s))
             /\ accumPctAdd'[s] \in Int
  <2>1. FromPermille(new(s)) \in Int /\ FromPermille(itemStatApplied[s]) \in Int /\ cardAdds[s] \in Int
    BY <1>1, FromPermilleInt DEF ItemsInv, ItemsTypeOK
  <2>2. accumPctAdd[s] = cardAdds[s] + FromPermille(itemStatApplied[s])
    BY DEF ItemsInv, AppliedIsHeld, StatsAreWhatIsHeld
  <2>3. accumPctAdd'[s] = accumPctAdd[s] - FromPermille(itemStatApplied[s]) + FromPermille(new(s))
    BY <1>3
  <2> QED BY <2>1, <2>2, <2>3
<1>5. ItemsTypeOK'
  <2>1. accumPctAdd' \in [Stat -> Int]
    BY <1>3, <1>4
  <2>2. itemStatApplied' \in [Stat -> Int]
    BY <1>1, <1>2
  <2> QED BY <2>1, <2>2 DEF ItemsInv, ItemsTypeOK
<1>6. AppliedIsHeld'
  BY <1>2 DEF AppliedIsHeld, HeldStat, new
<1>7. StatsAreWhatIsHeld'
  BY <1>4 DEF StatsAreWhatIsHeld, HeldStat, new
<1> QED BY <1>5, <1>6, <1>7

(* With nothing in the bag nothing can be crafted: every recipe that       *)
(* RecipeTable::build accepts has an ingredient.                           *)
LEMMA EmptyBagCraftsNothing == Init => CraftableExact
<1> SUFFICES ASSUME Init, NEW r \in Index, Evaluate(counts, table, r) PROVE FALSE
  BY DEF Init, CraftableExact
<1>1. table \in Tables /\ counts = [i \in Item |-> 0]
  BY DEF Init
<1>2. PICK i \in Item : Recipes[table][r].needs[i] \in 1 .. 3
  BY <1>1, InventoryAssumption DEF Evaluate, InRecipe
<1> QED BY <1>1, <1>2 DEF Evaluate

LEMMA ItemsInitInv == ItemsInit => ItemsInv
<1> SUFFICES ASSUME ItemsInit PROVE ItemsInv
  OBVIOUS
<1>1. TypeOK
  BY InitTruthful DEF ItemsInit
<1>2. ItemsTypeOK
  BY DEF ItemsInit, ItemsTypeOK
<1>3. table \in Tables /\ counts = [i \in Item |-> 0]
  BY DEF ItemsInit, Init
<1>4. \A s \in Stat : HeldStat(counts, s) = 0
  BY <1>3, BagStatEmpty DEF HeldStat
<1>5. AppliedIsHeld
  BY <1>4 DEF ItemsInit, AppliedIsHeld
<1>6. FromPermille(0) = 0
  BY ItemsAssumption DEF FromPermille
<1>7. StatsAreWhatIsHeld
  BY <1>4, <1>6 DEF ItemsInit, StatsAreWhatIsHeld
<1>8. CraftableExact
  BY EmptyBagCraftsNothing DEF ItemsInit
<1> QED BY <1>1, <1>2, <1>5, <1>7, <1>8 DEF ItemsInv

LEMMA ItemsNextInv == ItemsInv /\ [ItemsNext]_vars => ItemsInv'
<1> SUFFICES ASSUME ItemsInv, [ItemsNext]_vars PROVE ItemsInv'
  OBVIOUS
<1>1. TypeOK /\ CraftableExact /\ CraftableSound /\ table \in Tables
  BY DEF ItemsInv, TypeOK, CraftableExact, CraftableSound
<1>2. ASSUME NEW S, Changes(S), RefreshItemStats, UNCHANGED cardAdds PROVE ItemsInv'
  <2>1. craftable' \subseteq DOMAIN Recipes[table]
    BY <1>1, <1>2, RefreshSound DEF Changes
  <2>2. TypeOK'
    BY <1>1, <1>2, <2>1 DEF Changes, TypeOK
  <2>3. CraftableExact'
    BY <1>1, <1>2, RefreshExact DEF Changes
  <2>4. ItemsTypeOK' /\ AppliedIsHeld' /\ StatsAreWhatIsHeld'
    BY <1>1, <1>2, RefreshStats DEF Changes
  <2> QED BY <2>2, <2>3, <2>4 DEF ItemsInv
<1>3. ASSUME NEW i \in Draws, Grant(i) PROVE ItemsInv'
  <2>1. i \in Item /\ 1 \in 1 .. MAX_COUNT
    BY <1>1, <1>3, InventoryAssumption DEF Grant, Add
  <2>2. Changes({i})
    BY <1>1, <1>3, <2>1, AddChanges DEF Grant
  <2> QED BY <1>2, <1>3, <2>2 DEF Grant
<1>4. ASSUME NEW r \in Index, CraftInput(r) PROVE ItemsInv'
  <2>1. Changes(Ingredients(Recipes[table][r]) \cup {Recipes[table][r].result})
    BY <1>1, <1>4, CraftPays DEF CraftInput
  <2> QED BY <1>2, <1>4, <2>1 DEF CraftInput
<1>5. ASSUME NEW s \in Stat, NEW v \in Boosts, StatBoost(s, v) PROVE ItemsInv'
  <2>1. UNCHANGED <<counts, craftable, table, itemStatApplied>>
    BY <1>5 DEF StatBoost, invVars
  <2>2. TypeOK' /\ CraftableExact' /\ AppliedIsHeld'
    BY <1>1, <2>1 DEF ItemsInv, TypeOK, CraftableExact, AppliedIsHeld, HeldStat, Evaluate
  <2>3. accumPctAdd \in [Stat -> Int] /\ cardAdds \in [Stat -> Int] /\ v \in Int
    BY ItemsAssumption DEF ItemsInv, ItemsTypeOK
  <2>4. ItemsTypeOK'
    BY <1>5, <2>1, <2>3 DEF ItemsInv, ItemsTypeOK, StatBoost
  <2>5. ASSUME NEW q \in Stat
        PROVE  accumPctAdd'[q] = cardAdds'[q] + FromPermille(HeldStat(counts, q))
    <3>1. itemStatApplied[q] \in Int /\ HeldStat(counts, q) = itemStatApplied[q]
      BY DEF ItemsInv, ItemsTypeOK, AppliedIsHeld
    <3>2. FromPermille(HeldStat(counts, q)) \in Int
      BY <3>1, FromPermilleInt
    <3>3. accumPctAdd[q] = cardAdds[q] + FromPermille(HeldStat(counts, q))
      BY DEF ItemsInv, StatsAreWhatIsHeld
    <3>4. \/ q = s /\ accumPctAdd'[q] = accumPctAdd[q] + v /\ cardAdds'[q] = cardAdds[q] + v
          \/ q # s /\ accumPctAdd'[q] = accumPctAdd[q] /\ cardAdds'[q] = cardAdds[q]
      BY <1>5, <2>3 DEF StatBoost
    <3>5. accumPctAdd[q] \in Int /\ cardAdds[q] \in Int
      BY <2>3
    <3> QED BY <3>2, <3>3, <3>4, <3>5, <2>3
  <2>6. StatsAreWhatIsHeld'
    BY <2>5, <2>1 DEF StatsAreWhatIsHeld, HeldStat
  <2> QED BY <2>2, <2>4, <2>6 DEF ItemsInv
<1>6. CASE UNCHANGED vars
  BY <1>6 DEF vars, invVars, statVars, ItemsInv, TypeOK, CraftableExact, ItemsTypeOK, AppliedIsHeld,
     StatsAreWhatIsHeld, HeldStat, Evaluate
<1> QED BY <1>3, <1>4, <1>5, <1>6 DEF ItemsNext

(* In the simulation, where nothing reloads the table, the bit of every    *)
(* recipe says exactly whether the counts pay for it.                      *)
THEOREM ItemsCraftableExact == ItemsSpec => []CraftableExact
<1>1. ItemsInv => CraftableExact
  BY DEF ItemsInv
<1> QED BY <1>1, ItemsInitInv, ItemsNextInv, PTL DEF ItemsSpec

(* The hero's percentage sums are those of the cards taken and of exactly  *)
(* the items held now: no draw, craft or refused input leaves a residue.   *)
THEOREM ItemsStatsAreWhatIsHeld == ItemsSpec => []StatsAreWhatIsHeld
<1>1. ItemsInv => StatsAreWhatIsHeld
  BY DEF ItemsInv
<1> QED BY <1>1, ItemsInitInv, ItemsNextInv, PTL DEF ItemsSpec

----------------------------------------------------------------------------
(* What is missing, as a sum over the kinds that are short.                *)
Gap(recipe, cnt, P) == [i \in P |-> Short(recipe, cnt, i)]

LEMMA GapIsTotal ==
  ASSUME NEW S \in SUBSET Item, NEW recipe, recipe.needs \in [Item -> Int], NEW cnt \in [Item -> Int]
  PROVE  /\ IsFiniteSet(S) /\ Gap(recipe, cnt, S) \in [S -> Int]
         /\ MapThenSumSet(LAMBDA i : Short(recipe, cnt, i), S) = Total(Gap(recipe, cnt, S), S)
<1>1. IsFiniteSet(S)
  BY ItemsAssumption, FS_Subset
<1>2. PICK f : f = [i \in S |-> Short(recipe, cnt, i)]
  OBVIOUS
<1>3. f \in [S -> Int] /\ f = Gap(recipe, cnt, S)
  <2>1. \A i \in S : Short(recipe, cnt, i) \in Int
    BY DEF Short, NeededOf
  <2> QED  BY <1>2, <2>1 DEF Gap
<1> DEFINE some(u) == CHOOSE x \in u : TRUE
           step(g, u) == Short(recipe, cnt, some(u)) + g[u \ {some(u)}]
           G == CHOOSE g : g = [u \in SUBSET S |-> IF u = {} THEN 0 ELSE step(g, u)]
<1>4. MapThenSumSet(LAMBDA i : Short(recipe, cnt, i), S) = G[S]
  BY Zenon DEF MapThenSumSet, MapThenFoldSet
<1>5. \A u \in SUBSET S : u # {} => f[some(u)] = Short(recipe, cnt, some(u))
  BY <1>2
<1>6. PICK h : SumEquation(h, f, S)
  BY <1>1, <1>3, EquationExists, Zenon
<1>7. h = [u \in SUBSET S |-> IF u = {} THEN 0 ELSE f[some(u)] + h[u \ {some(u)}]]
  BY <1>6, Zenon DEF SumEquation
<1> HIDE DEF some
<1>8. h = [u \in SUBSET S |-> IF u = {} THEN 0 ELSE step(h, u)]
  BY <1>5, <1>7
<1>9. G = [u \in SUBSET S |-> IF u = {} THEN 0 ELSE step(G, u)]
  BY <1>8, Zenon
<1> HIDE DEF G
<1>10. G = [u \in SUBSET S |-> IF u = {} THEN 0 ELSE f[some(u)] + G[u \ {some(u)}]]
  BY <1>5, <1>9
<1>11. SumEquation(G, f, S)
  BY <1>10, Zenon DEF some, SumEquation
<1>12. G[S] = Total(f, S)
  BY <1>1, <1>3, <1>11, EquationIsTotal, Zenon
<1> QED  BY <1>1, <1>3, <1>4, <1>12

(* How many items there are in a bag.                                      *)
Number(d) == MapThenSumSet(LAMBDA j : d[j], Item)

LEMMA NumberIsTotal ==
  ASSUME NEW d
  PROVE  Number(d) = Total(d, Item)
BY Zenon DEF Number, MapThenSumSet, MapThenFoldSet, Total, SumIter

(* The kinds that are short.                                               *)
Lacking(recipe, cnt) == {i \in Item : NeededOf(recipe, i) > 0 /\ Short(recipe, cnt, i) > 0}

(* A recipe can be crafted exactly if no kind is short.                    *)
LEMMA LackingNothing ==
  ASSUME NEW t \in Tables, NEW r \in DOMAIN Recipes[t], NEW cnt \in [Item -> Nat]
  PROVE  /\ Evaluate(cnt, t, r) <=> Lacking(Recipes[t][r], cnt) = {}
         /\ Cardinality(Lacking(Recipes[t][r], cnt)) = 0 <=> Lacking(Recipes[t][r], cnt) = {}
<1>1. PICK needs : needs = Recipes[t][r].needs
  OBVIOUS
<1>2. needs \in [Item -> 0 .. 3]
  BY <1>1, InventoryAssumption DEF InRecipe
<1>3. Lacking(Recipes[t][r], cnt) = {i \in Item : needs[i] > 0 /\ needs[i] - cnt[i] > 0}
  BY <1>1 DEF Lacking, Short, NeededOf
<1>4. Evaluate(cnt, t, r) <=> \A i \in Item : needs[i] <= cnt[i]
  BY <1>1 DEF Evaluate
<1>5. \A i \in Item : (needs[i] > 0 /\ needs[i] - cnt[i] > 0) <=> ~ (needs[i] <= cnt[i])
  BY <1>2
<1>6. IsFiniteSet(Lacking(Recipes[t][r], cnt))
  BY ItemsAssumption, FS_Subset DEF Lacking
<1> QED  BY <1>3, <1>4, <1>5, <1>6, FS_EmptySet

(* Getting what is short of each kind is enough.                           *)
LEMMA GapIsEnough ==
  ASSUME NEW t \in Tables, NEW r \in DOMAIN Recipes[t], NEW cnt \in [Item -> Nat]
  PROVE  \E d \in [Item -> 0 .. 3] :
           /\ Evaluate(More(cnt, d), t, r)
           /\ Number(d) = MapThenSumSet(LAMBDA i : Short(Recipes[t][r], cnt, i), Lacking(Recipes[t][r], cnt))
<1>1. PICK recipe : recipe = Recipes[t][r]
  OBVIOUS
<1>2. recipe.needs \in [Item -> 0 .. 3] /\ recipe.needs \in [Item -> Int] /\ cnt \in [Item -> Int]
  BY <1>1, InventoryAssumption DEF InRecipe
<1>3. PICK P : P = Lacking(recipe, cnt)
  OBVIOUS
<1>4. PICK g : g = Gap(recipe, cnt, P)
  OBVIOUS
<1>5. P \in SUBSET Item
  BY <1>3 DEF Lacking
<1>6. /\ IsFiniteSet(P) /\ g \in [P -> Int]
      /\ MapThenSumSet(LAMBDA i : Short(recipe, cnt, i), P) = Total(g, P)
  <2>1. /\ IsFiniteSet(P) /\ Gap(recipe, cnt, P) \in [P -> Int]
        /\ MapThenSumSet(LAMBDA i : Short(recipe, cnt, i), P) = Total(Gap(recipe, cnt, P), P)
    BY <1>2, <1>5, GapIsTotal
  <2> QED  BY <1>4, <2>1, Zenon
<1>7. PICK d : d = [i \in Item |-> IF i \in P THEN g[i] ELSE 0]
  OBVIOUS
<1>8. ASSUME NEW i \in Item
      PROVE  d[i] \in 0 .. 3 /\ recipe.needs[i] <= cnt[i] + d[i] /\ d[i] = IF i \in P THEN g[i] ELSE 0
  <2>1. i \in P => d[i] = recipe.needs[i] - cnt[i] /\ d[i] > 0
    BY <1>3, <1>4, <1>7 DEF Lacking, Gap, Short, NeededOf
  <2>2. i \notin P => d[i] = 0 /\ recipe.needs[i] <= cnt[i]
    BY <1>2, <1>3, <1>7 DEF Lacking, Short, NeededOf
  <2>3. recipe.needs[i] \in 0 .. 3 /\ cnt[i] \in Nat
    BY <1>2
  <2>4. d[i] \in 0 .. 3 /\ recipe.needs[i] <= cnt[i] + d[i]
    BY <2>1, <2>2, <2>3
  <2> QED  BY <1>7, <2>4
<1>9. d \in [Item -> 0 .. 3] /\ d \in [Item -> Int]
  BY <1>7, <1>8
<1>10. Evaluate(More(cnt, d), t, r)
  BY <1>1, <1>8 DEF Evaluate, More
<1>11. Total(d, Item) = Total(g, P)
  BY <1>5, <1>6, <1>8, <1>9, ItemsAssumption, TotalOfPart
<1>12. Number(d) = Total(d, Item)
  BY NumberIsTotal
<1>13. Number(d) = MapThenSumSet(LAMBDA i : Short(Recipes[t][r], cnt, i), Lacking(Recipes[t][r], cnt))
  BY <1>1, <1>3, <1>6, <1>11, <1>12
<1> QED  BY <1>9, <1>10, <1>13, Zenon

(* Items that are enough are at least as many as are shown missing.        *)
LEMMA FewerAreNotEnough ==
  ASSUME NEW t \in Tables, NEW r \in DOMAIN Recipes[t], NEW cnt \in [Item -> Nat],
         NEW d \in [Item -> 0 .. 3], Evaluate(More(cnt, d), t, r)
  PROVE  Number(d) >= MapThenSumSet(LAMBDA i : Short(Recipes[t][r], cnt, i), Lacking(Recipes[t][r], cnt))
<1>1. PICK recipe : recipe = Recipes[t][r]
  OBVIOUS
<1>2. recipe.needs \in [Item -> 0 .. 3] /\ recipe.needs \in [Item -> Int] /\ cnt \in [Item -> Int]
  BY <1>1, InventoryAssumption DEF InRecipe
<1>3. PICK P : P = Lacking(recipe, cnt)
  OBVIOUS
<1>4. PICK g : g = Gap(recipe, cnt, P)
  OBVIOUS
<1>5. P \in SUBSET Item
  BY <1>3 DEF Lacking
<1>6. /\ IsFiniteSet(P) /\ g \in [P -> Int]
      /\ MapThenSumSet(LAMBDA i : Short(recipe, cnt, i), P) = Total(g, P)
  <2>1. /\ IsFiniteSet(P) /\ Gap(recipe, cnt, P) \in [P -> Int]
        /\ MapThenSumSet(LAMBDA i : Short(recipe, cnt, i), P) = Total(Gap(recipe, cnt, P), P)
    BY <1>2, <1>5, GapIsTotal
  <2> QED  BY <1>4, <2>1, Zenon
<1>7. PICK e : e = [i \in Item |-> IF i \in P THEN g[i] ELSE 0]
  OBVIOUS
<1>8. ASSUME NEW i \in Item
      PROVE  e[i] \in Int /\ d[i] \in Int /\ e[i] <= d[i] /\ e[i] = IF i \in P THEN g[i] ELSE 0
  <2>1. recipe.needs[i] <= cnt[i] + d[i]
    BY <1>1 DEF Evaluate, More
  <2>2. i \in P => g[i] = recipe.needs[i] - cnt[i]
    BY <1>4 DEF Gap, Short, NeededOf
  <2>3. recipe.needs[i] \in Int /\ cnt[i] \in Int /\ d[i] \in 0 .. 3 /\ e[i] = IF i \in P THEN g[i] ELSE 0
    BY <1>2, <1>7
  <2> QED  BY <2>1, <2>2, <2>3
<1>9. e \in [Item -> Int] /\ d \in [Item -> Int]
  BY <1>7, <1>8
<1>10. Total(e, Item) = Total(g, P)
  BY <1>5, <1>6, <1>8, <1>9, ItemsAssumption, TotalOfPart
<1>11. Total(e, Item) <= Total(d, Item)
  BY <1>8, <1>9, ItemsAssumption, TotalGrows
<1>12. Number(d) = Total(d, Item)
  BY NumberIsTotal
<1>13. Total(e, Item) \in Int /\ Total(d, Item) \in Int
  BY <1>9, ItemsAssumption, TotalInt
<1> QED  BY <1>1, <1>3, <1>6, <1>10, <1>11, <1>12, <1>13

(* The change of the stats: the bag after the craft and the ingredients    *)
(* make up the bag before and the result.                                  *)
LEMMA BagStatOfSum ==
  ASSUME NEW t \in Tables, NEW s \in Stat,
         NEW f \in [Item -> Int], NEW g \in [Item -> Int], NEW h \in [Item -> Int],
         \A i \in Item : h[i] = f[i] + g[i]
  PROVE  BagStat(t, h, s) = BagStat(t, f, s) + BagStat(t, g, s)
<1>1. PICK S, F, G, H : S = ItemTypes[t] /\ F = Worth(t, f, s) /\ G = Worth(t, g, s) /\ H = Worth(t, h, s)
  OBVIOUS
<1>2. /\ IsFiniteSet(S) /\ F \in [S -> Int] /\ G \in [S -> Int] /\ H \in [S -> Int]
      /\ BagStat(t, f, s) = Total(F, S) /\ BagStat(t, g, s) = Total(G, S) /\ BagStat(t, h, s) = Total(H, S)
  BY <1>1, BagStatIsTotal
<1>3. ASSUME NEW i \in S PROVE H[i] = F[i] + G[i]
  <2>1. i \in Item /\ ItemStats[i][s] \in Int
    BY <1>1, InventoryAssumption, ItemsAssumption
  <2>2. PICK a \in Int, x \in Int, y \in Int : a = ItemStats[i][s] /\ x = f[i] /\ y = g[i]
    BY <2>1
  <2>3. F[i] = a * x /\ G[i] = a * y
    BY <1>1, <2>2 DEF Worth
  <2>5. H[i] = ItemStats[i][s] * h[i]
    BY <1>1 DEF Worth
  <2>6. H[i] = a * (x + y)
    <3>1. h[i] = x + y
      BY <2>1, <2>2
    <3> QED  BY <2>2, <2>5, <3>1, Zenon
  <2>4. a * (x + y) = a * x + a * y
    BY <2>2
  <2> QED  BY <2>3, <2>4, <2>6
<1> QED  BY <1>2, <1>3, TotalOfSum

(* One item alone gives its own stats.                                     *)
LEMMA BagStatOfOne ==
  ASSUME NEW t \in Tables, NEW s \in Stat, NEW e \in ItemTypes[t],
         NEW one, one = [i \in Item |-> IF i = e THEN 1 ELSE 0]
  PROVE  BagStat(t, one, s) = ItemStats[e][s]
<1>1. PICK S, F, v : S = ItemTypes[t] /\ F = Worth(t, one, s) /\ v = ItemStats[e][s]
  OBVIOUS
<1>2. one \in [Item -> Int]
  OBVIOUS
<1>3. IsFiniteSet(S) /\ F \in [S -> Int] /\ BagStat(t, one, s) = Total(F, S)
  BY <1>1, <1>2, BagStatIsTotal
<1>4. v \in Int /\ e \in S /\ S \subseteq Item
  BY <1>1, InventoryAssumption, ItemsAssumption
<1>5. ASSUME NEW i \in S PROVE F[i] = IF i = e THEN v ELSE 0
  <2>1. i \in Item /\ ItemStats[i][s] \in Int
    BY <1>4, ItemsAssumption
  <2>2. PICK a \in Int : a = ItemStats[i][s]
    BY <2>1
  <2>3. F[i] = a * one[i]
    <3>1. F[i] = ItemStats[i][s] * one[i]
      BY <1>1 DEF Worth
    <3> QED  BY <2>2, <3>1, Zenon
  <2>4. one[i] = IF i = e THEN 1 ELSE 0
    BY <2>1
  <2>5. a * 1 = a /\ a * 0 = 0
    BY <2>2
  <2>6. CASE i = e
    <3>1. F[i] = a * 1 /\ a = v
      BY <1>1, <2>2, <2>3, <2>4, <2>6, Zenon
    <3> QED  BY <2>5, <2>6, <3>1, Zenon
  <2>7. CASE i # e
    <3>1. F[i] = a * 0
      BY <2>3, <2>4, <2>7, Zenon
    <3> QED  BY <2>5, <2>7, <3>1, Zenon
  <2> QED  BY <2>6, <2>7
<1>6. F = [x \in S |-> IF x = e THEN v ELSE 0]
  BY <1>3, <1>5
<1>7. Total([x \in S |-> IF x = e THEN v ELSE 0], S) = v
  BY <1>3, <1>4, TotalOfOne
<1> QED  BY <1>1, <1>3, <1>6, <1>7

(* What the screen announces is the change that the craft makes.           *)
LEMMA DeltaIsTheChange ==
  ASSUME TypeOK, NEW r \in DOMAIN Recipes[table], NEW s \in Stat
  PROVE  CraftStatDelta(table, r, s) = HeldStat(After(Recipes[table][r]), s) - HeldStat(counts, s)
<1>1. PICK recipe : recipe = Recipes[table][r]
  OBVIOUS
<1>2. /\ table \in Tables /\ counts \in [Item -> Int] /\ recipe.needs \in [Item -> Int]
      /\ recipe.result \in ItemTypes[table]
  BY <1>1, InventoryAssumption DEF TypeOK, InRecipe
<1>3. PICK one : one = [i \in Item |-> IF i = recipe.result THEN 1 ELSE 0]
  OBVIOUS
<1>4. PICK after, both, needs : /\ after = After(recipe) /\ needs = recipe.needs
                               /\ both = [i \in Item |-> counts[i] + one[i]]
  OBVIOUS
<1>5. one \in [Item -> Int] /\ both \in [Item -> Int] /\ after \in [Item -> Int] /\ needs \in [Item -> Int]
  BY <1>2, <1>3, <1>4 DEF After
<1>6. \A i \in Item : both[i] = counts[i] + one[i] /\ both[i] = after[i] + needs[i]
  <2> SUFFICES ASSUME NEW i \in Item PROVE both[i] = counts[i] + one[i] /\ both[i] = after[i] + needs[i]
    OBVIOUS
  <2>1. after[i] = counts[i] - needs[i] + one[i]
    BY <1>3, <1>4 DEF After
  <2>2. both[i] = counts[i] + one[i]
    BY <1>4
  <2>3. counts[i] \in Int /\ needs[i] \in Int /\ one[i] \in Int
    BY <1>2, <1>4, <1>5
  <2> QED  BY <2>1, <2>2, <2>3
<1>7. BagStat(table, both, s) = BagStat(table, counts, s) + BagStat(table, one, s)
  BY <1>2, <1>5, <1>6, BagStatOfSum
<1>8. BagStat(table, both, s) = BagStat(table, after, s) + BagStat(table, needs, s)
  BY <1>2, <1>5, <1>6, BagStatOfSum
<1>9. BagStat(table, one, s) = ItemStats[recipe.result][s]
  BY <1>2, <1>3, BagStatOfOne
<1>10. CraftStatDelta(table, r, s) = ItemStats[recipe.result][s] - BagStat(table, needs, s)
  <2>1. CraftStatDelta(table, r, s) =
          (IF Recipes[table][r].result \in ItemTypes[table] THEN ItemStats[Recipes[table][r].result][s] ELSE 0)
             - BagStat(table, Recipes[table][r].needs, s)
    BY Zenon DEF CraftStatDelta, BagStat
  <2> HIDE DEF CraftStatDelta, BagStat
  <2> QED  BY <1>1, <1>2, <1>4, <2>1
<1>11. /\ BagStat(table, both, s) \in Int /\ BagStat(table, counts, s) \in Int /\ BagStat(table, one, s) \in Int
       /\ BagStat(table, after, s) \in Int /\ BagStat(table, needs, s) \in Int
  BY <1>2, <1>5, BagStatInt
<1> HIDE DEF BagStat
<1>12. CraftStatDelta(table, r, s) = BagStat(table, after, s) - BagStat(table, counts, s)
  BY <1>7, <1>8, <1>9, <1>10, <1>11
<1> QED  BY <1>1, <1>4, <1>12 DEF HeldStat

(* What each view of the screen says, from an exact cache.                 *)
LEMMA ViewsTellTheTruth == TypeOK /\ CraftableExact => ScreenTellsTheTruth
<1> SUFFICES ASSUME TypeOK, CraftableExact,
                    NEW i \in ItemTypes[table],
                    NEW view \in ViewRecipesUsing(table, counts, i, Cardinality(Index))
             PROVE  LET r == view.recipeIndex
                        enough == {d \in [Item -> 0 .. 3] : Evaluate(More(counts, d), table, r)}
                        number(d) == MapThenSumSet(LAMBDA j : d[j], Item)
                    IN  /\ ReadyView(view) <=> r \in craftable
                        /\ \E d \in enough : number(d) = view.missingTotal
                        /\ \A d \in enough : number(d) >= view.missingTotal
                        /\ r \in craftable => \A s \in Stat :
                             CraftStatDelta(table, r, s) =
                               HeldStat(After(Recipes[table][r]), s) - HeldStat(counts, s)
  BY Zenon DEF ScreenTellsTheTruth
<1>1. PICK r \in DOMAIN Recipes[table] : view = ViewRecipe(table, counts, r)
  BY Zenon DEF ViewRecipesUsing, RecipesUsing
<1>2. /\ view.recipeIndex = r
      /\ view.missingKinds = Cardinality({q \in {p \in Item : NeededOf(Recipes[table][r], p) > 0} :
                                             Short(Recipes[table][r], counts, q) > 0})
      /\ view.missingTotal = MapThenSumSet(LAMBDA p : Short(Recipes[table][r], counts, p),
                                {q \in {p \in Item : NeededOf(Recipes[table][r], p) > 0} :
                                             Short(Recipes[table][r], counts, q) > 0})
  BY <1>1 DEF ViewRecipe
<1>3. {q \in {p \in Item : NeededOf(Recipes[table][r], p) > 0} : Short(Recipes[table][r], counts, q) > 0}
        = Lacking(Recipes[table][r], counts)
  BY DEF Lacking
<1>4. /\ view.missingKinds = Cardinality(Lacking(Recipes[table][r], counts))
      /\ view.missingTotal = MapThenSumSet(LAMBDA p : Short(Recipes[table][r], counts, p),
                                           Lacking(Recipes[table][r], counts))
  BY <1>2, <1>3
<1>5. table \in Tables /\ counts \in [Item -> Nat] /\ r \in Index
  BY InventoryAssumption DEF TypeOK
<1>6. ReadyView(view) <=> r \in craftable
  <2>1. ReadyView(view) <=> Lacking(Recipes[table][r], counts) = {}
    BY <1>4, <1>5, LackingNothing DEF ReadyView
  <2>2. Evaluate(counts, table, r) <=> Lacking(Recipes[table][r], counts) = {}
    BY <1>5, LackingNothing
  <2> QED  BY <1>5, <2>1, <2>2 DEF CraftableExact
<1>7. \E d \in [Item -> 0 .. 3] : Evaluate(More(counts, d), table, r) /\ Number(d) = view.missingTotal
  BY <1>4, <1>5, GapIsEnough
<1>8. \A d \in [Item -> 0 .. 3] : Evaluate(More(counts, d), table, r) => Number(d) >= view.missingTotal
  BY <1>4, <1>5, FewerAreNotEnough
<1>9. \A s \in Stat : CraftStatDelta(table, r, s) = HeldStat(After(Recipes[table][r]), s) - HeldStat(counts, s)
  BY DeltaIsTheChange
<1>10. view.recipeIndex = r
  BY <1>2
<1>11. ReadyView(view) <=> view.recipeIndex \in craftable
  BY <1>6, <1>10
<1> DEFINE enough == {d \in [Item -> 0 .. 3] : Evaluate(More(counts, d), table, view.recipeIndex)}
<1>12. \E d \in enough : MapThenSumSet(LAMBDA j : d[j], Item) = view.missingTotal
  <2>1. PICK d \in [Item -> 0 .. 3] : Evaluate(More(counts, d), table, r) /\ Number(d) = view.missingTotal
    BY <1>7
  <2>2. d \in enough
    BY <1>10, <2>1
  <2>3. MapThenSumSet(LAMBDA j : d[j], Item) = view.missingTotal
    BY <2>1, Zenon DEF Number
  <2> HIDE DEF enough
  <2> QED  BY <2>2, <2>3, Zenon
<1>13. \A d \in enough : MapThenSumSet(LAMBDA j : d[j], Item) >= view.missingTotal
  <2> SUFFICES ASSUME NEW d \in enough PROVE MapThenSumSet(LAMBDA j : d[j], Item) >= view.missingTotal
    BY Zenon
  <2>1. d \in [Item -> 0 .. 3] /\ Evaluate(More(counts, d), table, r)
    BY <1>10
  <2>2. Number(d) >= view.missingTotal
    BY <1>8, <2>1
  <2> QED  BY <2>2, Zenon DEF Number
<1>14. \A s \in Stat : CraftStatDelta(table, view.recipeIndex, s) =
                        HeldStat(After(Recipes[table][view.recipeIndex]), s) - HeldStat(counts, s)
  BY <1>9, <1>10, Zenon
<1> QED  BY <1>11, <1>12, <1>13, <1>14, Zenon

(* What the crafting screen shows of a recipe is what the simulation does  *)
(* with it, in every state and for every recipe table: it is shown as      *)
(* ready exactly if its bit, by which craft decides, is set, the number of *)
(* missing items is the least that would set it, and the stats change by   *)
(* what is shown.                                                          *)
THEOREM ItemsScreenTellsTheTruth == ItemsSpec => []ScreenTellsTheTruth
<1>1. ItemsInv => ScreenTellsTheTruth
  BY ViewsTellTheTruth DEF ItemsInv
<1> QED BY <1>1, ItemsInitInv, ItemsNextInv, PTL DEF ItemsSpec

(* Every step of the simulation, the hero's sums aside, is a step of the   *)
(* plain bag of items: draws, the forge and crafts do nothing in part.     *)
THEOREM ItemsImplementsBag == ItemsSpec => ImplementsBag
<1>1. ItemsInit => Init
  BY DEF ItemsInit
<1>2. ItemsInv /\ [ItemsNext]_vars => [Next]_invVars
  <2> SUFFICES ASSUME ItemsInv, [ItemsNext]_vars PROVE [Next]_invVars
    OBVIOUS
  <2>1. table \in Tables /\ \A i \in ItemTypes[table] : i \in Item
    BY InventoryAssumption DEF ItemsInv, TypeOK
  <2>2. ASSUME NEW i \in Draws, Grant(i) PROVE Next
    <3>1. Add(table, i, 1) /\ i \in Item /\ 1 \in 1 .. MAX_COUNT
      BY <2>1, <2>2, InventoryAssumption DEF Grant, Add
    <3> QED BY <2>1, <3>1, Zenon DEF Next
  <2>3. ASSUME NEW r \in Index, CraftInput(r) PROVE Next
    BY <2>1, <2>3, Zenon DEF CraftInput, Next
  <2>4. ASSUME NEW s \in Stat, NEW v \in Boosts, StatBoost(s, v) PROVE UNCHANGED invVars
    BY <2>4 DEF StatBoost
  <2>5. CASE UNCHANGED vars
    BY <2>5 DEF vars
  <2> QED BY <2>2, <2>3, <2>4, <2>5 DEF ItemsNext
<1>3. ItemsSpec => Spec
  BY <1>1, <1>2, ItemsInitInv, ItemsNextInv, PTL DEF ItemsSpec, Spec
<1> QED BY <1>3, InventoryImplementsBag, PTL
=============================================================================
