------------------------------ MODULE Loaders ------------------------------
(* The loaders (config_loader.h): the plain numbers and tables of the nine *)
(* documents, the checks of each loader in their order, what one file says *)
(* against another, and the configuration and the numbers folded into the  *)
(* fingerprint when no check fails.                                        *)
(*                                                                         *)
(* Which plain numbers and tables a file holds is data: Layout.  Indices   *)
(* count from 1.                                                           *)
EXTENDS JsonNodes

CONSTANTS
  Layout,        \* [File -> Seq(entries)], what is read without a further rule
  Stats,         \* statJsonName, in the order of the enum
  Legends,       \* Seq([id, fields]): the order of LegendId and the numbers of each
  LEGEND_RELICS, \* 3, the legends that are relics
  MAX_I32,       \* INT32_MAX
  MAX_ITEM_TYPES, MAX_ITEM_TIERS, MAX_RECIPE_INGREDIENTS, MAX_RECIPES_PER_ITEM

(* DataFile, and the order of load.                                        *)
Files == <<"hero", "progression", "spawn", "segments", "monsters",
           "cards", "skills", "items", "stats">>
File == Range(Files)
LoadOrder == <<"stats", "hero", "progression", "spawn", "segments", "monsters",
               "skills", "cards", "items">>

ASSUME LoadersAssumption ==
  /\ DOMAIN Layout = File
  /\ \A f \in File : Len(Layout[f]) \in Nat /\ DOMAIN Layout[f] = 1 .. Len(Layout[f])

----------------------------------------------------------------------------
(* Reading a document.  A node read, and the type the loader asks of it.   *)
Node(d, path) == FoldLeft(LAMBDA v, k : Key(d, v, k), Root(d), path)

Ask(v, type) == [node |-> v, type |-> type]

(* What an entry of the layout asks for, in the order it is read.          *)
Asked(d, e) ==
  LET v == Node(d, e.path)
      kids == Elems(d, v)
      row(k) == CASE e.form = "pairs" -> [j \in 1 .. 2 |-> Ask(Elem(d, k, j), e.fields[j].type)]
                  [] OTHER -> [j \in DOMAIN e.fields |-> Ask(Key(d, k, e.fields[j].key), e.fields[j].type)]
  IN  CASE e.form = "one"  -> <<Ask(v, e.fields[1].type)>>
        [] e.form = "list" -> [i \in DOMAIN kids |-> Ask(kids[i], e.fields[1].type)]
        [] OTHER           -> FlattenSeq([i \in DOMAIN kids |-> row(kids[i])])

(* asI32 refuses what does not fit.                                        *)
Fits(d, v) == Num(d, v) \in -MAX_I32 - 1 .. MAX_I32

(* A read that records no failure in the document.                         *)
Met(d, q) ==
  CASE q.type = "i32"  -> Type(d, q.node) = "int" /\ Fits(d, q.node)
    [] q.type = "i64"  -> Type(d, q.node) = "int"
    [] q.type = "bool" -> Type(d, q.node) = "bool"
    [] q.type = "any"  -> q.node # 0
    [] OTHER           -> Type(d, q.node) = "string"

Number(d, q) ==
  CASE q.type = "bool"   -> IF Type(d, q.node) = "bool" THEN d.nodes[q.node].num ELSE 0
    [] q.type = "center" -> IF Str(d, q.node) = "forward" THEN 1 ELSE 0
    [] q.type = "scope"  -> IF Str(d, q.node) = "all_attacks" THEN 1 ELSE 0
    [] q.type = "i64"    -> Num(d, q.node)
    [] OTHER             -> IF Fits(d, q.node) THEN Num(d, q.node) ELSE 0

Numbers(d, asked) ==
  LET fed == SelectSeq(asked, LAMBDA q : q.type # "any")
  IN  [i \in DOMAIN fed |-> Number(d, fed[i])]

I32(d, path) == Number(d, Ask(Node(d, path), "i32"))

(* A string node to compare, and its place in a list by strSame, or 0.     *)
Name(d, v) == [type |-> IF v = 0 THEN "none" ELSE Type(d, v), text |-> Str(d, v)]
Names(d, vs) == [i \in DOMAIN vs |-> Name(d, vs[i])]
IndexIn(a, list) == SelectInSeq(list, LAMBDA b : a.type = "string" /\ a = b)

(* strSame met something that is no string before it found the name.       *)
Clash(a, list) ==
  LET i == IndexIn(a, list)
      seen == {list[j].type : j \in 1 .. (IF i = 0 THEN Len(list) ELSE i)} \ {"none"}
  IN  a.type # "none" /\ seen # {} /\ seen \cup {a.type} # {"string"}

----------------------------------------------------------------------------
(* The parts with rules of their own.                                      *)
ForgeRate(d) ==
  LET rates == Elems(d, Node(d, <<"forge_tier_rate_permille">>))
  IN  [i \in DOMAIN rates |-> Number(d, Ask(rates[i], "i32"))]

(* The rates are added up in an int32_t, which in a plain build wraps.     *)
Wrap(x) == ((x + MAX_I32 + 1) % (2 * (MAX_I32 + 1))) - MAX_I32 - 1

(* static_cast<uint32_t>, of a number of 64 bits.                          *)
Unsigned(x) == x % (2 * (MAX_I32 + 1))

RateSum(rate) == FoldLeft(LAMBDA x, y : Wrap(x + y), 0, rate)

Uniques(d) == Elems(d, Node(d, <<"unique_engravings">>))
Bound(d)   == 1 .. Min({Len(Uniques(d)), Len(Legends)})     \* those looked at
SkillIds(d) ==
  LET skills == Elems(d, Node(d, <<"skills">>))
  IN  [i \in DOMAIN skills |-> Name(d, Key(d, skills[i], "id"))]

SkillOf(d, i) == Name(d, Key(d, Uniques(d)[i], "skill"))
UniqueSkill(d, ids) == [i \in Bound(d) |-> IndexIn(SkillOf(d, i), ids)]

LegendAsked(d) ==
  FlattenSeq([i \in DOMAIN Legends |->
    [j \in DOMAIN Legends[i].fields |->
       Ask(Key(d, Elem(d, Node(d, <<"unique_engravings">>), i), Legends[i].fields[j].key),
           Legends[i].fields[j].type)]])

StatNames == [i \in DOMAIN Stats |-> [type |-> "string", text |-> Stats[i]]]
StatPool(d) ==
  LET pool == Elems(d, Node(d, <<"stat_card_pool">>))
  IN  [i \in DOMAIN pool |-> IndexIn(Name(d, pool[i]), StatNames)]

Commons(d) == Elems(d, Node(d, <<"commons">>))
RecipeNodes(d) == Elems(d, Node(d, <<"recipes">>))
Goods(d)   == Commons(d) \o RecipeNodes(d)
ItemIds(d) ==
  LET goods == Goods(d)
  IN  [i \in DOMAIN goods |-> Name(d, Key(d, goods[i], "id"))]
Grades(d)  == Names(d, Elems(d, Node(d, <<"grades">>)))
Tiers(d)   ==
  LET goods  == Goods(d)
      grades == Grades(d)
  IN  [i \in DOMAIN goods |-> IndexIn(Name(d, Key(d, goods[i], "grade")), grades)]

(* A stat an item does not mention is 0.                                   *)
StatNode(d, good, s) == Key(d, Key(d, good, "stats_permille"), s)
Axes == Append(Stats, "slow_aura")
ReadStats(d, good) ==
  [s \in Range(Axes) |-> Number(d, Ask(StatNode(d, good, s), "i32"))]
StatsAsked(d, good) ==
  LET named == SelectSeq(Axes, LAMBDA s : StatNode(d, good, s) # 0)
  IN  [i \in DOMAIN named |-> Ask(StatNode(d, good, named[i]), "i32")]

Needs(d, r) == Names(d, Elems(d, Key(d, r, "ingredients")))

(* The recipes, the ingredients of each by their index.                    *)
RecipeRows(d) ==
  LET commons == Len(Commons(d))
      rows    == RecipeNodes(d)
      ids     == ItemIds(d)
      found(needs) == [k \in DOMAIN needs |-> IndexIn(needs[k], ids)]
  IN  [r \in DOMAIN rows |-> [result |-> commons + r, needs |-> found(Needs(d, rows[r]))]]

(* tierStart: where the items of each tier begin, by counting.             *)
TierStart(tiers, n) ==
  [t \in 1 .. n + 1 |-> Cardinality({i \in DOMAIN tiers : tiers[i] < t})]

(* The counting sort: each item at the cursor of its tier.                 *)
TierItems(tiers, n) ==
  FoldLeft(LAMBDA acc, i : [items |-> [acc.items EXCEPT ![acc.cursor[tiers[i]] + 1] = i],
                            cursor |-> [acc.cursor EXCEPT ![tiers[i]] = @ + 1]],
           [cursor |-> TierStart(tiers, n), items |-> [i \in DOMAIN tiers |-> 1]],
           [i \in DOMAIN tiers |-> i]).items

----------------------------------------------------------------------------
(* The checks of each loader in their order: whether the check fails, and  *)
(* the key the loader names.  d is the documents by file.                  *)
Check(bad, key) == [bad |-> bad, key |-> key]

TooLong(d, f, e) == e.form # "one" /\ Size(d[f], Node(d[f], e.path)) > e.limit
LimitChecks(d, f) ==
  [i \in DOMAIN Layout[f] |-> Check(TooLong(d, f, Layout[f][i]), Last(Layout[f][i].path))]

MonsterChecks(d) ==
  <<Check(I32(d["spawn"], <<"approach_ticks">>) <= 0
          \/ I32(d["progression"], <<"tick_hz">>) <= 0, "approach_ticks")>>

SkillChecks(d) ==
  LET skills == Elems(d, Node(d, <<"skills">>))
      center(v) == Key(d, v, "aoe_center")
  IN  <<Check(\E i \in DOMAIN skills :
                Type(d, center(skills[i])) # "string"
                  \/ Str(d, center(skills[i])) \notin {"hero", "forward"}, "aoe_center")>>

CardChecks(d, ids) ==
  LET rate  == ForgeRate(d)
      order(i) == Name(d, Key(d, Uniques(d)[i], "id"))
      pool  == Elems(d, Node(d, <<"stat_card_pool">>))
      skill == UniqueSkill(d, ids)
  IN  <<Check(Len(rate) \notin 1 .. MAX_ITEM_TIERS, "forge_tier_rate_permille"),
        Check(\E i \in DOMAIN rate : rate[i] < 0, "forge_tier_rate_permille"),
        Check(RateSum(rate) # 1000, "forge_tier_rate_permille"),
        Check(Uniques(d) = <<>>, "unique_engravings"),
        Check(Len(Uniques(d)) + LEGEND_RELICS # Unsigned(Num(d, Node(d, <<"legend_pool_size">>))),
              "legend_pool_size"),
        Check(\E i \in Bound(d) : order(i) # [type |-> "string", text |-> Legends[i].id],
              "unique_engravings"),
        Check(\E i \in Bound(d) : skill[i] = 0, "skill"),
        Check(Len(pool) > Len(Stats), "stat_card_pool"),
        Check(\E i \in DOMAIN pool : StatPool(d)[i] = 0, "stat_card_pool")>>

(* mutant: the last tier is not looked at.                                 *)
DrawsEmptyTierBeforeLast(rate, tiers, n) ==
  \E t \in DOMAIN rate : t < n /\ rate[t] # 0 /\ t \notin Range(tiers)

(* The forge can draw a tier that has no item.                             *)
DrawsEmptyTier(rate, tiers, n) ==
  \E t \in DOMAIN rate : t <= n /\ rate[t] # 0 /\ t \notin Range(tiers)

ItemChecks(d, rate) ==
  LET n     == Len(Grades(d))
      tiers == Tiers(d)
      rows  == RecipeRows(d)
  IN  <<Check(Len(tiers) > MAX_ITEM_TYPES, "none"),
        Check(n \notin 1 .. MAX_ITEM_TIERS, "grades"),
        Check(0 \in Range(tiers), "grade"),
        Check(DrawsEmptyTier(rate, tiers, n), "grades"),
        Check(\E t \in DOMAIN rate : t > n /\ rate[t] # 0, "forge_tier_rate_permille"),
        Check(\E r \in DOMAIN rows :
                Len(rows[r].needs) \notin 1 .. MAX_RECIPE_INGREDIENTS \/ 0 \in Range(rows[r].needs),
              "ingredients")>>

(* RecipeTable::build, past what loadItems has made sure of: an item may   *)
(* not be in too many recipes.                                             *)
BuildCheck(d) ==
  LET rows == RecipeRows(d)
  IN  Check(\E i \in 1 .. Len(Goods(d)) :
              Cardinality({r \in DOMAIN rows : i \in Range(rows[r].needs)}) > MAX_RECIPES_PER_ITEM,
            "recipes")

(* sweep: some lookup of the loader missed or met another type.            *)
TableMissing(d, path) == Node(d, path) = 0

Unmet(d, f) ==
  LET doc == d[f]
      all == FlattenSeq([i \in DOMAIN Layout[f] |-> Asked(doc, Layout[f][i])])
      named(paths) == \E p \in paths : TableMissing(doc, p)
      unmet(asked) == \E i \in DOMAIN asked : ~Met(doc, asked[i])
      goods == Goods(doc)
      grades == Grades(doc)
      ids    == ItemIds(doc)
  IN  \/ named({Layout[f][i].path : i \in DOMAIN Layout[f]}) \/ unmet(all)
      \/ /\ f = "cards"
         /\ \/ named({<<"forge_tier_rate_permille">>, <<"unique_engravings">>, <<"stat_card_pool">>})
            \/ LET fr == Elems(doc, Node(doc, <<"forge_tier_rate_permille">>))
               IN  unmet([i \in DOMAIN fr |-> Ask(fr[i], "i32")])
            \/ \E i \in Bound(doc) : Clash(SkillOf(doc, i), SkillIds(d["skills"]))
            \/ unmet(LegendAsked(doc))
      \/ /\ f = "items"
         /\ \/ named({<<"commons">>, <<"recipes">>, <<"axes">>, <<"grades">>})
            \/ \E i \in DOMAIN goods :
                 \/ Key(doc, goods[i], "id") = 0 \/ Key(doc, goods[i], "stats_permille") = 0
                 \/ unmet(StatsAsked(doc, goods[i]))
                 \/ Clash(Name(doc, Key(doc, goods[i], "grade")), grades)
            \/ \E r \in Range(RecipeNodes(doc)) :
                 \/ Key(doc, r, "ingredients") = 0
                 \/ \E k \in DOMAIN Needs(doc, r) : Clash(Needs(doc, r)[k], ids)

(* The checks of one loader, with its sweep; loadHero reads its interval   *)
(* first, and loadItems builds the recipe table after its sweep.           *)
Checks(d, f) ==
  LET own == CASE f = "hero"  -> <<Check(I32(d[f], <<"attack_interval_ticks">>) <= 0,
                                         "attack_interval_ticks")>>
               [] f = "monsters" -> MonsterChecks(d)
               [] f = "skills"   -> SkillChecks(d[f])
               [] f = "cards"    -> CardChecks(d[f], SkillIds(d["skills"]))
               [] f = "items"    -> ItemChecks(d[f], ForgeRate(d["cards"]))
               [] OTHER          -> <<>>
      limits == LimitChecks(d, f)
      sweep  == <<Check(Unmet(d, f), "lookup")>>
  IN  (IF f \in {"hero", "monsters"} THEN own \o limits ELSE limits \o own)
        \o sweep \o (IF f = "items" THEN <<BuildCheck(d[f])>> ELSE <<>>)

(* What a failure reports: monsters' approach check blames spawn.json.     *)
Failure(f, key) == [file |-> IF key = "approach_ticks" THEN "spawn" ELSE f, key |-> key]

NoError == [file |-> "none", key |-> "none"]

FirstBad(f, checks) ==
  LET i == SelectInSeq(checks, LAMBDA c : c.bad)
  IN  IF i = 0 THEN NoError ELSE Failure(f, checks[i].key)

(* The first loader of a sequence of files that fails.                     *)
FirstRefused(d, files) ==
  LET i == SelectInSeq(files, LAMBDA f : FirstBad(f, Checks(d, f)) # NoError)
  IN  IF i = 0 THEN NoError ELSE FirstBad(files[i], Checks(d, files[i]))

----------------------------------------------------------------------------
(* What a load that goes through leaves.                                   *)
Configured(d) ==
  LET items == d["items"]
      goods == Goods(items)
      tiers == Tiers(items)
      n     == Len(Grades(items))
  IN  [read        |-> [f \in File |-> [i \in DOMAIN Layout[f] |->
                                          Numbers(d[f], Asked(d[f], Layout[f][i]))]],
       forgeRate   |-> ForgeRate(d["cards"]),
       uniqueSkill |-> UniqueSkill(d["cards"], SkillIds(d["skills"])),
       legends     |-> Numbers(d["cards"], LegendAsked(d["cards"])),
       statPool    |-> StatPool(d["cards"]),
       itemStats   |-> [i \in DOMAIN goods |-> ReadStats(items, goods[i])],
       tiers       |-> tiers,
       tierStart   |-> TierStart(tiers, n),
       tierItems   |-> TierItems(tiers, n),
       commons     |-> Len(Commons(items)),
       recipes     |-> RecipeRows(items)]

BlankConfig ==
  [read |-> [f \in File |-> <<>>], forgeRate |-> <<>>, uniqueSkill |-> <<>>, legends |-> <<>>,
   statPool |-> <<>>, itemStats |-> <<>>, tiers |-> <<>>, tierStart |-> <<>>,
   tierItems |-> <<>>, commons |-> 0, recipes |-> <<>>]

(* The numbers take and feed fold into the fingerprint, in reading order.  *)
Fed(d, c) ==
  LET items == d["items"]
      goods == Goods(items)
      of(f) == FlattenSeq(c.read[f])
  IN  of("stats") \o of("hero") \o of("progression") \o of("spawn") \o of("segments")
      \o of("monsters") \o of("skills")
      \o of("cards") \o c.forgeRate \o c.uniqueSkill \o c.legends \o c.statPool
      \o FlattenSeq([i \in DOMAIN goods |-> Numbers(items, StatsAsked(items, goods[i]))])
      \o c.tiers
      \o FlattenSeq([r \in DOMAIN c.recipes |-> Append(c.recipes[r].needs, c.recipes[r].result)])
=============================================================================
