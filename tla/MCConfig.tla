------------------------------ MODULE MCConfig ------------------------------
(* A host, nine small files and what an edit can make of them, and a       *)
(* draft of hero.json typed lexeme by lexeme.                              *)
EXTENDS ConfigReader

(* Texts are written down as values: Obj, Arr, IntLex and StrLex.          *)
Lex(l) == <<Lexeme(l)>>
I(n) == <<IntLex(n)>>
S(s) == <<StrLex(s)>>
Commas(parts) ==
  FlattenSeq([i \in DOMAIN parts |-> IF i = 1 THEN parts[i] ELSE Lex("comma") \o parts[i]])
Arr(parts) == Lex("lbracket") \o Commas(parts) \o Lex("rbracket")
KeyVal(k, v) == S(k) \o Lex("colon") \o v
Obj(parts) == Lex("lbrace") \o Commas(parts) \o Lex("rbrace")
Ints(s) == Arr([i \in DOMAIN s |-> I(s[i])])

Field(k, t) == [key |-> k, type |-> t]
One(path, t) == [path |-> path, form |-> "one", limit |-> 0, fields |-> <<Field("", t)>>]
List(path, n, t) == [path |-> path, form |-> "list", limit |-> n, fields |-> <<Field("", t)>>]
Pairs(path, n) ==
  [path |-> path, form |-> "pairs", limit |-> n, fields |-> <<Field("", "i32"), Field("", "i64")>>]
Rows(path, n, fields) == [path |-> path, form |-> "rows", limit |-> n, fields |-> fields]

MCStats == <<"attack_power", "armor">>
MCLegends == <<[id |-> "W_EXECUTE", fields |-> <<Field("scope", "scope")>>],
               [id |-> "W_VORTEX",  fields |-> <<Field("duration_ticks", "i32")>>]>>
MCLayout ==
  [f \in {"hero", "progression", "spawn", "segments", "monsters", "cards", "skills", "items", "stats"} |->
     CASE f = "hero" -> <<One(<<"attack_interval_ticks">>, "i32")>>
       [] f = "progression" -> <<One(<<"tick_hz">>, "i32"), List(<<"level_need_table">>, 2, "i64")>>
       [] f = "spawn" -> <<One(<<"approach_ticks">>, "i32"),
                           List(<<"concurrent_cap_by_segment">>, 2, "i32"),
                           List(<<"batch_by_segment">>, 2, "i32")>>
       [] f = "segments" -> <<Pairs(<<"elite_spawn_points">>, 2)>>
       [] f = "monsters" -> <<One(<<"trash", "hp">>, "i32"),
                              Rows(<<"elites">>, 1, <<Field("hp", "i32")>>),
                              One(<<"boss_execute_immune">>, "bool"),
                              Rows(<<"boss", "patterns">>, 1, <<Field("hits", "i32"), Field("damage", "i32")>>)>>
       [] f = "cards" -> <<One(<<"legend_pool_size">>, "i64"),
                           Rows(<<"grades">>, 1, <<Field("rate_permille", "i32")>>)>>
       [] f = "skills" -> <<Rows(<<"skills">>, 2, <<Field("mult_permille", "i32"), Field("aoe", "bool"),
                                                     Field("aoe_center", "center"), Field("id", "any")>>)>>
       [] f = "items" -> <<>>
       [] OTHER -> <<One(<<"stats", "attack_power", "min_value_permille">>, "i32"),
                     One(<<"stats", "armor", "min_value_permille">>, "i32")>>]

Hero(k, v) == Obj(<<KeyVal(k, v)>>)
Progression(hz, need) == Obj(<<KeyVal("tick_hz", I(hz)), KeyVal("level_need_table", need)>>)
Spawn(ticks, cap, batch) ==
  Obj(<<KeyVal("approach_ticks", I(ticks)), KeyVal("concurrent_cap_by_segment", Ints(cap)),
        KeyVal("batch_by_segment", Ints(batch))>>)
Segments(point) == Obj(<<KeyVal("elite_spawn_points", Arr(<<point>>))>>)
Monsters(elites, immune) ==
  Obj(<<KeyVal("trash", Obj(<<KeyVal("hp", I(9))>>)),
        KeyVal("elites", Arr([i \in DOMAIN elites |-> Obj(<<KeyVal("hp", I(elites[i]))>>)])),
        KeyVal("boss_execute_immune", Lex(immune)),
        KeyVal("boss", Obj(<<KeyVal("patterns",
                             Arr(<<Obj(<<KeyVal("hits", I(3)), KeyVal("damage", I(63))>>)>>))>>))>>)
CardsOf(size, rates, ids, skill, pool) ==
  Obj(<<KeyVal("legend_pool_size", I(size)),
        KeyVal("grades", Arr(<<Obj(<<KeyVal("rate_permille", I(1000))>>)>>)),
        KeyVal("forge_tier_rate_permille", Ints(rates)),
        KeyVal("unique_engravings",
               Arr([i \in DOMAIN ids |-> Obj(<<KeyVal("id", S(ids[i])), KeyVal("skill", skill),
                                               KeyVal("scope", S("all_attacks")),
                                               KeyVal("duration_ticks", I(8))>>)])),
        KeyVal("stat_card_pool", Arr(<<S(pool)>>))>>)
Cards(rates, ids, skill, pool) == CardsOf(5, rates, ids, skill, pool)
Legendary == <<"W_EXECUTE", "W_VORTEX">>
Skills(id, center) ==
  Obj(<<KeyVal("skills", Arr(<<Obj(<<KeyVal("mult_permille", I(7)), KeyVal("aoe", Lex("true")),
                                     KeyVal("aoe_center", S(center)), KeyVal("id", S(id))>>)>>))>>)
Good(id, grade, stats, more) ==
  Obj(<<KeyVal("id", S(id)), KeyVal("grade", S(grade)), KeyVal("stats_permille", Obj(stats))>> \o more)
ItemsOf(stat, grade, needs, last, grades) ==
  Obj(<<KeyVal("commons", Arr(<<Good("C1", "common", <<KeyVal(stat, I(50))>>, <<>>)>>)),
        KeyVal("recipes", Arr(<<Good("U1", grade, <<>>, <<KeyVal("ingredients", needs)>>),
                                Good("C2", last, <<>>, <<KeyVal("ingredients", Arr(<<S("C1")>>))>>)>>)),
        KeyVal("axes", Arr(<<>>)),
        KeyVal("grades", Arr([i \in DOMAIN grades |-> S(grades[i])]))>>)
Items(stat, grade, needs) == ItemsOf(stat, grade, needs, "common", <<"common", "rare">>)
Twice == Arr(<<S("C1"), S("C1")>>)
StatFloors(second) ==
  Obj(<<KeyVal("stats", Obj(<<KeyVal("attack_power", Obj(<<KeyVal("min_value_permille", I(0))>>)),
                              KeyVal(second, Obj(<<KeyVal("min_value_permille", I(0))>>))>>))>>)

MCText ==
  [hero        |-> Hero("attack_interval_ticks", I(13)),
   hero_still  |-> Hero("attack_interval_ticks", I(0)),
   hero_twice  |-> Obj(<<KeyVal("attack_interval_ticks", I(13)), KeyVal("attack_interval_ticks", I(0))>>),
   hero_frac   |-> Hero("attack_interval_ticks", Lex("frac")),
   prog        |-> Progression(20, Ints(<<10, 25>>)),
   prog_fast   |-> Progression(200, Ints(<<10, 25>>)),
   prog_number |-> Progression(20, I(4)),
   spawn       |-> Spawn(60, <<4, 6>>, <<2>>),
   spawn_moved |-> Spawn(60, <<4>>, <<6, 2>>),
   spawn_zero  |-> Spawn(0, <<4, 6>>, <<2>>),
   segs        |-> Segments(Ints(<<5, 0>>)),
   mobs        |-> Monsters(<<30>>, "true"),
   mobs_over   |-> Monsters(<<30, 40>>, "true"),
   mobs_mixed  |-> Monsters(<<30>>, "null"),
   cards       |-> Cards(<<700, 300>>, Legendary, S("slam"), "armor"),
   cards_sum   |-> Cards(<<700, 200>>, Legendary, S("slam"), "armor"),
   cards_wrap  |-> CardsOf(5 + 2 * (MAX_I32 + 1), <<5000, 5000, 1002>>, Legendary, S("slam"), "armor"),
   cards_order |-> Cards(<<700, 300>>, <<"W_VORTEX", "W_EXECUTE">>, S("slam"), "armor"),
   cards_typo  |-> Cards(<<700, 300>>, Legendary, S("slam"), "armour"),
   skills      |-> Skills("slam", "forward"),
   skills_id   |-> Skills("smash", "forward"),
   skills_mid  |-> Skills("slam", "middle"),
   items       |-> Items("attack_power", "rare", Twice),
   items_moved |-> Items("armor", "rare", Twice),
   items_empty |-> Items("armor", "common", Twice),
   items_typo  |-> Items("armor", "rare", Arr(<<S("C9")>>)),
   items_loop  |-> Items("armor", "rare", Arr(<<S("C2"), S("C1")>>)),
   items_three |-> ItemsOf("armor", "rare", Twice, "epic", <<"common", "rare", "epic">>),
   stats       |-> StatFloors("armor"),
   stats_gone  |-> StatFloors("range")]

MCBase ==
  [hero |-> "hero", progression |-> "prog", spawn |-> "spawn", segments |-> "segs",
   monsters |-> "mobs", cards |-> "cards", skills |-> "skills", items |-> "items", stats |-> "stats"]

MCEditions ==
  [hero |-> {Draft, "hero", "hero_twice", "hero_still", "hero_frac"},
   progression |-> {"prog_fast", "prog_number"},
   spawn |-> {"spawn_moved", "spawn_zero"},
   segments |-> {},
   monsters |-> {"mobs_over", "mobs_mixed"},
   cards |-> {"cards", "cards_sum", "cards_wrap", "cards_order", "cards_typo"},
   skills |-> {"skills_id", "skills_mid"},
   items |-> {"items", "items_moved", "items_empty", "items_typo", "items_loop", "items_three"},
   stats |-> {"stats_gone"}]

MCAlphabet ==
  {Lexeme(l) : l \in {"lbrace", "rbrace", "lbracket", "rbracket", "comma", "colon", "ws", "open", "huge", "true"}}
    \cup {StrLex("attack_interval_ticks"), IntLex(2)}

MCEdits == [h \in Handles |-> 2]
=============================================================================
