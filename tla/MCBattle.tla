------------------------------ MODULE MCBattle ------------------------------
(* Four enemies of three kinds against a hero with one of four hands of    *)
(* cards.  A tile is ten units; distances keep the proportions of          *)
(* data/spawn.json and hero.json (reach 3.0, parting 1.5 and 1.0, margin   *)
(* 0.4 tiles), health is a few strikes.                                    *)
EXTENDS Battle

P(x, y) == [x |-> x, y |-> y]

MCId        == <<6, 5, 4, 7>>   \* not in the order of the rows
MCPriority  == <<1, 3, 1, 2>>
MCSpeed     == <<4, 3, 4, 3>>
MCReach     == <<14, 35, 14, 35>>
MCArchetype == <<"Trash", "Elite", "Trash", "Boss">>
MCHp        == <<8, 16, 8, 24>>
MCArmor     == <<0, 5, 0, 5>>
MCGauge     == <<0, 10, 0, 10>>
MCImmune    == {4}
MCExp       == <<1, 3, 1, 9>>

MCSkills  == {"spin", "rift", "thrust"}
MCAoe     == {"spin", "rift"}
MCForward == {"rift"}
MCMult    == [spin |-> 6, rift |-> 8, thrust |-> 12]
MCCc      == [spin |-> 0, rift |-> 7, thrust |-> 7]
MCUnique  == [Centrifuge |-> "spin", Vortex |-> "spin", Shockwave |-> "thrust",
              Aftershock |-> "rift", Fissure |-> "rift"]
MCZoneTicks == [Vortex |-> 2, Aftershock |-> 1, Fissure |-> 3]

None == [chain |-> 0, pierce |-> 0, decay |-> 0, wide |-> 0, rend |-> 0, beacon |-> 0, bolt |-> 0,
         legends |-> {}, skills |-> {}]
MCBuilds ==
  {[None EXCEPT !.skills = {"thrust", "rift"}],
   [None EXCEPT !.chain = 5, !.pierce = 7, !.decay = 2, !.skills = {"spin", "thrust"},
                !.legends = {"Execute", "Centrifuge", "Shockwave"}],
   [None EXCEPT !.wide = 5, !.rend = 5, !.beacon = 5, !.bolt = 3, !.skills = {"spin", "thrust"},
                !.legends = {"Execute", "Vortex", "Centrifuge"}],
   [None EXCEPT !.decay = 3, !.skills = {"rift"}, !.legends = {"Aftershock", "Fissure", "Echo", "Storm"}]}

MCFormations ==
  {<<P(14, 0), P(45, 4), P(-6, 12), P(-40, 0)>>,
   <<P(30, 0), P(30, 0), P(30, 0), P(30, 0)>>,
   <<P(0, 20), P(38, 0), P(20, 0), P(52, 2)>>,
   <<P(24, 10), P(66, 33), P(24, -10), P(-70, -20)>>}
=============================================================================
