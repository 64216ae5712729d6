------------------------------- MODULE Items -------------------------------
(* The inventory inside the simulation: an item-draw card, the forge relic *)
(* at the end of a segment and the player's craft input change it          *)
(* (levelup.h chooseCard, items_apply.h, sim.h applyInput), and the        *)
(* stats of what is held are folded into the hero's percentage sums, which *)
(* stat cards add to as well.  The simulation has one table and never      *)
(* reloads it.                                                             *)
EXTENDS Inventory, FiniteSetsExt

CONSTANTS Stat,         \* the stats an item can carry
          ItemStats,    \* [Item -> [Stat -> Int]], permille per item held
          ItemSlowAura, \* [Item -> Int]
          Draws,        \* the items a card or the forge can bring
          ONE_RAW,      \* Fixed::ONE_RAW
          Boosts,       \* the raw values of stat cards
          MAX_BOOST     \* bound of the model: what stat cards add up to

(* The stat s of a bag of items, in permille.                              *)
BagStat(t, cnt, s) == MapThenSumSet(LAMBDA i : ItemStats[i][s] * cnt[i], ItemTypes[t])

(* Stats are whole permilles.                                              *)
ASSUME ItemsAssumption ==
  /\ ONE_RAW \in Nat /\ Boosts \subseteq Int /\ MAX_BOOST \in Int
  /\ IsFiniteSet(Item) /\ ItemStats \in [Item -> [Stat -> Int]]

VARIABLES itemStatApplied,   \* permille of each stat that is in the hero's sum
          slowAura,          \* hero.slowAura
          accumPctAdd,       \* the hero's PercentAdd sums, raw Fixed
          cardAdds           \* history: what the stat cards added, raw Fixed

statVars == <<itemStatApplied, slowAura, accumPctAdd, cardAdds>>
vars == <<invVars, statVars>>

(* Fixed::fromPermille truncates toward zero.                              *)
FromPermille(pm) == IF pm >= 0 THEN (pm * ONE_RAW) \div 1000 ELSE -((-pm * ONE_RAW) \div 1000)

(* itemStatTotals, for one stat and for the aura.                          *)
HeldStat(cnt, s) == BagStat(table, cnt, s)
HeldAura(cnt) == MapThenSumSet(LAMBDA i : ItemSlowAura[i] * cnt[i], ItemTypes[table])

(* mutant: the difference is converted, and its rounding piles up.         *)
RefreshByDifference ==
  /\ itemStatApplied' = [s \in Stat |-> HeldStat(counts', s)]
  /\ accumPctAdd' = [s \in Stat |-> accumPctAdd[s] + FromPermille(itemStatApplied'[s] - itemStatApplied[s])]
  /\ slowAura' = HeldAura(counts')

(* refreshItemStats: the old contribution out, the new one in.             *)
RefreshItemStats ==
  /\ itemStatApplied' = [s \in Stat |-> HeldStat(counts', s)]
  /\ accumPctAdd' = [s \in Stat |-> accumPctAdd[s] - FromPermille(itemStatApplied[s])
                                                   + FromPermille(itemStatApplied'[s])]
  /\ slowAura' = HeldAura(counts')

----------------------------------------------------------------------------
ItemsInit ==
  /\ Init
  /\ itemStatApplied = [s \in Stat |-> 0] /\ slowAura = 0
  /\ accumPctAdd = [s \in Stat |-> 0] /\ cardAdds = [s \in Stat |-> 0]

(* One item comes, by an item-draw card or by forgeGrant.  Refused by the  *)
(* inventory, it changes nothing.                                          *)
Grant(i) ==
  /\ Add(table, i, 1)
  /\ RefreshItemStats
  /\ UNCHANGED cardAdds

(* applyInput with a Craft: the stats follow a craft that went through.    *)
CraftInput(r) ==
  /\ Craft(table, r)
  /\ RefreshItemStats
  /\ UNCHANGED cardAdds

(* chooseCard with a StatBoost card.                                       *)
StatBoost(s, v) ==
  /\ cardAdds[s] + v <= MAX_BOOST
  /\ accumPctAdd' = [accumPctAdd EXCEPT ![s] = @ + v]
  /\ cardAdds' = [cardAdds EXCEPT ![s] = @ + v]
  /\ UNCHANGED <<invVars, itemStatApplied, slowAura>>

ItemsNext ==
  \/ \E i \in Draws : Grant(i)
  \/ \E r \in Index : CraftInput(r)
  \/ \E s \in Stat, v \in Boosts : StatBoost(s, v)

ItemsSpec == ItemsInit /\ [][ItemsNext]_vars

----------------------------------------------------------------------------
(* The hero's percentage sum is what the cards gave and the rounded stats  *)
(* of exactly the items held now, in whatever order items came, were       *)
(* crafted away and cards were taken between (items_apply.h:9-12).         *)
StatsAreWhatIsHeld ==
  \A s \in Stat : accumPctAdd[s] = cardAdds[s] + FromPermille(HeldStat(counts, s))
=============================================================================
