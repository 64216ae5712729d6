------------------------------- MODULE LevelUp -------------------------------
(***************************************************************************)
(* Experience, level-ups and the card screens of the core                  *)
(* (core/include/dc/levelup.h, card.h), with the events they push          *)
(* (event.h).  Every level is owed one card; at most one screen is open,   *)
(* and further levels wait in pending.                                     *)
(*                                                                         *)
(* The grade draw is abstracted to a choice among the cards the pools can  *)
(* give, all of whose rates are positive in cards.json.  Card values and   *)
(* what a card does to the hero are left out.                              *)
(***************************************************************************)
EXTENDS Integers, Sequences

CONSTANTS
  TotalExp,       \* experience needed in all to reach each level: the sums of
                  \* SimConfig::needFor
  Amounts,        \* experience a kill can give, R_GREED included
  Items, Stats, Growth, Legends,  \* the pools: commons, stats, engravings and relics
  FirstStat,      \* statCardPool[0], for a card when the stats are used up on a screen
  StatZero,       \* the stat of entry id 0, for one when engravings and relics are
  CardsPerLevel,
  MAX_EVENTS,     \* EventQueue::MAX_EVENTS
  MaxLevel        \* bound of the model

ASSUME LevelUpAssumption ==
  /\ TotalExp \in [1 .. MaxLevel + 1 -> Nat]
  /\ \A l \in 1 .. MaxLevel : TotalExp[l] < TotalExp[l + 1]
  /\ Amounts \subseteq Nat \ {0}
  /\ Items # {} /\ FirstStat \in Stats /\ StatZero \notin Items \cup Legends
  /\ Items \cap (Stats \cup Growth \cup Legends) = {}
  /\ Legends \cap (Stats \cup Growth) = {}
  /\ CardsPerLevel \in Nat \ {0} /\ MAX_EVENTS \in Nat
  /\ MaxLevel \in Nat \ {0}

Cards      == Items \cup Stats \cup {StatZero} \cup Growth \cup Legends
EventKinds == {"Hit", "LevelUp", "CardOffer", "RunEnd"}

VARIABLES
  level, exp,
  pending,        \* CardState::pendingLevelUps
  offer,          \* the cards on the screen; empty when none is open
  legendTaken,
  picks,          \* the sum of takenByGrade
  events, dropped \* the output queue and what it lost

cardVars  == <<level, exp, pending, offer, legendTaken, picks>>
queueVars == <<events, dropped>>
levelVars == <<cardVars, queueVars>>

OfferOpen == offer # <<>>

----------------------------------------------------------------------------
NeedFor(l) == TotalExp[l + 1] - TotalExp[l]

(* The experience that takes the hero from its level to level l.           *)
Cost(l) == TotalExp[l] - TotalExp[level]

(* The while loop of gainExp stops at level l.                             *)
PaysFor(x, l) == Cost(l) <= x /\ x < Cost(l + 1)

(* EventQueue::push, for one event after the other: a full queue drops.    *)
Push(evs) ==
  LET room == MAX_EVENTS - Len(events)
      kept == IF Len(evs) <= room THEN Len(evs) ELSE room
  IN  /\ events' = events \o SubSeq(evs, 1, kept)
      /\ dropped' = dropped + Len(evs) - kept

(* mutant: taken legends stay in the pool.                                 *)
FreshLegendsAll(taken, shown) == Legends \ shown

(* The legends neither taken in this run nor shown on this screen.         *)
FreshLegends(taken, shown) == Legends \ (taken \cup shown)

(* rollCard: a fresh legend, or a stat, an engraving or a relic not shown. *)
(* A pool that is used up gives a stat that is on the screen already, or   *)
(* the one whose id is 0.                                                  *)
RollCard(taken, shown) ==
  FreshLegends(taken, shown)
    \cup (IF Stats \subseteq shown THEN {FirstStat} ELSE Stats \ shown)
    \cup (IF Growth \subseteq shown THEN {StatZero} ELSE Growth \ shown)

(* dealCards: the item draw first, then cards rolled one after the other.  *)
Screens(taken) ==
  {s \in [1 .. CardsPerLevel -> Cards] :
     /\ s[1] \in Items
     /\ \A i \in 2 .. CardsPerLevel : s[i] \in RollCard(taken, {s[j] : j \in 1 .. i - 1})}

----------------------------------------------------------------------------
Init ==
  /\ level = 1 /\ exp = 0
  /\ pending = 0 /\ offer = <<>>
  /\ legendTaken = {}
  /\ picks = 0
  /\ events = <<>> /\ dropped = 0

(* gainExp: the levels, and a screen when one is owed and none is open.    *)
GainExp(amount) ==
  \E l \in level .. MaxLevel :
    /\ PaysFor(exp + amount, l)
    /\ level' = l
    /\ exp' = exp + amount - Cost(l)
    /\ pending' = pending + l - level
    /\ LET ups   == [i \in 1 .. l - level |-> "LevelUp"]
           deals == pending' > 0 /\ ~OfferOpen
       IN  /\ IF deals THEN offer' \in Screens(legendTaken) ELSE offer' = offer
           /\ Push(IF deals THEN Append(ups, "CardOffer") ELSE ups)
    /\ UNCHANGED <<legendTaken, picks>>

(* mutant: the next owed screen is left to the next gainExp.               *)
ChooseCardNoDeal(i) ==
  /\ i \in 1 .. Len(offer)
  /\ legendTaken' = legendTaken \cup ({offer[i]} \cap Legends)
  /\ picks' = picks + 1
  /\ pending' = pending - 1
  /\ offer' = <<>>
  /\ UNCHANGED <<level, exp, queueVars>>

(* mutant: one card pays for every level owed.                             *)
ChooseCardPaysAll(i) ==
  /\ i \in 1 .. Len(offer)
  /\ legendTaken' = legendTaken \cup ({offer[i]} \cap Legends)
  /\ picks' = picks + 1
  /\ pending' = 0
  /\ offer' = <<>>
  /\ UNCHANGED <<level, exp, queueVars>>

(* chooseCard: the card, then the next screen if another level is owed,    *)
(* without an event.  A refused choice (bad index, no screen, no room for  *)
(* the item) changes nothing.                                              *)
ChooseCard(i) ==
  /\ i \in 1 .. Len(offer)
  /\ legendTaken' = legendTaken \cup ({offer[i]} \cap Legends)
  /\ picks' = picks + 1
  /\ pending' = (IF pending > 0 THEN pending - 1 ELSE 0)
  /\ offer' \in (IF pending' > 0 THEN Screens(legendTaken') ELSE {<<>>})
  /\ UNCHANGED <<level, exp, queueVars>>

(* rerollCards: the growth cards again; the item draw stays.               *)
RerollCards ==
  /\ OfferOpen
  /\ \E s \in Screens(legendTaken) : s[1] = offer[1] /\ offer' = s
  /\ UNCHANGED <<level, exp, pending, legendTaken, picks, queueVars>>

(* dc_events_drain.                                                        *)
DrainEvents == events' = <<>> /\ dropped' = 0

Drain == DrainEvents /\ UNCHANGED cardVars

(* An event that another system of the core pushes.                        *)
Notice(k) == Push(<<k>>) /\ UNCHANGED cardVars

Next ==
  \/ \E a \in Amounts : GainExp(a)
  \/ \E i \in 1 .. CardsPerLevel : ChooseCard(i)
  \/ RerollCards
  \/ Drain
  \/ \E k \in EventKinds : Notice(k)

Spec == Init /\ [][Next]_levelVars

----------------------------------------------------------------------------
(* Type invariant of the card state (card.h CardState, event.h EventQueue).*)
TypeOK ==
  /\ level \in 1 .. MaxLevel /\ exp \in Nat
  /\ pending \in Nat /\ picks \in Nat
  /\ offer \in {<<>>} \cup [1 .. CardsPerLevel -> Cards]
  /\ legendTaken \subseteq Legends
  /\ events \in Seq(EventKinds) /\ Len(events) <= MAX_EVENTS
  /\ dropped \in Nat

(* A kill that pays for several levels gives them all at once: gainExp     *)
(* leaves no level unpaid in exp (the while loop of levelup.h).            *)
ExpBelowNeed == exp < NeedFor(level)

(* A screen is open exactly while a card is owed, however levels, choices, *)
(* rerolls and refused choices interleave (gainExp, chooseCard).           *)
OfferIffPending == OfferOpen <=> pending > 0

(* Every level above the first gives exactly one card: taken already, or   *)
(* still owed.                                                             *)
OneCardPerLevel == level - 1 = picks + pending

(* A legend is offered at most once on a screen and never again once       *)
(* taken (the bit mask of card.h and the pool of rollCard).                *)
LegendsOnce ==
  \A i \in 1 .. Len(offer) :
    offer[i] \in Legends =>
      /\ offer[i] \notin legendTaken
      /\ \A j \in 1 .. Len(offer) : offer[j] = offer[i] => j = i
=============================================================================
