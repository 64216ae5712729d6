--------------------------- MODULE CardLoopProofs ----------------------------
(***************************************************************************)
(* Levels and cards keep their accounts for every table of experience,     *)
(* every deck and every queue.  The host loop, seen through the core's     *)
(* card state alone, is a behaviour of LevelUp: whatever the loop does     *)
(* between two ticks, those accounts hold.  With them, the first screen of *)
(* a run stops the loop unless an event was lost.                          *)
(***************************************************************************)
EXTENDS CardLoop, SequenceTheorems, TLAPS

(* What holds between two calls of the core.                               *)
Accounts == ExpBelowNeed /\ OfferIffPending /\ OneCardPerLevel

LInv == TypeOK /\ Accounts /\ LegendsOnce
----------------------------------------------------------------------------
(* A full queue stays full, whatever is pushed onto it.                    *)
LEMMA PushType ==
  ASSUME NEW evs \in Seq(EventKinds), Push(evs),
         events \in Seq(EventKinds), Len(events) <= MAX_EVENTS, dropped \in Nat
  PROVE  events' \in Seq(EventKinds) /\ Len(events') <= MAX_EVENTS /\ dropped' \in Nat
<1> DEFINE room == MAX_EVENTS - Len(events)
           kept == IF Len(evs) <= room THEN Len(evs) ELSE room
<1>1. MAX_EVENTS \in Nat /\ Len(events) \in Nat /\ Len(evs) \in Nat
  BY LevelUpAssumption DEF LevelUpAssumption
<1>2. kept \in 0 .. Len(evs) /\ kept <= room
  BY <1>1
<1>3. SubSeq(evs, 1, kept) \in Seq(EventKinds) /\ Len(SubSeq(evs, 1, kept)) = kept
  BY <1>1, <1>2, SubSeqProperties
<1>4. events' = events \o SubSeq(evs, 1, kept) /\ dropped' = dropped + Len(evs) - kept
  BY DEF Push
<1> HIDE DEF kept, room
<1>5. events' \in Seq(EventKinds) /\ Len(events') = Len(events) + kept
  BY <1>3, <1>4, ConcatProperties
<1>6. dropped' \in Nat
  BY <1>1, <1>2, <1>4
<1> QED  BY <1>1, <1>2, <1>5, <1>6 DEF room

(* What a screen holds: cards, and no legend twice or already taken.       *)
LEMMA ScreenLegends ==
  ASSUME NEW taken, NEW s \in Screens(taken)
  PROVE  /\ s \in [1 .. CardsPerLevel -> Cards]
         /\ s # <<>>
         /\ Len(s) = CardsPerLevel
         /\ \A i \in 1 .. CardsPerLevel :
              s[i] \in Legends =>
                /\ s[i] \notin taken
                /\ \A j \in 1 .. CardsPerLevel : s[j] = s[i] => j = i
<1>1. /\ s \in [1 .. CardsPerLevel -> Cards]
      /\ s[1] \in Items
      /\ \A i \in 2 .. CardsPerLevel : s[i] \in RollCard(taken, {s[j] : j \in 1 .. i - 1})
  BY DEF Screens
<1>2. CardsPerLevel \in Nat /\ CardsPerLevel > 0
  BY LevelUpAssumption DEF LevelUpAssumption
<1>3. s \in Seq(Cards) /\ Len(s) = CardsPerLevel
  BY <1>1, <1>2
<1>4. s # <<>>
  BY <1>2, <1>3
<1>5. ASSUME NEW i \in 1 .. CardsPerLevel, s[i] \in Legends
      PROVE  i \in 2 .. CardsPerLevel /\ s[i] \notin taken /\ \A j \in 1 .. i - 1 : s[j] # s[i]
  <2>1. i # 1
    BY <1>1, <1>5, LevelUpAssumption DEF LevelUpAssumption
  <2>2. i \in 2 .. CardsPerLevel
    BY <2>1, <1>2
  <2>3. s[i] \in FreshLegends(taken, {s[j] : j \in 1 .. i - 1})
    BY <2>2, <1>1, <1>5, LevelUpAssumption DEF RollCard, LevelUpAssumption
  <2> QED  BY <2>2, <2>3 DEF FreshLegends
<1>6. ASSUME NEW i \in 1 .. CardsPerLevel, s[i] \in Legends,
             NEW j \in 1 .. CardsPerLevel, s[j] = s[i]
      PROVE  j = i
  <2>1. \A k \in 1 .. i - 1 : s[k] # s[i]
    BY <1>5, <1>6
  <2>2. \A k \in 1 .. j - 1 : s[k] # s[j]
    BY <1>5, <1>6
  <2> QED  BY <2>1, <2>2, <1>6, <1>2
<1> QED  BY <1>1, <1>3, <1>4, <1>5, <1>6

(* The level a kill pays for, and the experience that is left.             *)
LEMMA LevelPaid ==
  ASSUME TypeOK, NEW a \in Amounts, NEW l \in level .. MaxLevel, PaysFor(exp + a, l)
  PROVE  /\ l \in 1 .. MaxLevel /\ level \in 1 .. MaxLevel /\ l - level \in Nat
         /\ exp + a - Cost(l) \in Nat
         /\ exp + a - Cost(l) < NeedFor(l)
<1>1. /\ MaxLevel \in Nat /\ a \in Nat
      /\ TotalExp \in [1 .. MaxLevel + 1 -> Nat]
  BY LevelUpAssumption DEF LevelUpAssumption
<1>2. level \in 1 .. MaxLevel /\ exp \in Nat
  BY DEF TypeOK
<1>3. l \in 1 .. MaxLevel /\ l - level \in Nat
  BY <1>1, <1>2
<1>4. TotalExp[l] \in Nat /\ TotalExp[level] \in Nat /\ TotalExp[l + 1] \in Nat
  BY <1>1, <1>2, <1>3
<1>5. PICK x \in Nat, y \in Nat, z \in Nat, w \in Nat :
        x = TotalExp[l] /\ y = TotalExp[level] /\ z = TotalExp[l + 1] /\ w = exp + a
  BY <1>1, <1>2, <1>4
<1>6. x - y <= w /\ w < z - y
  BY <1>5, Zenon DEF PaysFor, Cost
<1>7. exp + a - (x - y) \in Nat /\ exp + a - (x - y) < z - x
  <2>1. exp \in Nat /\ a \in Nat /\ w = exp + a
    BY <1>1, <1>2, <1>5
  <2> QED  BY <1>6, <2>1
<1>8. Cost(l) = x - y /\ NeedFor(l) = z - x
  BY <1>5, Zenon DEF Cost, NeedFor
<1> QED  BY <1>2, <1>3, <1>7, <1>8
----------------------------------------------------------------------------
LEMMA InitLInv == Init => LInv
<1> SUFFICES ASSUME Init PROVE LInv
  OBVIOUS
<1>1. TotalExp[1] < TotalExp[2] /\ TotalExp[1] \in Nat /\ TotalExp[2] \in Nat
  BY LevelUpAssumption DEF LevelUpAssumption
<1>2. <<>> \in Seq(EventKinds) /\ Len(<<>>) = 0
  OBVIOUS
<1>3. TypeOK
  BY <1>2, LevelUpAssumption DEF Init, TypeOK, LevelUpAssumption
<1>4. Accounts
  BY <1>1 DEF Init, Accounts, ExpBelowNeed, OfferIffPending, OneCardPerLevel, NeedFor, OfferOpen
<1>5. LegendsOnce
  BY DEF Init, LegendsOnce
<1> QED  BY <1>3, <1>4, <1>5 DEF LInv

LEMMA GainExpLInv ==
  ASSUME LInv, NEW a \in Amounts, GainExp(a)
  PROVE  LInv'
<1>1. PICK l \in level .. MaxLevel :
        /\ PaysFor(exp + a, l)
        /\ level' = l
        /\ exp' = exp + a - Cost(l)
        /\ pending' = pending + l - level
        /\ LET ups   == [i \in 1 .. l - level |-> "LevelUp"]
               deals == pending' > 0 /\ ~OfferOpen
           IN  /\ IF deals THEN offer' \in Screens(legendTaken) ELSE offer' = offer
               /\ Push(IF deals THEN Append(ups, "CardOffer") ELSE ups)
        /\ UNCHANGED <<legendTaken, picks>>
  BY DEF GainExp
<1>2. TypeOK /\ Accounts /\ LegendsOnce
  BY DEF LInv
<1>3. /\ l \in 1 .. MaxLevel /\ level \in 1 .. MaxLevel /\ l - level \in Nat
      /\ exp + a - Cost(l) \in Nat
      /\ exp + a - Cost(l) < NeedFor(l)
  BY <1>1, <1>2, LevelPaid
<1>4. pending \in Nat /\ picks \in Nat /\ MaxLevel \in Nat
  BY <1>2, LevelUpAssumption DEF TypeOK, LevelUpAssumption
<1>5. pending' \in Nat /\ pending' >= pending /\ pending' = pending + l - level
  BY <1>1, <1>3, <1>4
<1>6. /\ events' \in Seq(EventKinds) /\ Len(events') <= MAX_EVENTS /\ dropped' \in Nat
  <2> DEFINE ups == [i \in 1 .. l - level |-> "LevelUp"]
  <2>1. ups \in Seq(EventKinds)
    BY <1>3 DEF EventKinds
  <2>2. Append(ups, "CardOffer") \in Seq(EventKinds)
    BY <2>1, AppendProperties DEF EventKinds
  <2>3. PICK evs \in Seq(EventKinds) : Push(evs)
    BY <2>1, <2>2, <1>1
  <2> QED  BY <2>3, <1>2, PushType DEF TypeOK
<1>7. CASE pending' > 0 /\ ~OfferOpen
  <2>1. offer' \in Screens(legendTaken)
    BY <1>1, <1>7
  <2>2. /\ offer' \in [1 .. CardsPerLevel -> Cards] /\ offer' # <<>>
        /\ LegendsOnce'
    BY <2>1, <1>1, ScreenLegends DEF LegendsOnce
  <2>3. TypeOK'
    BY <2>2, <1>1, <1>2, <1>3, <1>5, <1>6 DEF TypeOK
  <2>4. Accounts'
    BY <2>2, <1>1, <1>2, <1>3, <1>4, <1>5, <1>7
       DEF Accounts, ExpBelowNeed, OfferIffPending, OneCardPerLevel, NeedFor, OfferOpen
  <2> QED  BY <2>2, <2>3, <2>4 DEF LInv
<1>8. CASE ~(pending' > 0 /\ ~OfferOpen)
  <2>1. offer' = offer
    BY <1>1, <1>8
  <2>2. LegendsOnce'
    BY <2>1, <1>1, <1>2 DEF LegendsOnce
  <2>3. TypeOK'
    BY <2>1, <1>1, <1>2, <1>3, <1>5, <1>6 DEF TypeOK
  <2>4. ExpBelowNeed' /\ OneCardPerLevel'
    BY <1>1, <1>2, <1>3, <1>4, <1>5 DEF Accounts, ExpBelowNeed, OneCardPerLevel, NeedFor
  <2>5. OfferIffPending'
    BY <2>1, <1>2, <1>4, <1>5, <1>8 DEF Accounts, OfferIffPending, OfferOpen
  <2> QED  BY <2>2, <2>3, <2>4, <2>5 DEF LInv, Accounts
<1> QED  BY <1>7, <1>8

LEMMA ChooseCardLInv ==
  ASSUME LInv, NEW i \in 1 .. CardsPerLevel, ChooseCard(i)
  PROVE  LInv'
<1>1. TypeOK /\ Accounts /\ LegendsOnce
  BY DEF LInv
<1>2. /\ legendTaken' = legendTaken \cup ({offer[i]} \cap Legends)
      /\ picks' = picks + 1
      /\ pending' = (IF pending > 0 THEN pending - 1 ELSE 0)
      /\ offer' \in (IF pending' > 0 THEN Screens(legendTaken') ELSE {<<>>})
      /\ UNCHANGED <<level, exp, events, dropped>>
  BY DEF ChooseCard, queueVars
<1>3. OfferOpen
  BY DEF ChooseCard, OfferOpen
<1>4. pending > 0 /\ pending' = pending - 1 /\ pending' \in Nat /\ picks \in Nat
  BY <1>1, <1>2, <1>3 DEF TypeOK, Accounts, OfferIffPending
<1>5. (offer' = <<>> /\ pending' = 0) \/ (offer' \in Screens(legendTaken') /\ pending' > 0)
  <2>1. CASE pending' > 0
    BY <2>1, <1>2
  <2>2. CASE ~(pending' > 0)
    <3>1. offer' = <<>>
      BY <2>2, <1>2
    <3>2. pending' \in Nat
      BY <1>4
    <3>3. pending' = 0
      BY <2>2, <3>2
    <3> QED  BY <3>1, <3>3
  <2> QED  BY <2>1, <2>2
<1>6. /\ offer' \in {<<>>} \cup [1 .. CardsPerLevel -> Cards]
      /\ offer' # <<>> <=> pending' > 0
      /\ LegendsOnce'
  <2>1. CASE offer' = <<>> /\ pending' = 0
    BY <2>1 DEF LegendsOnce
  <2>2. CASE offer' \in Screens(legendTaken') /\ pending' > 0
    BY <2>2, ScreenLegends DEF LegendsOnce
  <2> QED  BY <1>5, <2>1, <2>2
<1>7. TypeOK'
  BY <1>1, <1>2, <1>4, <1>6 DEF TypeOK
<1>8. Accounts'
  BY <1>1, <1>2, <1>4, <1>6
     DEF TypeOK, Accounts, ExpBelowNeed, OfferIffPending, OneCardPerLevel, NeedFor, OfferOpen
<1> QED  BY <1>6, <1>7, <1>8 DEF LInv

LEMMA RerollCardsLInv ==
  ASSUME LInv, RerollCards
  PROVE  LInv'
<1>1. TypeOK /\ Accounts /\ LegendsOnce /\ OfferOpen
  BY DEF LInv, RerollCards
<1>2. offer' \in Screens(legendTaken)
      /\ UNCHANGED <<level, exp, pending, legendTaken, picks, events, dropped>>
  BY DEF RerollCards, queueVars
<1>3. /\ offer' \in [1 .. CardsPerLevel -> Cards] /\ offer' # <<>>
      /\ LegendsOnce'
  BY <1>2, ScreenLegends DEF LegendsOnce
<1>4. TypeOK'
  BY <1>1, <1>2, <1>3 DEF TypeOK
<1>5. Accounts'
  BY <1>1, <1>2, <1>3
     DEF Accounts, ExpBelowNeed, OfferIffPending, OneCardPerLevel, NeedFor, OfferOpen
<1> QED  BY <1>3, <1>4, <1>5 DEF LInv

LEMMA NextLInv == LInv /\ [Next]_levelVars => LInv'
<1> SUFFICES ASSUME LInv, [Next]_levelVars PROVE LInv'
  OBVIOUS
<1>1. ASSUME NEW a \in Amounts, GainExp(a) PROVE LInv'
  BY <1>1, GainExpLInv
<1>2. ASSUME NEW i \in 1 .. CardsPerLevel, ChooseCard(i) PROVE LInv'
  BY <1>2, ChooseCardLInv
<1>3. CASE RerollCards
  BY <1>3, RerollCardsLInv
<1>4. ASSUME UNCHANGED cardVars,
             \/ UNCHANGED queueVars
             \/ DrainEvents
             \/ \E k \in EventKinds : Push(<<k>>)
      PROVE  LInv'
  <2>1. UNCHANGED <<level, exp, pending, offer, legendTaken, picks>>
    BY <1>4 DEF cardVars
  <2>2. \/ UNCHANGED <<events, dropped>>
        \/ events' = <<>> /\ dropped' = 0
        \/ \E k \in EventKinds : Push(<<k>>)
    BY <1>4 DEF queueVars, DrainEvents
  <2>3. MAX_EVENTS \in Nat /\ <<>> \in Seq(EventKinds) /\ Len(<<>>) = 0
    BY LevelUpAssumption DEF LevelUpAssumption
  <2>4. events' \in Seq(EventKinds) /\ Len(events') <= MAX_EVENTS /\ dropped' \in Nat
    <3>1. CASE UNCHANGED <<events, dropped>>
      BY <3>1 DEF LInv, TypeOK
    <3>2. CASE events' = <<>> /\ dropped' = 0
      BY <3>2, <2>3
    <3>3. ASSUME NEW k \in EventKinds, Push(<<k>>)
          PROVE  events' \in Seq(EventKinds) /\ Len(events') <= MAX_EVENTS /\ dropped' \in Nat
      <4>1. <<k>> \in Seq(EventKinds)
        OBVIOUS
      <4> QED  BY <4>1, <3>3, PushType DEF LInv, TypeOK
    <3> QED  BY <2>2, <3>1, <3>2, <3>3
  <2>6. TypeOK'
    BY <2>1, <2>4 DEF LInv, TypeOK
  <2>5. Accounts' /\ LegendsOnce'
    BY <2>1 DEF LInv, Accounts, ExpBelowNeed, OfferIffPending, OneCardPerLevel,
                LegendsOnce, NeedFor, OfferOpen
  <2> QED  BY <2>5, <2>6 DEF LInv
<1> QED  BY <1>1, <1>2, <1>3, <1>4 DEF Next, Drain, Notice, levelVars
----------------------------------------------------------------------------
(* The card state keeps its shape, and the queue its bound.                *)
THEOREM CardsTypeOK == Spec => []TypeOK
<1>1. LInv => TypeOK
  BY DEF LInv
<1> QED  BY InitLInv, NextLInv, <1>1, PTL DEF Spec

(* gainExp never leaves a level unpaid in the experience.                  *)
THEOREM CardsExpBelowNeed == Spec => []ExpBelowNeed
<1>1. LInv => ExpBelowNeed
  BY DEF LInv, Accounts
<1> QED  BY InitLInv, NextLInv, <1>1, PTL DEF Spec

(* A screen is open exactly while a card is owed.                          *)
THEOREM CardsOfferIffPending == Spec => []OfferIffPending
<1>1. LInv => OfferIffPending
  BY DEF LInv, Accounts
<1> QED  BY InitLInv, NextLInv, <1>1, PTL DEF Spec

(* Every level above the first gives exactly one card.                     *)
THEOREM CardsOnePerLevel == Spec => []OneCardPerLevel
<1>1. LInv => OneCardPerLevel
  BY DEF LInv, Accounts
<1> QED  BY InitLInv, NextLInv, <1>1, PTL DEF Spec

(* No legend is offered again once taken, or twice on one screen.          *)
THEOREM CardsLegendsOnce == Spec => []LegendsOnce
<1>1. LInv => LegendsOnce
  BY DEF LInv
<1> QED  BY InitLInv, NextLInv, <1>1, PTL DEF Spec
----------------------------------------------------------------------------
(* The host loop.                                                          *)
(* Where the loop knows, or will know, of a screen that is open.           *)
ScreenSeen ==
  OfferOpen /\ picks = 0 /\ ~lossy =>
    \/ phase = "host" /\ (autoPaused \/ over)
    \/ phase = "tick" /\ (Announced \/ dropped > 0)

PhaseOK == phase \in {"host", "frame", "tick"}

SInv == LInv /\ PhaseOK /\ ScreenSeen
----------------------------------------------------------------------------
(* A step of the loop is a step of the core's cards or leaves them alone.  *)
LEMMA StepOfCards == [LoopNext]_vars => [Next]_levelVars
<1> SUFFICES ASSUME [LoopNext]_vars PROVE [Next]_levelVars
  OBVIOUS
<1>1. CASE Kill
  BY <1>1 DEF Kill, Next
<1>2. CASE Moment
  <2>1. Notice("Hit")
    BY <1>2 DEF Moment, Notice
  <2> QED  BY <2>1 DEF Next, EventKinds
<1>3. CASE RunEnds
  <2>1. Notice("RunEnd")
    BY <1>3 DEF RunEnds, Notice
  <2> QED  BY <2>1 DEF Next, EventKinds
<1>4. CASE AfterTick
  BY <1>4 DEF AfterTick, Next, Drain
<1>5. CASE Submit
  BY <1>5 DEF Submit, SubmitCardChoice, Next
<1>6. CASE Reroll
  BY <1>6 DEF Reroll, Next
<1>7. CASE Advance \/ Step \/ FrameEnd \/ LastTick
  BY <1>7 DEF Advance, Step, FrameEnd, LastTick
<1>8. CASE UNCHANGED vars
  BY <1>8 DEF vars
<1> QED  BY <1>1, <1>2, <1>3, <1>4, <1>5, <1>6, <1>7, <1>8 DEF LoopNext

(* A push keeps what the queue holds, and an event it cannot take is       *)
(* counted.                                                                *)
LEMMA PushAnnounces ==
  ASSUME NEW evs \in Seq(EventKinds), Push(evs),
         events \in Seq(EventKinds), Len(events) <= MAX_EVENTS, dropped \in Nat
  PROVE  /\ dropped' >= dropped
         /\ Announced => Announced'
         /\ \A i \in 1 .. Len(evs) : evs[i] = "CardOffer" => Announced' \/ dropped' > 0
<1> DEFINE room == MAX_EVENTS - Len(events)
           kept == IF Len(evs) <= room THEN Len(evs) ELSE room
<1>1. MAX_EVENTS \in Nat /\ Len(events) \in Nat /\ Len(evs) \in Nat
  BY LevelUpAssumption DEF LevelUpAssumption
<1>2. kept \in 0 .. Len(evs)
  BY <1>1
<1>3. /\ SubSeq(evs, 1, kept) \in Seq(EventKinds)
      /\ Len(SubSeq(evs, 1, kept)) = kept
      /\ \A i \in 1 .. kept : SubSeq(evs, 1, kept)[i] = evs[i]
  BY <1>1, <1>2, SubSeqProperties
<1>4. events' = events \o SubSeq(evs, 1, kept) /\ dropped' = dropped + Len(evs) - kept
  BY DEF Push
<1> HIDE DEF kept, room
<1>5. /\ Len(events') = Len(events) + kept
      /\ \A i \in 1 .. Len(events) : events'[i] = events[i]
      /\ \A i \in 1 .. kept : events'[Len(events) + i] = evs[i]
  BY <1>1, <1>2, <1>3, <1>4, ConcatProperties
<1>6. dropped' >= dropped /\ (kept < Len(evs) => dropped' > 0)
  BY <1>1, <1>2, <1>4
<1>7. Announced => Announced'
  <2> SUFFICES ASSUME NEW i \in 1 .. Len(events), events[i] = "CardOffer" PROVE Announced'
    BY DEF Announced
  <2>1. i \in 1 .. Len(events') /\ events'[i] = "CardOffer"
    BY <1>1, <1>2, <1>5
  <2> QED  BY <2>1 DEF Announced
<1>8. ASSUME NEW i \in 1 .. Len(evs), evs[i] = "CardOffer" PROVE Announced' \/ dropped' > 0
  <2>1. CASE i <= kept
    <3>1. Len(events) + i \in 1 .. Len(events') /\ events'[Len(events) + i] = "CardOffer"
      BY <2>1, <1>1, <1>2, <1>5, <1>8
    <3> QED  BY <3>1 DEF Announced
  <2>2. CASE kept < i
    BY <2>2, <1>1, <1>2, <1>6
  <2> QED  BY <2>1, <2>2, <1>2
<1> QED  BY <1>6, <1>7, <1>8
----------------------------------------------------------------------------
(* Every step of the loop keeps sight of an open screen.                   *)
LEMMA KillSeen ==
  ASSUME SInv, Kill
  PROVE  ScreenSeen'
<1>1. /\ events \in Seq(EventKinds) /\ Len(events) <= MAX_EVENTS /\ dropped \in Nat
      /\ UNCHANGED <<choice, autoPaused, over, phase, consumed, lossy>>
      /\ phase = "tick"
  BY DEF SInv, LInv, TypeOK, Kill, loopVars
<1>2. PICK a \in Amounts : GainExp(a)
  BY DEF Kill
<1>3. PICK l \in level .. MaxLevel :
        /\ PaysFor(exp + a, l)
        /\ UNCHANGED <<legendTaken, picks>>
        /\ LET ups   == [i \in 1 .. l - level |-> "LevelUp"]
               deals == pending' > 0 /\ ~OfferOpen
           IN  /\ IF deals THEN offer' \in Screens(legendTaken) ELSE offer' = offer
               /\ Push(IF deals THEN Append(ups, "CardOffer") ELSE ups)
  BY <1>2 DEF GainExp
<1>4. l - level \in Nat
  BY <1>2, <1>3, LevelPaid DEF SInv, LInv
<1> DEFINE ups == [i \in 1 .. l - level |-> "LevelUp"]
<1>5. ups \in Seq(EventKinds)
  BY <1>4 DEF EventKinds
<1>6. CASE pending' > 0 /\ ~OfferOpen
  <2> DEFINE evs == Append(ups, "CardOffer")
  <2>1. Push(evs)
    BY <1>3, <1>6
  <2> HIDE DEF ups
  <2>2. evs \in Seq(EventKinds) /\ Len(evs) = Len(ups) + 1 /\ evs[Len(ups) + 1] = "CardOffer"
    <3>1. "CardOffer" \in EventKinds
      BY DEF EventKinds
    <3> QED  BY <3>1, <1>5, AppendProperties
  <2>3. Len(ups) + 1 \in 1 .. Len(evs)
    BY <2>2, <1>5
  <2> HIDE DEF evs
  <2>4. Announced' \/ dropped' > 0
    BY <2>1, <2>2, <2>3, <1>1, PushAnnounces
  <2> QED  BY <2>4, <1>1 DEF ScreenSeen
<1>7. CASE ~(pending' > 0 /\ ~OfferOpen)
  <2>1. Push(ups) /\ offer' = offer /\ picks' = picks
    BY <1>3, <1>7
  <2> HIDE DEF ups
  <2>2. (Announced => Announced') /\ dropped' >= dropped /\ dropped' \in Nat
    BY <2>1, <1>1, <1>5, PushAnnounces, PushType
  <2>3. dropped > 0 => dropped' > 0
    BY <2>2, <1>1
  <2> QED  BY <2>1, <2>2, <2>3, <1>1 DEF ScreenSeen, SInv, OfferOpen
<1> QED  BY <1>6, <1>7

LEMMA PushSeen ==
  ASSUME SInv, NEW k \in EventKinds, Push(<<k>>), UNCHANGED cardVars,
         UNCHANGED <<autoPaused, phase, lossy>>, over => over', phase = "tick"
  PROVE  ScreenSeen'
<1>1. events \in Seq(EventKinds) /\ Len(events) <= MAX_EVENTS /\ dropped \in Nat
  BY DEF SInv, LInv, TypeOK
<1>2. <<k>> \in Seq(EventKinds)
  OBVIOUS
<1>3. (Announced => Announced') /\ dropped' >= dropped /\ dropped' \in Nat
  BY <1>1, <1>2, PushAnnounces, PushType
<1>4. dropped > 0 => dropped' > 0
  BY <1>1, <1>3
<1> QED  BY <1>3, <1>4 DEF SInv, ScreenSeen, OfferOpen, cardVars

LEMMA NextSInv == SInv /\ [LoopNext]_vars => SInv'
<1> SUFFICES ASSUME SInv, [LoopNext]_vars PROVE SInv'
  OBVIOUS
<1>1. LInv'
  BY StepOfCards, NextLInv DEF SInv
<1>2. PhaseOK /\ ScreenSeen /\ TypeOK
  BY DEF SInv, LInv
<1>3. CASE Kill
  <2>1. PhaseOK'
    BY <1>2, <1>3 DEF Kill, loopVars, PhaseOK
  <2> QED  BY <1>1, <1>3, <2>1, KillSeen DEF SInv
<1>4. CASE Moment
  <2>1. ScreenSeen'
    BY <1>4, PushSeen DEF Moment, loopVars, EventKinds
  <2>2. PhaseOK'
    BY <1>2, <1>4 DEF Moment, loopVars, PhaseOK
  <2> QED  BY <1>1, <2>1, <2>2 DEF SInv
<1>5. CASE RunEnds
  <2>1. ScreenSeen'
    BY <1>5, PushSeen DEF RunEnds, EventKinds
  <2>2. PhaseOK'
    BY <1>2, <1>5 DEF RunEnds, PhaseOK
  <2> QED  BY <1>1, <2>1, <2>2 DEF SInv
<1>6. CASE AfterTick
  <2>1. /\ lossy' = (lossy \/ dropped > 0)
        /\ choice' = (IF Announced THEN Len(offer) ELSE choice)
        /\ autoPaused' = (autoPaused \/ Announced)
        /\ phase' = (IF choice' = 0 THEN "frame" ELSE "host")
        /\ UNCHANGED <<offer, picks>>
        /\ phase = "tick"
    BY <1>6 DEF AfterTick, cardVars
  <2>2. OfferOpen => Len(offer) = CardsPerLevel /\ CardsPerLevel > 0
    BY <1>2, LevelUpAssumption DEF TypeOK, OfferOpen, LevelUpAssumption
  <2>3. PhaseOK'
    BY <2>1 DEF PhaseOK
  <2>4. ScreenSeen'
    <3> SUFFICES ASSUME OfferOpen', picks' = 0, ~lossy'
                 PROVE  phase' = "host" /\ autoPaused'
      BY DEF ScreenSeen
    <3>1. OfferOpen /\ picks = 0 /\ ~lossy /\ ~(dropped > 0)
      BY <2>1 DEF OfferOpen
    <3>2. Announced
      BY <3>1, <1>2, <2>1 DEF ScreenSeen
    <3>3. choice' # 0
      BY <3>1, <3>2, <2>1, <2>2
    <3> QED  BY <3>2, <3>3, <2>1
  <2> QED  BY <1>1, <2>3, <2>4 DEF SInv
<1>7. CASE Submit
  <2>1. picks' = picks + 1 /\ picks \in Nat /\ phase' = phase
    BY <1>2, <1>7 DEF Submit, SubmitCardChoice, ChooseCard, TypeOK
  <2>2. picks' # 0
    BY <2>1
  <2> QED  BY <1>1, <1>2, <2>1, <2>2 DEF SInv, ScreenSeen, PhaseOK
<1>8. CASE Reroll
  BY <1>1, <1>2, <1>8
     DEF Reroll, RerollCards, loopVars, queueVars, SInv, ScreenSeen, PhaseOK, OfferOpen, Announced
<1>9. CASE Advance \/ Step \/ FrameEnd \/ LastTick
  <2>1. /\ UNCHANGED <<offer, picks, events, dropped, autoPaused, over, lossy>>
        /\ \/ phase = "host" /\ phase' = (IF over \/ autoPaused THEN "host" ELSE "frame")
           \/ phase = "frame" /\ phase' \in {"tick", "host"}
           \/ phase = "tick" /\ over /\ phase' = "host"
    BY <1>9 DEF Advance, Step, FrameEnd, LastTick, levelVars, cardVars, queueVars
  <2> QED  BY <1>1, <1>2, <2>1 DEF SInv, ScreenSeen, PhaseOK, OfferOpen, Announced
<1>10. CASE UNCHANGED vars
  BY <1>1, <1>2, <1>10
     DEF vars, levelVars, cardVars, queueVars, loopVars, SInv, ScreenSeen, PhaseOK, OfferOpen, Announced
<1> QED  BY <1>3, <1>4, <1>5, <1>6, <1>7, <1>8, <1>9, <1>10 DEF LoopNext

LEMMA InitSInv == LoopInit => SInv
<1>1. LoopInit => LInv
  BY InitLInv DEF LoopInit
<1> QED  BY <1>1 DEF LoopInit, Init, SInv, PhaseOK, ScreenSeen, OfferOpen
----------------------------------------------------------------------------
(* The loop implements the card accounts: every behaviour of host and core *)
(* is, for the cards, a behaviour of LevelUp.                              *)
THEOREM LoopImplementsCards == LoopSpec => Spec
<1>1. LoopInit => Init
  BY DEF LoopInit
<1> QED  BY <1>1, StepOfCards, PTL DEF LoopSpec, Spec

(* So in the loop, too, a screen is open exactly while a card is owed,     *)
THEOREM LoopOfferIffPending == LoopSpec => []OfferIffPending
  BY LoopImplementsCards, CardsOfferIffPending, PTL

(* every level above the first gives exactly one card,                     *)
THEOREM LoopOneCardPerLevel == LoopSpec => []OneCardPerLevel
  BY LoopImplementsCards, CardsOnePerLevel, PTL

(* and no legend is offered twice.                                         *)
THEOREM LoopLegendsOnce == LoopSpec => []LegendsOnce
  BY LoopImplementsCards, CardsLegendsOnce, PTL

(* The tick that opens the first screen is the last one before the choice, *)
(* unless the queue lost an event (RunLoop.AfterTick, TickDriver.Advance). *)
THEOREM LoopFirstScreenStops == LoopSpec => []FirstScreenStops
<1>1. SInv => FirstScreenStops
  <2>1. SInv => picks \in Nat
    BY DEF SInv, LInv, TypeOK
  <2> QED  BY <2>1 DEF SInv, ScreenSeen, FirstScreenStops
<1> QED  BY InitSInv, NextSInv, <1>1, PTL DEF LoopSpec
=============================================================================
