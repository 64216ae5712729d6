------------------------------ MODULE CardLoop -------------------------------
(***************************************************************************)
(* The host loop that stops the simulation while a card is to be chosen    *)
(* (client/Runtime/RunLoop.cs, TickDriver.cs), composed with the core's    *)
(* level-ups (LevelUp) and its event queue.                                *)
(*                                                                         *)
(* The core never pauses: it opens a screen, pushes CardOffer, and goes on *)
(* when it is stepped.  The loop drains the queue after every tick and     *)
(* stops when it has seen a CardOffer.  The accumulated time of a frame is *)
(* abstracted: any number of ticks up to MaxTicksPerFrame may be due.      *)
(***************************************************************************)
EXTENDS LevelUp

CONSTANTS
  MaxTicksPerFrame,
  MaxLost           \* bound of the model: events lost between two drains

ASSUME CardLoopAssumption == MaxTicksPerFrame \in Nat \ {0} /\ MaxLost \in Nat

VARIABLES
  choice,     \* RunLoop.PendingChoiceCount
  autoPaused, \* TickDriver._autoPaused
  over,       \* RunState::over()
  phase,      \* "host": outside Advance; "frame": its loop; "tick": in dc_step
  consumed,   \* ticks of this frame
  lossy       \* RunLoop.DroppedTotal > 0

loopVars == <<choice, autoPaused, over, phase, consumed, lossy>>
vars     == <<levelVars, loopVars>>

LoopInit ==
  /\ Init
  /\ choice = 0 /\ autoPaused = FALSE
  /\ over = FALSE
  /\ phase = "host" /\ consumed = 0
  /\ lossy = FALSE

----------------------------------------------------------------------------
(* RunLoop.Advance: a new frame.  Nothing is due when the run is over or   *)
(* the loop is paused.                                                     *)
Advance ==
  /\ phase = "host"
  /\ consumed' = 0
  /\ phase' = IF over \/ autoPaused THEN "host" ELSE "frame"
  /\ UNCHANGED <<levelVars, choice, autoPaused, over, lossy>>

(* The while loop of TickDriver.Advance calls Step(1)...                   *)
Step ==
  /\ phase = "frame"
  /\ consumed < MaxTicksPerFrame
  /\ phase' = "tick"
  /\ consumed' = consumed + 1
  /\ UNCHANGED <<levelVars, choice, autoPaused, over, lossy>>

(* ... or ends: no time is left, or the frame is throttled.                *)
FrameEnd ==
  /\ phase = "frame"
  /\ phase' = "host"
  /\ UNCHANGED <<levelVars, choice, autoPaused, over, consumed, lossy>>

(* In the tick: a kill gives experience,                                   *)
Kill ==
  /\ phase = "tick"
  /\ \E a \in Amounts : GainExp(a)
  /\ UNCHANGED loopVars

(* a hit, an orb, a zone or any other moment pushes its event,             *)
Moment ==
  /\ phase = "tick"
  /\ dropped < MaxLost
  /\ Push(<<"Hit">>)
  /\ UNCHANGED <<cardVars, loopVars>>

(* and the death of the boss or of the hero ends the run.                  *)
RunEnds ==
  /\ phase = "tick"
  /\ ~over
  /\ over' = TRUE
  /\ Push(<<"RunEnd">>)
  /\ UNCHANGED <<cardVars, choice, autoPaused, phase, consumed, lossy>>

(* The tick after which IsOver holds: the loop breaks before its callback. *)
LastTick ==
  /\ phase = "tick"
  /\ over
  /\ phase' = "host"
  /\ UNCHANGED <<levelVars, choice, autoPaused, over, consumed, lossy>>

Announced == "CardOffer" \in {events[i] : i \in 1 .. Len(events)}

(* mutant: the events are drained only when the frame is done.             *)
AfterTickDrainsLate ==
  /\ phase = "tick"
  /\ ~over
  /\ phase' = IF consumed < MaxTicksPerFrame THEN "frame" ELSE "host"
  /\ IF consumed < MaxTicksPerFrame
     THEN UNCHANGED <<queueVars, lossy, choice, autoPaused>>
     ELSE /\ DrainEvents
                  /\ lossy' = (lossy \/ dropped > 0)
          /\ choice' = IF Announced THEN Len(offer) ELSE choice
          /\ autoPaused' = (autoPaused \/ Announced)
  /\ UNCHANGED <<cardVars, over, consumed>>

(* RunLoop.AfterTick: drain, pause on a CardOffer, go on only when no      *)
(* choice is awaited.  The event's value is the number of cards dealt.     *)
AfterTick ==
  /\ phase = "tick"
  /\ ~over
  /\ DrainEvents
  /\ lossy' = (lossy \/ dropped > 0)
  /\ choice' = IF Announced THEN Len(offer) ELSE choice
  /\ autoPaused' = (autoPaused \/ Announced)
  /\ phase' = IF choice' = 0 THEN "frame" ELSE "host"
  /\ UNCHANGED <<cardVars, over, consumed>>

(* RunLoop.SubmitCardChoice, a choice the core accepts.                    *)
SubmitCardChoice(i) ==
  /\ phase = "host"
  /\ choice > 0
  /\ ChooseCard(i)
  /\ choice' = 0
  /\ autoPaused' = FALSE
  /\ UNCHANGED <<over, phase, consumed, lossy>>

(* A reroll, which the core has and no call of the loop reaches yet.       *)
Reroll == phase = "host" /\ RerollCards /\ UNCHANGED loopVars

Submit == \E i \in 1 .. CardsPerLevel : SubmitCardChoice(i)

LoopNext ==
  \/ Advance
  \/ Step
  \/ FrameEnd
  \/ Kill
  \/ Moment
  \/ RunEnds
  \/ LastTick
  \/ AfterTick
  \/ Submit
  \/ Reroll

LoopSpec == LoopInit /\ [][LoopNext]_vars

----------------------------------------------------------------------------
(* Until a card has been chosen, and unless the queue lost an event, no    *)
(* tick starts with a screen open: the loop stops right after the tick     *)
(* that opened it (the reason RunLoop.cs drains after every tick).         *)
FirstScreenStops ==
  phase = "frame" /\ OfferOpen => picks > 0 \/ lossy

(* What RunLoop.cs says: once a screen is open no more ticks are consumed  *)
(* until the choice comes in (events lost to a full queue aside).          *)
OpenScreenStopsTicks == [][Step => ~OfferOpen \/ lossy]_vars
=============================================================================
