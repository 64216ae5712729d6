------------------------------- MODULE Replay -------------------------------
(***************************************************************************)
(* Recording a run and running it again: the input log (core input.h), the *)
(* snapshot (snapshot.h) and the replay behind dc_headless_checksum        *)
(* (abi/dc_abi.cpp).                                                       *)
(*                                                                         *)
(* What a world is does not matter here, only that stepWorld and applyInput*)
(* are functions of the world: they are constants, and what is proved of   *)
(* this module holds of every deterministic simulation.  A checksum is the *)
(* part of the state that is hashed, without collisions: what is derived   *)
(* (craftableBits_, cached stats) is not, and a change there goes unseen.  *)
(***************************************************************************)
EXTENDS Integers, Sequences

CONSTANTS
  World, Start,            \* the states of World; the one initWorld leaves
  Tick(_), Over(_),        \* World::tickCount, RunState::over
  StepWorld(_),            \* stepWorld
  Checksum(_),             \* World::checksum
  Accepts(_, _), ApplyInput(_, _),   \* applyInput: its result, and the world after it
  Input,                   \* pairs of a kind and a value
  CAPACITY,                \* InputLog::CAPACITY
  Garbled,                 \* worlds that damaged bytes can spell
  MaxTick, MaxInputs       \* bounds of the model

ASSUME ReplayAssumption ==
  /\ Start \in World /\ Tick(Start) = 0
  /\ \A w \in World :
       /\ Tick(w) \in Nat
       /\ Tick(w) < MaxTick /\ ~Over(w) =>
            StepWorld(w) \in World /\ Tick(StepWorld(w)) = Tick(w) + 1
       /\ \A e \in Input :
            Accepts(w, e) => ApplyInput(w, e) \in World /\ Tick(ApplyInput(w, e)) = Tick(w)
  /\ CAPACITY \in Nat /\ MaxTick \in Nat /\ MaxInputs \in Nat
  /\ Garbled \subseteq World

Event == [tick : Nat, input : Input]

VARIABLES
  live,      \* the world the client plays
  log,       \* InputLog: the inputs accepted, with the tick of each
  lost,      \* history: an input was accepted that the full log refused
  trail, at, \* history: every world of the run; the place in it of each log entry
  image,     \* the buffer a snapshot is kept in
  mode,      \* of the replay: idle, headless, rewound, or how it ended
  world, cursor, ticks,   \* its world, its place in the log, the ticks asked for
  clean      \* history: it began in a world of the run, before any input of its tick

liveVars   == <<live, log, lost, trail, at>>
replayVars == <<mode, world, cursor, ticks, clean>>
vars       == <<liveVars, image, replayVars>>

Running == mode \in {"headless", "rewound"}

----------------------------------------------------------------------------
(* snapshotSave writes a header and the bytes of the world; saved is for   *)
(* the properties.                                                         *)
Image(w) ==
  [length |-> "all", magic |-> TRUE, version |-> TRUE, size |-> TRUE,
   checksum |-> Checksum(w), body |-> w, saved |-> w]

(* snapshotLoad: the checks, in their order.                               *)
Status(img) ==
  IF img.length = "none" THEN "TooSmall"
  ELSE IF ~img.magic THEN "BadMagic"
  ELSE IF ~img.version THEN "BadVersion"
  ELSE IF ~img.size THEN "SizeMismatch"
  ELSE IF img.length = "header" THEN "TooSmall"
  ELSE IF Checksum(img.body) # img.checksum THEN "ChecksumMismatch"
  ELSE "Ok"

(* What can happen to the buffer on its way: another build's header, a     *)
(* short read, or bytes of the body that changed.                          *)
Damaged(img) ==
  {[img EXCEPT !.magic = FALSE], [img EXCEPT !.version = FALSE], [img EXCEPT !.size = FALSE],
   [img EXCEPT !.length = "none"], [img EXCEPT !.length = "header"]}
    \cup {[img EXCEPT !.body = w] : w \in Garbled}

(* mutant: rewind stops behind the events of the tick it looks for.        *)
RewindsPast(c, t) ==
  /\ c \in 1 .. Len(log) + 1
  /\ \A k \in 1 .. c - 1 : log[k].tick <= t
  /\ c <= Len(log) => log[c].tick > t

(* InputLog::rewind: c is the first event that is not before tick t.       *)
RewindsTo(c, t) ==
  /\ c \in 1 .. Len(log) + 1
  /\ \A k \in 1 .. c - 1 : log[k].tick < t
  /\ c <= Len(log) => log[c].tick >= t

(* InputLog::record refuses when the log is full, or against the order.    *)
Recordable(t) ==
  /\ Len(log) < CAPACITY
  /\ log # <<>> => log[Len(log)].tick <= t

(* InputLog::next, and the loop of dc_headless_checksum: the event at the  *)
(* cursor, when it is one of this tick.                                    *)
Due == cursor <= Len(log) /\ log[cursor].tick = Tick(world)

----------------------------------------------------------------------------
Init ==
  /\ live = Start /\ trail = <<Start>>
  /\ log = <<>> /\ at = <<>> /\ lost = FALSE
  /\ image = [Image(Start) EXCEPT !.length = "none"]
  /\ mode = "idle" /\ world = Start
  /\ cursor = 1 /\ ticks = 0 /\ clean = TRUE

(* dc_step, one tick of it: a run that is over does not move.              *)
Step ==
  /\ mode = "idle"
  /\ ~Over(live) /\ Tick(live) < MaxTick
  /\ live' = StepWorld(live)
  /\ trail' = Append(trail, live')
  /\ UNCHANGED <<log, lost, at, image, replayVars>>

(* dc_input stamps the event with the current tick; the driver records the *)
(* events that were accepted.                                              *)
TakeInput(e) ==
  /\ mode = "idle"
  /\ Len(trail) - Tick(live) <= MaxInputs
  /\ Accepts(live, e)
  /\ live' = ApplyInput(live, e)
  /\ trail' = Append(trail, live')
  /\ IF Recordable(Tick(live))
     THEN /\ log' = Append(log, [tick |-> Tick(live), input |-> e])
          /\ at' = Append(at, Len(trail))
          /\ lost' = lost
     ELSE lost' = TRUE /\ UNCHANGED <<log, at>>
  /\ UNCHANGED <<image, replayVars>>

(* snapshotSave.                                                           *)
Save ==
  /\ mode = "idle"
  /\ image' = Image(live)
  /\ UNCHANGED <<liveVars, replayVars>>

Damage ==
  /\ mode = "idle" /\ Status(image) = "Ok"
  /\ image' \in Damaged(image)
  /\ UNCHANGED <<liveVars, replayVars>>

(* dc_headless_checksum(cfg, seed, n, log): a fresh world.  The server asks*)
(* for the ticks the client has played, or for more when the run is over.  *)
StartHeadless(n) ==
  /\ mode = "idle"
  /\ n <= Tick(live) \/ Over(live)
  /\ mode' = "headless" /\ world' = Start
  /\ cursor' = 1 /\ ticks' = n
  /\ clean' = TRUE
  /\ UNCHANGED <<liveVars, image>>

(* The bytes are not those saved, and the checksum cannot tell.            *)
Unseen(img) == img.body # img.saved /\ Checksum(img.body) = img.checksum

(* No event of tick t was recorded when the world w of that tick was live. *)
FirstOfTick(w) ==
  \E p \in 1 .. Len(trail) : trail[p] = w /\ \A k \in 1 .. Len(log) : at[k] < p <=> log[k].tick < Tick(w)

(* snapshotLoad into a world, then rewind and feed the log from its tick;  *)
(* a load that fails leaves the world alone.                               *)
StartRewound(n) ==
  /\ mode = "idle"
  /\ Status(image) = "Ok"
  /\ n \in Tick(image.body) .. Tick(live)
  /\ mode' = "rewound" /\ world' = image.body
  /\ RewindsTo(cursor', Tick(image.body))
  /\ ticks' = n
  /\ clean' = (FirstOfTick(image.saved) /\ ~Unseen(image))
  /\ UNCHANGED <<liveVars, image>>

(* mutant: an event that is refused is tried again.                        *)
FeedRetries ==
  /\ Running
  /\ Tick(world) < ticks
  /\ Due
  /\ IF Accepts(world, log[cursor].input)
     THEN world' = ApplyInput(world, log[cursor].input) /\ cursor' = cursor + 1 /\ mode' = mode
     ELSE UNCHANGED <<world, cursor, mode>>
  /\ UNCHANGED <<liveVars, image, ticks, clean>>

(* The loop's next event.  dc_headless_checksum gives up when the world    *)
(* refuses it; the loop over InputLog::next goes on.                       *)
Feed ==
  /\ Running
  /\ Tick(world) < ticks
  /\ Due
  /\ IF Accepts(world, log[cursor].input)
     THEN world' = ApplyInput(world, log[cursor].input) /\ cursor' = cursor + 1 /\ mode' = mode
     ELSE /\ world' = world
          /\ IF mode = "headless" THEN mode' = "refused" /\ cursor' = cursor
                                  ELSE mode' = mode /\ cursor' = cursor + 1
  /\ UNCHANGED <<liveVars, image, ticks, clean>>

(* When the tick has no more events: one tick, unless the run is over.     *)
Advance ==
  /\ Running
  /\ Tick(world) < ticks
  /\ ~Due
  /\ IF Over(world) THEN mode' = "done" /\ world' = world
                    ELSE mode' = mode /\ world' = StepWorld(world)
  /\ UNCHANGED <<liveVars, image, cursor, ticks, clean>>

(* The loop has run its ticks: the checksums of the world.                 *)
Finish ==
  /\ Running
  /\ Tick(world) >= ticks
  /\ mode' = "done"
  /\ UNCHANGED <<liveVars, image, world, cursor, ticks, clean>>

(* The world of the replay is destroyed; the client goes on.               *)
Discard ==
  /\ mode \in {"done", "refused"}
  /\ mode' = "idle" /\ world' = Start
  /\ cursor' = 1 /\ ticks' = 0 /\ clean' = TRUE
  /\ UNCHANGED <<liveVars, image>>

Next ==
  \/ Step
  \/ \E e \in Input : TakeInput(e)
  \/ Save
  \/ Damage
  \/ \E n \in 0 .. MaxTick : StartHeadless(n) \/ StartRewound(n)
  \/ Feed
  \/ Advance
  \/ Finish
  \/ Discard

Spec == Init /\ [][Next]_vars

FairSpec == Spec /\ WF_vars(Feed \/ Advance \/ Finish)

----------------------------------------------------------------------------
(* A world of the run on arriving at tick t, before that tick's inputs.    *)
Arrival(w, t) ==
  \E p \in 1 .. Len(trail) :
    trail[p] = w /\ Tick(w) = t /\ (p > 1 => Tick(trail[p - 1]) < t)

(* What server verification rests on: unless the log was full, a replay of *)
(* it is never refused, and ends in the world the client had: the one it   *)
(* reached at the tick asked for, with the inputs of the ticks before and  *)
(* none of that tick's own (the loop of dc_headless_checksum stops there), *)
(* or the last one of a run that was over.  A replay from a snapshot is as *)
(* exact when no input of its tick had been taken before it was saved and  *)
(* its bytes, where they changed, changed in what the checksum reads.      *)
ReplayExact ==
  clean /\ ~lost =>
    /\ mode # "refused"
    /\ mode = "done" => \/ Arrival(world, ticks)
                        \/ world = live /\ Over(live)

(* A replay comes to its end, whatever the log holds: an event the cursor  *)
(* cannot pass stops the events, not the ticks.                            *)
ReplayEnds == Running ~> ~Running
=============================================================================
