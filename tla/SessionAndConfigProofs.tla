----------------------- MODULE SessionAndConfigProofs -----------------------
(***************************************************************************)
(* Proofs about recording and replaying a run, for every simulation whose  *)
(* ticks and inputs are functions of the world, every log capacity and     *)
(* every damage to the image; and about the report of the harness.         *)
(*                                                                         *)
(* The argument for the replay: the trail of the live run is a chain in    *)
(* which each link is a tick or a recorded input (Links), and the replay   *)
(* walks along this chain with its cursor at the first event not yet       *)
(* passed (Place).                                                         *)
(*                                                                         *)
(* And about the configuration a host loads before it starts a run: what   *)
(* is played by hangs together across the nine files (the checks of        *)
(* loadCards and loadItems, and the counting sort of the items, are        *)
(* enough for it), and depends on the texts only (GamesBacked).            *)
(*                                                                         *)
(* And about the reader of those texts, for every text: that what the      *)
(* grammar says of a text is read without an error goes by induction over  *)
(* the length of its spans (AllRead).  That what is read without an error  *)
(* is of the grammar is an invariant from lexeme to lexeme (Held): the     *)
(* nodes form a forest (Woven), each open call waits for something that    *)
(* completes a member of its container (Stack), and the innermost one      *)
(* stands where its lexemes end (Here).  That walking by index gives the   *)
(* same tree goes from the last node to the first (TreesAreWoven).         *)
(***************************************************************************)
EXTENDS Session, ConfigReader, FiniteSetTheorems, SequenceTheorems, WellFoundedInduction, TLAPS

(* A tick leads from one world of the trail to the next.                   *)
TickLink(p) ==
  /\ ~Over(trail[p])
  /\ trail[p + 1] = StepWorld(trail[p])
  /\ Tick(trail[p + 1]) = Tick(trail[p]) + 1

(* A recorded input leads from one world of the trail to the next.         *)
InputLink(k) ==
  /\ at[k] \in 1 .. Len(trail) - 1
  /\ log[k].tick = Tick(trail[at[k]])
  /\ Accepts(trail[at[k]], log[k].input)
  /\ trail[at[k] + 1] = ApplyInput(trail[at[k]], log[k].input)

Shape ==
  /\ trail \in Seq(World) /\ Len(trail) > 0
  /\ trail[1] = Start /\ live = trail[Len(trail)]
  /\ log \in Seq(Event) /\ at \in Seq(Nat) /\ Len(at) = Len(log)

Links ==
  /\ Shape
  /\ \A p, q \in 1 .. Len(trail) : p <= q => Tick(trail[p]) <= Tick(trail[q])
  /\ \A k \in 1 .. Len(log) : InputLink(k)
  /\ \A j, k \in 1 .. Len(log) : j < k => at[j] < at[k]
  /\ ~lost => \A p \in 1 .. Len(trail) - 1 :
                TickLink(p) \/ \E k \in 1 .. Len(log) : at[k] = p

(* The replay stands at place p of the trail, the events before it fed.    *)
Place(p) ==
  /\ p \in 1 .. Len(trail) /\ world = trail[p]
  /\ cursor \in 1 .. Len(log) + 1
  /\ \A k \in 1 .. Len(log) : at[k] < p <=> k < cursor
  /\ Tick(world) <= ticks
  /\ Tick(world) = ticks /\ p > 1 => Tick(trail[p - 1]) < ticks

Follows ==
  /\ Running => ticks \in Nat /\ (ticks <= Tick(live) \/ Over(live))
  /\ Running /\ clean /\ ~lost => \E p \in 1 .. Len(trail) : Place(p)

RInv == Links /\ Follows /\ ReplayExact
----------------------------------------------------------------------------
(* The constants.                                                          *)
LEMMA Simulation ==
  /\ Start \in World /\ Tick(Start) = 0 /\ MaxTick \in Nat
  /\ \A w \in World :
       /\ Tick(w) \in Nat
       /\ Tick(w) < MaxTick /\ ~Over(w) =>
            StepWorld(w) \in World /\ Tick(StepWorld(w)) = Tick(w) + 1
       /\ \A e \in Input :
            Accepts(w, e) => ApplyInput(w, e) \in World /\ Tick(ApplyInput(w, e)) = Tick(w)
BY ReplayAssumption DEF ReplayAssumption

(* The ticks of the trail are numbers.                                     *)
LEMMA TrailTicks ==
  ASSUME Shape
  PROVE  /\ Len(trail) \in Nat /\ Len(log) \in Nat
         /\ \A p \in 1 .. Len(trail) : trail[p] \in World /\ Tick(trail[p]) \in Nat
         /\ live \in World /\ Tick(live) \in Nat
         /\ \A k \in 1 .. Len(log) : at[k] \in Nat /\ log[k] \in Event
<1>1. Len(trail) \in Nat /\ Len(log) \in Nat /\ Len(at) = Len(log)
  BY DEF Shape
<1>2. \A p \in 1 .. Len(trail) : trail[p] \in World
  BY DEF Shape
<1>3. live \in World
  BY <1>1, <1>2 DEF Shape
<1>4. \A k \in 1 .. Len(log) : at[k] \in Nat /\ log[k] \in Event
  BY <1>1 DEF Shape
<1> QED  BY <1>1, <1>2, <1>3, <1>4, Simulation

(* What becomes of the chain when a world is appended to the trail, with   *)
(* an entry of the log or without.                                         *)
LEMMA LinksGrow ==
  ASSUME Links, NEW next \in World, Tick(live) <= Tick(next),
         trail' = Append(trail, next), live' = next,
         \/ /\ UNCHANGED <<log, at>>
            /\ \/ lost'
               \/ /\ lost' = lost /\ ~Over(live)
                  /\ next = StepWorld(live) /\ Tick(next) = Tick(live) + 1
         \/ \E e \in Input :
              /\ Accepts(live, e) /\ next = ApplyInput(live, e)
              /\ log' = Append(log, [tick |-> Tick(live), input |-> e])
              /\ at' = Append(at, Len(trail))
              /\ lost' = lost
  PROVE  Links'
<1> DEFINE n == Len(trail)
<1>1. /\ n \in Nat /\ n > 0 /\ Len(log) \in Nat /\ Len(at) = Len(log)
      /\ \A p \in 1 .. n : trail[p] \in World /\ Tick(trail[p]) \in Nat
      /\ live = trail[n] /\ Tick(live) \in Nat /\ Tick(next) \in Nat
      /\ \A k \in 1 .. Len(log) : at[k] \in Nat
  BY TrailTicks, Simulation DEF Links, Shape
<1>2. /\ trail' \in Seq(World) /\ Len(trail') = n + 1
      /\ \A p \in 1 .. n : trail'[p] = trail[p]
      /\ trail'[n + 1] = next
  BY <1>1, AppendProperties DEF Links, Shape
<1>3. trail'[1] = Start /\ live' = trail'[Len(trail')]
  BY <1>1, <1>2 DEF Links, Shape
<1>4. \A p, q \in 1 .. n + 1 : p <= q => Tick(trail'[p]) <= Tick(trail'[q])
  <2> SUFFICES ASSUME NEW p \in 1 .. n + 1, NEW q \in 1 .. n + 1, p <= q
               PROVE  Tick(trail'[p]) <= Tick(trail'[q])
    OBVIOUS
  <2>1. CASE q \in 1 .. n
    <3>1. p \in 1 .. n
      BY <2>1, <1>1
    <3> QED  BY <2>1, <3>1, <1>2 DEF Links
  <2>2. CASE q = n + 1 /\ p \in 1 .. n
    <3>1. Tick(trail[p]) <= Tick(trail[n])
      BY <2>2, <1>1 DEF Links
    <3>2. Tick(trail[p]) \in Nat
      BY <2>2, <1>1
    <3>3. trail'[p] = trail[p] /\ trail'[q] = next
      BY <2>2, <1>2
    <3> QED  BY <3>1, <3>2, <3>3, <1>1
  <2>3. CASE q = n + 1 /\ p = n + 1
    BY <2>3, <1>1, <1>2
  <2> QED  BY <2>1, <2>2, <2>3, <1>1
<1>5. ASSUME NEW k \in 1 .. Len(log), log'[k] = log[k], at'[k] = at[k]
      PROVE  InputLink(k)'
  <2>1. InputLink(k)
    BY DEF Links
  <2>2. at[k] \in 1 .. n - 1 /\ at[k] \in 1 .. n /\ at[k] + 1 \in 1 .. n
    <3>1. at[k] \in 1 .. n - 1 /\ n \in Nat
      BY <2>1, <1>1, Zenon DEF InputLink
    <3> QED  BY <3>1
  <2>3. at[k] \in 1 .. Len(trail') - 1
    <3>1. Len(trail') - 1 = n
      BY <1>1, <1>2
    <3> QED  BY <2>2, <3>1, Zenon
  <2>4. trail'[at'[k]] = trail[at[k]] /\ trail'[at'[k] + 1] = trail[at[k] + 1]
    BY <2>2, <1>2, <1>5
  <2>5. at'[k] \in 1 .. Len(trail') - 1
    BY <2>3, <1>5
  <2> QED  BY <2>1, <2>4, <2>5, <1>5, Zenon DEF InputLink
<1>6. ASSUME NEW p \in 1 .. n - 1, TickLink(p) PROVE TickLink(p)'
  <2>1. p \in 1 .. n /\ p + 1 \in 1 .. n
    BY <1>1
  <2>2. trail'[p] = trail[p] /\ trail'[p + 1] = trail[p + 1]
    BY <2>1, <1>2
  <2> QED  BY <1>6, <2>2 DEF TickLink
<1>7. ASSUME UNCHANGED <<log, at>>,
             \/ lost'
             \/ /\ lost' = lost /\ ~Over(live)
                /\ next = StepWorld(live) /\ Tick(next) = Tick(live) + 1
      PROVE  Links'
  <2>1. Shape'
    BY <1>1, <1>2, <1>3, <1>7 DEF Links, Shape
  <2>2. \A k \in 1 .. Len(log') : InputLink(k)'
    BY <1>5, <1>7
  <2>3. ~lost' => \A p \in 1 .. Len(trail') - 1 :
                    TickLink(p)' \/ \E k \in 1 .. Len(log') : at'[k] = p
    <3> SUFFICES ASSUME ~lost', NEW p \in 1 .. Len(trail') - 1
                 PROVE  TickLink(p)' \/ \E k \in 1 .. Len(log') : at'[k] = p
      OBVIOUS
    <3>1. CASE p \in 1 .. n - 1
      BY <3>1, <1>6, <1>7 DEF Links
    <3>2. CASE p = n
      <4>1. trail'[p] = live /\ trail'[p + 1] = next
        BY <3>2, <1>1, <1>2
      <4> QED  BY <4>1, <1>7 DEF TickLink
    <3> QED  BY <3>1, <3>2, <1>1, <1>2
  <2> QED  BY <2>1, <2>2, <2>3, <1>2, <1>4, <1>7 DEF Links
<1>8. ASSUME NEW e \in Input, Accepts(live, e), next = ApplyInput(live, e),
             log' = Append(log, [tick |-> Tick(live), input |-> e]),
             at' = Append(at, n), lost' = lost
      PROVE  Links'
  <2> DEFINE m == Len(log)
  <2>1. [tick |-> Tick(live), input |-> e] \in Event
    BY <1>1 DEF Event
  <2>2. /\ log' \in Seq(Event) /\ Len(log') = m + 1
        /\ \A k \in 1 .. m : log'[k] = log[k]
        /\ log'[m + 1] = [tick |-> Tick(live), input |-> e]
    BY <2>1, <1>1, <1>8, AppendProperties DEF Links, Shape
  <2>3. /\ at' \in Seq(Nat) /\ Len(at') = m + 1
        /\ \A k \in 1 .. m : at'[k] = at[k]
        /\ at'[m + 1] = n
    BY <1>1, <1>8, AppendProperties DEF Links, Shape
  <2>4. Shape'
    BY <1>1, <1>2, <1>3, <2>2, <2>3 DEF Shape
  <2>5. \A k \in 1 .. m + 1 : InputLink(k)'
    <3>1. ASSUME NEW k \in 1 .. m PROVE InputLink(k)'
      BY <1>5, <2>2, <2>3
    <3>2. ASSUME NEW k, k = m + 1 PROVE InputLink(k)'
      <4>1. n \in 1 .. Len(trail') - 1 /\ trail'[n] = live /\ trail'[n + 1] = next
        BY <1>1, <1>2
      <4>2. log'[k].tick = Tick(live) /\ log'[k].input = e /\ at'[k] = n
        BY <3>2, <2>2, <2>3
      <4> HIDE DEF m, n
      <4> QED  BY <4>1, <4>2, <1>8 DEF InputLink
    <3>3. \A k \in 1 .. m + 1 : k \in 1 .. m \/ k = m + 1
      BY <1>1
    <3> QED  BY <3>1, <3>2, <3>3
  <2>6. \A j, k \in 1 .. m + 1 : j < k => at'[j] < at'[k]
    <3> SUFFICES ASSUME NEW j \in 1 .. m + 1, NEW k \in 1 .. m + 1, j < k PROVE at'[j] < at'[k]
      OBVIOUS
    <3>1. j \in 1 .. m /\ at[j] < n
      <4>1. j \in 1 .. m
        BY <1>1
      <4>2. at[j] \in 1 .. n - 1
        BY <4>1 DEF Links, InputLink
      <4> QED  BY <4>1, <4>2, <1>1
    <3>2. CASE k \in 1 .. m
      BY <3>1, <3>2, <2>3 DEF Links
    <3>3. CASE k = m + 1
      <4>1. at'[j] = at[j] /\ at'[k] = n
        BY <3>1, <3>3, <2>3
      <4> QED  BY <3>1, <4>1
    <3>4. \A i \in 1 .. m + 1 : i \in 1 .. m \/ i = m + 1
      <4>1. m \in Nat
        BY <1>1
      <4> HIDE DEF m
      <4> QED  BY <4>1
    <3> QED  BY <3>2, <3>3, <3>4
  <2>7. ~lost' => \A p \in 1 .. Len(trail') - 1 :
                    TickLink(p)' \/ \E k \in 1 .. Len(log') : at'[k] = p
    <3> SUFFICES ASSUME ~lost', NEW p \in 1 .. Len(trail') - 1
                 PROVE  TickLink(p)' \/ \E k \in 1 .. Len(log') : at'[k] = p
      OBVIOUS
    <3>1. CASE p \in 1 .. n - 1
      <4>1. CASE TickLink(p)
        BY <3>1, <4>1, <1>6
      <4>2. ASSUME NEW k \in 1 .. m, at[k] = p PROVE \E i \in 1 .. Len(log') : at'[i] = p
        <5>1. k \in 1 .. Len(log')
          BY <2>2, <1>1
        <5>2. at'[k] = at[k]
          BY <2>3
        <5> QED  BY <4>2, <5>1, <5>2
      <4> QED  BY <3>1, <4>1, <4>2, <1>8 DEF Links
    <3>2. CASE p = n
      <4>1. m + 1 \in 1 .. Len(log')
        BY <2>2, <1>1
      <4> QED  BY <4>1, <3>2, <2>3
    <3> QED  BY <3>1, <3>2, <1>1, <1>2
  <2> QED  BY <2>2, <2>4, <2>5, <2>6, <2>7, <1>2, <1>4 DEF Links
<1> QED  BY <1>7, <1>8
----------------------------------------------------------------------------
(* The event that is due is the one that was taken at the replay's place.  *)
LEMMA DueIsHere ==
  ASSUME Links, ~lost, NEW p, Place(p), Due
  PROVE  at[cursor] = p /\ cursor \in 1 .. Len(log)
<1>1. /\ Len(trail) \in Nat /\ Len(log) \in Nat /\ p \in 1 .. Len(trail)
      /\ \A i \in 1 .. Len(trail) : Tick(trail[i]) \in Nat
  BY TrailTicks DEF Links, Place
<1>2. cursor \in 1 .. Len(log) /\ log[cursor].tick = Tick(trail[p])
  BY <1>1 DEF Due, Place
<1>3. at[cursor] \in 1 .. Len(trail) - 1 /\ Tick(trail[at[cursor]]) = Tick(trail[p])
  BY <1>2 DEF Links, InputLink
<1>4. ~(at[cursor] < p)
  BY <1>2 DEF Place
<1>5. CASE at[cursor] > p
  <2>1. p \in 1 .. Len(trail) - 1
    BY <1>1, <1>3, <1>5
  <2>2. ~ \E k \in 1 .. Len(log) : at[k] = p
    <3> SUFFICES ASSUME NEW k \in 1 .. Len(log), at[k] = p PROVE FALSE
      OBVIOUS
    <3>1. ~(k < cursor) /\ k # cursor
      BY <1>1, <1>5 DEF Place
    <3>2. at[cursor] < at[k]
      BY <3>1, <1>1, <1>2 DEF Links
    <3> QED  BY <3>2, <1>1, <1>3, <1>5
  <2>3. TickLink(p)
    BY <2>1, <2>2 DEF Links
  <2>4. p + 1 \in 1 .. Len(trail) /\ at[cursor] \in 1 .. Len(trail) /\ p + 1 <= at[cursor]
    BY <1>1, <1>3, <1>5
  <2>5. Tick(trail[p + 1]) <= Tick(trail[at[cursor]])
    BY <2>4 DEF Links
  <2>6. Tick(trail[p + 1]) = Tick(trail[p]) + 1 /\ Tick(trail[p]) \in Nat
    BY <2>3, <1>1 DEF TickLink
  <2> QED  BY <2>5, <2>6, <1>3
<1> QED  BY <1>1, <1>2, <1>3, <1>4, <1>5

(* When no event is due, the live run made a tick at the replay's place,   *)
(* or ended there.                                                         *)
LEMMA TickIsNext ==
  ASSUME Links, ~lost, NEW p, Place(p), ~Due
  PROVE  /\ ~ \E k \in 1 .. Len(log) : at[k] = p
         /\ p < Len(trail) => TickLink(p)
<1>1. Len(trail) \in Nat /\ Len(log) \in Nat /\ p \in 1 .. Len(trail)
  BY TrailTicks DEF Links, Place
<1>2. ASSUME NEW k \in 1 .. Len(log), at[k] = p PROVE FALSE
  <2>1. ~(k < cursor) /\ cursor \in 1 .. Len(log) + 1
    BY <1>1, <1>2 DEF Place
  <2>2. cursor \in 1 .. Len(log)
    BY <2>1, <1>1
  <2>3. ~(at[cursor] < p)
    BY <2>2 DEF Place
  <2>4. cursor = k
    <3>1. CASE cursor < k
      <4>1. at[cursor] < at[k]
        BY <3>1, <2>2 DEF Links
      <4> QED  BY <4>1, <2>3, <1>2
    <3> QED  BY <3>1, <2>1, <2>2
  <2>5. log[cursor].tick = Tick(world)
    BY <2>4, <1>2 DEF Links, InputLink, Place
  <2> QED  BY <2>2, <2>5 DEF Due
<1>3. ASSUME p < Len(trail) PROVE TickLink(p)
  <2>1. p \in 1 .. Len(trail) - 1
    BY <1>1, <1>3
  <2> QED  BY <2>1, <1>2 DEF Links
<1> QED  BY <1>2, <1>3
----------------------------------------------------------------------------
LEMMA InitRInv == Init => RInv
<1> SUFFICES ASSUME Init PROVE RInv
  OBVIOUS
<1>1. trail = <<Start>> /\ log = <<>> /\ at = <<>> /\ live = Start /\ mode = "idle"
  BY DEF Init
<1>2. /\ trail \in Seq(World) /\ Len(trail) = 1 /\ trail[1] = Start
      /\ log \in Seq(Event) /\ at \in Seq(Nat) /\ Len(log) = 0 /\ Len(at) = 0
  BY <1>1, Simulation
<1>3. Shape
  BY <1>1, <1>2 DEF Shape
<1>4. Links
  BY <1>2, <1>3, Simulation DEF Links
<1> QED  BY <1>1, <1>4 DEF RInv, Follows, Running, ReplayExact

(* The live run goes on only while no replay runs.                         *)
LEMMA LiveRInv ==
  ASSUME RInv, Links', mode = "idle", mode' = "idle"
  PROVE  RInv'
BY DEF RInv, Follows, Running, ReplayExact

LEMMA StepRInv ==
  ASSUME RInv, Step
  PROVE  RInv'
<1>1. /\ live' = StepWorld(live) /\ trail' = Append(trail, live')
      /\ ~Over(live) /\ Tick(live) < MaxTick
      /\ UNCHANGED <<log, lost, at>> /\ mode = "idle" /\ mode' = "idle"
  BY DEF Step, replayVars
<1>2. live \in World /\ Tick(live) \in Nat
  BY TrailTicks DEF RInv, Links
<1>3. live' \in World /\ Tick(live') = Tick(live) + 1 /\ Tick(live) <= Tick(live')
  BY <1>1, <1>2, Simulation
<1>4. Links'
  BY <1>1, <1>3, LinksGrow DEF RInv
<1> QED  BY <1>1, <1>4, LiveRInv

LEMMA TakeInputRInv ==
  ASSUME RInv, NEW e \in Input, TakeInput(e)
  PROVE  RInv'
<1>1. /\ live' = ApplyInput(live, e) /\ trail' = Append(trail, live')
      /\ Accepts(live, e)
      /\ mode = "idle" /\ mode' = "idle"
      /\ \/ UNCHANGED <<log, at>> /\ lost'
         \/ /\ log' = Append(log, [tick |-> Tick(live), input |-> e])
            /\ at' = Append(at, Len(trail))
            /\ lost' = lost
  BY DEF TakeInput, replayVars
<1>2. live \in World /\ Tick(live) \in Nat
  BY TrailTicks DEF RInv, Links
<1>3. live' \in World /\ Tick(live) <= Tick(live')
  BY <1>1, <1>2, Simulation
<1>4. Links'
  BY <1>1, <1>3, LinksGrow DEF RInv
<1> QED  BY <1>1, <1>4, LiveRInv

LEMMA SameLinks ==
  ASSUME Links, UNCHANGED liveVars
  PROVE  Links'
BY DEF Links, Shape, TickLink, InputLink, liveVars

LEMMA StartHeadlessRInv ==
  ASSUME RInv, NEW n \in 0 .. MaxTick, StartHeadless(n)
  PROVE  RInv'
<1>1. /\ n <= Tick(live) \/ Over(live)
      /\ mode' = "headless" /\ world' = Start /\ cursor' = 1 /\ ticks' = n
      /\ UNCHANGED <<live, log, lost, trail, at>>
  BY DEF StartHeadless, liveVars
<1>2. Links' /\ Links
  BY SameLinks DEF RInv, StartHeadless
<1>3. Len(trail) \in Nat /\ Len(trail) > 0 /\ Len(log) \in Nat /\ trail[1] = Start
  BY <1>2, TrailTicks DEF Links, Shape
<1>4. n \in Nat /\ Tick(Start) = 0
  BY Simulation
<1>5. \A k \in 1 .. Len(log) : ~(at[k] < 1) /\ ~(k < 1)
  BY <1>2, <1>3 DEF Links, InputLink
<1>6. Place(1)'
  BY <1>1, <1>3, <1>4, <1>5 DEF Place
<1>7. Follows'
  BY <1>1, <1>3, <1>4, <1>6 DEF Follows
<1>8. ReplayExact'
  BY <1>1 DEF ReplayExact
<1> QED  BY <1>2, <1>7, <1>8 DEF RInv

LEMMA StartRewoundRInv ==
  ASSUME RInv, NEW n \in 0 .. MaxTick, StartRewound(n)
  PROVE  RInv'
<1> DEFINE w == image.saved
<1>1. /\ n \in Tick(image.body) .. Tick(live)
      /\ mode' = "rewound" /\ world' = image.body /\ ticks' = n
      /\ RewindsTo(cursor', Tick(image.body))
      /\ clean' => FirstOfTick(w) /\ ~Unseen(image)
      /\ UNCHANGED <<live, log, lost, trail, at>>
  BY DEF StartRewound, liveVars
<1>2. clean' => image.body = w
  <2>1. Checksum(image.body) = image.checksum
    BY DEF StartRewound, Status
  <2> QED  BY <2>1, <1>1 DEF Unseen
<1>3. Links' /\ Links
  BY SameLinks DEF RInv, StartRewound
<1>4. /\ Len(trail) \in Nat /\ Len(log) \in Nat /\ n \in Nat /\ Tick(live) \in Nat
      /\ \A i \in 1 .. Len(trail) : Tick(trail[i]) \in Nat
      /\ \A k \in 1 .. Len(log) : at[k] \in Nat
  BY <1>3, TrailTicks, Simulation DEF Links
<1> HIDE DEF w
<1>5. ASSUME clean', ~lost' PROVE \E p \in 1 .. Len(trail') : Place(p)'
  <2>1. ~lost /\ FirstOfTick(w) /\ image.body = w
    BY <1>1, <1>2, <1>5
  <2>2. PICK p \in 1 .. Len(trail) :
          trail[p] = w /\ \A k \in 1 .. Len(log) : at[k] < p <=> log[k].tick < Tick(w)
    BY <2>1 DEF FirstOfTick
  <2>3. Tick(w) \in Nat /\ Tick(w) <= n
    BY <2>1, <2>2, <1>1, <1>4
  <2>4. /\ cursor' \in 1 .. Len(log) + 1
        /\ \A k \in 1 .. cursor' - 1 : log[k].tick < Tick(w)
        /\ cursor' <= Len(log) => log[cursor'].tick >= Tick(w)
    BY <1>1, <2>1 DEF RewindsTo
  <2>5. ASSUME NEW k \in 1 .. Len(log) PROVE at[k] < p <=> k < cursor'
    <3>1. CASE k < cursor'
      <4>1. k \in 1 .. cursor' - 1
        <5>1. cursor' \in 1 .. Len(log) + 1 /\ Len(log) \in Nat
          BY <2>4, <1>4
        <5>2. \A c \in 1 .. Len(log) + 1 : k < c => k \in 1 .. c - 1
          BY <5>1
        <5> QED  BY <5>1, <5>2, <3>1
      <4> QED  BY <4>1, <3>1, <2>2, <2>4
    <3>2. CASE ~(k < cursor')
      <4>1. cursor' \in 1 .. Len(log) /\ cursor' <= k
        BY <3>2, <2>4, <1>4
      <4>2. log[cursor'].tick = Tick(trail[at[cursor']]) /\ at[cursor'] \in 1 .. Len(trail)
        BY <4>1, <1>3, <1>4 DEF Links, InputLink
      <4>3. ~(log[cursor'].tick < Tick(w))
        <5>1. PICK x, y : x = log[cursor'].tick /\ y = Tick(w) /\ x \in Nat /\ y \in Nat
          BY <4>2, <2>3, <1>4, Zenon
        <5>2. x >= y
          <6>1. cursor' <= Len(log)
            BY <4>1
          <6> QED  BY <6>1, <2>4, <5>1
        <5>3. ~(x < y)
          BY <5>1, <5>2
        <5> QED  BY <5>1, <5>3, Zenon
      <4>4. ~(at[cursor'] < p)
        BY <4>1, <4>3, <2>2
      <4>5. at[cursor'] = at[k] \/ at[cursor'] < at[k]
        BY <4>1, <1>3 DEF Links
      <4>6. ~(at[k] < p)
        <5>1. PICK x, y : x = at[cursor'] /\ y = at[k] /\ x \in Nat /\ y \in Nat
          BY <4>1, <1>4
        <5>2. p \in Nat
          OBVIOUS
        <5>3. ~(x < p) /\ (x = y \/ x < y)
          BY <4>4, <4>5, <5>1, Zenon
        <5>4. ~(y < p)
          BY <5>1, <5>2, <5>3
        <5> QED  BY <5>1, <5>4, Zenon
      <4> QED  BY <4>6, <3>2, Zenon
    <3> QED  BY <3>1, <3>2
  <2>6. ASSUME p > 1 PROVE Tick(trail[p - 1]) < Tick(w)
    <3>1. p - 1 \in 1 .. Len(trail) - 1 /\ p - 1 \in 1 .. Len(trail) /\ p - 1 + 1 = p
      BY <2>6, <1>4
    <3>2. CASE TickLink(p - 1)
      <4>1. Tick(trail[p]) = Tick(trail[p - 1]) + 1
        BY <3>1, <3>2 DEF TickLink
      <4>2. PICK x, y : x = Tick(trail[p - 1]) /\ y = Tick(w) /\ x \in Nat /\ y = x + 1
        BY <4>1, <3>1, <2>2, <1>4, Zenon
      <4>3. x < y
        BY <4>2
      <4> QED  BY <4>2, <4>3, Zenon
    <3>3. ASSUME NEW k \in 1 .. Len(log), at[k] = p - 1 PROVE Tick(trail[p - 1]) < Tick(w)
      <4>1. log[k].tick = Tick(trail[p - 1])
        BY <3>3, <1>3 DEF Links, InputLink
      <4>2. at[k] < p
        BY <3>1, <3>3
      <4> QED  BY <4>1, <4>2, <2>2
    <3> QED  BY <3>1, <3>2, <3>3, <2>1, <1>3 DEF Links
  <2>7. Tick(w) = n /\ p > 1 => Tick(trail[p - 1]) < n
    BY <2>6
  <2>8. Place(p)'
    BY <2>1, <2>2, <2>3, <2>4, <2>5, <2>7, <1>1 DEF Place
  <2> QED  BY <2>2, <2>8, <1>1
<1>6. Follows'
  BY <1>1, <1>4, <1>5 DEF Follows
<1>7. ReplayExact'
  BY <1>1 DEF ReplayExact
<1> QED  BY <1>3, <1>6, <1>7 DEF RInv

LEMMA FeedRInv ==
  ASSUME RInv, Feed
  PROVE  RInv'
<1>1. /\ Running /\ Tick(world) < ticks /\ Due
      /\ UNCHANGED <<live, log, lost, trail, at, ticks, clean>>
  BY DEF Feed, liveVars
<1>2. Links' /\ Links
  BY SameLinks DEF RInv, Feed
<1>3. ticks \in Nat /\ (ticks <= Tick(live) \/ Over(live))
  BY <1>1 DEF RInv, Follows
<1>4. CASE clean /\ ~lost
  <2>1. PICK p \in 1 .. Len(trail) : Place(p)
    BY <1>1, <1>4 DEF RInv, Follows
  <2>2. at[cursor] = p /\ cursor \in 1 .. Len(log)
    BY <2>1, <1>1, <1>2, <1>4, DueIsHere
  <2>3. /\ p \in 1 .. Len(trail) - 1
        /\ Accepts(world, log[cursor].input)
        /\ trail[p + 1] = ApplyInput(world, log[cursor].input)
    BY <2>1, <2>2, <1>2 DEF Links, InputLink, Place
  <2>4. world' = trail[p + 1] /\ cursor' = cursor + 1 /\ mode' = mode
    BY <2>3 DEF Feed
  <2>5. /\ Len(trail) \in Nat /\ Len(log) \in Nat /\ p + 1 \in 1 .. Len(trail)
        /\ \A i \in 1 .. Len(trail) : trail[i] \in World /\ Tick(trail[i]) \in Nat
        /\ \A k \in 1 .. Len(log) : at[k] \in Nat /\ log[k] \in Event
    BY <2>3, <1>2, TrailTicks DEF Links
  <2>6. Tick(world') = Tick(world) /\ Tick(world) \in Nat
    <3>1. world \in World /\ log[cursor].input \in Input /\ Tick(world) \in Nat
      BY <2>1, <2>2, <2>5 DEF Place, Event
    <3> QED  BY <3>1, <2>3, <2>4, Simulation
  <2>7. \A k \in 1 .. Len(log) : at[k] < p + 1 <=> k < cursor + 1
    <3> SUFFICES ASSUME NEW k \in 1 .. Len(log) PROVE at[k] < p + 1 <=> k < cursor + 1
      OBVIOUS
    <3>1. at[k] \in Nat /\ p \in Nat /\ cursor \in Nat /\ (at[k] < p <=> k < cursor)
      BY <2>1, <2>2, <2>5 DEF Place
    <3>2. k # cursor => at[k] # p
      <4>1. CASE k < cursor
        BY <4>1, <3>1
      <4>2. CASE cursor < k
        <5>1. at[cursor] < at[k]
          BY <4>2, <2>2, <1>2 DEF Links
        <5> QED  BY <5>1, <3>1, <2>2
      <4> QED  BY <4>1, <4>2, <3>1, <2>5
    <3>3. at[k] = p <=> k = cursor
      BY <3>2, <2>2
    <3> QED  BY <3>1, <3>3
  <2>8. Place(p + 1)'
    <3>1. cursor' \in 1 .. Len(log) + 1
      BY <2>2, <2>4, <2>5
    <3>2. Tick(world') <= ticks /\ Tick(world') # ticks
      BY <2>6, <1>1, <1>3
    <3> QED  BY <3>1, <3>2, <2>4, <2>5, <2>7, <1>1 DEF Place
  <2>9. Follows' /\ ReplayExact'
    BY <2>4, <2>5, <2>8, <1>1, <1>3 DEF Follows, ReplayExact, Running
  <2> QED  BY <2>9, <1>2 DEF RInv
<1>5. CASE ~(clean /\ ~lost)
  BY <1>1, <1>2, <1>3, <1>5 DEF RInv, Follows, ReplayExact
<1> QED  BY <1>4, <1>5

LEMMA AdvanceRInv ==
  ASSUME RInv, Advance
  PROVE  RInv'
<1>1. /\ Running /\ Tick(world) < ticks /\ ~Due
      /\ Over(world) => mode' = "done" /\ world' = world
      /\ ~Over(world) => mode' = mode /\ world' = StepWorld(world)
      /\ UNCHANGED <<live, log, lost, trail, at, cursor, ticks, clean>>
  BY DEF Advance, liveVars
<1>2. Links' /\ Links
  BY SameLinks DEF RInv, Advance
<1>3. ticks \in Nat /\ (ticks <= Tick(live) \/ Over(live))
  BY <1>1 DEF RInv, Follows
<1>4. CASE clean /\ ~lost
  <2>1. PICK p \in 1 .. Len(trail) : Place(p)
    BY <1>1, <1>4 DEF RInv, Follows
  <2>2. (~ \E k \in 1 .. Len(log) : at[k] = p) /\ (p < Len(trail) => TickLink(p))
    BY <2>1, <1>1, <1>2, <1>4, TickIsNext
  <2>3. /\ Len(trail) \in Nat /\ Len(log) \in Nat /\ live = trail[Len(trail)]
        /\ \A i \in 1 .. Len(trail) : Tick(trail[i]) \in Nat
        /\ \A k \in 1 .. Len(log) : at[k] \in Nat
    BY <1>2, TrailTicks DEF Links, Shape
  <2>4. world = trail[p]
    BY <2>1 DEF Place
  <2>5. CASE Over(world)
    <3>1. p = Len(trail)
      <4>1. ~(p < Len(trail))
        BY <2>2, <2>4, <2>5 DEF TickLink
      <4> QED  BY <4>1, <2>1, <2>3
    <3>2. world = live
      BY <3>1, <2>3, <2>4
    <3> QED  BY <3>2, <2>5, <1>1, <1>2 DEF RInv, Follows, ReplayExact, Running
  <2>6. CASE ~Over(world)
    <3>1. p < Len(trail)
      <4> SUFFICES ASSUME ~(p < Len(trail)) PROVE FALSE
        OBVIOUS
      <4>1. p = Len(trail)
        BY <2>1, <2>3
      <4>2. world = live
        BY <4>1, <2>3, <2>4
      <4>3. Tick(live) \in Nat
        BY <2>1, <2>3, <4>1
      <4> QED  BY <4>2, <4>3, <2>6, <1>1, <1>3
    <3>2. /\ world' = trail[p + 1] /\ mode' = mode
          /\ Tick(trail[p + 1]) = Tick(trail[p]) + 1
      BY <3>1, <2>2, <2>4, <2>6, <1>1 DEF TickLink
    <3>3. p + 1 \in 1 .. Len(trail) /\ p + 1 - 1 = p
      BY <3>1, <2>1, <2>3
    <3>4. \A k \in 1 .. Len(log) : at[k] < p + 1 <=> k < cursor
      <4> SUFFICES ASSUME NEW k \in 1 .. Len(log) PROVE at[k] < p + 1 <=> k < cursor
        OBVIOUS
      <4>1. at[k] \in Nat /\ p \in Nat /\ at[k] # p
        BY <2>1, <2>2, <2>3
      <4>2. at[k] < p + 1 <=> at[k] < p
        BY <4>1
      <4> QED  BY <4>2, <2>1 DEF Place
    <3>5. Tick(trail[p]) \in Nat /\ Tick(trail[p]) < ticks
      BY <2>1, <2>3, <2>4, <1>1
    <3>6. Tick(world') <= ticks /\ Tick(trail[p + 1 - 1]) < ticks
      BY <3>2, <3>3, <3>5, <1>3
    <3>7. Place(p + 1)'
      BY <3>2, <3>3, <3>4, <3>6, <2>1, <1>1 DEF Place
    <3>8. Follows' /\ ReplayExact'
      BY <3>2, <3>3, <3>7, <1>1, <1>3 DEF Follows, ReplayExact, Running
    <3> QED  BY <3>8, <1>2 DEF RInv
  <2> QED  BY <2>5, <2>6
<1>5. CASE ~(clean /\ ~lost)
  BY <1>1, <1>2, <1>3, <1>5 DEF RInv, Follows, ReplayExact
<1> QED  BY <1>4, <1>5

LEMMA FinishRInv ==
  ASSUME RInv, Finish
  PROVE  RInv'
<1>1. /\ Running /\ Tick(world) >= ticks /\ mode' = "done"
      /\ UNCHANGED <<live, log, lost, trail, at, world, cursor, ticks, clean>>
  BY DEF Finish, liveVars
<1>2. Links' /\ Links
  BY SameLinks DEF RInv, Finish
<1>3. ReplayExact'
  <2> SUFFICES ASSUME clean', ~lost' PROVE Arrival(world, ticks)'
    BY <1>1 DEF ReplayExact
  <2>1. ticks \in Nat
    BY <1>1 DEF RInv, Follows
  <2>2. PICK p \in 1 .. Len(trail) : Place(p)
    BY <1>1 DEF RInv, Follows
  <2>3. Tick(world) \in Nat
    BY <2>2, <1>2, TrailTicks DEF Links, Place
  <2>4. Tick(world) = ticks
    BY <2>1, <2>2, <2>3, <1>1 DEF Place
  <2>5. trail[p] = world /\ (p > 1 => Tick(trail[p - 1]) < ticks)
    BY <2>2, <2>4 DEF Place
  <2> QED  BY <2>2, <2>4, <2>5, <1>1 DEF Arrival
<1>4. Follows'
  BY <1>1 DEF Follows, Running
<1> QED  BY <1>2, <1>3, <1>4 DEF RInv

LEMMA NextRInv == RInv /\ [Next]_vars => RInv'
<1> SUFFICES ASSUME RInv, [Next]_vars PROVE RInv'
  OBVIOUS
<1>1. CASE Step
  BY <1>1, StepRInv
<1>2. ASSUME NEW e \in Input, TakeInput(e) PROVE RInv'
  BY <1>2, TakeInputRInv
<1>3. CASE Save \/ Damage
  <2>1. UNCHANGED liveVars /\ mode = "idle" /\ mode' = "idle"
    BY <1>3 DEF Save, Damage, replayVars
  <2> QED  BY <2>1, SameLinks, LiveRInv DEF RInv
<1>4. ASSUME NEW n \in 0 .. MaxTick, StartHeadless(n) PROVE RInv'
  BY <1>4, StartHeadlessRInv
<1>5. ASSUME NEW n \in 0 .. MaxTick, StartRewound(n) PROVE RInv'
  BY <1>5, StartRewoundRInv
<1>6. CASE Feed
  BY <1>6, FeedRInv
<1>7. CASE Advance
  BY <1>7, AdvanceRInv
<1>8. CASE Finish
  BY <1>8, FinishRInv
<1>9. CASE Discard
  <2>1. Links'
    BY <1>9, SameLinks DEF Discard, RInv
  <2>2. mode' = "idle"
    BY <1>9 DEF Discard
  <2> QED  BY <2>1, <2>2 DEF RInv, Follows, Running, ReplayExact
<1>10. CASE UNCHANGED vars
  <2>1. Links'
    BY <1>10, SameLinks DEF vars, RInv
  <2>2. UNCHANGED <<live, log, lost, trail, at, mode, world, cursor, ticks, clean>>
    BY <1>10 DEF vars, liveVars, replayVars
  <2> QED  BY <2>1, <2>2 DEF RInv, Follows, Running, ReplayExact, Place, Arrival
<1> QED  BY <1>1, <1>2, <1>3, <1>4, <1>5, <1>6, <1>7, <1>8, <1>9, <1>10 DEF Next

(* The server's replay of a log that was never full is never refused, and  *)
(* ends in the very world the client reached.                              *)
THEOREM SessionReplayExact == SessionSpec => []ReplayExact
<1>1. SessionInit => RInv
  BY InitRInv DEF SessionInit
<1>2. RInv /\ [Play \/ Rerun \/ Forget]_allVars => RInv'
  <2>1. [Play \/ Rerun \/ Forget]_allVars => [Next]_vars
    BY DEF Play, Rerun, Forget, allVars
  <2> QED  BY <2>1, NextRInv
<1>3. RInv => ReplayExact
  BY DEF RInv
<1> QED  BY <1>1, <1>2, <1>3, PTL DEF SessionSpec
----------------------------------------------------------------------------
(* The domains, each once.                                                  *)
LEMMA SixDomains ==
  /\ DOMAIN Domains = 1 .. 6
  /\ Domains[1] = "spawn" /\ Domains[2] = "entities" /\ Domains[3] = "hero"
  /\ Domains[4] = "run" /\ Domains[5] = "rng" /\ Domains[6] = "total"
  /\ \A i, j \in DOMAIN Domains : Domains[i] = Domains[j] => i = j
<1>1. DOMAIN Domains = 1 .. 6
  BY DEF Domains
<1>2. /\ Domains[1] = "spawn" /\ Domains[2] = "entities" /\ Domains[3] = "hero"
      /\ Domains[4] = "run" /\ Domains[5] = "rng" /\ Domains[6] = "total"
  BY DEF Domains
<1>3. ASSUME NEW i \in 1 .. 6, NEW j \in 1 .. 6, Domains[i] = Domains[j] PROVE i = j
  <2>1. i \in {1, 2, 3, 4, 5, 6} /\ j \in {1, 2, 3, 4, 5, 6}
    OBVIOUS
  <2> QED  BY <2>1, <1>2, <1>3
<1> QED  BY <1>1, <1>2, <1>3

(* The domain reported differs, and none before it does.                   *)
LEMMA FirstDomain ==
  ASSUME NEW d, d # {}, d \subseteq {Domains[i] : i \in DOMAIN Domains}
  PROVE  \A i \in DOMAIN Domains : Domains[i] = FirstDivergentDomain(d) =>
           Domains[i] \in d /\ \A j \in DOMAIN Domains : j < i => Domains[j] \notin d
<1> DEFINE First(i) == Domains[i] \in d /\ \A j \in 1 .. i - 1 : Domains[j] \notin d
<1>1. \E i \in DOMAIN Domains : First(i)
  <2>1. CASE Domains[1] \in d
    <3>1. First(1)
      BY <2>1
    <3> QED  BY <3>1, SixDomains
  <2>2. CASE Domains[1] \notin d /\ Domains[2] \in d
    <3>1. \A j \in 1 .. 2 - 1 : j = 1
      OBVIOUS
    <3>2. First(2)
      BY <2>2, <3>1
    <3> QED  BY <3>2, SixDomains
  <2>3. CASE Domains[1] \notin d /\ Domains[2] \notin d /\ Domains[3] \in d
    <3>1. \A j \in 1 .. 3 - 1 : j \in {1, 2}
      OBVIOUS
    <3>2. First(3)
      BY <2>3, <3>1
    <3> QED  BY <3>2, SixDomains
  <2>4. CASE Domains[1] \notin d /\ Domains[2] \notin d /\ Domains[3] \notin d /\ Domains[4] \in d
    <3>1. \A j \in 1 .. 4 - 1 : j \in {1, 2, 3}
      OBVIOUS
    <3>2. First(4)
      BY <2>4, <3>1
    <3> QED  BY <3>2, SixDomains
  <2>5. CASE (\A i \in {1, 2, 3, 4} : Domains[i] \notin d) /\ Domains[5] \in d
    <3>1. \A j \in 1 .. 5 - 1 : j \in {1, 2, 3, 4}
      OBVIOUS
    <3>2. First(5)
      BY <2>5, <3>1
    <3> QED  BY <3>2, SixDomains
  <2>6. CASE \A i \in {1, 2, 3, 4, 5} : Domains[i] \notin d
    <3>1. \A j \in 1 .. 6 - 1 : j \in {1, 2, 3, 4, 5}
      OBVIOUS
    <3>2. \A i \in 1 .. 6 : i \in {1, 2, 3, 4, 5} \/ i = 6
      OBVIOUS
    <3>3. Domains[6] \in d
      BY <2>6, <3>2, SixDomains
    <3>4. First(6)
      BY <2>6, <3>1, <3>3
    <3> QED  BY <3>4, SixDomains
  <2> QED  BY <2>1, <2>2, <2>3, <2>4, <2>5, <2>6
<1> DEFINE c == CHOOSE i \in DOMAIN Domains : First(i)
<1>2. FirstDivergentDomain(d) = Domains[c]
  BY DEF FirstDivergentDomain
<1>3. c \in DOMAIN Domains /\ First(c)
  <2> HIDE DEF First
  <2> QED  BY <1>1
<1> HIDE DEF c
<1>4. ASSUME NEW i \in DOMAIN Domains, Domains[i] = FirstDivergentDomain(d),
             NEW j \in DOMAIN Domains, j < i
      PROVE  Domains[j] \notin d
  <2>1. i = c
    BY <1>2, <1>3, <1>4, SixDomains
  <2>2. j \in 1 .. c - 1
    BY <2>1, <1>3, <1>4, SixDomains
  <2> QED  BY <2>2, <1>3
<1> QED  BY <1>2, <1>3, <1>4, SixDomains

(* Where the two loops of verifyReproducible are, what they passed agreed. *)
Passed ==
  /\ runNo \in 0 .. Runs - 1 /\ tickNo \in 0 .. Ticks
  /\ \A r \in 0 .. Runs - 1 : r < runNo => \A n \in 0 .. Ticks : differs[<<r, n>>] = {}
  /\ \A n \in 0 .. Ticks : n < tickNo => differs[<<runNo, n>>] = {}

HInv ==
  /\ harness \in {"idle", "called", "running", "reported"}
  /\ harness # "idle" => asked \in Arguments
  /\ harness \in {"idle", "called"} => runNo = 0 /\ tickNo = 0
  /\ harness # "reported" => report = NoReport
  /\ harness = "running" =>
       /\ ~ArgumentError /\ Passed
       /\ \A r \in 0 .. Runs - 1, n \in 0 .. Ticks : differs[<<r, n>>] \in Diffs
  /\ FirstDivergence

(* Arguments that are not refused are those the loops can run with.        *)
LEMMA HarnessArguments ==
  ASSUME asked \in Arguments, ~ArgumentError
  PROVE  /\ Runs \in Nat /\ Runs > 0 /\ Ticks \in Nat
         /\ \A d \in Diffs : d \subseteq {Domains[i] : i \in DOMAIN Domains}
<1>1. asked.ticks \in Int /\ asked.runs \in Int
  BY HarnessAssumption DEF HarnessAssumption
<1>2. ~(asked.ticks < 0) /\ ~(asked.runs < 1)
  BY DEF ArgumentError, Runs, Ticks
<1>3. \A d \in Diffs : d \subseteq {Domains[i] : i \in DOMAIN Domains}
  BY HarnessAssumption, Zenon DEF HarnessAssumption
<1> QED  BY <1>1, <1>2, <1>3 DEF Runs, Ticks

(* The parameters of a call stay what they are.                            *)
LEMMA SameArguments ==
  ASSUME asked' = asked
  PROVE  /\ Runs' = Runs /\ Ticks' = Ticks /\ Agreed' = Agreed
         /\ ArgumentError' = ArgumentError
BY DEF Runs, Ticks, Agreed, ArgumentError

LEMMA AgreeHInv ==
  ASSUME HInv, Agree
  PROVE  HInv'
<1>1. /\ harness = "running" /\ differs[<<runNo, tickNo>>] = {}
      /\ tickNo' = (IF tickNo < Ticks THEN tickNo + 1 ELSE 0)
      /\ runNo' = (IF tickNo < Ticks THEN runNo ELSE runNo + 1)
      /\ tickNo = Ticks /\ runNo = Runs - 1 => harness' = "reported" /\ report' = Agreed
      /\ ~(tickNo = Ticks /\ runNo = Runs - 1) => harness' = harness /\ report' = report
      /\ asked' = asked /\ differs' = differs
  BY DEF Agree
<1>2. Passed /\ report = NoReport /\ asked \in Arguments /\ ~ArgumentError
  BY <1>1 DEF HInv
<1>c. /\ Runs \in Nat /\ Runs > 0 /\ Ticks \in Nat
      /\ \A d \in Diffs : d \subseteq {Domains[i] : i \in DOMAIN Domains}
  BY <1>2, HarnessArguments
<1>s. /\ Runs' = Runs /\ Ticks' = Ticks /\ Agreed' = Agreed
      /\ ArgumentError' = ArgumentError
  BY <1>1, SameArguments
<1>d. \A r \in 0 .. Runs - 1, n \in 0 .. Ticks : differs[<<r, n>>] \in Diffs
  BY <1>1 DEF HInv
<1>3. \A n \in 0 .. Ticks : n <= tickNo => differs[<<runNo, n>>] = {}
  BY <1>1, <1>2, <1>c DEF Passed
<1>4. CASE tickNo < Ticks
  <2>1. runNo' = runNo /\ tickNo' = tickNo + 1 /\ harness' = "running" /\ report' = report
    BY <1>1, <1>2, <1>4, <1>c DEF Passed
  <2>2. \A n \in 0 .. Ticks : n < tickNo + 1 => differs[<<runNo, n>>] = {}
    BY <1>2, <1>3, <1>c DEF Passed
  <2>3. tickNo + 1 \in 0 .. Ticks
    BY <1>2, <1>4, <1>c DEF Passed
  <2>4. Passed'
    BY <2>1, <2>2, <2>3, <1>1, <1>2, <1>s DEF Passed
  <2> QED  BY <2>1, <2>4, <1>1, <1>2, <1>d, <1>s DEF HInv, FirstDivergence
<1>5. CASE ~(tickNo < Ticks)
  <2>1. tickNo = Ticks /\ runNo' = runNo + 1 /\ tickNo' = 0
    BY <1>1, <1>2, <1>5, <1>c DEF Passed
  <2>2. \A n \in 0 .. Ticks : differs[<<runNo, n>>] = {}
    BY <2>1, <1>3
  <2>3. \A r \in 0 .. Runs - 1 : r < runNo + 1 => \A n \in 0 .. Ticks : differs[<<r, n>>] = {}
    <3>1. \A r \in 0 .. Runs - 1 : r < runNo + 1 => r < runNo \/ r = runNo
      BY <1>2, <1>c DEF Passed
    <3> QED  BY <3>1, <2>2, <1>2 DEF Passed
  <2>4. CASE runNo = Runs - 1
    <3>1. harness' = "reported" /\ report' = Agreed
      BY <2>1, <2>4, <1>1
    <3>2. \A r \in 0 .. Runs - 1, n \in 0 .. Ticks : differs[<<r, n>>] = {}
      BY <2>3, <2>4, <1>c
    <3>3. FirstDivergence'
      BY <3>1, <3>2, <1>1, <1>2, <1>s DEF FirstDivergence
    <3> QED  BY <3>1, <3>3, <1>1, <1>2 DEF HInv
  <2>5. CASE runNo # Runs - 1
    <3>1. harness' = "running" /\ report' = report /\ runNo + 1 \in 0 .. Runs - 1
      BY <2>5, <1>1, <1>2, <1>c DEF Passed
    <3>2. \A n \in 0 .. Ticks : ~(n < 0)
      OBVIOUS
    <3>3. Passed'
      BY <3>1, <3>2, <2>1, <2>3, <1>1, <1>c, <1>s DEF Passed
    <3> QED  BY <3>1, <3>3, <1>1, <1>2, <1>d, <1>s DEF HInv, FirstDivergence
  <2> QED  BY <2>4, <2>5
<1> QED  BY <1>4, <1>5

LEMMA DivergeHInv ==
  ASSUME HInv, Diverge
  PROVE  HInv'
<1> DEFINE d == differs[<<runNo, tickNo>>]
<1>1. /\ harness = "running" /\ d # {}
      /\ report' = [ok |-> FALSE, tick |-> tickNo, run |-> runNo,
                    domain |-> FirstDivergentDomain(d), ticksRun |-> tickNo]
      /\ harness' = "reported"
      /\ asked' = asked /\ UNCHANGED <<differs, runNo, tickNo>>
  BY DEF Diverge
<1>2. Passed /\ asked \in Arguments /\ ~ArgumentError
  BY <1>1 DEF HInv
<1>c. /\ Runs \in Nat /\ Runs > 0 /\ Ticks \in Nat
      /\ \A e \in Diffs : e \subseteq {Domains[i] : i \in DOMAIN Domains}
  BY <1>2, HarnessArguments
<1>s. Runs' = Runs /\ Ticks' = Ticks /\ ArgumentError' = ArgumentError
  BY <1>1, SameArguments
<1>3. d \subseteq {Domains[i] : i \in DOMAIN Domains}
  BY <1>1, <1>2, <1>c DEF HInv, Passed
<1>4. \A i, j \in DOMAIN Domains :
        Domains[i] = FirstDivergentDomain(d) /\ j < i => Domains[i] \in d /\ Domains[j] \notin d
  <2> HIDE DEF d
  <2> QED  BY <1>1, <1>3, FirstDomain
<1> HIDE DEF d
<1>5. /\ report'.ok = FALSE /\ report'.run = runNo /\ report'.tick = tickNo
      /\ report'.domain = FirstDivergentDomain(d)
  BY <1>1
<1>6. \A r \in 0 .. runNo - 1 : ~ \E n \in 0 .. Ticks : differs[<<r, n>>] # {}
  <2>1. \A r \in 0 .. runNo - 1 : r \in 0 .. Runs - 1 /\ r < runNo
    BY <1>2, <1>c DEF Passed
  <2> QED  BY <2>1, <1>2 DEF Passed
<1>7. \A n \in 0 .. tickNo - 1 : differs[<<runNo, n>>] = {}
  <2>1. \A n \in 0 .. tickNo - 1 : n \in 0 .. Ticks /\ n < tickNo
    BY <1>2, <1>c DEF Passed
  <2> QED  BY <2>1, <1>2 DEF Passed
<1>8. \E r \in 0 .. Runs - 1 : \E n \in 0 .. Ticks : differs[<<r, n>>] # {}
  BY <1>1, <1>2 DEF Passed, d
<1>9. FirstDivergence'
  BY <1>1, <1>2, <1>s, <1>4, <1>5, <1>6, <1>7, <1>8 DEF FirstDivergence, d
<1> QED  BY <1>1, <1>2, <1>9 DEF HInv

LEMMA HarnessNextHInv ==
  HInv /\ [Play \/ Rerun \/ Forget]_allVars => HInv'
<1> SUFFICES ASSUME HInv, [Play \/ Rerun \/ Forget]_allVars PROVE HInv'
  OBVIOUS
<1>1. CASE UNCHANGED harnessVars
  <2>1. /\ asked' = asked
        /\ UNCHANGED <<harness, differs, runNo, tickNo, report>>
    BY <1>1 DEF harnessVars
  <2>2. /\ Runs' = Runs /\ Ticks' = Ticks /\ Agreed' = Agreed
        /\ ArgumentError' = ArgumentError
    BY <2>1, SameArguments
  <2>3. Passed' <=> Passed
    BY <2>1, <2>2 DEF Passed
  <2>4. FirstDivergence
    BY DEF HInv
  <2>5. FirstDivergence'
    BY <2>1, <2>4, Zenon DEF FirstDivergence, Runs, Ticks, Agreed, ArgumentError
  <2> QED  BY <2>1, <2>2, <2>3, <2>5 DEF HInv
<1>6. ASSUME NEW a \in Arguments, Call(a) PROVE HInv'
  <2>1. /\ harness = "idle" /\ asked' = a /\ harness' = "called"
        /\ UNCHANGED <<differs, runNo, tickNo, report>>
    BY <1>6 DEF Call
  <2> QED  BY <2>1, <1>6 DEF HInv, FirstDivergence
<1>7. CASE Refuse
  <2>1. /\ harness = "called" /\ ArgumentError /\ asked' = asked
        /\ harness' = "reported" /\ report' = BadCall
        /\ UNCHANGED <<differs, runNo, tickNo>>
    BY <1>7 DEF Refuse
  <2>2. ArgumentError'
    BY <2>1, SameArguments
  <2>3. FirstDivergence'
    BY <2>1, <2>2 DEF FirstDivergence, BadCall, NoReport
  <2>4. asked \in Arguments
    BY <2>1 DEF HInv
  <2> QED  BY <2>1, <2>3, <2>4 DEF HInv
<1>2. CASE Verify
  <2>0. asked \in Arguments /\ ~ArgumentError /\ asked' = asked
    BY <1>2 DEF Verify, HInv
  <2>c. Runs \in Nat /\ Runs > 0 /\ Ticks \in Nat
    BY <2>0, HarnessArguments
  <2>s. Runs' = Runs /\ Ticks' = Ticks /\ ArgumentError' = ArgumentError
    BY <2>0, SameArguments
  <2>1. /\ harness = "called" /\ harness' = "running"
        /\ differs' \in [(0 .. Runs - 1) \X (0 .. Ticks) -> Diffs]
        /\ UNCHANGED <<runNo, tickNo, report>>
    BY <1>2 DEF Verify
  <2>2. \A r \in 0 .. Runs - 1, n \in 0 .. Ticks : differs'[<<r, n>>] \in Diffs
    BY <2>1
  <2>3. runNo = 0 /\ tickNo = 0 /\ 0 \in 0 .. Runs - 1 /\ 0 \in 0 .. Ticks
    BY <2>1, <2>c DEF HInv
  <2>4. \A r \in 0 .. Runs - 1 : ~(r < 0)
    OBVIOUS
  <2>5. \A n \in 0 .. Ticks : ~(n < 0)
    OBVIOUS
  <2>6. Passed'
    BY <2>1, <2>s, <2>3, <2>4, <2>5 DEF Passed
  <2> QED  BY <2>0, <2>s, <2>1, <2>2, <2>6 DEF HInv, FirstDivergence
<1>3. CASE Agree
  BY <1>3, AgreeHInv
<1>4. CASE Diverge
  BY <1>4, DivergeHInv
<1>5. CASE Forget
  BY <1>5 DEF Forget, HInv, FirstDivergence
<1> QED  BY <1>1, <1>2, <1>3, <1>4, <1>5, <1>6, <1>7 DEF Play, Rerun, HarnessNext, allVars

(* The harness reports the first divergence of the first run that has one, *)
(* and the domain whose systems run first in the tick.                     *)
THEOREM SessionFirstDivergence == SessionSpec => []FirstDivergence
<1>1. SessionInit => HInv
  BY DEF SessionInit, HarnessInit, HInv, FirstDivergence
<1>2. HInv => FirstDivergence
  BY DEF HInv
<1> QED  BY <1>1, <1>2, HarnessNextHInv, PTL DEF SessionSpec

----------------------------------------------------------------------------
(* Config.  Folding over the places of a loop.                             *)

(* Every set of numbers that is not empty has a least one.                 *)
LEMMA LeastNatural ==
  ASSUME NEW T \in SUBSET Nat, T # {}
  PROVE  \E x \in T : \A y \in T : x <= y
<1>1. PICK x \in T : \A y \in T : ~ (<<y, x>> \in OpToRel(<, Nat))
  BY WFMin, NatLessThanWellFounded, Zenon
<1>2. ASSUME NEW y \in T PROVE x <= y
  <2>1. <<y, x>> \in Nat \X Nat /\ ~(<<y, x>> \in {ss \in Nat \X Nat : ss[1] < ss[2]})
    BY <1>1 DEF OpToRel
  <2> QED  BY <2>1
<1> QED  BY <1>2

(* Induction over a set of numbers.                                        *)
LEMMA SetInduction ==
  ASSUME NEW T, NEW n \in Nat, 0 \in T, \A k \in 0 .. n - 1 : k \in T => k + 1 \in T
  PROVE  \A k \in 0 .. n : k \in T
<1> DEFINE out == {k \in 0 .. n : k \notin T}
<1> SUFFICES ASSUME out # {} PROVE FALSE
  OBVIOUS
<1>0. out \in SUBSET Nat
  OBVIOUS
<1>1. PICK x \in out : \A y \in out : x <= y
  <2> HIDE DEF out
  <2> QED  BY <1>0, LeastNatural
<1>2. x # 0 /\ x \in Nat /\ x <= n
  BY <1>1
<1>3. x - 1 \in 0 .. n - 1 /\ x - 1 \in T
  BY <1>1, <1>2
<1> QED  BY <1>1, <1>2, <1>3

(* A finite set of numbers has its greatest.                               *)
LEMMA MaxIsLast ==
  ASSUME NEW n \in Nat, NEW s \in SUBSET (1 .. n), s # {}
  PROVE  Max(s) \in s /\ \A x \in s : x <= Max(s)
<1> DEFINE back == {k \in Nat : n - k \in s}
<1>1. PICK x \in s : TRUE
  OBVIOUS
<1>2. x \in 1 .. n
  BY <1>1
<1>3. n - x \in Nat /\ n - (n - x) = x
  BY <1>2
<1>4. n - x \in back
  BY <1>1, <1>3
<1>5. PICK b \in back : \A y \in back : b <= y
  BY <1>4, LeastNatural
<1>6. n - b \in s /\ b \in Nat
  BY <1>5
<1>7. ASSUME NEW y \in s PROVE y <= n - b
  <2>1. n - y \in Nat /\ n - (n - y) = y
    OBVIOUS
  <2>2. n - y \in back
    BY <2>1
  <2>3. b <= n - y
    BY <2>2, <1>5
  <2> QED  BY <2>1, <2>3, <1>6
<1>8. \E z \in s : \A y \in s : z >= y
  <2>1. \A y \in s : n - b >= y
    BY <1>6, <1>7
  <2> QED  BY <1>6, <2>1
<1>9. Max(s) \in s /\ \A y \in s : Max(s) >= y
  BY <1>8, Zenon DEF Max
<1>10. \A y \in s : y \in Int
  OBVIOUS
<1> QED  BY <1>9, <1>10

(* The numbers from 1 up to k, the greatest taken away.                    *)
LEMMA MaxOfPrefix ==
  ASSUME NEW k \in Nat, k # 0
  PROVE  1 .. k # {} /\ Max(1 .. k) = k /\ (1 .. k) \ {k} = 1 .. k - 1
<1>1. 1 .. k # {} /\ k \in 1 .. k
  OBVIOUS
<1>2. Max(1 .. k) \in 1 .. k /\ k <= Max(1 .. k)
  BY <1>1, MaxIsLast
<1> QED  BY <1>1, <1>2

(* g tells of every set of places what folding those places gives, where   *)
(* the step is a function of the value so far and the place.               *)
Folds(g, b, n, H) ==
  \A s \in SUBSET (1 .. n) : g[s] = IF s = {} THEN b ELSE H[<<g[s \ {Max(s)}], Max(s)>>]

(* Folding over the places of a loop is defined for every prefix of it:    *)
(* this is what the recursive definition of a fold means.                  *)
LEMMA FoldExists ==
  ASSUME NEW V, NEW b \in V, NEW n \in Nat, NEW H, H \in [V \X (1 .. n) -> V]
  PROVE  \E g \in [SUBSET (1 .. n) -> V] : Folds(g, b, n, H)
<1> DEFINE All == SUBSET (1 .. n)
           step(g, s) == IF s = {} THEN b ELSE H[<<g[s \ {Max(s)}], Max(s)>>]
           T == {m \in 0 .. n : \E g \in [All -> V] : \A s \in SUBSET (1 .. m) : g[s] = step(g, s)}
<1>1. 0 \in T
  <2>1. [s \in All |-> b] \in [All -> V] /\ \A s \in SUBSET (1 .. 0) : s = {}
    OBVIOUS
  <2>2. {} \in All
    OBVIOUS
  <2>3. \A s \in SUBSET (1 .. 0) : [t \in All |-> b][s] = step([t \in All |-> b], s)
    BY <2>1, <2>2
  <2> HIDE DEF All, step
  <2> QED  BY <2>1, <2>3
<1>2. ASSUME NEW m \in 0 .. n - 1, m \in T PROVE m + 1 \in T
  <2>1. PICK g \in [All -> V] : \A s \in SUBSET (1 .. m) : g[s] = step(g, s)
    BY <1>2
  <2> DEFINE h == [s \in All |-> IF s \in SUBSET (1 .. m) THEN g[s]
                                 ELSE IF s \in SUBSET (1 .. m + 1) THEN H[<<g[s \ {m + 1}], m + 1>>]
                                 ELSE b]
  <2>2. h \in [All -> V]
    <3>1. ASSUME NEW s \in All, s \in SUBSET (1 .. m + 1) PROVE H[<<g[s \ {m + 1}], m + 1>>] \in V
      <4>1. s \ {m + 1} \in All /\ m + 1 \in 1 .. n
        OBVIOUS
      <4>2. g[s \ {m + 1}] \in V
        BY <4>1
      <4> QED  BY <4>1, <4>2
    <3> QED  BY <3>1
  <2>3. ASSUME NEW s \in SUBSET (1 .. m + 1) PROVE h[s] = step(h, s)
    <3>0. s \in All
      OBVIOUS
    <3>1. CASE s \in SUBSET (1 .. m)
      <4>1. h[s] = g[s] /\ g[s] = step(g, s)
        BY <3>1, <3>0, <2>1
      <4>2. CASE s = {}
        BY <4>1, <4>2
      <4>3. CASE s # {}
        <5>1. Max(s) \in s
          BY <4>3, <3>0, MaxIsLast
        <5>2. s \ {Max(s)} \in All /\ s \ {Max(s)} \in SUBSET (1 .. m)
          BY <3>1, <3>0
        <5>3. h[s \ {Max(s)}] = g[s \ {Max(s)}]
          BY <5>2
        <5> QED  BY <4>1, <4>3, <5>3
      <4> QED  BY <4>2, <4>3
    <3>2. CASE s \notin SUBSET (1 .. m)
      <4>1. m + 1 \in s
        BY <3>2
      <4>2. s # {} /\ Max(s) \in s /\ \A x \in s : x <= Max(s)
        BY <4>1, <3>0, MaxIsLast
      <4>3. Max(s) = m + 1
        <5>1. Max(s) \in 1 .. m + 1 /\ m + 1 <= Max(s)
          BY <4>1, <4>2
        <5> QED  BY <5>1
      <4>4. s \ {m + 1} \in All /\ s \ {m + 1} \in SUBSET (1 .. m)
        BY <3>0
      <4>5. h[s] = H[<<g[s \ {m + 1}], m + 1>>]
        BY <3>2, <3>0
      <4>6. h[s \ {m + 1}] = g[s \ {m + 1}]
        BY <4>4
      <4> QED  BY <4>2, <4>3, <4>5, <4>6
    <3> QED  BY <3>1, <3>2
  <2> HIDE DEF h, step, All
  <2>4. m + 1 \in 0 .. n
    OBVIOUS
  <2> QED  BY <2>2, <2>3, <2>4
<1>3. n \in T
  <2> HIDE DEF T
  <2> QED  BY <1>1, <1>2, SetInduction
<1>4. PICK g \in [All -> V] : \A s \in All : g[s] = step(g, s)
  BY <1>3
<1> QED  BY <1>4 DEF Folds

----------------------------------------------------------------------------
(* The counting sort of the items by tier.                                 *)

(* Items below a tier, and the items of a tier among the first k.          *)
Below(tiers, t) == {i \in DOMAIN tiers : tiers[i] < t}
SameUpTo(tiers, t, k) == {i \in 1 .. k : tiers[i] = t}

(* Where the counting sort puts an item.                                   *)
SlotOf(tiers, i) == Cardinality(Below(tiers, tiers[i])) + Cardinality(SameUpTo(tiers, tiers[i], i))

Graded(tiers, N, n) == N \in Nat /\ n \in Nat /\ tiers \in [1 .. N -> 1 .. n]

LEMMA PartsAreFinite ==
  ASSUME NEW N, NEW n, NEW tiers, Graded(tiers, N, n)
  PROVE  /\ \A t \in Int : IsFiniteSet(Below(tiers, t)) /\ Cardinality(Below(tiers, t)) \in 0 .. N
         /\ \A t \in Int, k \in 0 .. N : /\ IsFiniteSet(SameUpTo(tiers, t, k))
                                         /\ Cardinality(SameUpTo(tiers, t, k)) \in 0 .. N
<1>1. N \in Nat /\ IsFiniteSet(1 .. N) /\ Cardinality(1 .. N) = N /\ DOMAIN tiers = 1 .. N
  <2>1. N \in Nat /\ 1 \in Int /\ N \in Int
    BY DEF Graded
  <2>2. IsFiniteSet(1 .. N) /\ Cardinality(1 .. N) = IF 1 > N THEN 0 ELSE N - 1 + 1
    BY <2>1, FS_Interval
  <2> QED  BY <2>1, <2>2 DEF Graded
<1>2. ASSUME NEW S \in SUBSET (1 .. N) PROVE IsFiniteSet(S) /\ Cardinality(S) \in 0 .. N
  <2>1. IsFiniteSet(S) /\ Cardinality(S) <= Cardinality(1 .. N)
    BY <1>1, FS_Subset
  <2>2. Cardinality(S) \in Nat
    BY <2>1, FS_CardinalityType
  <2> QED  BY <1>1, <2>1, <2>2
<1>3. \A t \in Int : Below(tiers, t) \in SUBSET (1 .. N)
  BY <1>1 DEF Below
<1>4. \A t \in Int, k \in 0 .. N : SameUpTo(tiers, t, k) \in SUBSET (1 .. N)
  BY <1>1 DEF SameUpTo
<1> QED  BY <1>2, <1>3, <1>4

(* The tiers lie one behind the other.                                     *)
LEMMA TierStartGrows ==
  ASSUME NEW N, NEW n, NEW tiers, Graded(tiers, N, n)
  PROVE  /\ \A t \in Int, u \in Int : t <= u => Cardinality(Below(tiers, t)) <= Cardinality(Below(tiers, u))
         /\ \A t \in Int : Cardinality(Below(tiers, t + 1)) =
                             Cardinality(Below(tiers, t)) + Cardinality(SameUpTo(tiers, t, N))
<1>1. \A t \in Int : IsFiniteSet(Below(tiers, t)) /\ Cardinality(Below(tiers, t)) \in Nat
  BY PartsAreFinite
<1>2. ASSUME NEW t \in Int, NEW u \in Int, t <= u
      PROVE  Cardinality(Below(tiers, t)) <= Cardinality(Below(tiers, u))
  <2>1. Below(tiers, t) \subseteq Below(tiers, u)
    <3>1. \A i \in DOMAIN tiers : tiers[i] \in Int
      BY DEF Graded
    <3> QED  BY <1>2, <3>1 DEF Below
  <2> QED  BY <1>1, <2>1, FS_Subset
<1>3. ASSUME NEW t \in Int
      PROVE  Cardinality(Below(tiers, t + 1))
               = Cardinality(Below(tiers, t)) + Cardinality(SameUpTo(tiers, t, N))
  <2>1. N \in 0 .. N /\ DOMAIN tiers = 1 .. N /\ \A i \in 1 .. N : tiers[i] \in Int
    BY DEF Graded
  <2>2. IsFiniteSet(SameUpTo(tiers, t, N)) /\ Cardinality(SameUpTo(tiers, t, N)) \in Nat
    BY <2>1, PartsAreFinite
  <2>3. Below(tiers, t + 1) = Below(tiers, t) \cup SameUpTo(tiers, t, N)
    BY <2>1 DEF Below, SameUpTo
  <2>4. Below(tiers, t) \cap SameUpTo(tiers, t, N) = {}
    BY <2>1 DEF Below, SameUpTo
  <2>5. Cardinality(Below(tiers, t) \cup SameUpTo(tiers, t, N)) =
          Cardinality(Below(tiers, t)) + Cardinality(SameUpTo(tiers, t, N))
              - Cardinality(Below(tiers, t) \cap SameUpTo(tiers, t, N))
    BY <1>1, <2>2, FS_Union
  <2>6. Cardinality(Below(tiers, t) \cap SameUpTo(tiers, t, N)) = 0
    <3>1. Cardinality({}) = 0
      BY FS_EmptySet
    <3> QED  BY <2>4, <3>1, Zenon
  <2>7. PICK a \in Nat, b \in Nat, c \in Nat :
           /\ a = Cardinality(Below(tiers, t)) /\ b = Cardinality(SameUpTo(tiers, t, N))
           /\ c = Cardinality(Below(tiers, t + 1))
    <3>1. t + 1 \in Int
      OBVIOUS
    <3> QED  BY <1>1, <2>2, <3>1
  <2>8. c = a + b - 0
    BY <2>3, <2>5, <2>6, <2>7, Zenon
  <2>9. c = a + b
    BY <2>8
  <2> QED  BY <2>7, <2>9, Zenon
<1> QED  BY <1>2, <1>3

(* Counting the items of a tier, one more at a time.                       *)
LEMMA SameUpToGrows ==
  ASSUME NEW N, NEW n, NEW tiers, Graded(tiers, N, n), NEW t \in Int
  PROVE  /\ Cardinality(SameUpTo(tiers, t, 0)) = 0
         /\ \A k \in 0 .. N - 1 : Cardinality(SameUpTo(tiers, t, k + 1)) =
                Cardinality(SameUpTo(tiers, t, k)) + (IF tiers[k + 1] = t THEN 1 ELSE 0)
         /\ \A k \in 0 .. N, m \in 0 .. N :
              k <= m => Cardinality(SameUpTo(tiers, t, k)) <= Cardinality(SameUpTo(tiers, t, m))
<1>0. N \in Nat
  BY DEF Graded
<1>1. SameUpTo(tiers, t, 0) = {}
  BY DEF SameUpTo
<1>2. ASSUME NEW k \in 0 .. N - 1
      PROVE  Cardinality(SameUpTo(tiers, t, k + 1)) =
               Cardinality(SameUpTo(tiers, t, k)) + (IF tiers[k + 1] = t THEN 1 ELSE 0)
  <2>1. IsFiniteSet(SameUpTo(tiers, t, k)) /\ Cardinality(SameUpTo(tiers, t, k)) \in Nat /\ k \in 0 .. N
    BY <1>0, PartsAreFinite
  <2>2. CASE tiers[k + 1] = t
    <3>1. SameUpTo(tiers, t, k + 1) = SameUpTo(tiers, t, k) \cup {k + 1} /\ k + 1 \notin SameUpTo(tiers, t, k)
      BY <1>0, <2>2 DEF SameUpTo
    <3>2. Cardinality(SameUpTo(tiers, t, k) \cup {k + 1}) = Cardinality(SameUpTo(tiers, t, k)) + 1
      BY <2>1, <3>1, FS_AddElement
    <3> QED  BY <2>2, <3>1, <3>2
  <2>3. CASE tiers[k + 1] # t
    <3>1. SameUpTo(tiers, t, k + 1) = SameUpTo(tiers, t, k)
      BY <1>0, <2>3 DEF SameUpTo
    <3> QED  BY <2>1, <2>3, <3>1
  <2> QED  BY <2>2, <2>3
<1>3. ASSUME NEW k \in 0 .. N, NEW m \in 0 .. N, k <= m
      PROVE  Cardinality(SameUpTo(tiers, t, k)) <= Cardinality(SameUpTo(tiers, t, m))
  <2>1. SameUpTo(tiers, t, k) \subseteq SameUpTo(tiers, t, m)
    BY <1>0, <1>3 DEF SameUpTo
  <2>2. IsFiniteSet(SameUpTo(tiers, t, m))
    BY PartsAreFinite
  <2> QED  BY <2>1, <2>2, FS_Subset
<1> QED  BY <1>1, <1>2, <1>3, FS_EmptySet

(* Each item has a place of its own, within those of its tier.             *)
LEMMA PlaceInTier ==
  ASSUME NEW N, NEW n, NEW tiers, Graded(tiers, N, n), NEW i \in 1 .. N
  PROVE  /\ SlotOf(tiers, i) \in 1 .. N
         /\ SlotOf(tiers, i) \in Cardinality(Below(tiers, tiers[i])) + 1
                              .. Cardinality(Below(tiers, tiers[i] + 1))
<1>1. PICK t \in 1 .. n : t = tiers[i]
  BY DEF Graded
<1>2. N \in Nat /\ i - 1 \in 0 .. N - 1 /\ i \in 0 .. N /\ N \in 0 .. N
    /\ t \in Int /\ t + 1 \in Int /\ (i - 1) + 1 = i
  BY DEF Graded
<1>3. PICK a \in 0 .. N, b \in 0 .. N, c \in 0 .. N, e \in 0 .. N, z \in 0 .. N :
        /\ a = Cardinality(Below(tiers, t)) /\ b = Cardinality(Below(tiers, t + 1))
        /\ c = Cardinality(SameUpTo(tiers, t, i)) /\ e = Cardinality(SameUpTo(tiers, t, N))
        /\ z = Cardinality(SameUpTo(tiers, t, i - 1))
  <2>1. i - 1 \in 0 .. N
    BY <1>2
  <2> QED  BY <1>2, <2>1, PartsAreFinite
<1>4. b = a + e
  BY <1>2, <1>3, TierStartGrows
<1>5. c <= e
  BY <1>2, <1>3, SameUpToGrows
<1>6. c = z + 1
  <2>1. Cardinality(SameUpTo(tiers, t, (i - 1) + 1)) =
          Cardinality(SameUpTo(tiers, t, i - 1)) + (IF tiers[(i - 1) + 1] = t THEN 1 ELSE 0)
    BY <1>2, SameUpToGrows
  <2> QED  BY <1>1, <1>2, <1>3, <2>1
<1>7. SlotOf(tiers, i) = a + c
  BY <1>1, <1>3 DEF SlotOf
<1>8. a + c \in 1 .. N /\ a + c \in a + 1 .. b
  BY <1>2, <1>3, <1>4, <1>5, <1>6
<1> QED  BY <1>1, <1>3, <1>7, <1>8

LEMMA PlaceIsOwn ==
  ASSUME NEW N, NEW n, NEW tiers, Graded(tiers, N, n), NEW i \in 1 .. N, NEW j \in 1 .. N,
         SlotOf(tiers, i) = SlotOf(tiers, j)
  PROVE  i = j
<1>0. N \in Nat /\ i \in 0 .. N /\ j \in 0 .. N
  BY DEF Graded
<1>1. ASSUME NEW x \in 1 .. N, NEW y \in 1 .. N, tiers[x] < tiers[y] PROVE SlotOf(tiers, x) < SlotOf(tiers, y)
  <2>1. PICK t \in 1 .. n, u \in 1 .. n : t = tiers[x] /\ u = tiers[y]
    BY DEF Graded
  <2>2. t \in Int /\ t + 1 \in Int /\ u \in Int /\ t + 1 <= u
    BY <1>1, <2>1 DEF Graded
  <2>3. Cardinality(Below(tiers, t + 1)) <= Cardinality(Below(tiers, u))
    BY <2>2, TierStartGrows
  <2>4. Cardinality(Below(tiers, t + 1)) \in Nat /\ Cardinality(Below(tiers, u)) \in Nat
        /\ Cardinality(Below(tiers, t)) \in Nat /\ Cardinality(Below(tiers, u + 1)) \in Nat
    <3>1. u + 1 \in Int
      BY <2>2
    <3> QED  BY <2>2, <3>1, PartsAreFinite
  <2>5. SlotOf(tiers, x) \in Cardinality(Below(tiers, t)) + 1 .. Cardinality(Below(tiers, t + 1))
    BY <2>1, PlaceInTier
  <2>6. SlotOf(tiers, y) \in Cardinality(Below(tiers, u)) + 1 .. Cardinality(Below(tiers, u + 1))
    BY <2>1, PlaceInTier
  <2> QED  BY <2>3, <2>4, <2>5, <2>6
<1>2. ASSUME NEW x \in 1 .. N, NEW y \in 1 .. N, tiers[x] = tiers[y], x < y
             PROVE SlotOf(tiers, x) < SlotOf(tiers, y)
  <2>1. PICK t \in 1 .. n : t = tiers[x] /\ t = tiers[y]
    BY <1>2 DEF Graded
  <2>2. t \in Int /\ y - 1 \in 0 .. N - 1 /\ y - 1 \in 0 .. N /\ x \in 0 .. N /\ y \in 0 .. N
        /\ x <= y - 1 /\ (y - 1) + 1 = y
    BY <1>0, <1>2
  <2>3. Cardinality(SameUpTo(tiers, t, x)) <= Cardinality(SameUpTo(tiers, t, y - 1))
    BY <2>2, SameUpToGrows
  <2>4. Cardinality(SameUpTo(tiers, t, y)) = Cardinality(SameUpTo(tiers, t, y - 1)) + 1
    <3>1. Cardinality(SameUpTo(tiers, t, (y - 1) + 1)) =
            Cardinality(SameUpTo(tiers, t, y - 1)) + (IF tiers[(y - 1) + 1] = t THEN 1 ELSE 0)
      BY <2>2, SameUpToGrows
    <3> QED  BY <2>1, <2>2, <3>1
  <2>5. /\ Cardinality(SameUpTo(tiers, t, x)) \in Nat /\ Cardinality(SameUpTo(tiers, t, y - 1)) \in Nat
        /\ Cardinality(Below(tiers, t)) \in Nat
    BY <2>2, PartsAreFinite
  <2>6. /\ SlotOf(tiers, x) = Cardinality(Below(tiers, t)) + Cardinality(SameUpTo(tiers, t, x))
        /\ SlotOf(tiers, y) = Cardinality(Below(tiers, t)) + Cardinality(SameUpTo(tiers, t, y))
    BY <2>1 DEF SlotOf
  <2> QED  BY <2>3, <2>4, <2>5, <2>6
<1>3. tiers[i] \in Int /\ tiers[j] \in Int /\ SlotOf(tiers, i) \in Int /\ SlotOf(tiers, j) \in Int
  <2>1. SlotOf(tiers, i) \in 1 .. N /\ SlotOf(tiers, j) \in 1 .. N
    BY PlaceInTier
  <2> QED  BY <2>1 DEF Graded
<1>4. ~ (tiers[i] < tiers[j]) /\ ~ (tiers[j] < tiers[i])
  BY <1>1, <1>3
<1>5. tiers[i] = tiers[j]
  BY <1>3, <1>4
<1>6. ~ (i < j) /\ ~ (j < i)
  BY <1>2, <1>3, <1>5
<1> QED  BY <1>0, <1>6

(* One step of the counting sort, as TierItems takes it.                   *)
Sorted(tiers, acc, i) ==
  [items |-> [acc.items EXCEPT ![acc.cursor[tiers[i]] + 1] = i],
   cursor |-> [acc.cursor EXCEPT ![tiers[i]] = @ + 1]]

(* The counting sort leaves each item at its place.                        *)
LEMMA SortPlaces ==
  ASSUME NEW N, NEW n, NEW tiers, Graded(tiers, N, n)
  PROVE  /\ TierItems(tiers, n) \in [1 .. N -> 1 .. N]
         /\ \A i \in 1 .. N : TierItems(tiers, n)[SlotOf(tiers, i)] = i
<1> DEFINE start == [cursor |-> TierStart(tiers, n), items |-> [i \in DOMAIN tiers |-> 1]]
           ids == [i \in DOMAIN tiers |-> i]
           V == [cursor : [1 .. n + 1 -> Int], items : [1 .. N -> 1 .. N]]
           H == [w \in V \X (1 .. N) |-> Sorted(tiers, w[1], w[2])]
           G == CHOOSE g : g = [s \in SUBSET DOMAIN ids |->
                    IF s = {} THEN start ELSE Sorted(tiers, g[s \ {Max(s)}], ids[Max(s)])]
<1>1. N \in Nat /\ n \in Nat /\ DOMAIN tiers = 1 .. N /\ \A i \in 1 .. N : tiers[i] \in 1 .. n
  BY DEF Graded
<1>2. TierItems(tiers, n) = G[DOMAIN ids].items
  BY Zenon DEF TierItems, FoldLeft, MapThenFoldSet, Sorted
<1>3. DOMAIN ids = 1 .. N /\ \A k \in 1 .. N : ids[k] = k
  BY <1>1
<1> HIDE DEF ids
<1>4. start \in V
  <2>1. \A t \in 1 .. n + 1 : Cardinality(Below(tiers, t)) \in Int
    BY <1>1, PartsAreFinite
  <2>2. TierStart(tiers, n) \in [1 .. n + 1 -> Int]
    BY <2>1 DEF TierStart, Below
  <2>3. [i \in DOMAIN tiers |-> 1] \in [1 .. N -> 1 .. N]
    BY <1>1
  <2> QED  BY <2>2, <2>3
<1>5. ASSUME NEW acc \in V, NEW i \in 1 .. N PROVE Sorted(tiers, acc, i) \in V
  <2>1. [acc.items EXCEPT ![acc.cursor[tiers[i]] + 1] = i] \in [1 .. N -> 1 .. N]
    OBVIOUS
  <2>2. tiers[i] \in 1 .. n + 1 /\ acc.cursor \in [1 .. n + 1 -> Int]
    BY <1>1
  <2>3. [acc.cursor EXCEPT ![tiers[i]] = @ + 1] \in [1 .. n + 1 -> Int]
    <3>1. PICK c, u : c = acc.cursor /\ u = tiers[i]
      OBVIOUS
    <3>2. c \in [1 .. n + 1 -> Int] /\ u \in 1 .. n + 1
      BY <2>2, <3>1, Zenon
    <3>4. c[u] \in Int
      BY <3>2
    <3>5. c[u] + 1 \in Int
      BY <3>4
    <3>3. [c EXCEPT ![u] = c[u] + 1] \in [1 .. n + 1 -> Int]
      BY <3>2, <3>5
    <3> QED  BY <3>1, <3>3
  <2> QED  BY <2>1, <2>3 DEF Sorted
<1>6. H \in [V \X (1 .. N) -> V]
  <2>1. \A w \in V \X (1 .. N) : Sorted(tiers, w[1], w[2]) \in V
    <3> TAKE w \in V \X (1 .. N)
    <3>1. w[1] \in V /\ w[2] \in 1 .. N
      OBVIOUS
    <3> HIDE DEF V
    <3> QED  BY <3>1, <1>5
  <2> HIDE DEF V
  <2> QED  BY <2>1
<1>7. PICK g \in [SUBSET (1 .. N) -> V] : Folds(g, start, N, H)
  <2> HIDE DEF H, V, start
  <2> QED  BY <1>1, <1>4, <1>6, FoldExists
<1> HIDE DEF V
<1>8. ASSUME NEW s \in SUBSET (1 .. N), s # {}
      PROVE  H[<<g[s \ {Max(s)}], Max(s)>>] = Sorted(tiers, g[s \ {Max(s)}], ids[Max(s)])
  <2>1. Max(s) \in 1 .. N
    BY <1>1, <1>8, MaxIsLast
  <2>2. g[s \ {Max(s)}] \in V
    BY <1>7
  <2> QED  BY <1>3, <2>1, <2>2
<1> HIDE DEF start
<1>9. g = [s \in SUBSET DOMAIN ids |-> IF s = {} THEN start ELSE Sorted(tiers, g[s \ {Max(s)}], ids[Max(s)])]
  <2>1. \A s \in SUBSET (1 .. N) :
          g[s] = IF s = {} THEN start ELSE H[<<g[s \ {Max(s)}], Max(s)>>]
    BY <1>7 DEF Folds
  <2> HIDE DEF H
  <2> QED  BY <1>3, <1>7, <1>8, <2>1
<1>10. G = [s \in SUBSET DOMAIN ids |-> IF s = {} THEN start ELSE Sorted(tiers, G[s \ {Max(s)}], ids[Max(s)])]
  BY <1>9, Zenon
<1> HIDE DEF G
<1>11. G[{}] = start
  BY <1>10
<1>12. ASSUME NEW k \in 1 .. N PROVE G[1 .. k] = Sorted(tiers, G[1 .. k - 1], k)
  <2>1. 1 .. k \in SUBSET DOMAIN ids /\ k \in Nat /\ k # 0
    BY <1>1, <1>3
  <2>2. 1 .. k # {} /\ Max(1 .. k) = k /\ (1 .. k) \ {k} = 1 .. k - 1
    BY <2>1, MaxOfPrefix
  <2>3. G[1 .. k] = Sorted(tiers, G[(1 .. k) \ {Max(1 .. k)}], ids[Max(1 .. k)])
    BY <1>10, <2>1, <2>2
  <2> QED  BY <1>3, <2>2, <2>3
<1> DEFINE Done(k) == /\ G[1 .. k] \in V
                      /\ \A t \in 1 .. n : G[1 .. k].cursor[t] =
                            Cardinality(Below(tiers, t)) + Cardinality(SameUpTo(tiers, t, k))
                      /\ \A i \in 1 .. k : G[1 .. k].items[SlotOf(tiers, i)] = i
           T == {k \in 0 .. N : Done(k)}
<1>13. 0 \in T
  <2>1. 1 .. 0 = {} /\ 0 \in 0 .. N
    BY <1>1
  <2>2. G[1 .. 0] = start
    BY <1>11, <2>1
  <2>3. ASSUME NEW t \in 1 .. n
        PROVE  start.cursor[t] = Cardinality(Below(tiers, t)) + Cardinality(SameUpTo(tiers, t, 0))
    <3>1. start.cursor[t] = Cardinality(Below(tiers, t))
      <4>1. t \in 1 .. n + 1
        BY <1>1
      <4> QED  BY <4>1 DEF start, TierStart, Below
    <3>2. Cardinality(SameUpTo(tiers, t, 0)) = 0 /\ Cardinality(Below(tiers, t)) \in Nat
      <4>1. t \in Int
        BY <1>1
      <4> QED  BY <4>1, SameUpToGrows, PartsAreFinite
    <3> QED  BY <3>1, <3>2
  <2>4. Done(0)
    BY <1>4, <2>1, <2>2, <2>3
  <2> HIDE DEF Done
  <2> QED  BY <2>1, <2>4
<1>14. ASSUME NEW k \in 0 .. N - 1, k \in T PROVE k + 1 \in T
  <2>1. PICK m \in 1 .. N : m = k + 1 /\ m - 1 = k
    BY <1>1
  <2>2. PICK acc \in V : acc = G[1 .. k]
    BY <1>14
  <2>3. /\ \A t \in 1 .. n : acc.cursor[t] = Cardinality(Below(tiers, t)) + Cardinality(SameUpTo(tiers, t, k))
        /\ \A i \in 1 .. k : acc.items[SlotOf(tiers, i)] = i
    BY <1>14, <2>2
  <2>4. G[1 .. m] = Sorted(tiers, acc, m)
    BY <1>12, <2>1, <2>2
  <2>5. PICK u \in 1 .. n : u = tiers[m]
    BY <1>1
  <2>6. acc.cursor \in [1 .. n + 1 -> Int] /\ acc.items \in [1 .. N -> 1 .. N]
    BY DEF V
  <2>7. ASSUME NEW t \in 1 .. n
        PROVE  Cardinality(SameUpTo(tiers, t, m))
                 = Cardinality(SameUpTo(tiers, t, k)) + (IF t = u THEN 1 ELSE 0)
    <3>1. t \in Int
      BY <1>1
    <3>2. Cardinality(SameUpTo(tiers, t, k + 1)) =
            Cardinality(SameUpTo(tiers, t, k)) + (IF tiers[k + 1] = t THEN 1 ELSE 0)
      BY <3>1, SameUpToGrows
    <3> QED  BY <2>1, <2>5, <3>2
  <2>8. ASSUME NEW t \in 1 .. n
        PROVE  Cardinality(SameUpTo(tiers, t, k)) \in Int /\ Cardinality(Below(tiers, t)) \in Int
    <3>1. t \in Int /\ k \in 0 .. N
      BY <1>1
    <3> QED  BY <3>1, PartsAreFinite
  <2>9. acc.cursor[u] + 1 = SlotOf(tiers, m)
    <3>1. SlotOf(tiers, m) = Cardinality(Below(tiers, u)) + Cardinality(SameUpTo(tiers, u, m))
      BY <2>5 DEF SlotOf
    <3>2. Cardinality(SameUpTo(tiers, u, m)) = Cardinality(SameUpTo(tiers, u, k)) + 1
      BY <2>7
    <3>3. acc.cursor[u] = Cardinality(Below(tiers, u)) + Cardinality(SameUpTo(tiers, u, k))
      BY <2>3
    <3> QED  BY <2>8, <3>1, <3>2, <3>3
  <2>10. SlotOf(tiers, m) \in 1 .. N
    BY PlaceInTier
  <2>11. /\ G[1 .. m].items = [acc.items EXCEPT ![SlotOf(tiers, m)] = m]
         /\ G[1 .. m].cursor = [acc.cursor EXCEPT ![u] = @ + 1]
    BY <2>4, <2>5, <2>9 DEF Sorted
  <2>12. ASSUME NEW t \in 1 .. n
         PROVE  G[1 .. m].cursor[t] = Cardinality(Below(tiers, t)) + Cardinality(SameUpTo(tiers, t, m))
    <3>1. t \in 1 .. n + 1
      BY <1>1
    <3>2. G[1 .. m].cursor[t] = acc.cursor[t] + (IF t = u THEN 1 ELSE 0)
      <4>1. PICK c \in [1 .. n + 1 -> Int] : c = acc.cursor
        BY <2>6
      <4>2. G[1 .. m].cursor = [c EXCEPT ![u] = c[u] + 1]
        BY <2>11, <4>1
      <4>3. c[t] \in Int
        BY <3>1, <4>1
      <4>5. c[t] + 0 = c[t]
        BY <4>3
      <4>4. G[1 .. m].cursor[t] = IF t = u THEN c[u] + 1 ELSE c[t]
        BY <3>1, <4>1, <4>2
      <4> QED  BY <4>1, <4>4, <4>5
    <3>3. acc.cursor[t] = Cardinality(Below(tiers, t)) + Cardinality(SameUpTo(tiers, t, k))
      BY <2>3
    <3> QED  BY <2>7, <2>8, <3>2, <3>3
  <2>13. ASSUME NEW i \in 1 .. m PROVE G[1 .. m].items[SlotOf(tiers, i)] = i
    <3>1. i \in 1 .. N /\ SlotOf(tiers, i) \in 1 .. N
      <4>1. i \in 1 .. N
        BY <1>1, <2>1
      <4> QED  BY <4>1, PlaceInTier
    <3>2. CASE i = m
      <4>1. PICK p \in 1 .. N : p = SlotOf(tiers, m)
        BY <2>10
      <4>2. acc.items \in [1 .. N -> Int]
        BY <2>6
      <4>3. G[1 .. m].items[p] = m
        BY <2>11, <4>1, <4>2
      <4> QED  BY <3>2, <4>1, <4>3
    <3>3. CASE i # m
      <4>1. SlotOf(tiers, i) # SlotOf(tiers, m)
        BY <3>1, <3>3, PlaceIsOwn
      <4>2. i \in 1 .. k
        BY <1>1, <2>1, <3>3
      <4>3. acc.items[SlotOf(tiers, i)] = i
        BY <2>3, <4>2
      <4> QED  BY <2>6, <2>11, <3>1, <4>1, <4>3
    <3> QED  BY <3>2, <3>3
  <2>14. G[1 .. m] \in V
    BY <1>5, <2>4
  <2>15. Done(m)
    BY <2>12, <2>13, <2>14
  <2> HIDE DEF Done
  <2> QED  BY <1>1, <2>1, <2>15
<1>15. N \in T
  <2>1. \A k \in 0 .. N - 1 : k \in T => k + 1 \in T
    BY <1>14
  <2> HIDE DEF T
  <2>2. \A k \in 0 .. N : k \in T
    BY <1>1, <1>13, <2>1, SetInduction
  <2> QED  BY <1>1, <2>2
<1>16. G[1 .. N] \in V /\ \A i \in 1 .. N : G[1 .. N].items[SlotOf(tiers, i)] = i
  BY <1>15
<1>17. TierItems(tiers, n) = G[1 .. N].items
  BY <1>2, <1>3
<1> QED  BY <1>16, <1>17 DEF V

(* The counting sort brings the items of each tier together, each once.    *)
LEMMA SortIsByTier ==
  ASSUME NEW N, NEW n, NEW tiers, Graded(tiers, N, n)
  PROVE  /\ Range(TierItems(tiers, n)) = 1 .. N
         /\ \A i \in 1 .. N :
              {t \in 1 .. n : \E k \in TierStart(tiers, n)[t] + 1 .. TierStart(tiers, n)[t + 1] :
                                 TierItems(tiers, n)[k] = i} = {tiers[i]}
<1> DEFINE items == TierItems(tiers, n)
           start == TierStart(tiers, n)
           place == [i \in 1 .. N |-> SlotOf(tiers, i)]
<1>1. N \in Nat /\ n \in Nat /\ DOMAIN tiers = 1 .. N /\ \A i \in 1 .. N : tiers[i] \in 1 .. n
  BY DEF Graded
<1>2. items \in [1 .. N -> 1 .. N] /\ \A i \in 1 .. N : items[SlotOf(tiers, i)] = i
  BY SortPlaces
<1>3. \A i \in 1 .. N : SlotOf(tiers, i) \in 1 .. N
  BY PlaceInTier
<1>4. \A t \in 1 .. n + 1 : start[t] = Cardinality(Below(tiers, t)) /\ start[t] \in Nat
  <2> TAKE t \in 1 .. n + 1
  <2>1. start[t] = Cardinality(Below(tiers, t))
    BY DEF TierStart, Below
  <2>2. t \in Int
    BY <1>1
  <2>3. Cardinality(Below(tiers, t)) \in 0 .. N
    BY <2>2, PartsAreFinite
  <2> QED  BY <1>1, <2>1, <2>3
<1> HIDE DEF items, start
<1>5. Range(items) = 1 .. N
  <2>1. \A i \in 1 .. N : i \in Range(items)
    BY <1>2, <1>3 DEF Range
  <2> QED  BY <1>2, <2>1 DEF Range
<1>6. \A k \in 1 .. N : \E i \in 1 .. N : k = SlotOf(tiers, i)
  <2>1. place \in [1 .. N -> 1 .. N]
    BY <1>3
  <2>2. \A i \in 1 .. N, j \in 1 .. N : place[i] = place[j] => i = j
    BY PlaceIsOwn
  <2>3. place \in Injection(1 .. N, 1 .. N)
    BY <2>1, <2>2 DEF Injection, IsInjective
  <2>4. IsFiniteSet(1 .. N)
    BY <1>1, FS_Interval
  <2>5. place \in Surjection(1 .. N, 1 .. N)
    <3> HIDE DEF place
    <3> QED  BY <2>3, <2>4, FS_Injection
  <2> QED  BY <2>5 DEF Surjection
<1>7. ASSUME NEW i \in 1 .. N, NEW t \in 1 .. n
      PROVE  (\E k \in start[t] + 1 .. start[t + 1] : items[k] = i) <=> t = tiers[i]
  <2>1. PICK u \in 1 .. n : u = tiers[i]
    BY <1>1
  <2>2. PICK p \in 1 .. N : p = SlotOf(tiers, i)
    BY <1>3
  <2>3. /\ t \in Int /\ u \in Int /\ t + 1 \in Int /\ u + 1 \in Int
        /\ t \in 1 .. n + 1 /\ u \in 1 .. n + 1 /\ t + 1 \in 1 .. n + 1 /\ u + 1 \in 1 .. n + 1
    BY <1>1
  <2>4. PICK a \in Nat, b \in Nat, c \in Nat, e \in Nat :
          a = start[t] /\ b = start[t + 1] /\ c = start[u] /\ e = start[u + 1]
    BY <1>4, <2>3
  <2>5. p \in c + 1 .. e
    <3>1. SlotOf(tiers, i) \in Cardinality(Below(tiers, u)) + 1 .. Cardinality(Below(tiers, u + 1))
      BY <2>1, PlaceInTier
    <3> QED  BY <1>4, <2>2, <2>3, <2>4, <3>1
  <2>6. (t + 1 <= u => b <= c) /\ (u + 1 <= t => e <= a)
    <3>1. \A x \in 1 .. n + 1, y \in 1 .. n + 1 : x <= y => start[x] <= start[y]
      <4> TAKE x \in 1 .. n + 1, y \in 1 .. n + 1
      <4>1. x \in Int /\ y \in Int
        BY <1>1
      <4> QED  BY <1>4, <4>1, TierStartGrows
    <3> QED  BY <2>3, <2>4, <3>1
  <2>7. CASE t = u
    <3>1. p \in start[t] + 1 .. start[t + 1] /\ items[p] = i
      BY <1>2, <2>2, <2>4, <2>5, <2>7
    <3> QED  BY <2>1, <2>7, <3>1
  <2>8. CASE t # u
    <3> SUFFICES ASSUME NEW k \in a + 1 .. b, items[k] = i PROVE FALSE
      BY <2>1, <2>4, <2>8
    <3>1. k \in 1 .. N
      <4>1. b \in 0 .. N
        BY <1>4, <2>3, <2>4, PartsAreFinite
      <4> QED  BY <1>1, <4>1
    <3>2. PICK j \in 1 .. N : k = SlotOf(tiers, j)
      BY <1>6, <3>1
    <3>3. k = p
      BY <1>2, <2>2, <3>2
    <3> QED  BY <2>3, <2>5, <2>6, <2>8, <3>3
  <2> QED  BY <2>7, <2>8
<1>8. ASSUME NEW i \in 1 .. N
      PROVE  {t \in 1 .. n : \E k \in start[t] + 1 .. start[t + 1] : items[k] = i} = {tiers[i]}
  BY <1>1, <1>7
<1> QED  BY <1>5, <1>8 DEF items, start

(* A tier with an item among its own has room between its ends.            *)
LEMMA TierWithItem ==
  ASSUME NEW N, NEW n, NEW tiers, Graded(tiers, N, n), NEW t \in 1 .. n, t \in Range(tiers)
  PROVE  TierStart(tiers, n)[t] < TierStart(tiers, n)[t + 1]
<1>1. N \in Nat /\ n \in Nat /\ DOMAIN tiers = 1 .. N /\ N \in 0 .. N
  BY DEF Graded
<1>2. t \in Int /\ t + 1 \in Int /\ t \in 1 .. n + 1 /\ t + 1 \in 1 .. n + 1
  BY <1>1
<1>3. /\ TierStart(tiers, n)[t] = Cardinality(Below(tiers, t))
      /\ TierStart(tiers, n)[t + 1] = Cardinality(Below(tiers, t + 1))
  BY <1>2 DEF TierStart, Below
<1>4. Cardinality(Below(tiers, t + 1)) = Cardinality(Below(tiers, t)) + Cardinality(SameUpTo(tiers, t, N))
  BY <1>2, TierStartGrows
<1>5. Cardinality(Below(tiers, t)) \in Nat /\ Cardinality(SameUpTo(tiers, t, N)) \in Nat
      /\ IsFiniteSet(SameUpTo(tiers, t, N))
  <2>1. N \in 0 .. N /\ t \in Int /\ t + 1 \in Int
    BY <1>1, <1>2
  <2>2. /\ Cardinality(Below(tiers, t)) \in 0 .. N /\ Cardinality(SameUpTo(tiers, t, N)) \in 0 .. N
        /\ IsFiniteSet(SameUpTo(tiers, t, N))
    BY <2>1, PartsAreFinite, Zenon
  <2> QED  BY <1>1, <2>2
<1>6. SameUpTo(tiers, t, N) # {}
  BY <1>1 DEF Range, SameUpTo
<1>7. Cardinality(SameUpTo(tiers, t, N)) # 0
  BY <1>5, <1>6, FS_EmptySet
<1> QED  BY <1>3, <1>4, <1>5, <1>7

----------------------------------------------------------------------------
(* What the loaders read, and the checks they make.                        *)

(* A sequence, whatever it is of.                                          *)
IsList(s) == Len(s) \in Nat /\ DOMAIN s = 1 .. Len(s) /\ s \in Seq(Range(s))

LEMMA FunctionIsList ==
  ASSUME NEW k \in Nat, NEW s, s = [i \in 1 .. k |-> s[i]]
  PROVE  IsList(s) /\ Len(s) = k
<1>1. DOMAIN s = 1 .. k
  OBVIOUS
<1>2. \A i \in 1 .. k : s[i] \in Range(s)
  BY <1>1 DEF Range
<1>3. s \in [1 .. k -> Range(s)]
  BY <1>2
<1>4. s \in Seq(Range(s))
  BY <1>3
<1>5. Len(s) \in Nat /\ DOMAIN s = 1 .. Len(s)
  BY <1>4
<1>6. Len(s) = k
  BY <1>1, <1>5
<1> QED  BY <1>4, <1>5, <1>6 DEF IsList

LEMMA JoinIsList ==
  ASSUME NEW s, NEW t, IsList(s), IsList(t)
  PROVE  IsList(s \o t) /\ Len(s \o t) = Len(s) + Len(t) /\ Range(s \o t) = Range(s) \cup Range(t)
<1> DEFINE S == Range(s) \cup Range(t)
<1>1. s \in Seq(S) /\ t \in Seq(S)
  <2>1. s \in [1 .. Len(s) -> S] /\ t \in [1 .. Len(t) -> S]
    <3>1. s \in [1 .. Len(s) -> Range(s)] /\ t \in [1 .. Len(t) -> Range(t)]
      BY DEF IsList
    <3> QED  BY <3>1
  <2> QED  BY <2>1 DEF IsList
<1>2. s \o t \in Seq(S) /\ Len(s \o t) = Len(s) + Len(t)
  <2> HIDE DEF S
  <2> QED  BY <1>1
<1>3. /\ \A i \in 1 .. Len(s) : (s \o t)[i] = s[i]
      /\ \A i \in 1 .. Len(t) : (s \o t)[Len(s) + i] = t[i]
      /\ \A i \in 1 .. Len(s) + Len(t) : (s \o t)[i] = IF i <= Len(s) THEN s[i] ELSE t[i - Len(s)]
  <2> HIDE DEF S
  <2> QED  BY <1>1
<1>4. DOMAIN (s \o t) = 1 .. Len(s) + Len(t) /\ Len(s \o t) \in Nat
  <2> HIDE DEF S
  <2> QED  BY <1>2
<1>5. DOMAIN s = 1 .. Len(s) /\ DOMAIN t = 1 .. Len(t) /\ Len(s) \in Nat /\ Len(t) \in Nat
  BY DEF IsList
<1>6. ASSUME NEW x \in S PROVE x \in Range(s \o t)
  <2>1. CASE x \in Range(s)
    <3>1. PICK i \in 1 .. Len(s) : x = s[i]
      BY <1>5, <2>1 DEF Range
    <3>2. i \in DOMAIN (s \o t) /\ (s \o t)[i] = x
      BY <1>3, <1>4, <1>5, <3>1
    <3> QED  BY <3>2 DEF Range
  <2>2. CASE x \in Range(t)
    <3>1. PICK i \in 1 .. Len(t) : x = t[i]
      BY <1>5, <2>2 DEF Range
    <3>2. Len(s) + i \in DOMAIN (s \o t) /\ (s \o t)[Len(s) + i] = x
      BY <1>3, <1>4, <1>5, <3>1
    <3> QED  BY <3>2 DEF Range
  <2> QED  BY <2>1, <2>2
<1>7. ASSUME NEW x \in Range(s \o t) PROVE x \in S
  <2>1. PICK i \in 1 .. Len(s) + Len(t) : x = (s \o t)[i]
    BY <1>4 DEF Range
  <2>2. (s \o t)[i] \in S
    <3> HIDE DEF S
    <3> QED  BY <1>2, <1>5, <2>1
  <2> QED  BY <2>1, <2>2
<1>8. Range(s \o t) = S
  <2> HIDE DEF S
  <2> QED  BY <1>6, <1>7
<1>9. s \o t \in Seq(Range(s \o t))
  BY <1>2, <1>8, Zenon
<1> QED  BY <1>2, <1>4, <1>8, <1>9 DEF IsList

(* The first of the places of a list, and an index in a list.              *)
LEMMA MinIsFirst ==
  ASSUME NEW I \in SUBSET Nat, I # {}
  PROVE  Min(I) \in I
<1>1. \E x \in I : \A y \in I : x <= y
  BY LeastNatural
<1> QED  BY <1>1, Zenon DEF Min

LEMMA IndexIsPlace ==
  ASSUME NEW a, NEW list, IsList(list)
  PROVE  IndexIn(a, list) \in 0 .. Len(list)
<1> DEFINE I == {i \in 1 .. Len(list) : a.type = "string" /\ a = list[i]}
<1>1. Len(list) \in Nat
  BY DEF IsList
<1>2. IndexIn(a, list) = IF I # {} THEN Min(I) ELSE 0
  BY DEF IndexIn, SelectInSeq
<1>3. CASE I = {}
  BY <1>1, <1>2, <1>3
<1>4. CASE I # {}
  <2>1. I \in SUBSET Nat
    BY <1>1
  <2>2. Min(I) \in I
    <3> HIDE DEF I
    <3> QED  BY <1>4, <2>1, MinIsFirst
  <2> QED  BY <1>1, <1>2, <1>4, <2>2
<1> QED  BY <1>3, <1>4

(* What the loaders read as lists are lists.                               *)
LEMMA ElemsIsList ==
  ASSUME NEW d, IsDocument(d), NEW v
  PROVE  IsList(Elems(d, v))
<1>1. Size(d, v) \in Nat
  BY DEF Size, IsDocument
<1>2. Elems(d, v) = [i \in 1 .. Size(d, v) |-> Elems(d, v)[i]]
  BY DEF Elems
<1> QED  BY <1>1, <1>2, FunctionIsList

LEMMA MapIsList ==
  ASSUME NEW s, IsList(s), NEW t, t = [i \in DOMAIN s |-> t[i]]
  PROVE  IsList(t) /\ Len(t) = Len(s)
<1>1. DOMAIN s = 1 .. Len(s) /\ Len(s) \in Nat
  BY DEF IsList
<1>2. t = [i \in 1 .. Len(s) |-> t[i]]
  BY <1>1
<1> QED  BY <1>1, <1>2, FunctionIsList

LEMMA GoodsIsList ==
  ASSUME NEW d, IsDocument(d)
  PROVE  /\ IsList(Commons(d)) /\ IsList(RecipeNodes(d)) /\ IsList(Goods(d)) /\ IsList(Grades(d))
         /\ Len(Goods(d)) = Len(Commons(d)) + Len(RecipeNodes(d))
         /\ IsList(ItemIds(d)) /\ Len(ItemIds(d)) = Len(Goods(d))
         /\ IsList(Tiers(d)) /\ Len(Tiers(d)) = Len(Goods(d))
<1>1. IsList(Commons(d)) /\ IsList(RecipeNodes(d))
  BY ElemsIsList DEF Commons, RecipeNodes
<1>2. IsList(Goods(d)) /\ Len(Goods(d)) = Len(Commons(d)) + Len(RecipeNodes(d))
  BY <1>1, JoinIsList DEF Goods
<1>3. IsList(Grades(d))
  <2>1. PICK vs : vs = Elems(d, Node(d, <<"grades">>))
    OBVIOUS
  <2>2. IsList(vs)
    BY <2>1, ElemsIsList
  <2>3. Grades(d) = [i \in DOMAIN vs |-> Grades(d)[i]]
    BY <2>1 DEF Grades, Names
  <2> QED  BY <2>2, <2>3, MapIsList
<1>4. ItemIds(d) = [i \in DOMAIN Goods(d) |-> ItemIds(d)[i]]
  BY DEF ItemIds
<1>5. Tiers(d) = [i \in DOMAIN Goods(d) |-> Tiers(d)[i]]
  BY DEF Tiers
<1> QED  BY <1>1, <1>2, <1>3, <1>4, <1>5, MapIsList

(* No check of a loader that raises no error is bad.                       *)
LEMMA NoneBad ==
  ASSUME NEW f, f # "none", NEW checks, IsList(checks), FirstBad(f, checks) = NoError,
         NEW c \in Range(checks)
  PROVE  ~c.bad
<1> DEFINE I == {i \in 1 .. Len(checks) : checks[i].bad}
           first == IF I # {} THEN Min(I) ELSE 0
<1>1. SUFFICES ASSUME c.bad PROVE FALSE
  OBVIOUS
<1>2. PICK i \in 1 .. Len(checks) : c = checks[i]
  BY DEF IsList, Range
<1>3. I # {} /\ I \in SUBSET Nat
  BY <1>1, <1>2 DEF IsList
<1>4. Min(I) \in I
  <2> HIDE DEF I
  <2> QED  BY <1>3, MinIsFirst
<1>5. first # 0
  BY <1>3, <1>4 DEF IsList
<1>6. FirstBad(f, checks) = IF first = 0 THEN NoError ELSE Failure(f, checks[first].key)
  BY DEF FirstBad, SelectInSeq
<1>7. FirstBad(f, checks).file = IF checks[first].key = "approach_ticks" THEN "spawn" ELSE f
  <2> HIDE DEF first
  <2> QED  BY <1>5, <1>6 DEF Failure
<1> QED  BY <1>7 DEF NoError

(* A load that no loader refuses: no error in any of the files.            *)
LEMMA NoneRefused ==
  ASSUME NEW d, FirstRefused(d, LoadOrder) = NoError
  PROVE  /\ FirstBad("cards", Checks(d, "cards")) = NoError
         /\ FirstBad("items", Checks(d, "items")) = NoError
<1> DEFINE Bad(f) == FirstBad(f, Checks(d, f)) # NoError
           I == {i \in 1 .. Len(LoadOrder) : Bad(LoadOrder[i])}
<1>1. Len(LoadOrder) = 9 /\ LoadOrder[8] = "cards" /\ LoadOrder[9] = "items"
  BY DEF LoadOrder
<1>2. I = {}
  <2> SUFFICES ASSUME I # {} PROVE FALSE
    OBVIOUS
  <2>1. I \in SUBSET Nat
    BY <1>1
  <2>2. Min(I) \in I
    <3> HIDE DEF I
    <3> QED  BY <2>1, MinIsFirst
  <2>3. Min(I) # 0 /\ Bad(LoadOrder[Min(I)])
    BY <1>1, <2>2
  <2>4. FirstRefused(d, LoadOrder) = FirstBad(LoadOrder[Min(I)], Checks(d, LoadOrder[Min(I)]))
    BY <2>2, <2>3, Zenon DEF FirstRefused, SelectInSeq
  <2> QED  BY <2>3, <2>4
<1>3. \A i \in 1 .. 9 : ~Bad(LoadOrder[i])
  BY <1>1, <1>2
<1>4. 8 \in 1 .. 9 /\ 9 \in 1 .. 9
  OBVIOUS
<1>5. ~Bad("cards") /\ ~Bad("items")
  BY <1>1, <1>3, <1>4, Zenon
<1> QED  BY <1>5

LEMMA TupleIsList ==
  IsList(<<>>) /\ \A a : IsList(<<a>>)
<1>1. IsList(<<>>)
  BY DEF IsList
<1>2. \A a : IsList(<<a>>)
  <2> TAKE a
  <2>1. Range(<<a>>) = {a}
    BY DEF Range
  <2> QED  BY <2>1 DEF IsList
<1> QED  BY <1>1, <1>2

(* What two of the checks of loadCards ask: rates that do not add up, and  *)
(* a legend of a skill that does not exist.                                *)
WrongSum(c) == RateSum(ForgeRate(c)) # 1000
LostSkill(c, ids) == \E i \in Bound(c) : UniqueSkill(c, ids)[i] = 0

(* The checks of loadCards, in a row.                                      *)
LEMMA CardsAreNine ==
  ASSUME NEW c, NEW ids
  PROVE  /\ IsList(CardChecks(c, ids))
         /\ Check(WrongSum(c), "forge_tier_rate_permille") \in Range(CardChecks(c, ids))
         /\ Check(LostSkill(c, ids), "skill") \in Range(CardChecks(c, ids))
<1> DEFINE rate == ForgeRate(c)
           pool == Elems(c, Node(c, <<"stat_card_pool">>))
           tier == "forge_tier_rate_permille"
           a == Check(Len(rate) \notin 1 .. MAX_ITEM_TIERS, tier)
           b == Check(\E n \in DOMAIN rate : rate[n] < 0, tier)
           e == Check(WrongSum(c), tier)
           f == Check(Uniques(c) = <<>>, "unique_engravings")
           g == Check(Len(Uniques(c)) + LEGEND_RELICS
                        # Unsigned(Num(c, Node(c, <<"legend_pool_size">>))),
                      "legend_pool_size")
           h == Check(\E n \in Bound(c) : Name(c, Key(c, Uniques(c)[n], "id"))
                                             # [type |-> "string", text |-> Legends[n].id],
                      "unique_engravings")
           i == Check(LostSkill(c, ids), "skill")
           j == Check(Len(pool) > Len(Stats), "stat_card_pool")
           k == Check(\E n \in DOMAIN pool : StatPool(c)[n] = 0, "stat_card_pool")
<1>1. CardChecks(c, ids) = <<a, b, e, f, g, h, i, j, k>>
  BY Zenon DEF CardChecks, LostSkill, WrongSum
<1>2. IsList(CardChecks(c, ids)) /\ e \in Range(CardChecks(c, ids)) /\ i \in Range(CardChecks(c, ids))
  <2> HIDE DEF a, b, e, f, g, h, i, j, k
  <2>1. PICK s : s = <<a, b, e, f, g, h, i, j, k>>
    OBVIOUS
  <2>2. /\ Len(s) = 9 /\ DOMAIN s = 1 .. 9 /\ 9 \in Nat /\ s \in Seq({a, b, e, f, g, h, i, j, k})
        /\ s[1] = a /\ s[2] = b /\ s[3] = e /\ s[4] = f /\ s[5] = g
        /\ s[6] = h /\ s[7] = i /\ s[8] = j /\ s[9] = k
    BY <2>1
  <2>3. Range(s) = {a, b, e, f, g, h, i, j, k}
    BY <2>2 DEF Range
  <2>4. IsList(s)
    BY <2>2, <2>3, Zenon DEF IsList
  <2> QED  BY <1>1, <2>1, <2>3, <2>4
<1> QED  BY <1>2, Zenon

LEMMA ItemsAreSix ==
  ASSUME NEW d, NEW rate
  PROVE  /\ IsList(ItemChecks(d, rate))
         /\ Check(0 \in Range(Tiers(d)), "grade") \in Range(ItemChecks(d, rate))
         /\ Check(DrawsEmptyTier(rate, Tiers(d), Len(Grades(d))), "grades") \in Range(ItemChecks(d, rate))
         /\ Check(\E t \in DOMAIN rate : t > Len(Grades(d)) /\ rate[t] # 0, "forge_tier_rate_permille")
              \in Range(ItemChecks(d, rate))
         /\ Check(\E r \in DOMAIN RecipeRows(d) :
                    \/ Len(RecipeRows(d)[r].needs) \notin 1 .. MAX_RECIPE_INGREDIENTS
                    \/ 0 \in Range(RecipeRows(d)[r].needs), "ingredients")
              \in Range(ItemChecks(d, rate))
<1> DEFINE a == Check(Len(Tiers(d)) > MAX_ITEM_TYPES, "none")
           b == Check(Len(Grades(d)) \notin 1 .. MAX_ITEM_TIERS, "grades")
           c == Check(0 \in Range(Tiers(d)), "grade")
           e == Check(DrawsEmptyTier(rate, Tiers(d), Len(Grades(d))), "grades")
           f == Check(\E t \in DOMAIN rate : t > Len(Grades(d)) /\ rate[t] # 0, "forge_tier_rate_permille")
           g == Check(\E r \in DOMAIN RecipeRows(d) :
                        \/ Len(RecipeRows(d)[r].needs) \notin 1 .. MAX_RECIPE_INGREDIENTS
                        \/ 0 \in Range(RecipeRows(d)[r].needs), "ingredients")
<1>1. ItemChecks(d, rate) = <<a, b, c, e, f, g>>
  BY Zenon DEF ItemChecks
<1>2. /\ IsList(ItemChecks(d, rate)) /\ c \in Range(ItemChecks(d, rate)) /\ e \in Range(ItemChecks(d, rate))
      /\ f \in Range(ItemChecks(d, rate)) /\ g \in Range(ItemChecks(d, rate))
  <2> HIDE DEF a, b, c, e, f, g
  <2>1. PICK s : s = <<a, b, c, e, f, g>>
    OBVIOUS
  <2>2. /\ Len(s) = 6 /\ DOMAIN s = 1 .. 6 /\ 6 \in Nat /\ s \in Seq({a, b, c, e, f, g})
        /\ s[1] = a /\ s[2] = b /\ s[3] = c /\ s[4] = e /\ s[5] = f /\ s[6] = g
    BY <2>1
  <2>3. Range(s) = {a, b, c, e, f, g}
    BY <2>2 DEF Range
  <2>4. IsList(s)
    BY <2>2, <2>3, Zenon DEF IsList
  <2> QED  BY <1>1, <2>1, <2>3, <2>4
<1> QED  BY <1>2, Zenon

(* A load refused nowhere: the own checks of the two loaders hold.         *)
LEMMA OwnChecksHold ==
  ASSUME NEW d, FirstRefused(d, LoadOrder) = NoError
  PROVE  /\ \A c \in Range(CardChecks(d["cards"], SkillIds(d["skills"]))) : ~c.bad
         /\ \A c \in Range(ItemChecks(d["items"], ForgeRate(d["cards"]))) : ~c.bad
<1>1. ASSUME NEW f \in {"cards", "items"} PROVE IsList(LimitChecks(d, f))
  <2>1. f \in File
    <3>1. Files[6] = "cards" /\ Files[8] = "items" /\ DOMAIN Files = 1 .. 9
      BY DEF Files
    <3> QED  BY <3>1 DEF File, Range
  <2>2. Len(Layout[f]) \in Nat /\ DOMAIN Layout[f] = 1 .. Len(Layout[f])
    BY <2>1, LoadersAssumption
  <2>3. LimitChecks(d, f) = [i \in 1 .. Len(Layout[f]) |-> LimitChecks(d, f)[i]]
    BY <2>2 DEF LimitChecks
  <2> QED  BY <2>2, <2>3, FunctionIsList
<1>2. ASSUME NEW own, IsList(own), NEW f \in {"cards", "items"}, NEW sweep, NEW rest, IsList(rest),
             Checks(d, f) = ((LimitChecks(d, f) \o own) \o <<sweep>>) \o rest
      PROVE  IsList(Checks(d, f)) /\ Range(own) \subseteq Range(Checks(d, f))
  <2>1. IsList(LimitChecks(d, f) \o own) /\ Range(own) \subseteq Range(LimitChecks(d, f) \o own)
    BY <1>1, <1>2, JoinIsList
  <2>2. IsList(<<sweep>>)
    BY TupleIsList
  <2>3. /\ IsList((LimitChecks(d, f) \o own) \o <<sweep>>)
        /\ Range(own) \subseteq Range((LimitChecks(d, f) \o own) \o <<sweep>>)
    BY <2>1, <2>2, JoinIsList
  <2> QED  BY <1>2, <2>3, JoinIsList
<1>3. IsList(CardChecks(d["cards"], SkillIds(d["skills"])))
  BY CardsAreNine, Zenon
<1>4. IsList(ItemChecks(d["items"], ForgeRate(d["cards"])))
  BY ItemsAreSix, Zenon
<1>5. \A c \in Range(CardChecks(d["cards"], SkillIds(d["skills"]))) : ~c.bad
  <2>1. PICK own : own = CardChecks(d["cards"], SkillIds(d["skills"]))
    OBVIOUS
  <2>2. Checks(d, "cards") =
          ((LimitChecks(d, "cards") \o own) \o <<Check(Unmet(d, "cards"), "lookup")>>) \o <<>>
    BY <2>1 DEF Checks
  <2>3. IsList(Checks(d, "cards")) /\ Range(own) \subseteq Range(Checks(d, "cards"))
    BY <1>2, <1>3, <2>1, <2>2, TupleIsList
  <2> QED  BY <2>1, <2>3, NoneRefused, NoneBad
<1>6. \A c \in Range(ItemChecks(d["items"], ForgeRate(d["cards"]))) : ~c.bad
  <2>1. PICK own : own = ItemChecks(d["items"], ForgeRate(d["cards"]))
    OBVIOUS
  <2>2. Checks(d, "items") =
          ((LimitChecks(d, "items") \o own) \o <<Check(Unmet(d, "items"), "lookup")>>)
             \o <<BuildCheck(d["items"])>>
    BY <2>1 DEF Checks
  <2>3. IsList(own) /\ IsList(<<BuildCheck(d["items"])>>)
    BY <1>4, <2>1, TupleIsList, Zenon
  <2>4. IsList(Checks(d, "items")) /\ Range(own) \subseteq Range(Checks(d, "items"))
    BY <1>2, <2>2, <2>3
  <2> QED  BY <2>1, <2>4, NoneRefused, NoneBad
<1> QED  BY <1>5, <1>6

(* What the checks of loadCards and loadItems leave standing.              *)
LEMMA CardsHold ==
  ASSUME NEW c, NEW ids, \A k \in Range(CardChecks(c, ids)) : ~k.bad
  PROVE  /\ RateSum(ForgeRate(c)) = 1000
         /\ \A i \in Bound(c) : UniqueSkill(c, ids)[i] # 0
<1> DEFINE sum  == WrongSum(c)
           missing == LostSkill(c, ids)
           e == Check(sum, "forge_tier_rate_permille")
           i == Check(missing, "skill")
<1>1. e \in Range(CardChecks(c, ids)) /\ i \in Range(CardChecks(c, ids))
  BY CardsAreNine, Zenon
<1>2. ~e.bad /\ ~i.bad
  <2> HIDE DEF e, i
  <2> QED  BY <1>1
<1> HIDE DEF sum, missing
<1>3. ~sum /\ ~missing
  BY <1>2 DEF Check
<1> QED  BY <1>3 DEF sum, missing, LostSkill, WrongSum

LEMMA ItemsHold ==
  ASSUME NEW d, NEW rate, \A k \in Range(ItemChecks(d, rate)) : ~k.bad
  PROVE  /\ 0 \notin Range(Tiers(d))
         /\ \A t \in DOMAIN rate : t <= Len(Grades(d)) /\ rate[t] # 0 => t \in Range(Tiers(d))
         /\ \A t \in DOMAIN rate : t > Len(Grades(d)) => rate[t] = 0
         /\ \A r \in DOMAIN RecipeRows(d) : 0 \notin Range(RecipeRows(d)[r].needs)
<1> DEFINE empty == \E t \in DOMAIN rate : t > Len(Grades(d)) /\ rate[t] # 0
           missing  == \E r \in DOMAIN RecipeRows(d) :
                      \/ Len(RecipeRows(d)[r].needs) \notin 1 .. MAX_RECIPE_INGREDIENTS
                      \/ 0 \in Range(RecipeRows(d)[r].needs)
           c == Check(0 \in Range(Tiers(d)), "grade")
           e == Check(DrawsEmptyTier(rate, Tiers(d), Len(Grades(d))), "grades")
           f == Check(empty, "forge_tier_rate_permille")
           g == Check(missing, "ingredients")
<1>2. /\ c \in Range(ItemChecks(d, rate)) /\ e \in Range(ItemChecks(d, rate))
      /\ f \in Range(ItemChecks(d, rate)) /\ g \in Range(ItemChecks(d, rate))
  BY ItemsAreSix, Zenon
<1>3. ~c.bad /\ ~e.bad /\ ~f.bad /\ ~g.bad
  <2> HIDE DEF c, e, f, g
  <2> QED  BY <1>2
<1> HIDE DEF empty, missing
<1>4. 0 \notin Range(Tiers(d)) /\ ~DrawsEmptyTier(rate, Tiers(d), Len(Grades(d))) /\ ~empty /\ ~missing
  BY <1>3 DEF Check
<1> QED  BY <1>4 DEF DrawsEmptyTier, empty, missing

(* The recipes name items: their own, and those they need.                 *)
LEMMA RowsNameItems ==
  ASSUME NEW d, IsDocument(d), NEW r \in DOMAIN RecipeRows(d), 0 \notin Range(RecipeRows(d)[r].needs)
  PROVE  Range(RecipeRows(d)[r].needs) \cup {RecipeRows(d)[r].result} \subseteq 1 .. Len(Goods(d))
<1>1. PICK a, b, N :
        /\ a = Len(Commons(d)) /\ b = Len(RecipeNodes(d)) /\ N = Len(Goods(d))
        /\ a \in Nat /\ b \in Nat /\ N = a + b
  BY GoodsIsList DEF IsList
<1>2. r \in 1 .. b
  <2>1. DOMAIN RecipeRows(d) = DOMAIN RecipeNodes(d)
    BY DEF RecipeRows
  <2>2. DOMAIN RecipeNodes(d) = 1 .. Len(RecipeNodes(d))
    BY GoodsIsList DEF IsList
  <2> QED  BY <1>1, <2>1, <2>2
<1>3. PICK needs : /\ RecipeRows(d)[r].needs = [k \in DOMAIN needs |-> IndexIn(needs[k], ItemIds(d))]
                   /\ RecipeRows(d)[r].result = a + r
  <2>1. r \in DOMAIN RecipeNodes(d)
    BY DEF RecipeRows
  <2> QED  BY <1>1, <2>1 DEF RecipeRows
<1>4. ASSUME NEW i \in Range(RecipeRows(d)[r].needs) PROVE i \in 1 .. N
  <2>1. PICK k \in DOMAIN needs : i = IndexIn(needs[k], ItemIds(d))
    BY <1>3 DEF Range
  <2>2. IsList(ItemIds(d)) /\ Len(ItemIds(d)) = N
    BY <1>1, GoodsIsList
  <2>3. IndexIn(needs[k], ItemIds(d)) \in 0 .. Len(ItemIds(d))
    BY <2>2, IndexIsPlace
  <2>4. i # 0
    OBVIOUS
  <2> QED  BY <1>1, <2>1, <2>2, <2>3, <2>4
<1>5. a + r \in 1 .. N
  BY <1>1, <1>2
<1> QED  BY <1>1, <1>3, <1>4, <1>5

(* Every item has a grade of the list.                                     *)
LEMMA ItemsAreGraded ==
  ASSUME NEW d, IsDocument(d), 0 \notin Range(Tiers(d))
  PROVE  Graded(Tiers(d), Len(Goods(d)), Len(Grades(d)))
<1>1. PICK N, n : N = Len(Goods(d)) /\ n = Len(Grades(d)) /\ N \in Nat /\ n \in Nat
  BY GoodsIsList DEF IsList
<1>2. DOMAIN Tiers(d) = 1 .. N /\ DOMAIN Goods(d) = 1 .. N /\ IsList(Grades(d))
  BY <1>1, GoodsIsList DEF IsList
<1>3. ASSUME NEW i \in 1 .. N PROVE Tiers(d)[i] \in 1 .. n
  <2>1. Tiers(d)[i] = IndexIn(Name(d, Key(d, Goods(d)[i], "grade")), Grades(d))
    BY <1>2 DEF Tiers
  <2>2. IndexIn(Name(d, Key(d, Goods(d)[i], "grade")), Grades(d)) \in 0 .. Len(Grades(d))
    BY <1>2, IndexIsPlace
  <2>3. Tiers(d)[i] # 0
    BY <1>2 DEF Range
  <2> QED  BY <1>1, <2>1, <2>2, <2>3
<1>4. Tiers(d) = [i \in 1 .. N |-> Tiers(d)[i]]
  BY <1>2 DEF Tiers
<1> QED  BY <1>1, <1>3, <1>4 DEF Graded

(* What a load that is not refused configures hangs together.              *)
LEMMA AcceptedIsCoherent ==
  ASSUME NEW d, IsDocument(d["cards"]), IsDocument(d["items"]), FirstRefused(d, LoadOrder) = NoError
  PROVE  Coherent(Configured(d))
<1> DEFINE items == d["items"]
           cards == d["cards"]
           tierOf(c, i) == {t \in 1 .. Len(c.tierStart) - 1 :
                              \E k \in c.tierStart[t] + 1 .. c.tierStart[t + 1] : c.tierItems[k] = i}
<1>1. PICK c : c = Configured(d)
  OBVIOUS
<1>2. PICK rate, tiers, N, n, rows :
        /\ rate = ForgeRate(cards) /\ tiers = Tiers(items) /\ rows = RecipeRows(items)
        /\ N = Len(Goods(items)) /\ n = Len(Grades(items))
  OBVIOUS
<1>3. /\ c.forgeRate = rate /\ c.tiers = tiers /\ c.recipes = rows
      /\ c.tierStart = TierStart(tiers, n) /\ c.tierItems = TierItems(tiers, n)
      /\ c.uniqueSkill = UniqueSkill(cards, SkillIds(d["skills"]))
  BY <1>1, <1>2 DEF Configured
<1>4. RateSum(rate) = 1000 /\ 0 \notin Range(c.uniqueSkill)
  <2>1. /\ RateSum(ForgeRate(cards)) = 1000
        /\ \A i \in Bound(cards) : UniqueSkill(cards, SkillIds(d["skills"]))[i] # 0
    BY OwnChecksHold, CardsHold
  <2>2. DOMAIN UniqueSkill(cards, SkillIds(d["skills"])) = Bound(cards)
    BY DEF UniqueSkill
  <2> QED  BY <1>2, <1>3, <2>1, <2>2 DEF Range
<1>5. /\ 0 \notin Range(tiers)
      /\ \A t \in DOMAIN rate : t <= n /\ rate[t] # 0 => t \in Range(tiers)
      /\ \A t \in DOMAIN rate : t > n => rate[t] = 0
      /\ \A r \in DOMAIN rows : 0 \notin Range(rows[r].needs)
  <2>1. \A k \in Range(ItemChecks(items, rate)) : ~k.bad
    BY <1>2, OwnChecksHold
  <2> QED  BY <1>2, <2>1, ItemsHold
<1>6. Graded(tiers, N, n)
  BY <1>2, <1>5, ItemsAreGraded
<1>7. N \in Nat /\ n \in Nat /\ DOMAIN tiers = 1 .. N /\ tiers \in [1 .. N -> 1 .. n]
  BY <1>6 DEF Graded
<1>8. Len(c.tierStart) = n + 1
  <2>1. c.tierStart = [t \in 1 .. n + 1 |-> c.tierStart[t]] /\ n + 1 \in Nat
    BY <1>3, <1>7 DEF TierStart
  <2> QED  BY <2>1, FunctionIsList
<1>9. ASSUME NEW t \in DOMAIN rate, rate[t] > 0
      PROVE  t < Len(c.tierStart) /\ c.tierStart[t] < c.tierStart[t + 1]
  <2>1. t \in Nat \ {0}
    <3>1. IsList(Elems(cards, Node(cards, <<"forge_tier_rate_permille">>)))
      BY ElemsIsList
    <3>2. DOMAIN rate = DOMAIN Elems(cards, Node(cards, <<"forge_tier_rate_permille">>))
      BY <1>2 DEF ForgeRate
    <3> QED  BY <3>1, <3>2 DEF IsList
  <2>2. rate[t] # 0
    BY <1>9
  <2>3. t <= n
    BY <1>5, <1>7, <2>1, <2>2
  <2>4. t \in 1 .. n /\ t \in Range(tiers)
    BY <1>5, <1>7, <2>1, <2>2, <2>3
  <2>5. TierStart(tiers, n)[t] < TierStart(tiers, n)[t + 1]
    BY <1>6, <2>4, TierWithItem
  <2> QED  BY <1>3, <1>7, <1>8, <2>1, <2>3, <2>5
<1>10. Range(c.tierItems) = DOMAIN c.tiers
  BY <1>3, <1>6, <1>7, SortIsByTier
<1>11. ASSUME NEW i \in DOMAIN c.tiers PROVE tierOf(c, i) = {c.tiers[i]}
  <2>1. i \in 1 .. N
    BY <1>3, <1>7
  <2>2. {t \in 1 .. n : \E k \in TierStart(tiers, n)[t] + 1 .. TierStart(tiers, n)[t + 1] :
                          TierItems(tiers, n)[k] = i} = {tiers[i]}
    BY <1>6, <2>1, SortIsByTier
  <2>3. Len(c.tierStart) - 1 = n
    BY <1>7, <1>8
  <2> QED  BY <1>3, <2>2, <2>3
<1>12. ASSUME NEW r \in DOMAIN c.recipes
       PROVE  Range(c.recipes[r].needs) \cup {c.recipes[r].result} \subseteq DOMAIN c.tiers
  <2>1. Range(rows[r].needs) \cup {rows[r].result} \subseteq 1 .. N
    BY <1>2, <1>3, <1>5, RowsNameItems
  <2> QED  BY <1>3, <1>7, <2>1
<1> QED  BY <1>1, <1>3, <1>4, <1>9, <1>10, <1>11, <1>12 DEF Coherent

----------------------------------------------------------------------------
(* The handles and the worlds.                                             *)

(* The documents of a set of texts, with a draft as far as it is typed.    *)
DocsAt(typed, t) == [f \in File |-> IF t[f] = Draft THEN Read(typed) ELSE Read(Text[t[f]])]

(* Texts that a load can go through with: every file is there, and only    *)
(* hero.json can be a draft.                                               *)
Complete(t) == t \in [File -> DOMAIN Text \cup {Draft}] /\ \A f \in File : t[f] = Draft => f = "hero"

(* A configuration with a fingerprint is what its texts configure.         *)
Backed(typed, c, x, t) ==
  x # <<>> => /\ Complete(t)
              /\ FirstRefused(DocsAt(typed, t), LoadOrder) = NoError
              /\ c = Configured(DocsAt(typed, t))
              /\ x = Fed(DocsAt(typed, t), c)

(* The invariant: a handle with a fingerprint has its nine texts, a world  *)
(* thrown away has none, and whatever has one is backed by its texts.      *)
GamesBacked ==
  /\ texts \in [Handles -> [File -> DOMAIN Text \cup {Draft, Unset}]]
  /\ \A h \in Handles, f \in File : texts[h][f] = Draft => f = "hero"
  /\ DOMAIN cfg = Handles /\ DOMAIN hash = Handles /\ DOMAIN from = Handles /\ DOMAIN worlds = Worlds
  /\ \A h \in Handles : hash[h] # <<>> => texts[h]["hero"] # Unset
  /\ \A w \in Worlds : ~worlds[w].live => worlds[w].hash = <<>>
  /\ \A h \in Handles : Backed(draft, cfg[h], hash[h], from[h])
  /\ \A w \in Worlds : Backed(draft, worlds[w].cfg, worlds[w].hash, worlds[w].from)

LEMMA HeroIsFile == "hero" \in File /\ "cards" \in File /\ "items" \in File
<1>1. Files[1] = "hero" /\ Files[6] = "cards" /\ Files[8] = "items" /\ DOMAIN Files = 1 .. 9
  BY DEF Files
<1> QED  BY <1>1 DEF File, Range

(* The names of no text are not names of texts.                            *)
LEMMA NamesDiffer == Unset # Draft /\ Unset \notin DOMAIN Text /\ Draft \notin DOMAIN Text
  BY ConfigAssumption DEF Unset, Draft

LEMMA GamesBackedInit == ConfigInit => GamesBacked
<1> SUFFICES ASSUME ConfigInit PROVE GamesBacked
  OBVIOUS
<1>1. texts \in [Handles -> [File -> DOMAIN Text \cup {Draft, Unset}]]
  BY DEF ConfigInit, NoFiles
<1>2. \A h \in Handles, f \in File : texts[h][f] = Draft => f = "hero"
  BY NamesDiffer DEF ConfigInit, NoFiles
<1>3. DOMAIN cfg = Handles /\ DOMAIN hash = Handles /\ DOMAIN from = Handles /\ DOMAIN worlds = Worlds
  BY DEF ConfigInit
<1>4. (\A h \in Handles : hash[h] = <<>>) /\ (\A w \in Worlds : worlds[w].hash = <<>>)
  BY DEF ConfigInit, NoWorld
<1> QED  BY <1>1, <1>2, <1>3, <1>4 DEF GamesBacked, Backed

(* A load that goes through read nine texts.                               *)
LEMMA ReadIsComplete ==
  ASSUME GamesBacked, NEW h \in Handles, FirstUnread(h) = NoError
  PROVE  Complete(texts[h]) /\ DocsOf(h) = DocsAt(draft, texts[h])
<1> DEFINE Miss(f) == texts[h][f] = Unset \/ Doc(texts[h][f]).err # NoText
           I == {i \in 1 .. Len(Files) : Miss(Files[i])}
<1> HIDE DEF Miss
<1>1. Len(Files) = 9 /\ DOMAIN Files = 1 .. 9 /\ \A i \in 1 .. 9 : Files[i] # "none"
  BY DEF Files
<1>2. I = {}
  <2> SUFFICES ASSUME I # {} PROVE FALSE
    OBVIOUS
  <2>1. I \in SUBSET Nat
    BY <1>1
  <2>2. Min(I) \in I
    <3> HIDE DEF I
    <3> QED  BY <2>1, MinIsFirst
  <2>3. Min(I) \in 1 .. 9 /\ Min(I) # 0
    BY <1>1, <2>2
  <2>4. FirstUnread(h) = [file |-> Files[Min(I)], key |-> "none"]
    BY <2>2, <2>3, Zenon DEF FirstUnread, SelectInSeq, Miss
  <2>5. FirstUnread(h).file = Files[Min(I)]
    <3> HIDE DEF I
    <3> QED  BY <2>4
  <2> QED  BY <1>1, <2>3, <2>5 DEF NoError
<1>3. ASSUME NEW f \in File PROVE texts[h][f] # Unset
  <2>1. PICK i \in 1 .. 9 : f = Files[i]
    BY <1>1 DEF File, Range
  <2> QED  BY <1>1, <1>2, <2>1 DEF Miss
<1>4. texts[h] \in [File -> DOMAIN Text \cup {Draft}]
  <2>1. texts[h] \in [File -> DOMAIN Text \cup {Draft, Unset}]
    BY DEF GamesBacked
  <2> QED  BY <1>3, <2>1
<1>5. ASSUME NEW f \in File PROVE Doc(texts[h][f]) = DocsAt(draft, texts[h])[f]
  <2>1. texts[h][f] \in DOMAIN Text \cup {Draft}
    BY <1>4
  <2> QED  BY <2>1 DEF Doc, Documents, DocsAt
<1>6. DocsOf(h) = DocsAt(draft, texts[h])
  BY <1>5 DEF DocsOf, DocsAt
<1> QED  BY <1>4, <1>6 DEF Complete, GamesBacked

LEMMA TypeDraftKeepsGames == GamesBacked /\ TypeDraft => GamesBacked'
<1> SUFFICES ASSUME GamesBacked, TypeDraft PROVE GamesBacked'
  OBVIOUS
<1>1. (\A h \in Handles : hash[h] = <<>>) /\ (\A w \in Worlds : worlds[w].hash = <<>>)
  BY DEF GamesBacked, TypeDraft
<1>2. UNCHANGED <<texts, worlds, cfg, hash, from>>
  BY DEF TypeDraft, handleVars
<1> QED  BY <1>1, <1>2 DEF GamesBacked, Backed

LEMMA FillKeepsGames == GamesBacked /\ (\E h \in Handles : Fill(h)) => GamesBacked'
<1> SUFFICES ASSUME GamesBacked, NEW h \in Handles, Fill(h) PROVE GamesBacked'
  OBVIOUS
<1>1. texts' = [texts EXCEPT ![h] = Base] /\ UNCHANGED <<draft, worlds, cfg, hash, from>>
  BY DEF Fill, handleVars
<1>2. Base \in [File -> DOMAIN Text \cup {Draft, Unset}] /\ \A f \in File : Base[f] # Draft /\ Base[f] # Unset
  BY ConfigAssumption, NamesDiffer
<1>3. /\ texts' \in [Handles -> [File -> DOMAIN Text \cup {Draft, Unset}]]
      /\ \A k \in Handles, f \in File : texts'[k][f] = Draft => f = "hero"
      /\ \A k \in Handles : hash[k] # <<>> => texts'[k]["hero"] # Unset
  BY <1>1, <1>2, HeroIsFile DEF GamesBacked
<1> QED  BY <1>1, <1>3 DEF GamesBacked

LEMMA SetKeepsGames ==
  GamesBacked /\ (\E h \in Handles : \E f \in File : \E e \in Editions[f] : Set(h, f, e)) => GamesBacked'
<1> SUFFICES ASSUME GamesBacked, NEW h \in Handles, NEW g \in File, NEW e \in Editions[g], Set(h, g, e)
             PROVE  GamesBacked'
  OBVIOUS
<1>1. texts' = [texts EXCEPT ![h][g] = e] /\ UNCHANGED <<draft, worlds, cfg, hash, from>>
  BY DEF Set, handleVars
<1>2. e \in DOMAIN Text \cup {Draft} /\ e # Unset /\ (e = Draft => g = "hero")
  BY ConfigAssumption, NamesDiffer
<1>3. PICK t \in [File -> DOMAIN Text \cup {Draft, Unset}] : t = texts[h]
  BY DEF GamesBacked
<1>4. texts' = [texts EXCEPT ![h] = [t EXCEPT ![g] = e]]
  BY <1>1, <1>3
<1>5. [t EXCEPT ![g] = e] \in [File -> DOMAIN Text \cup {Draft, Unset}]
  BY <1>2
<1>6. texts' \in [Handles -> [File -> DOMAIN Text \cup {Draft, Unset}]]
  BY <1>4, <1>5 DEF GamesBacked
<1>7. \A k \in Handles, f \in File : texts'[k][f] = Draft => f = "hero"
  BY <1>2, <1>3, <1>4 DEF GamesBacked
<1>8. \A k \in Handles : hash[k] # <<>> => texts'[k]["hero"] # Unset
  BY <1>2, <1>3, <1>4, HeroIsFile DEF GamesBacked
<1> QED  BY <1>1, <1>6, <1>7, <1>8 DEF GamesBacked

(* Every end of a load but one leaves no fingerprint, and that one leaves  *)
(* what the texts configure.                                               *)
LEMMA LoadKeepsGames == GamesBacked /\ (\E h \in Handles : Load(h)) => GamesBacked'
<1> SUFFICES ASSUME GamesBacked, NEW h \in Handles, Load(h) PROVE GamesBacked'
  OBVIOUS
<1> DEFINE d == DocsOf(h)
           unread == FirstUnread(h)
<1>1. Ends(h, d, Configured(d), unread, Why(unread, d)) /\ UNCHANGED <<draft, texts, worlds>>
  BY DEF Load, LoadOf
<1> DEFINE Left(c, x, t) == /\ cfg' = [cfg EXCEPT ![h] = c]
                            /\ hash' = [hash EXCEPT ![h] = x]
                            /\ from' = [from EXCEPT ![h] = t]
<1>2. ASSUME NEW c, NEW t, Left(c, <<>>, t) PROVE GamesBacked'
  <2>1. DOMAIN cfg' = Handles /\ DOMAIN hash' = Handles /\ DOMAIN from' = Handles
    BY <1>2 DEF GamesBacked
  <2>2. ASSUME NEW k \in Handles
        PROVE  /\ hash'[k] # <<>> => texts[k]["hero"] # Unset
               /\ Backed(draft, cfg'[k], hash'[k], from'[k])
    <3>1. CASE k = h
      BY <1>2, <3>1 DEF GamesBacked, Backed
    <3>2. CASE k # h
      <4>1. cfg'[k] = cfg[k] /\ hash'[k] = hash[k] /\ from'[k] = from[k]
        BY <1>2, <3>2 DEF GamesBacked
      <4> QED  BY <4>1 DEF GamesBacked
    <3> QED  BY <3>1, <3>2
  <2> QED  BY <1>1, <2>1, <2>2 DEF GamesBacked
<1>3. CASE Why(unread, d) = NoError /\ Loaded(h, Configured(d), Fed(d, Configured(d)))
  <2>1. unread = NoError /\ FirstRefused(d, LoadOrder) = NoError
    BY <1>3 DEF Why
  <2>2. Complete(texts[h]) /\ d = DocsAt(draft, texts[h])
    BY <2>1, ReadIsComplete
  <2>3. Left(Configured(d), Fed(d, Configured(d)), texts[h])
    BY <1>3 DEF Loaded
  <2>4. PICK c, x : c = Configured(d) /\ x = Fed(d, c)
    OBVIOUS
  <2>5. Backed(draft, c, x, texts[h])
    <3> HIDE DEF d
    <3> QED  BY <2>1, <2>2, <2>4, Zenon DEF Backed
  <2>6. Left(c, x, texts[h])
    BY <2>3, <2>4, Zenon
  <2>7. texts[h]["hero"] # Unset
    BY <2>2, HeroIsFile, NamesDiffer DEF Complete
  <2>8. DOMAIN cfg' = Handles /\ DOMAIN hash' = Handles /\ DOMAIN from' = Handles
    BY <2>6 DEF GamesBacked
  <2>9. ASSUME NEW k \in Handles
        PROVE  /\ hash'[k] # <<>> => texts[k]["hero"] # Unset
               /\ Backed(draft, cfg'[k], hash'[k], from'[k])
    <3>1. CASE k = h
      <4>1. cfg'[k] = c /\ hash'[k] = x /\ from'[k] = texts[h]
        BY <2>6, <3>1 DEF GamesBacked
      <4> QED  BY <2>5, <2>7, <3>1, <4>1
    <3>2. CASE k # h
      <4>1. cfg'[k] = cfg[k] /\ hash'[k] = hash[k] /\ from'[k] = from[k]
        BY <2>6, <3>2 DEF GamesBacked
      <4> QED  BY <4>1 DEF GamesBacked
    <3> QED  BY <3>1, <3>2
  <2> QED  BY <1>1, <2>8, <2>9 DEF GamesBacked
<1>4. CASE Refused(h, Why(unread, d))
  BY <1>2, <1>4 DEF Refused
<1>5. CASE \E left : Thrown(h, left)
  BY <1>2, <1>5 DEF Thrown
<1>6. CASE Trapped
  <2>1. UNCHANGED <<cfg, hash, from>>
    BY <1>6 DEF Trapped, handleVars
  <2> QED  BY <1>1, <2>1 DEF GamesBacked
<1> HIDE DEF d, unread, Left
<1>7. \/ Why(unread, d) = NoError /\ Loaded(h, Configured(d), Fed(d, Configured(d)))
      \/ Refused(h, Why(unread, d))
      \/ \E left : Thrown(h, left)
      \/ Trapped
  BY <1>1, Zenon DEF Ends
<1> QED  BY <1>3, <1>4, <1>5, <1>6, <1>7

LEMMA DestroyKeepsGames == GamesBacked /\ (\E h \in Handles : Destroy(h)) => GamesBacked'
<1> SUFFICES ASSUME GamesBacked, NEW h \in Handles, Destroy(h) PROVE GamesBacked'
  OBVIOUS
<1>1. /\ texts' = [texts EXCEPT ![h] = NoFiles] /\ UNCHANGED <<draft, worlds>>
      /\ cfg' = [cfg EXCEPT ![h] = BlankConfig]
      /\ hash' = [hash EXCEPT ![h] = <<>>] /\ from' = [from EXCEPT ![h] = NoFiles]
  BY DEF Destroy
<1>2. NoFiles \in [File -> DOMAIN Text \cup {Draft, Unset}] /\ \A f \in File : NoFiles[f] # Draft
  BY NamesDiffer DEF NoFiles
<1>3. /\ texts' \in [Handles -> [File -> DOMAIN Text \cup {Draft, Unset}]]
      /\ \A k \in Handles, f \in File : texts'[k][f] = Draft => f = "hero"
  BY <1>1, <1>2 DEF GamesBacked
<1>4. ASSUME NEW k \in Handles
      PROVE  /\ hash'[k] # <<>> => texts'[k]["hero"] # Unset
             /\ Backed(draft, cfg'[k], hash'[k], from'[k])
  <2>1. CASE k = h
    BY <1>1, <2>1 DEF GamesBacked, Backed
  <2>2. CASE k # h
    <3>1. cfg'[k] = cfg[k] /\ hash'[k] = hash[k] /\ from'[k] = from[k] /\ texts'[k] = texts[k]
      BY <1>1, <2>2 DEF GamesBacked
    <3> QED  BY <3>1 DEF GamesBacked
  <2> QED  BY <2>1, <2>2
<1> QED  BY <1>1, <1>3, <1>4 DEF GamesBacked

LEMMA CreateWorldKeepsGames ==
  GamesBacked /\ (\E h \in Handles : \E w \in Worlds : CreateWorld(h, w)) => GamesBacked'
<1> SUFFICES ASSUME GamesBacked, NEW h \in Handles, NEW w \in Worlds, CreateWorld(h, w) PROVE GamesBacked'
  OBVIOUS
<1>1. /\ worlds' = [worlds EXCEPT ![w] = [cfg |-> cfg[h], hash |-> hash[h], from |-> from[h], live |-> TRUE]]
      /\ UNCHANGED <<draft, texts, cfg, hash, from>>
  BY DEF CreateWorld, handleVars
<1>2. ASSUME NEW v \in Worlds
      PROVE  /\ ~worlds'[v].live => worlds'[v].hash = <<>>
             /\ Backed(draft, worlds'[v].cfg, worlds'[v].hash, worlds'[v].from)
  <2>1. CASE v = w
    <3>1. /\ worlds'[v].live /\ worlds'[v].cfg = cfg[h]
          /\ worlds'[v].hash = hash[h] /\ worlds'[v].from = from[h]
      BY <1>1, <2>1 DEF GamesBacked
    <3> QED  BY <3>1 DEF GamesBacked
  <2>2. CASE v # w
    <3>1. worlds'[v] = worlds[v]
      BY <1>1, <2>2 DEF GamesBacked
    <3> QED  BY <3>1 DEF GamesBacked
  <2> QED  BY <2>1, <2>2
<1> QED  BY <1>1, <1>2 DEF GamesBacked

LEMMA DestroyWorldKeepsGames == GamesBacked /\ (\E w \in Worlds : DestroyWorld(w)) => GamesBacked'
<1> SUFFICES ASSUME GamesBacked, NEW w \in Worlds, DestroyWorld(w) PROVE GamesBacked'
  OBVIOUS
<1>1. worlds' = [worlds EXCEPT ![w] = NoWorld] /\ UNCHANGED <<draft, texts, cfg, hash, from>>
  BY DEF DestroyWorld, handleVars
<1>2. ASSUME NEW v \in Worlds
      PROVE  /\ ~worlds'[v].live => worlds'[v].hash = <<>>
             /\ Backed(draft, worlds'[v].cfg, worlds'[v].hash, worlds'[v].from)
  <2>1. CASE v = w
    <3>1. worlds'[v].hash = <<>>
      BY <1>1, <2>1 DEF GamesBacked, NoWorld
    <3> QED  BY <3>1 DEF Backed
  <2>2. CASE v # w
    <3>1. worlds'[v] = worlds[v]
      BY <1>1, <2>2 DEF GamesBacked
    <3> QED  BY <3>1 DEF GamesBacked
  <2> QED  BY <2>1, <2>2
<1> QED  BY <1>1, <1>2 DEF GamesBacked

LEMMA GamesBackedNext == GamesBacked /\ [ConfigNext]_configVars => GamesBacked'
<1> SUFFICES ASSUME GamesBacked, [ConfigNext]_configVars PROVE GamesBacked'
  OBVIOUS
<1>1. CASE UNCHANGED configVars
  BY <1>1 DEF GamesBacked, configVars
<1>2. CASE ConfigNext
  <2>1. \/ TypeDraft
        \/ \E h \in Handles : Fill(h)
        \/ \E h \in Handles : \E f \in File : \E e \in Editions[f] : Set(h, f, e)
        \/ \E h \in Handles : Load(h)
        \/ \E h \in Handles : Destroy(h)
        \/ \E h \in Handles : \E w \in Worlds : CreateWorld(h, w)
        \/ \E w \in Worlds : DestroyWorld(w)
    BY <1>2, Zenon DEF ConfigNext
  <2> QED  BY <2>1, TypeDraftKeepsGames, FillKeepsGames, SetKeepsGames, LoadKeepsGames,
              DestroyKeepsGames, CreateWorldKeepsGames, DestroyWorldKeepsGames
<1> QED  BY <1>1, <1>2

LEMMA GamesAreBacked == ConfigSpec => []GamesBacked
<1> QED  BY GamesBackedInit, GamesBackedNext, PTL DEF ConfigSpec

(* The games of the two properties, backed.                                *)
LEMMA GameIsBacked ==
  ASSUME GamesBacked, NEW g \in Games
  PROVE  /\ Complete(g.from) /\ FirstRefused(DocsAt(draft, g.from), LoadOrder) = NoError
         /\ g.cfg = Configured(DocsAt(draft, g.from))
         /\ g.hash = Fed(DocsAt(draft, g.from), g.cfg)
<1>1. g.hash # <<>> /\ \/ \E h \in Handles : g = [cfg |-> cfg[h], hash |-> hash[h], from |-> from[h]]
                       \/ \E w \in Worlds : g = [cfg |-> worlds[w].cfg, hash |-> worlds[w].hash,
                                                 from |-> worlds[w].from]
  BY DEF Games
<1>2. Backed(draft, g.cfg, g.hash, g.from)
  <2>1. CASE \E h \in Handles : g = [cfg |-> cfg[h], hash |-> hash[h], from |-> from[h]]
    <3>1. PICK h \in Handles : g = [cfg |-> cfg[h], hash |-> hash[h], from |-> from[h]]
      BY <2>1
    <3>2. g.cfg = cfg[h] /\ g.hash = hash[h] /\ g.from = from[h]
      BY <3>1
    <3> QED  BY <3>2 DEF GamesBacked
  <2>2. CASE \E w \in Worlds : g = [cfg |-> worlds[w].cfg, hash |-> worlds[w].hash, from |-> worlds[w].from]
    <3>1. PICK w \in Worlds : g = [cfg |-> worlds[w].cfg, hash |-> worlds[w].hash, from |-> worlds[w].from]
      BY <2>2
    <3>2. g.cfg = worlds[w].cfg /\ g.hash = worlds[w].hash /\ g.from = worlds[w].from
      BY <3>1
    <3> QED  BY <3>2 DEF GamesBacked
  <2> QED  BY <1>1, <2>1, <2>2
<1> QED  BY <1>1, <1>2 DEF Backed

(* The same texts, the same game and the same fingerprint, whatever was    *)
(* loaded, refused or thrown away before (dc_abi.h:222).                   *)
THEOREM SameTextsSameGame == ConfigSpec => []SameFilesSameHash
<1>1. GamesBacked => SameFilesSameHash
  <2> SUFFICES ASSUME GamesBacked, NEW g \in Games, NEW o \in Games, g.from = o.from
               PROVE  g.hash = o.hash /\ g.cfg = o.cfg
    BY DEF SameFilesSameHash
  <2>1. /\ g.cfg = Configured(DocsAt(draft, g.from)) /\ g.hash = Fed(DocsAt(draft, g.from), g.cfg)
        /\ o.cfg = Configured(DocsAt(draft, o.from)) /\ o.hash = Fed(DocsAt(draft, o.from), o.cfg)
    BY GameIsBacked
  <2> QED  BY <2>1, Zenon
<1> QED  BY <1>1, GamesAreBacked, PTL

(* Whatever was loaded, replaced and reloaded before, what a handle or a   *)
(* world plays by hangs together across its files (loadCards, loadItems).  *)
THEOREM WhatIsPlayedIsCoherent == ConfigSpec => []LoadedIsCoherent
<1>1. GamesBacked => LoadedIsCoherent
  <2> SUFFICES ASSUME GamesBacked, NEW g \in Games PROVE Coherent(g.cfg)
    BY DEF LoadedIsCoherent
  <2>1. PICK d, t : d = DocsAt(draft, g.from) /\ t = g.from
    OBVIOUS
  <2>2. Complete(t) /\ FirstRefused(d, LoadOrder) = NoError /\ g.cfg = Configured(d)
    BY <2>1, GameIsBacked, Zenon
  <2>3. ASSUME NEW f \in {"cards", "items"} PROVE IsDocument(d[f])
    <3>1. f \in File /\ f # "hero"
      BY HeroIsFile
    <3>2. t[f] \in DOMAIN Text /\ t[f] # Draft
      BY <2>2, <3>1, NamesDiffer DEF Complete
    <3>3. d[f] = Read(Text[t[f]])
      BY <2>1, <3>1, <3>2 DEF DocsAt
    <3> QED  BY <3>2, <3>3, ConfigAssumption
  <2>4. IsDocument(d["cards"]) /\ IsDocument(d["items"])
    BY <2>3
  <2>5. Coherent(Configured(d))
    BY <2>2, <2>4, AcceptedIsCoherent
  <2> QED  BY <2>2, <2>5, Zenon
<1> QED  BY <1>1, GamesAreBacked, PTL

----------------------------------------------------------------------------
(* The two recursive functions are what they say.                          *)

(* The reader goes from lexeme to lexeme, and behind the last.             *)
LEMMA ReadingSteps ==
  ASSUME NEW text, Len(text) \in Nat
  PROVE  /\ Reading(text)[0] = EmptyDoc
         /\ \A i \in 1 .. Len(text) + 1 : Reading(text)[i] = ReadLexeme(text, Reading(text)[i - 1], i)
<1> DEFINE n == Len(text) + 1
           body(f, i) == IF i = 0 THEN EmptyDoc ELSE ReadLexeme(text, f[i - 1], i)
           Good(f, m) == f[0] = EmptyDoc /\ \A i \in 1 .. m : f[i] = ReadLexeme(text, f[i - 1], i)
           T == {m \in 0 .. n : \E f : Good(f, m)}
<1>1. 0 \in T
  <2>1. Good([i \in 0 .. n |-> EmptyDoc], 0)
    OBVIOUS
  <2>2. 0 \in 0 .. n
    OBVIOUS
  <2> HIDE DEF Good
  <2> QED  BY <2>1, <2>2
<1>2. ASSUME NEW m \in 0 .. n - 1, m \in T PROVE m + 1 \in T
  <2>1. PICK f : Good(f, m)
    BY <1>2
  <2>2. PICK s : s = ReadLexeme(text, f[m], m + 1)
    OBVIOUS
  <2> DEFINE g == [i \in 0 .. n |-> IF i = m + 1 THEN s ELSE f[i]]
  <2>3. g[0] = EmptyDoc
    BY <2>1
  <2>4. ASSUME NEW i \in 1 .. m + 1 PROVE g[i] = ReadLexeme(text, g[i - 1], i)
    <3>1. g[i - 1] = f[i - 1] /\ i - 1 \in 0 .. n
      OBVIOUS
    <3>2. CASE i = m + 1
      <4>1. g[i] = s /\ g[i - 1] = f[m]
        BY <3>1, <3>2
      <4> HIDE DEF g
      <4> QED  BY <2>2, <3>2, <4>1
    <3>3. CASE i # m + 1
      <4>1. g[i] = f[i] /\ f[i] = ReadLexeme(text, f[i - 1], i)
        BY <2>1, <3>3
      <4> HIDE DEF g
      <4> QED  BY <3>1, <4>1
    <3> QED  BY <3>2, <3>3
  <2>5. Good(g, m + 1)
    <3> HIDE DEF g
    <3> QED  BY <2>3, <2>4
  <2>6. m + 1 \in 0 .. n
    OBVIOUS
  <2> HIDE DEF Good, g
  <2> QED  BY <2>5, <2>6
<1>3. n \in T
  <2>1. n \in Nat
    OBVIOUS
  <2>2. \A m \in 0 .. n - 1 : m \in T => m + 1 \in T
    BY <1>2
  <2> HIDE DEF T, n
  <2>3. \A m \in 0 .. n : m \in T
    BY <1>1, <2>1, <2>2, SetInduction, Zenon
  <2> QED  BY <2>1, <2>3
<1>4. PICK f : Good(f, n)
  BY <1>3
<1>5. [i \in 0 .. n |-> f[i]] = [i \in 0 .. n |-> body([k \in 0 .. n |-> f[k]], i)]
  <2>1. ASSUME NEW i \in 0 .. n PROVE f[i] = body([k \in 0 .. n |-> f[k]], i)
    <3>1. CASE i = 0
      BY <1>4, <3>1
    <3>2. CASE i # 0
      <4>1. [k \in 0 .. n |-> f[k]][i - 1] = f[i - 1] /\ i \in 1 .. n
        BY <3>2
      <4>2. f[i] = ReadLexeme(text, f[i - 1], i)
        BY <1>4, <4>1
      <4> QED  BY <3>2, <4>1, <4>2
    <3> QED  BY <3>1, <3>2
  <2> QED  BY <2>1
<1>6. Reading(text) = CHOOSE g : g = [i \in 0 .. n |-> body(g, i)]
  BY Zenon DEF Reading
<1>7. Reading(text) = [i \in 0 .. n |-> body(Reading(text), i)]
  <2>1. \E g : g = [i \in 0 .. n |-> body(g, i)]
    BY <1>5
  <2> HIDE DEF body, n
  <2> QED  BY <1>6, <2>1, Zenon
<1>8. PICK R : R = Reading(text)
  OBVIOUS
<1>9. R = [i \in 0 .. n |-> body(R, i)]
  BY <1>7, <1>8, Zenon
<1>10. R[0] = EmptyDoc /\ \A i \in 1 .. n : R[i] = ReadLexeme(text, R[i - 1], i)
  BY <1>9
<1> QED  BY <1>8, <1>10

(* What the grammar says of a span, f for the spans inside.                *)
Rule(text, f, x) ==
  IF x[1] = "value" THEN Values(text, f, x[2], x[3], x[4])
  ELSE Members(text, f, x[1], x[2], x[3], x[4])

(* The spans inside have less weight.                                      *)
Weight(text, x) == 2 * (Len(text) + 1 + x[3] - x[2]) + (IF x[1] = "value" THEN 0 ELSE 1)

SameValues(text, f, g, i, j, e) ==
  \A a \in 1 .. Len(text) + 1 : a >= i => f[<<"value", a, j, e>>] = g[<<"value", a, j, e>>]

LEMMA MemberIsLocal ==
  ASSUME NEW text, Len(text) \in Nat, NEW f, NEW g, NEW type \in {"array", "object"},
         NEW i \in 1 .. Len(text) + 1, NEW j \in 0 .. Len(text), NEW e,
         SameValues(text, f, g, i, j, e)
  PROVE  Member(text, f, type, i, j, e) = Member(text, g, type, i, j, e)
<1>1. f[<<"value", i, j, e>>] = g[<<"value", i, j, e>>]
  BY DEF SameValues
<1>2. \A c \in i .. j : f[<<"value", c + 1, j, e>>] = g[<<"value", c + 1, j, e>>]
  BY DEF SameValues
<1>3. CASE type = "array"
  BY <1>1, <1>3 DEF Member
<1>4. CASE type # "array"
  <2> DEFINE set(h, c) == {[key |-> text[p].text, tree |-> t] :
                            p \in Heads(text, i, c), t \in h[<<"value", c + 1, j, e>>]}
  <2>1. ASSUME NEW c \in i .. j PROVE set(f, c) = set(g, c)
    <3>1. f[<<"value", c + 1, j, e>>] = g[<<"value", c + 1, j, e>>]
      BY <1>2
    <3> QED  BY <3>1
  <2>2. {set(f, c) : c \in i .. j} = {set(g, c) : c \in i .. j}
    <3> HIDE DEF set
    <3> QED  BY <2>1
  <2>3. Member(text, f, type, i, j, e) = UNION {set(f, c) : c \in i .. j}
    BY <1>4 DEF Member
  <2>4. Member(text, g, type, i, j, e) = UNION {set(g, c) : c \in i .. j}
    BY <1>4 DEF Member
  <2> HIDE DEF set
  <2> QED  BY <2>2, <2>3, <2>4, Zenon
<1> QED  BY <1>3, <1>4

SameBelow(text, f, g, x) ==
  \A y \in Spans(text) : Weight(text, y) < Weight(text, x) => f[y] = g[y]

LEMMA RuleIsLocal ==
  ASSUME NEW text, Len(text) \in Nat, NEW f, NEW g, NEW x \in Spans(text), SameBelow(text, f, g, x)
  PROVE  Rule(text, f, x) = Rule(text, g, x)
<1> DEFINE n == Len(text)
           P == 1 .. n + 1
           Q == 0 .. n
           E == 0 .. MAX_DEPTH + 1
<1>1. PICK tag \in {"value", "array", "object"}, i \in P, j \in Q, e \in E : x = <<tag, i, j, e>>
  BY DEF Spans
<1>2. ASSUME NEW u \in {"value", "array", "object"}, NEW a \in P, NEW b \in Q, NEW d \in E,
             \/ b - a < j - i
             \/ (b - a <= j - i /\ u = "value" /\ tag # "value")
      PROVE  f[<<u, a, b, d>>] = g[<<u, a, b, d>>]
  <2>1. <<u, a, b, d>> \in Spans(text)
    BY DEF Spans
  <2>2. Weight(text, x) = 2 * (n + 1 + j - i) + (IF tag = "value" THEN 0 ELSE 1)
    BY <1>1 DEF Weight
  <2>3. Weight(text, <<u, a, b, d>>) = 2 * (n + 1 + b - a) + (IF u = "value" THEN 0 ELSE 1)
    BY DEF Weight
  <2>4. Weight(text, <<u, a, b, d>>) < Weight(text, x)
    <3>1. PICK p \in Nat, q \in Int, r \in Int : p = n + 1 /\ q = j - i /\ r = b - a
      OBVIOUS
    <3>2. 2 * (n + 1 + j - i) = 2 * (p + q) /\ 2 * (n + 1 + b - a) = 2 * (p + r)
      BY <3>1
    <3>3. r < q \/ (r <= q /\ u = "value" /\ tag # "value")
      BY <1>2, <3>1
    <3>4. PICK s \in {0, 1}, t \in {0, 1} :
                 /\ s = (IF tag = "value" THEN 0 ELSE 1) /\ t = (IF u = "value" THEN 0 ELSE 1)
      OBVIOUS
    <3>5. r < q \/ (r <= q /\ t = 0 /\ s = 1)
      BY <3>3, <3>4
    <3>6. 2 * (p + r) + t < 2 * (p + q) + s
      BY <3>5
    <3> QED  BY <2>2, <2>3, <3>2, <3>4, <3>6, Zenon
  <2> QED  BY <2>1, <2>4 DEF SameBelow
<1>3. CASE tag = "value"
  <2>1. CASE i > j \/ e > MAX_DEPTH
    BY <1>1, <1>3, <2>1 DEF Rule, Values
  <2>2. CASE ~(i > j \/ e > MAX_DEPTH)
    <3>1. ASSUME NEW type \in {"array", "object"}, NEW open, NEW close
          PROVE  Container(text, f, type, open, close, i, j, e) = Container(text, g, type, open, close, i, j, e)
      <4>1. CASE i < j
        <5>1. i + 1 \in P /\ j - 1 \in Q /\ e + 1 \in E
          BY <2>2, <4>1, JsonAssumption
        <5>2. type \in {"value", "array", "object"} /\ (j - 1) - (i + 1) < j - i
          OBVIOUS
        <5> HIDE DEF P, Q, E
        <5>3. f[<<type, i + 1, j - 1, e + 1>>] = g[<<type, i + 1, j - 1, e + 1>>]
          BY <1>2, <5>1, <5>2
        <5>4. PICK A : A = f[<<type, i + 1, j - 1, e + 1>>] /\ A = g[<<type, i + 1, j - 1, e + 1>>]
          BY <5>3
        <5> QED  BY <5>4, Zenon DEF Container
      <4>2. CASE ~(i < j)
        BY <4>2 DEF Container
      <4> QED  BY <4>1, <4>2
    <3>2. f[<<"value", i + 1, j, e>>] = g[<<"value", i + 1, j, e>>]
      <4>1. i + 1 \in P /\ j - (i + 1) < j - i
        BY <2>2
      <4> HIDE DEF P, Q, E
      <4> QED  BY <1>2, <4>1
    <3>3. f[<<"value", i, j - 1, e>>] = g[<<"value", i, j - 1, e>>]
      <4>1. j - 1 \in Q /\ (j - 1) - i < j - i
        BY <2>2
      <4> HIDE DEF P, Q, E
      <4> QED  BY <1>2, <4>1
    <3>4. Values(text, f, i, j, e) = Values(text, g, i, j, e)
      BY <2>2, <3>1, <3>2, <3>3, Zenon DEF Values
    <3> QED  BY <1>1, <1>3, <3>4 DEF Rule
  <2> QED  BY <2>1, <2>2
<1>4. CASE tag # "value"
  <2>1. tag \in {"array", "object"}
    BY <1>4
  <2>2. ASSUME NEW k \in P, k >= i
        PROVE  Member(text, f, tag, k, j, e) = Member(text, g, tag, k, j, e)
    <3>1. ASSUME NEW a \in P, a >= k PROVE f[<<"value", a, j, e>>] = g[<<"value", a, j, e>>]
      <4>1. j - a <= j - i
        BY <2>2, <3>1
      <4> QED  BY <1>2, <1>4, <4>1, Zenon
    <3>2. SameValues(text, f, g, k, j, e)
      BY <3>1 DEF SameValues
    <3>3. k \in 1 .. Len(text) + 1 /\ j \in 0 .. Len(text)
      OBVIOUS
    <3> HIDE DEF P, Q, E
    <3> QED  BY <2>1, <3>2, <3>3, MemberIsLocal
  <2> DEFINE commas == {q \in i .. j : text[q].lex = "comma"}
             join(A, B) == {Append(ms, m) : ms \in A, m \in B}
             set(h, k) == join(h[<<tag, i, k - 1, e>>], Member(text, h, tag, k + 1, j, e))
  <2>3. ASSUME NEW k \in commas PROVE set(f, k) = set(g, k)
    <3>1. k + 1 \in P /\ k + 1 >= i /\ k - 1 \in Q /\ k - 1 - i < j - i
      OBVIOUS
    <3> HIDE DEF P, Q, E, commas, join
    <3>2. f[<<tag, i, k - 1, e>>] = g[<<tag, i, k - 1, e>>]
      BY <1>2, <3>1, Zenon
    <3>3. Member(text, f, tag, k + 1, j, e) = Member(text, g, tag, k + 1, j, e)
      BY <2>2, <3>1
    <3> QED  BY <3>2, <3>3, Zenon
  <2>4. {set(f, k) : k \in commas} = {set(g, k) : k \in commas}
    <3> HIDE DEF set, commas
    <3> QED  BY <2>3
  <2>5. Member(text, f, tag, i, j, e) = Member(text, g, tag, i, j, e)
    BY <2>2
  <2>6. Members(text, f, tag, i, j, e) = {<<m>> : m \in Member(text, f, tag, i, j, e)} \cup UNION {set(f, k) : k \in commas}
    BY DEF Members
  <2>7. Members(text, g, tag, i, j, e) = {<<m>> : m \in Member(text, g, tag, i, j, e)} \cup UNION {set(g, k) : k \in commas}
    BY DEF Members
  <2>8. Members(text, f, tag, i, j, e) = Members(text, g, tag, i, j, e)
    <3> HIDE DEF set, commas
    <3> QED  BY <2>4, <2>5, <2>6, <2>7, Zenon
  <2> QED  BY <1>1, <1>4, <2>8 DEF Rule
<1> QED  BY <1>3, <1>4

(* The grammar has the meaning its rules give it.                          *)
LEMMA SpelledHolds ==
  ASSUME NEW text, Len(text) \in Nat
  PROVE  \A x \in Spans(text) : Spelled(text)[x] = Rule(text, Spelled(text), x)
<1> DEFINE D == Spans(text)
           n == 4 * Len(text) + 4
           w(x) == Weight(text, x)
           Good(f, m) == \A x \in D : w(x) < m => f[x] = Rule(text, f, x)
           T == {m \in 0 .. n : \E f : Good(f, m)}
<1>0. n \in Nat /\ \A x \in D : w(x) \in 0 .. n - 1
  <2> SUFFICES ASSUME NEW x \in D PROVE w(x) \in 0 .. n - 1
    OBVIOUS
  <2>1. PICK tag \in {"value", "array", "object"}, i \in 1 .. Len(text) + 1, j \in 0 .. Len(text),
             e \in 0 .. MAX_DEPTH + 1 : x = <<tag, i, j, e>>
    BY DEF Spans
  <2> QED  BY <2>1 DEF Weight
<1> HIDE DEF D, w
<1>1. 0 \in T
  <2>1. Good([x \in D |-> {}], 0)
    BY <1>0
  <2> HIDE DEF Good
  <2> QED  BY <1>0, <2>1
<1>2. ASSUME NEW m \in 0 .. n - 1, m \in T PROVE m + 1 \in T
  <2>1. PICK f : Good(f, m)
    BY <1>2
  <2> DEFINE g == [x \in D |-> IF w(x) < m THEN f[x] ELSE Rule(text, f, x)]
  <2>2. ASSUME NEW x \in D, w(x) < m + 1 PROVE g[x] = Rule(text, g, x)
    <3>1. g[x] = Rule(text, f, x)
      BY <2>1
    <3>2. SameBelow(text, f, g, x)
      BY <1>0, <2>2 DEF SameBelow, D, w
    <3>3. Rule(text, f, x) = Rule(text, g, x)
      <4> HIDE DEF g
      <4> QED  BY <3>2, RuleIsLocal DEF D, w
    <3> QED  BY <3>1, <3>3
  <2>3. Good(g, m + 1)
    <3> HIDE DEF g
    <3> QED  BY <2>2
  <2>4. m + 1 \in 0 .. n
    BY <1>0
  <2> HIDE DEF Good, g
  <2> QED  BY <2>3, <2>4
<1>3. n \in T
  <2>1. \A m \in 0 .. n - 1 : m \in T => m + 1 \in T
    BY <1>2
  <2> HIDE DEF T, n
  <2>2. \A m \in 0 .. n : m \in T
    BY <1>0, <1>1, <2>1, SetInduction, Zenon
  <2> QED  BY <1>0, <2>2
<1>4. PICK f : \A x \in D : f[x] = Rule(text, f, x)
  <2>1. PICK f : Good(f, n)
    BY <1>3
  <2>2. \A x \in D : f[x] = Rule(text, f, x)
    BY <1>0, <2>1
  <2> QED  BY <2>2
<1>5. [x \in D |-> f[x]] = [x \in D |-> Rule(text, [y \in D |-> f[y]], x)]
  <2>1. ASSUME NEW x \in D PROVE f[x] = Rule(text, [y \in D |-> f[y]], x)
    <3>1. PICK h : h = [y \in D |-> f[y]]
      OBVIOUS
    <3>2. SameBelow(text, f, h, x)
      BY <3>1 DEF SameBelow, D
    <3>3. Rule(text, f, x) = Rule(text, h, x)
      BY <3>2, RuleIsLocal DEF D, w
    <3> QED  BY <1>4, <3>1, <3>3
  <2> QED  BY <2>1
<1>6. Spelled(text) = CHOOSE g : g = [x \in D |-> Rule(text, g, x)]
  BY Zenon DEF Spelled, Rule, D
<1>7. Spelled(text) = [x \in D |-> Rule(text, Spelled(text), x)]
  <2>1. \E g : g = [x \in D |-> Rule(text, g, x)]
    BY <1>5
  <2> QED  BY <1>6, <2>1, Zenon
<1>8. PICK S : S = Spelled(text)
  OBVIOUS
<1>9. S = [x \in D |-> Rule(text, S, x)]
  BY <1>7, <1>8, Zenon
<1>10. \A x \in D : S[x] = Rule(text, S, x)
  BY <1>9
<1> QED  BY <1>8, <1>10 DEF D

----------------------------------------------------------------------------
(* The state of the reader.                                                *)

IsLonger(s, x, t) ==
  Len(t) = Len(s) + 1 /\ t[Len(s) + 1] = x /\ \A i \in 1 .. Len(s) : t[i] = s[i]

LEMMA AppendIsList ==
  ASSUME NEW s, IsList(s), NEW x, NEW t, t = Append(s, x)
  PROVE  IsList(t) /\ IsLonger(s, x, t)
<1>1. PICK n \in Nat : n = Len(s)
  BY Zenon DEF IsList
<1>2. PICK S : S = Range(s) \cup {x}
  OBVIOUS
<1>3. s \in Seq(S) /\ x \in S
  <2>1. s \in Seq(Range(s)) /\ Range(s) \subseteq S
    BY <1>2 DEF IsList
  <2> QED  BY <1>2, <2>1, SeqMonotonic
<1>5. t \in Seq(S) /\ Len(t) = n + 1 /\ \A i \in 1 .. n : t[i] = s[i]
  BY <1>1, <1>3, AppendProperties
<1>6. t[n + 1] = x
  BY <1>1, <1>3, AppendProperties
<1>7. t = [i \in 1 .. n + 1 |-> t[i]]
  <2>1. t \in [1 .. n + 1 -> S]
    BY <1>5, LenProperties
  <2> QED  BY <2>1
<1>8. IsList(t)
  <2>1. n + 1 \in Nat
    OBVIOUS
  <2> QED  BY <1>7, <2>1, FunctionIsList
<1> QED  BY <1>1, <1>5, <1>6, <1>8 DEF IsLonger

IsFront(s, t) == Len(t) = Len(s) - 1 /\ \A i \in 1 .. Len(s) - 1 : t[i] = s[i]

LEMMA FrontIsList ==
  ASSUME NEW s, IsList(s), Len(s) > 0, NEW t, t = SubSeq(s, 1, Len(s) - 1)
  PROVE  IsList(t) /\ IsFront(s, t)
<1>1. PICK n \in Nat : n = Len(s) /\ n > 0
  BY Zenon DEF IsList
<1>2. t = [i \in 1 .. n - 1 |-> s[i]]
  BY <1>1 DEF IsList
<1>3. IsList(t) /\ Len(t) = n - 1
  <2>1. n - 1 \in Nat /\ t = [i \in 1 .. n - 1 |-> t[i]]
    BY <1>1, <1>2
  <2> QED  BY <2>1, FunctionIsList
<1> QED  BY <1>1, <1>2, <1>3 DEF IsFront

Replaced(s, k, x, t) == t = [s EXCEPT ![k] = x]

IsChanged(s, k, x, t) ==
  Len(t) = Len(s) /\ \A i \in 1 .. Len(s) : t[i] = IF i = k THEN x ELSE s[i]

LEMMA ExceptIsList ==
  ASSUME NEW s, IsList(s), NEW k \in 1 .. Len(s), NEW x, NEW t, Replaced(s, k, x, t)
  PROVE  IsList(t) /\ IsChanged(s, k, x, t)
<1>1. PICK n \in Nat : n = Len(s) /\ DOMAIN s = 1 .. n
  BY Zenon DEF IsList
<1>2. t = [i \in 1 .. n |-> t[i]] /\ \A i \in 1 .. n : t[i] = IF i = k THEN x ELSE s[i]
  BY <1>1 DEF Replaced
<1>3. IsList(t) /\ Len(t) = n
  BY <1>2, FunctionIsList
<1> QED  BY <1>1, <1>2, <1>3 DEF IsChanged

IsNode(w) ==
  /\ DOMAIN w = {"type", "num", "text", "key", "firstKid", "nextSib", "kidCount"}
  /\ w.kidCount \in Nat

IsNodes(ns) == IsList(ns) /\ \A u \in 1 .. Len(ns) : IsNode(ns[u])

IsFrame(f, n) ==
  /\ DOMAIN f = {"self", "prev", "close", "key"}
  /\ f.self \in 1 .. n /\ f.prev \in 0 .. n
  /\ f.close \in {"rbracket", "rbrace"}

(* The innermost call stands at a place it can stand at.                   *)
Stands(d) ==
  /\ d.want \in {"value", "first", "kid", "colon", "next", "nothing"}
  /\ d.want \in {"first", "kid", "colon", "next"} => Len(d.open) > 0
  /\ d.want = "colon" => Top(d).close = "rbrace"
  /\ d.want = "value" /\ Len(d.open) > 0 => Top(d).close = "rbrace"
  /\ d.want = "nothing" => Len(d.open) = 0

IsDoc(d) == DOMAIN d = {"nodes", "err", "errAt", "open", "want"}

(* A state of the reader: nodes, and the calls inside containers.          *)
IsReader(d) ==
  /\ IsDoc(d)
  /\ IsNodes(d.nodes)
  /\ IsList(d.open) /\ \A k \in 1 .. Len(d.open) : IsFrame(d.open[k], Len(d.nodes))
  /\ Stands(d)

(* Nodes rs are ns with node v linked behind the kids of frame f.          *)
LinkedNode(w, r, f, u, v) ==
  /\ r.type = w.type /\ r.num = w.num /\ r.text = w.text
  /\ r.key = IF u = v THEN f.key ELSE w.key
  /\ r.kidCount = IF u = f.self THEN w.kidCount + 1 ELSE w.kidCount
  /\ r.firstKid = IF u = f.self /\ f.prev = 0 THEN v ELSE w.firstKid
  /\ r.nextSib = IF u = f.prev THEN v ELSE w.nextSib

Linked(ns, rs, f, v) ==
  /\ IsNodes(rs) /\ Len(rs) = Len(ns)
  /\ \A u \in 1 .. Len(ns) : LinkedNode(ns[u], rs[u], f, u, v)

LEMMA LinkLinks ==
  ASSUME NEW d, IsDoc(d), IsNodes(d.nodes),
         NEW f, IsFrame(f, Len(d.nodes)), NEW v \in 1 .. Len(d.nodes), NEW r, r = Link(d, f.self, f.prev, v, f.key)
  PROVE  /\ IsDoc(r) /\ r.err = d.err /\ r.errAt = d.errAt /\ r.open = d.open /\ r.want = d.want
         /\ Linked(d.nodes, r.nodes, f, v)
<1>1. PICK ns, n, self, prev, key :
        /\ ns = d.nodes /\ n = Len(ns) /\ self = f.self /\ prev = f.prev /\ key = f.key
        /\ n \in Nat /\ self \in 1 .. n /\ prev \in 0 .. n /\ v \in 1 .. n
  BY DEF IsNodes, IsList, IsFrame
<1>2. IsList(ns)
  BY <1>1 DEF IsNodes
<1>3. PICK x : x = [ns[v] EXCEPT !.key = key]
  OBVIOUS
<1>4. PICK as : Replaced(ns, v, x, as)
  BY DEF Replaced
<1>5. IsList(as) /\ Len(as) = n /\ \A i \in 1 .. n : as[i] = IF i = v THEN x ELSE ns[i]
  <2>1. v \in 1 .. Len(ns)
    BY <1>1
  <2>2. IsList(as) /\ IsChanged(ns, v, x, as)
    BY <1>2, <1>4, <2>1, ExceptIsList, Zenon
  <2> QED  BY <1>1, <2>2 DEF IsChanged
<1>6. PICK y : y = [as[self] EXCEPT !.kidCount = as[self].kidCount + 1]
  OBVIOUS
<1>7. PICK bs : Replaced(as, self, y, bs)
  BY DEF Replaced
<1>8. IsList(bs) /\ Len(bs) = n /\ \A i \in 1 .. n : bs[i] = IF i = self THEN y ELSE as[i]
  <2>1. IsList(as) /\ self \in 1 .. Len(as)
    BY <1>1, <1>5
  <2>2. IsList(bs) /\ IsChanged(as, self, y, bs)
    BY <1>7, <2>1, ExceptIsList, Zenon
  <2> QED  BY <1>5, <2>2 DEF IsChanged
<1>9. PICK p, z : /\ p = IF prev = 0 THEN self ELSE prev
                  /\ z = IF prev = 0 THEN [bs[self] EXCEPT !.firstKid = v] ELSE [bs[prev] EXCEPT !.nextSib = v]
  OBVIOUS
<1>10. PICK cs : Replaced(bs, p, z, cs)
  BY DEF Replaced
<1>11. IsList(cs) /\ Len(cs) = n /\ \A i \in 1 .. n : cs[i] = IF i = p THEN z ELSE bs[i]
  <2>1. IsList(bs) /\ p \in 1 .. Len(bs)
    BY <1>1, <1>8, <1>9
  <2>2. IsList(cs) /\ IsChanged(bs, p, z, cs)
    BY <1>10, <2>1, ExceptIsList, Zenon
  <2> QED  BY <1>8, <2>2 DEF IsChanged
<1>12. r = [d EXCEPT !.nodes = cs]
  <2>1. PICK ka : ka = [d EXCEPT !.nodes[v].key = key]
    OBVIOUS
  <2>2. ka = [d EXCEPT !.nodes = as]
    BY <1>1, <1>3, <1>4, <2>1 DEF Replaced
  <2>3. PICK co : co = [ka EXCEPT !.nodes[self].kidCount = @ + 1]
    OBVIOUS
  <2>4. ka.nodes = as
    BY <2>2 DEF IsDoc
  <2>5. co = [ka EXCEPT !.nodes = bs]
    BY <1>6, <1>7, <2>3, <2>4 DEF Replaced
  <2>6. co = [d EXCEPT !.nodes = bs]
    BY <2>2, <2>5
  <2>7. co.nodes = bs
    BY <2>6 DEF IsDoc
  <2>8. r = IF prev = 0 THEN [co EXCEPT !.nodes[self].firstKid = v] ELSE [co EXCEPT !.nodes[prev].nextSib = v]
    <3>1. r = Link(d, self, prev, v, key)
      BY <1>1
    <3> QED  BY <2>1, <2>3, <3>1, Zenon DEF Link
  <2>9. r = [co EXCEPT !.nodes = cs]
    <3>1. CASE prev = 0
      BY <1>9, <1>10, <2>7, <2>8, <3>1 DEF Replaced
    <3>2. CASE prev # 0
      BY <1>9, <1>10, <2>7, <2>8, <3>2 DEF Replaced
    <3> QED  BY <3>1, <3>2
  <2> QED  BY <2>6, <2>9
<1>13. ASSUME NEW u \in 1 .. n
       PROVE  LinkedNode(ns[u], cs[u], f, u, v) /\ IsNode(cs[u])
  <2>1. IsNode(ns[u])
    BY <1>1 DEF IsNodes
  <2>2. as[u] = IF u = v THEN x ELSE ns[u]
    BY <1>5
  <2>3. bs[u] = IF u = self THEN y ELSE as[u]
    BY <1>8
  <2>4. cs[u] = IF u = p THEN z ELSE bs[u]
    BY <1>11
  <2>5. /\ DOMAIN as[u] = DOMAIN ns[u] /\ as[u].key = IF u = v THEN key ELSE ns[u].key
        /\ as[u].kidCount = ns[u].kidCount /\ as[u].type = ns[u].type /\ as[u].num = ns[u].num
        /\ as[u].text = ns[u].text /\ as[u].firstKid = ns[u].firstKid /\ as[u].nextSib = ns[u].nextSib
    BY <1>3, <2>1, <2>2 DEF IsNode
  <2>6. /\ DOMAIN bs[u] = DOMAIN ns[u] /\ bs[u].key = as[u].key
        /\ bs[u].kidCount = IF u = self THEN ns[u].kidCount + 1 ELSE ns[u].kidCount
        /\ bs[u].type = ns[u].type /\ bs[u].num = ns[u].num
        /\ bs[u].text = ns[u].text /\ bs[u].firstKid = ns[u].firstKid /\ bs[u].nextSib = ns[u].nextSib
    <3>1. CASE u = self
      <4>1. bs[u] = y /\ IsNode(as[self])
        BY <2>1, <2>3, <2>5, <3>1 DEF IsNode
      <4>2. /\ DOMAIN y = DOMAIN as[self] /\ y.key = as[self].key /\ y.kidCount = as[self].kidCount + 1
            /\ y.type = as[self].type /\ y.num = as[self].num /\ y.text = as[self].text
            /\ y.firstKid = as[self].firstKid /\ y.nextSib = as[self].nextSib
        BY <1>6, <4>1 DEF IsNode
      <4> QED  BY <2>5, <3>1, <4>1, <4>2
    <3>2. CASE u # self
      BY <2>3, <2>5, <3>2
    <3> QED  BY <3>1, <3>2
  <2>7. /\ DOMAIN cs[u] = DOMAIN ns[u] /\ cs[u].key = bs[u].key /\ cs[u].kidCount = bs[u].kidCount
        /\ cs[u].type = ns[u].type /\ cs[u].num = ns[u].num /\ cs[u].text = ns[u].text
        /\ cs[u].firstKid = IF u = self /\ prev = 0 THEN v ELSE ns[u].firstKid
        /\ cs[u].nextSib = IF u = prev THEN v ELSE ns[u].nextSib
    <3>1. CASE u # p
      <4>1. cs[u] = bs[u] /\ ~(u = self /\ prev = 0) /\ u # prev
        BY <1>1, <1>9, <2>4, <3>1
      <4> QED  BY <2>6, <4>1
    <3>2. CASE u = p /\ prev = 0
      <4>1. cs[u] = [bs[u] EXCEPT !.firstKid = v] /\ u = self /\ u # prev
        BY <1>1, <1>9, <2>4, <3>2
      <4> QED  BY <2>1, <2>6, <3>2, <4>1 DEF IsNode
    <3>3. CASE u = p /\ prev # 0
      <4>1. cs[u] = [bs[u] EXCEPT !.nextSib = v] /\ u = prev
        BY <1>1, <1>9, <2>4, <3>3
      <4> QED  BY <2>1, <2>6, <3>3, <4>1 DEF IsNode
    <3> QED  BY <3>1, <3>2, <3>3
  <2> QED  BY <1>1, <2>1, <2>5, <2>6, <2>7 DEF IsNode, LinkedNode
<1>14. Linked(ns, cs, f, v)
  BY <1>1, <1>11, <1>13 DEF Linked, IsNodes
<1> QED  BY <1>1, <1>12, <1>14 DEF IsDoc

----------------------------------------------------------------------------
(* The grammar, rule by rule.                                              *)

Reads(text, S, i, j, e) ==
  /\ S[<<"value", i, j, e>>] = Values(text, S, i, j, e)
  /\ \A type \in {"array", "object"} : S[<<type, i, j, e>>] = Members(text, S, type, i, j, e)

IsGrammar(text, S) ==
  \A i \in 1 .. Len(text) + 1, j \in 0 .. Len(text), e \in 0 .. MAX_DEPTH + 1 : Reads(text, S, i, j, e)

LEMMA SpelledIsGrammar ==
  ASSUME NEW text, Len(text) \in Nat
  PROVE  IsGrammar(text, Spelled(text))
<1>1. PICK S : S = Spelled(text)
  OBVIOUS
<1>2. \A x \in Spans(text) : S[x] = Rule(text, S, x)
  BY <1>1, SpelledHolds
<1>3. ASSUME NEW i \in 1 .. Len(text) + 1, NEW j \in 0 .. Len(text), NEW e \in 0 .. MAX_DEPTH + 1
      PROVE  Reads(text, S, i, j, e)
  <2>1. \A tag \in {"value", "array", "object"} : <<tag, i, j, e>> \in Spans(text)
    BY DEF Spans
  <2>2. \A tag \in {"value", "array", "object"} : S[<<tag, i, j, e>>] = Rule(text, S, <<tag, i, j, e>>)
    BY <1>2, <2>1
  <2>3. S[<<"value", i, j, e>>] = Values(text, S, i, j, e)
    BY <2>2 DEF Rule
  <2>4. ASSUME NEW type \in {"array", "object"}
        PROVE  S[<<type, i, j, e>>] = Members(text, S, type, i, j, e)
    BY <2>2 DEF Rule
  <2> QED  BY <2>3, <2>4 DEF Reads
<1> QED  BY <1>1, <1>3 DEF IsGrammar

(* The brackets of a container.                                            *)
Open(type)  == IF type = "array" THEN "lbracket" ELSE "lbrace"
Close(type) == IF type = "array" THEN "rbracket" ELSE "rbrace"

Enclosed(text, S, type, i, j, e, t) ==
  /\ i < j /\ text[i].lex = Open(type) /\ text[j].lex = Close(type)
  /\ \/ \E ms \in S[<<type, i + 1, j - 1, e + 1>>] : t = Tree(type, 0, NoText, ms)
     \/ Blank(text, i + 1, j - 1) /\ t = Tree(type, 0, NoText, <<>>)

LEMMA ContainerRule ==
  ASSUME NEW text, NEW S, NEW type \in {"array", "object"}, NEW i, NEW j, NEW e, NEW t
  PROVE  t \in Container(text, S, type, Open(type), Close(type), i, j, e) <=> Enclosed(text, S, type, i, j, e, t)
BY Zenon DEF Container, Enclosed

(* A value: a scalar, a container, or one with white space around it.      *)
SaysValue(text, S, i, j, e, t) ==
  /\ i <= j /\ e <= MAX_DEPTH
  /\ \/ i = j /\ t \in ScalarTrees(text[i])
     \/ \E type \in {"array", "object"} : Enclosed(text, S, type, i, j, e, t)
     \/ text[i].lex = "ws" /\ t \in S[<<"value", i + 1, j, e>>]
     \/ text[j].lex = "ws" /\ t \in S[<<"value", i, j - 1, e>>]

LEMMA ValueRule ==
  ASSUME NEW text, Len(text) \in Nat, NEW S, IsGrammar(text, S),
         NEW i \in 1 .. Len(text) + 1, NEW j \in 0 .. Len(text), NEW e \in 0 .. MAX_DEPTH + 1, NEW t
  PROVE  t \in S[<<"value", i, j, e>>] <=> SaysValue(text, S, i, j, e, t)
<1>1. S[<<"value", i, j, e>>] = Values(text, S, i, j, e)
  BY DEF IsGrammar, Reads
<1>2. CASE i > j \/ e > MAX_DEPTH
  <2>1. Values(text, S, i, j, e) = {}
    BY <1>2, Zenon DEF Values
  <2>2. ~ SaysValue(text, S, i, j, e, t)
    BY <1>2, JsonAssumption DEF SaysValue
  <2> QED  BY <1>1, <2>1, <2>2, Zenon
<1>3. CASE ~(i > j \/ e > MAX_DEPTH)
  <2> DEFINE ob == Container(text, S, "object", "lbrace", "rbrace", i, j, e)
             ar == Container(text, S, "array", "lbracket", "rbracket", i, j, e)
  <2>1. t \in ob <=> Enclosed(text, S, "object", i, j, e, t)
    <3>1. Open("object") = "lbrace" /\ Close("object") = "rbrace"
      BY DEF Open, Close
    <3>2. t \in Container(text, S, "object", Open("object"), Close("object"), i, j, e)
            <=> Enclosed(text, S, "object", i, j, e, t)
      BY ContainerRule
    <3> QED  BY <3>1, <3>2, Zenon
  <2>2. t \in ar <=> Enclosed(text, S, "array", i, j, e, t)
    <3>1. Open("array") = "lbracket" /\ Close("array") = "rbracket"
      BY DEF Open, Close
    <3>2. t \in Container(text, S, "array", Open("array"), Close("array"), i, j, e)
            <=> Enclosed(text, S, "array", i, j, e, t)
      BY ContainerRule
    <3> QED  BY <3>1, <3>2, Zenon
  <2> HIDE DEF ob, ar
  <2>3. t \in Values(text, S, i, j, e) <=>
              \/ i = j /\ t \in ScalarTrees(text[i])
              \/ t \in ob \/ t \in ar
              \/ text[i].lex = "ws" /\ t \in S[<<"value", i + 1, j, e>>]
              \/ text[j].lex = "ws" /\ t \in S[<<"value", i, j - 1, e>>]
    BY <1>3, Zenon DEF Values, ob, ar
  <2>4. i <= j /\ e <= MAX_DEPTH
    BY <1>3, JsonAssumption
  <2>5. t \in Values(text, S, i, j, e) <=> SaysValue(text, S, i, j, e, t)
    BY <2>1, <2>2, <2>3, <2>4, Zenon DEF SaysValue
  <2> QED  BY <1>1, <2>5, Zenon
<1> QED  BY <1>2, <1>3

(* A member: in an object its key and a colon before its value.            *)
IsEntry(text, S, i, j, e, key, t) ==
  \E c \in i .. j : \E p \in i .. c - 1 :
    /\ text[p].lex = "str" /\ text[c].lex = "colon" /\ key = text[p].text
    /\ Blank(text, i, p - 1) /\ Blank(text, p + 1, c - 1)
    /\ t \in S[<<"value", c + 1, j, e>>]

IsMember(text, S, type, i, j, e, key, t) ==
  IF type = "array" THEN key = NoText /\ t \in S[<<"value", i, j, e>>]
  ELSE IsEntry(text, S, i, j, e, key, t)

Item(key, t) == [key |-> key, tree |-> t]

SaysMember(text, S, type, i, j, e, m) ==
  \E key, t : IsMember(text, S, type, i, j, e, key, t) /\ m = Item(key, t)

LEMMA MemberRule ==
  ASSUME NEW text, NEW S, NEW type \in {"array", "object"}, NEW i, NEW j, NEW e, NEW m
  PROVE  m \in Member(text, S, type, i, j, e) <=> SaysMember(text, S, type, i, j, e, m)
<1>1. CASE type = "array"
  <2>1. m \in Member(text, S, type, i, j, e) <=> \E t \in S[<<"value", i, j, e>>] : m = Item(NoText, t)
    BY <1>1 DEF Member, Item
  <2> QED  BY <1>1, <2>1, Zenon DEF IsMember, SaysMember
<1>2. CASE type # "array"
  <2> DEFINE set(c) == {[key |-> text[p].text, tree |-> t] :
                         p \in Heads(text, i, c), t \in S[<<"value", c + 1, j, e>>]}
  <2>1. m \in Member(text, S, type, i, j, e) <=> \E c \in i .. j : m \in set(c)
    <3>1. Member(text, S, type, i, j, e) = UNION {set(c) : c \in i .. j}
      BY <1>2 DEF Member
    <3> HIDE DEF set
    <3> QED  BY <3>1, Zenon
  <2>2. ASSUME NEW c
        PROVE  m \in set(c) <=> \E p \in Heads(text, i, c), t \in S[<<"value", c + 1, j, e>>] : m = Item(text[p].text, t)
    <3>1. PICK A, B : A = Heads(text, i, c) /\ B = S[<<"value", c + 1, j, e>>]
      OBVIOUS
    <3>2. set(c) = {[key |-> text[p].text, tree |-> t] : p \in A, t \in B}
      BY <3>1
    <3>3. m \in {[key |-> text[p].text, tree |-> t] : p \in A, t \in B} <=>
            \E p \in A, t \in B : m = [key |-> text[p].text, tree |-> t]
      OBVIOUS
    <3> QED  BY <3>1, <3>2, <3>3 DEF Item
  <2> HIDE DEF set
  <2>3. ASSUME NEW c, NEW p
        PROVE  p \in Heads(text, i, c) <=>
                 /\ p \in i .. c - 1 /\ text[p].lex = "str" /\ text[c].lex = "colon"
                 /\ Blank(text, i, p - 1) /\ Blank(text, p + 1, c - 1)
    BY Zenon DEF Heads
  <2>4. ASSUME NEW c \in i .. j, m \in set(c)
        PROVE  \E key, t : IsMember(text, S, type, i, j, e, key, t) /\ m = Item(key, t)
    <3>1. PICK p \in Heads(text, i, c) : \E t \in S[<<"value", c + 1, j, e>>] : m = Item(text[p].text, t)
      BY <2>2, <2>4
    <3>2. PICK t \in S[<<"value", c + 1, j, e>>] : m = Item(text[p].text, t)
      BY <3>1
    <3>3. IsMember(text, S, type, i, j, e, text[p].text, t)
      BY <1>2, <2>3, Zenon DEF IsMember, IsEntry
    <3> QED  BY <3>2, <3>3, Zenon
  <2>5. ASSUME NEW key, NEW t, IsMember(text, S, type, i, j, e, key, t), m = Item(key, t)
        PROVE  \E c \in i .. j : m \in set(c)
    <3>0. PICK c \in i .. j : \E p \in i .. c - 1 :
            /\ text[p].lex = "str" /\ text[c].lex = "colon" /\ key = text[p].text
            /\ Blank(text, i, p - 1) /\ Blank(text, p + 1, c - 1)
            /\ t \in S[<<"value", c + 1, j, e>>]
      BY <1>2, <2>5, Zenon DEF IsMember, IsEntry
    <3>1. PICK p \in i .. c - 1 :
            /\ text[p].lex = "str" /\ text[c].lex = "colon" /\ key = text[p].text
            /\ Blank(text, i, p - 1) /\ Blank(text, p + 1, c - 1)
            /\ t \in S[<<"value", c + 1, j, e>>]
      BY <3>0
    <3>2. p \in Heads(text, i, c)
      BY <2>3, <3>1
    <3>3. m \in set(c)
      BY <2>2, <2>5, <3>1, <3>2, Zenon
    <3> QED  BY <3>3
  <2> QED  BY <2>1, <2>4, <2>5, Zenon DEF SaysMember
<1> QED  BY <1>1, <1>2

(* Members: one, or more behind a comma.                                   *)
SaysMembers(text, S, type, i, j, e, ms) ==
  \/ \E m \in Member(text, S, type, i, j, e) : ms = <<m>>
  \/ \E k \in i .. j : \E ns \in S[<<type, i, k - 1, e>>] : \E m \in Member(text, S, type, k + 1, j, e) :
       text[k].lex = "comma" /\ ms = Append(ns, m)

LEMMA MembersRule ==
  ASSUME NEW text, NEW S, IsGrammar(text, S), NEW type \in {"array", "object"},
         NEW i \in 1 .. Len(text) + 1, NEW j \in 0 .. Len(text), NEW e \in 0 .. MAX_DEPTH + 1, NEW ms
  PROVE  ms \in S[<<type, i, j, e>>] <=> SaysMembers(text, S, type, i, j, e, ms)
<1>1. S[<<type, i, j, e>>] = Members(text, S, type, i, j, e)
  BY DEF IsGrammar, Reads
<1> DEFINE set(k) == {Append(ns, m) : ns \in S[<<type, i, k - 1, e>>], m \in Member(text, S, type, k + 1, j, e)}
           one == {<<m>> : m \in Member(text, S, type, i, j, e)}
<1>2. ms \in one <=> \E m \in Member(text, S, type, i, j, e) : ms = <<m>>
  OBVIOUS
<1>3. ASSUME NEW k
      PROVE  ms \in set(k) <=>
               \E ns \in S[<<type, i, k - 1, e>>] : \E m \in Member(text, S, type, k + 1, j, e) : ms = Append(ns, m)
  OBVIOUS
<1>4. Members(text, S, type, i, j, e) = one \cup UNION {set(k) : k \in {q \in i .. j : text[q].lex = "comma"}}
  BY DEF Members
<1> HIDE DEF one, set
<1>5. ms \in Members(text, S, type, i, j, e) <=> ms \in one \/ \E k \in i .. j : text[k].lex = "comma" /\ ms \in set(k)
  BY <1>4, Zenon
<1>6. ms \in Members(text, S, type, i, j, e) <=> SaysMembers(text, S, type, i, j, e, ms)
  BY <1>2, <1>3, <1>5, Zenon DEF SaysMembers
<1> QED  BY <1>1, <1>6, Zenon

(* White space behind and before a value, and behind members.              *)
LEMMA BlankBehind ==
  ASSUME NEW text, Len(text) \in Nat, NEW S, IsGrammar(text, S),
         NEW i \in 1 .. Len(text) + 1, NEW j \in 1 .. Len(text), NEW e \in 0 .. MAX_DEPTH + 1,
         NEW t \in S[<<"value", i, j - 1, e>>], text[j].lex = "ws"
  PROVE  t \in S[<<"value", i, j, e>>]
<1>1. j - 1 \in 0 .. Len(text) /\ j \in 0 .. Len(text)
  OBVIOUS
<1>2. i <= j - 1 /\ e <= MAX_DEPTH
  <2>1. SaysValue(text, S, i, j - 1, e, t)
    BY <1>1, ValueRule, Zenon
  <2> QED  BY <2>1 DEF SaysValue
<1>3. i <= j
  BY <1>2
<1>4. SaysValue(text, S, i, j, e, t)
  BY <1>2, <1>3 DEF SaysValue
<1> QED  BY <1>1, <1>4, ValueRule, Zenon

LEMMA BlankInFront ==
  ASSUME NEW text, Len(text) \in Nat, NEW S, IsGrammar(text, S),
         NEW i \in 1 .. Len(text), NEW j \in 0 .. Len(text), NEW e \in 0 .. MAX_DEPTH + 1,
         NEW t \in S[<<"value", i + 1, j, e>>], text[i].lex = "ws"
  PROVE  t \in S[<<"value", i, j, e>>]
<1>1. i + 1 \in 1 .. Len(text) + 1 /\ i \in 1 .. Len(text) + 1
  OBVIOUS
<1>2. i + 1 <= j /\ e <= MAX_DEPTH
  <2>1. SaysValue(text, S, i + 1, j, e, t)
    BY <1>1, ValueRule, Zenon
  <2> QED  BY <2>1 DEF SaysValue
<1>3. i <= j
  BY <1>2
<1>4. SaysValue(text, S, i, j, e, t)
  BY <1>2, <1>3 DEF SaysValue
<1> QED  BY <1>1, <1>4, ValueRule, Zenon

LEMMA BlanksInFront ==
  ASSUME NEW text, Len(text) \in Nat, NEW S, IsGrammar(text, S),
         NEW i \in 1 .. Len(text) + 1, NEW j \in 0 .. Len(text), NEW e \in 0 .. MAX_DEPTH + 1,
         NEW t \in S[<<"value", i, j, e>>], NEW a \in 1 .. i, Blank(text, a, i - 1)
  PROVE  t \in S[<<"value", a, j, e>>]
<1> DEFINE T == {k \in 0 .. i - a : t \in S[<<"value", i - k, j, e>>]}
<1>1. 0 \in T
  <2>1. i - 0 = i /\ 0 \in 0 .. i - a
    OBVIOUS
  <2> QED  BY <2>1
<1>2. ASSUME NEW k \in 0 .. i - a - 1, k \in T PROVE k + 1 \in T
  <2>1. PICK b : b = i - (k + 1) /\ b \in 1 .. Len(text) /\ b + 1 = i - k /\ b \in a .. i - 1
    OBVIOUS
  <2>2. text[b].lex = "ws"
    BY <2>1 DEF Blank
  <2>3. t \in S[<<"value", b + 1, j, e>>]
    BY <1>2, <2>1
  <2>4. t \in S[<<"value", b, j, e>>]
    BY <2>1, <2>2, <2>3, BlankInFront, Zenon
  <2>5. k + 1 \in 0 .. i - a
    OBVIOUS
  <2> QED  BY <2>1, <2>4, <2>5
<1>3. \A k \in 0 .. i - a : k \in T
  <2>1. PICK n \in Nat : n = i - a
    OBVIOUS
  <2>2. \A k \in 0 .. n - 1 : k \in T => k + 1 \in T
    BY <1>2, <2>1
  <2> HIDE DEF T
  <2>3. \A k \in 0 .. n : k \in T
    BY <1>1, <2>2, SetInduction, Zenon
  <2> QED  BY <2>1, <2>3
<1>4. i - (i - a) = a /\ i - a \in 0 .. i - a
  OBVIOUS
<1> QED  BY <1>3, <1>4

LEMMA BlankBehindMember ==
  ASSUME NEW text, Len(text) \in Nat, NEW S, IsGrammar(text, S), NEW type \in {"array", "object"},
         NEW i \in 1 .. Len(text) + 1, NEW j \in 1 .. Len(text), NEW e \in 0 .. MAX_DEPTH + 1,
         text[j].lex = "ws", NEW m \in Member(text, S, type, i, j - 1, e)
  PROVE  m \in Member(text, S, type, i, j, e)
<1>1. PICK key, t : IsMember(text, S, type, i, j - 1, e, key, t) /\ m = Item(key, t)
  <2>1. SaysMember(text, S, type, i, j - 1, e, m)
    BY MemberRule, Zenon
  <2> QED  BY <2>1, Zenon DEF SaysMember
<1>2. CASE type = "array"
  <2>1. key = NoText /\ t \in S[<<"value", i, j - 1, e>>]
    BY <1>1, <1>2, Zenon DEF IsMember
  <2>2. t \in S[<<"value", i, j, e>>]
    BY <2>1, BlankBehind, Zenon
  <2>3. IsMember(text, S, type, i, j, e, key, t)
    BY <1>2, <2>1, <2>2, Zenon DEF IsMember
  <2> QED  BY <1>1, <2>3, MemberRule, Zenon DEF SaysMember
<1>3. CASE type # "array"
  <2>1. PICK c \in i .. j - 1 : \E p \in i .. c - 1 :
          /\ text[p].lex = "str" /\ text[c].lex = "colon" /\ key = text[p].text
          /\ Blank(text, i, p - 1) /\ Blank(text, p + 1, c - 1)
          /\ t \in S[<<"value", c + 1, j - 1, e>>]
    <3>1. IsEntry(text, S, i, j - 1, e, key, t)
      BY <1>1, <1>3, Zenon DEF IsMember
    <3> QED  BY <3>1, Zenon DEF IsEntry
  <2>2. c + 1 \in 1 .. Len(text) + 1 /\ c \in i .. j
    OBVIOUS
  <2>3. t \in S[<<"value", c + 1, j, e>>]
    <3>1. t \in S[<<"value", c + 1, j - 1, e>>]
      BY <2>1, Zenon
    <3> QED  BY <2>2, <3>1, BlankBehind, Zenon
  <2>4. IsMember(text, S, type, i, j, e, key, t)
    BY <1>3, <2>1, <2>2, <2>3, Zenon DEF IsMember, IsEntry
  <2> QED  BY <1>1, <2>4, MemberRule, Zenon DEF SaysMember
<1> QED  BY <1>2, <1>3

LEMMA BlankBehindMembers ==
  ASSUME NEW text, Len(text) \in Nat, NEW S, IsGrammar(text, S), NEW type \in {"array", "object"},
         NEW i \in 1 .. Len(text) + 1, NEW j \in 1 .. Len(text), NEW e \in 0 .. MAX_DEPTH + 1,
         text[j].lex = "ws", NEW ms \in S[<<type, i, j - 1, e>>]
  PROVE  ms \in S[<<type, i, j, e>>]
<1>1. j - 1 \in 0 .. Len(text) /\ j \in 0 .. Len(text)
  OBVIOUS
<1>2. SaysMembers(text, S, type, i, j - 1, e, ms)
  BY <1>1, MembersRule, Zenon
<1>3. CASE \E m \in Member(text, S, type, i, j - 1, e) : ms = <<m>>
  <2>1. PICK m \in Member(text, S, type, i, j - 1, e) : ms = <<m>>
    BY <1>3
  <2>2. m \in Member(text, S, type, i, j, e)
    BY BlankBehindMember
  <2>3. SaysMembers(text, S, type, i, j, e, ms)
    BY <2>1, <2>2, Zenon DEF SaysMembers
  <2> QED  BY <1>1, <2>3, MembersRule, Zenon
<1>4. CASE \E k \in i .. j - 1 : \E ns \in S[<<type, i, k - 1, e>>] : \E m \in Member(text, S, type, k + 1, j - 1, e) :
             text[k].lex = "comma" /\ ms = Append(ns, m)
  <2>1. PICK k \in i .. j - 1 : \E ns \in S[<<type, i, k - 1, e>>] : \E m \in Member(text, S, type, k + 1, j - 1, e) :
             text[k].lex = "comma" /\ ms = Append(ns, m)
    BY <1>4
  <2>2. k \in i .. j /\ k + 1 \in 1 .. Len(text) + 1
    OBVIOUS
  <2>3. \A m \in Member(text, S, type, k + 1, j - 1, e) : m \in Member(text, S, type, k + 1, j, e)
    BY <2>2, BlankBehindMember
  <2>4. SaysMembers(text, S, type, i, j, e, ms)
    BY <2>1, <2>2, <2>3, Zenon DEF SaysMembers
  <2> QED  BY <1>1, <2>4, MembersRule, Zenon
<1> QED  BY <1>2, <1>3, <1>4, Zenon DEF SaysMembers

(* Members with one more.                                                  *)
LEMMA FirstItem ==
  ASSUME NEW text, NEW S, IsGrammar(text, S), NEW type \in {"array", "object"},
         NEW i \in 1 .. Len(text) + 1, NEW j \in 0 .. Len(text), NEW e \in 0 .. MAX_DEPTH + 1,
         NEW key, NEW t, IsMember(text, S, type, i, j, e, key, t)
  PROVE  <<Item(key, t)>> \in S[<<type, i, j, e>>]
<1>1. Item(key, t) \in Member(text, S, type, i, j, e)
  BY MemberRule, Zenon DEF SaysMember
<1>2. SaysMembers(text, S, type, i, j, e, <<Item(key, t)>>)
  BY <1>1, Zenon DEF SaysMembers
<1> QED  BY <1>2, MembersRule, Zenon

LEMMA NextItem ==
  ASSUME NEW text, NEW S, IsGrammar(text, S), NEW type \in {"array", "object"},
         NEW i \in 1 .. Len(text) + 1, NEW j \in 0 .. Len(text), NEW e \in 0 .. MAX_DEPTH + 1,
         NEW k \in i .. j, text[k].lex = "comma", NEW ns \in S[<<type, i, k - 1, e>>],
         NEW key, NEW t, IsMember(text, S, type, k + 1, j, e, key, t)
  PROVE  Append(ns, Item(key, t)) \in S[<<type, i, j, e>>]
<1>1. Item(key, t) \in Member(text, S, type, k + 1, j, e)
  BY MemberRule, Zenon DEF SaysMember
<1>2. SaysMembers(text, S, type, i, j, e, Append(ns, Item(key, t)))
  BY <1>1, Zenon DEF SaysMembers
<1> QED  BY <1>2, MembersRule, Zenon

----------------------------------------------------------------------------
(* What the operations of the reader do to its state.                      *)

IsState(d) ==
  IsDoc(d) /\ IsNodes(d.nodes) /\ IsList(d.open) /\ \A k \in 1 .. Len(d.open) : IsFrame(d.open[k], Len(d.nodes))

LEMMA EmptyList ==
  ASSUME NEW s, IsList(s)
  PROVE  s = <<>> <=> Len(s) = 0
<1>1. s \in Seq(Range(s)) /\ Len(s) \in Nat
  BY Zenon DEF IsList
<1> QED  BY <1>1, EmptySeq

Grew(ns, rs, kind, val, str) ==
  /\ IsNodes(rs) /\ Len(rs) = Len(ns) + 1
  /\ \A u \in 1 .. Len(ns) : rs[u] = ns[u]
  /\ LET w == rs[Len(ns) + 1]
     IN  /\ w.type = kind /\ w.num = val /\ w.text = str
         /\ w.key = NoText /\ w.firstKid = 0 /\ w.nextSib = 0 /\ w.kidCount = 0

LEMMA GrownGrows ==
  ASSUME NEW d, IsState(d), NEW kind, NEW val, NEW str, NEW g, g = Grown(d, kind, val, str)
  PROVE  /\ IsState(g) /\ g.err = d.err /\ g.open = d.open /\ g.want = d.want
         /\ Grew(d.nodes, g.nodes, kind, val, str)
<1>1. PICK ns, n : ns = d.nodes /\ n = Len(ns) /\ n \in Nat /\ IsList(ns)
  BY DEF IsState, IsNodes, IsList
<1>2. PICK w : w = [BlankNode EXCEPT !.type = kind, !.num = val, !.text = str]
  OBVIOUS
<1>3. /\ IsNode(w) /\ w.type = kind /\ w.num = val /\ w.text = str
      /\ w.key = NoText /\ w.firstKid = 0 /\ w.nextSib = 0 /\ w.kidCount = 0
  BY <1>2 DEF BlankNode, IsNode
<1>4. PICK rs : rs = Append(ns, w)
  OBVIOUS
<1>5. IsList(rs) /\ Len(rs) = n + 1 /\ rs[n + 1] = w /\ \A i \in 1 .. n : rs[i] = ns[i]
  <2>1. IsList(rs) /\ IsLonger(ns, w, rs)
    BY <1>1, <1>4, AppendIsList, Zenon
  <2> QED  BY <1>1, <2>1 DEF IsLonger
<1>6. g = [d EXCEPT !.nodes = rs]
  BY <1>1, <1>2, <1>4, Zenon DEF Grown
<1>7. IsDoc(g) /\ g.nodes = rs /\ g.err = d.err /\ g.open = d.open /\ g.want = d.want
  BY <1>6 DEF IsDoc, IsState
<1>8. IsNodes(rs)
  <2>1. \A u \in 1 .. n : IsNode(ns[u])
    BY <1>1 DEF IsState, IsNodes
  <2>2. \A u \in 1 .. n + 1 : IsNode(rs[u])
    <3>1. IsNode(w) /\ \A u \in 1 .. n + 1 : u \in 1 .. n \/ u = n + 1
      BY <1>1, <1>3
    <3> QED  BY <1>5, <2>1, <3>1
  <2> QED  BY <1>5, <2>2 DEF IsNodes
<1>9. \A k \in 1 .. Len(g.open) : IsFrame(g.open[k], Len(g.nodes))
  <2> SUFFICES ASSUME NEW k \in 1 .. Len(g.open) PROVE IsFrame(g.open[k], Len(g.nodes))
    OBVIOUS
  <2>1. IsFrame(d.open[k], n)
    BY <1>1, <1>7 DEF IsState
  <2> QED  BY <1>1, <1>5, <1>7, <2>1 DEF IsFrame
<1>10. IsState(g)
  BY <1>7, <1>8, <1>9 DEF IsState
<1>11. Grew(ns, rs, kind, val, str)
  BY <1>1, <1>3, <1>5, <1>8 DEF Grew
<1> QED  BY <1>1, <1>7, <1>10, <1>11

(* The frames of a and b but for the innermost.                            *)
SameFrames(a, b, k) == \A h \in 1 .. k : b[h] = a[h]

Back(d, r, v) ==
  IF Len(d.open) = 0 THEN r.nodes = d.nodes /\ r.open = d.open /\ r.want = "nothing"
  ELSE /\ Linked(d.nodes, r.nodes, Top(d), v) /\ r.want = "next"
       /\ Len(r.open) = Len(d.open) /\ SameFrames(d.open, r.open, Len(d.open) - 1)
       /\ Top(r).self = Top(d).self /\ Top(r).close = Top(d).close /\ Top(r).key = Top(d).key
       /\ Top(r).prev = v

LEMMA ReturnedReturns ==
  ASSUME NEW d, IsState(d), NEW v \in 1 .. Len(d.nodes), NEW r, r = Returned(d, v)
  PROVE  IsReader(r) /\ r.err = d.err /\ Back(d, r, v)
<1>1. PICK n, e : n = Len(d.nodes) /\ e = Len(d.open) /\ n \in Nat /\ e \in Nat /\ v \in 1 .. n
  BY DEF IsState, IsNodes, IsList
<1>2. d.open = <<>> <=> e = 0
  BY <1>1, EmptyList DEF IsState
<1>3. CASE e = 0
  <2>1. r = [d EXCEPT !.want = "nothing"]
    BY <1>2, <1>3 DEF Returned
  <2>2. /\ IsDoc(r) /\ r.nodes = d.nodes /\ r.err = d.err /\ r.open = d.open /\ r.want = "nothing"
    BY <2>1 DEF IsDoc, IsState
  <2>3. Stands(r)
    BY <1>1, <1>3, <2>2 DEF Stands
  <2>4. IsReader(r)
    BY <2>2, <2>3 DEF IsReader, IsState
  <2> QED  BY <1>1, <1>3, <2>2, <2>4 DEF Back
<1>4. CASE e # 0
  <2>1. PICK f : f = Top(d) /\ f = d.open[e] /\ IsFrame(f, n)
    BY <1>1, <1>4 DEF Top, IsState
  <2>2. PICK a : a = Link(d, f.self, f.prev, v, f.key)
    OBVIOUS
  <2>3. /\ IsDoc(a) /\ a.err = d.err /\ a.open = d.open /\ a.want = d.want
        /\ Linked(d.nodes, a.nodes, f, v)
    BY <1>1, <2>1, <2>2, LinkLinks DEF IsState
  <2>4. PICK x : x = [f EXCEPT !.prev = v]
    OBVIOUS
  <2>5. IsFrame(x, n) /\ x.self = f.self /\ x.close = f.close /\ x.key = f.key /\ x.prev = v
    BY <1>1, <2>1, <2>4 DEF IsFrame
  <2>6. PICK os : Replaced(d.open, e, x, os)
    BY DEF Replaced
  <2>7. IsList(os) /\ IsChanged(d.open, e, x, os)
    <3>1. IsList(d.open) /\ e \in 1 .. Len(d.open)
      BY <1>1, <1>4 DEF IsState
    <3> QED  BY <2>6, <3>1, ExceptIsList, Zenon
  <2>8. r = [[a EXCEPT !.open = os] EXCEPT !.want = "next"]
    <3>1. r = [a EXCEPT !.open[Len(d.open)].prev = v, !.want = "next"]
      BY <1>2, <1>4, <2>1, <2>2, Zenon DEF Returned
    <3>2. os = [a.open EXCEPT ![Len(d.open)] = [a.open[Len(d.open)] EXCEPT !.prev = v]]
      BY <1>1, <2>1, <2>3, <2>4, <2>6 DEF Replaced
    <3> QED  BY <3>1, <3>2
  <2>9. IsDoc(r) /\ r.nodes = a.nodes /\ r.err = d.err /\ r.open = os /\ r.want = "next"
    BY <2>3, <2>8 DEF IsDoc
  <2>10. Len(os) = e /\ os[e] = x /\ \A h \in 1 .. e - 1 : os[h] = d.open[h]
    BY <1>1, <1>4, <2>7 DEF IsChanged
  <2>11. IsNodes(a.nodes) /\ Len(a.nodes) = n
    BY <1>1, <2>3 DEF Linked
  <2>12. \A k \in 1 .. e : IsFrame(os[k], n)
    <3>1. \A k \in 1 .. e : IsFrame(d.open[k], n)
      BY <1>1 DEF IsState
    <3> QED  BY <1>1, <2>5, <2>10, <3>1
  <2>13. Stands(r)
    BY <1>1, <1>4, <2>9, <2>10 DEF Stands
  <2>14. IsReader(r)
    BY <2>7, <2>9, <2>10, <2>11, <2>12, <2>13 DEF IsReader
  <2>15. Top(r) = x
    BY <2>9, <2>10 DEF Top
  <2>16. Back(d, r, v)
    BY <1>1, <1>4, <2>1, <2>3, <2>5, <2>9, <2>10, <2>15 DEF Back, SameFrames
  <2> QED  BY <2>9, <2>14, <2>16
<1> QED  BY <1>3, <1>4

OpenedAt(d, r, kind, close) ==
  /\ Grew(d.nodes, r.nodes, kind, 0, NoText) /\ r.want = "first"
  /\ Len(r.open) = Len(d.open) + 1 /\ SameFrames(d.open, r.open, Len(d.open))
  /\ Top(r).self = Len(d.nodes) + 1 /\ Top(r).prev = 0 /\ Top(r).close = close /\ Top(r).key = NoText

LEMMA OpenedOpens ==
  ASSUME NEW d, IsState(d), NEW kind, NEW close \in {"rbracket", "rbrace"}, NEW r, r = Opened(d, kind, close)
  PROVE  IsReader(r) /\ r.err = d.err /\ OpenedAt(d, r, kind, close)
<1>1. PICK n, e : n = Len(d.nodes) /\ e = Len(d.open) /\ n \in Nat /\ e \in Nat
  BY DEF IsState, IsNodes, IsList
<1>2. PICK g : g = Grown(d, kind, 0, NoText)
  OBVIOUS
<1>3. /\ IsState(g) /\ g.err = d.err /\ g.open = d.open
      /\ Grew(d.nodes, g.nodes, kind, 0, NoText)
  BY <1>2, GrownGrows
<1>4. PICK x : x = [self |-> n + 1, prev |-> 0, close |-> close, key |-> NoText]
  OBVIOUS
<1>5. IsFrame(x, n + 1) /\ x.self = n + 1 /\ x.prev = 0 /\ x.close = close /\ x.key = NoText
  BY <1>1, <1>4 DEF IsFrame
<1>6. PICK os : os = Append(d.open, x)
  OBVIOUS
<1>7. IsList(os) /\ IsLonger(d.open, x, os)
  <2>1. IsList(d.open)
    BY DEF IsState
  <2> QED  BY <1>6, <2>1, AppendIsList, Zenon
<1>8. r = [[g EXCEPT !.open = os] EXCEPT !.want = "first"]
  <2>1. r = [g EXCEPT !.open = Append(@, x), !.want = "first"]
    BY <1>1, <1>2, <1>4, Zenon DEF Opened
  <2> QED  BY <1>3, <1>6, <2>1
<1>9. IsDoc(r) /\ r.nodes = g.nodes /\ r.err = d.err /\ r.open = os /\ r.want = "first"
  <2>1. IsDoc(g)
    BY <1>3 DEF IsState
  <2> QED  BY <1>3, <1>8, <2>1 DEF IsDoc
<1>10. Len(os) = e + 1 /\ os[e + 1] = x /\ \A h \in 1 .. e : os[h] = d.open[h]
  BY <1>1, <1>7 DEF IsLonger
<1>11. IsNodes(r.nodes) /\ Len(r.nodes) = n + 1
  BY <1>1, <1>3, <1>9 DEF Grew
<1>12. \A k \in 1 .. e + 1 : IsFrame(os[k], n + 1)
  <2> SUFFICES ASSUME NEW k \in 1 .. e + 1 PROVE IsFrame(os[k], n + 1)
    OBVIOUS
  <2>1. CASE k = e + 1
    BY <1>5, <1>10, <2>1
  <2>2. CASE k # e + 1
    <3>1. k \in 1 .. e /\ os[k] = d.open[k]
      BY <1>1, <1>10, <2>2
    <3>2. IsFrame(d.open[k], n)
      BY <1>1, <3>1 DEF IsState
    <3> QED  BY <1>1, <3>1, <3>2 DEF IsFrame
  <2> QED  BY <2>1, <2>2
<1>13. Top(r) = x
  BY <1>9, <1>10 DEF Top
<1>14. Stands(r)
  BY <1>1, <1>9, <1>10 DEF Stands
<1>15. IsReader(r)
  BY <1>7, <1>9, <1>10, <1>11, <1>12, <1>14 DEF IsReader
<1>16. OpenedAt(d, r, kind, close)
  BY <1>1, <1>3, <1>5, <1>9, <1>10, <1>13 DEF OpenedAt, SameFrames
<1> QED  BY <1>9, <1>15, <1>16

(* The state behind the innermost container.                               *)
Popped(d) == [d EXCEPT !.open = SubSeq(@, 1, Len(@) - 1)]

LEMMA PoppedPops ==
  ASSUME NEW d, IsState(d), Len(d.open) > 0, NEW p, p = Popped(d)
  PROVE  /\ IsState(p) /\ p.err = d.err /\ p.nodes = d.nodes
         /\ Len(p.open) = Len(d.open) - 1 /\ SameFrames(d.open, p.open, Len(p.open))
         /\ Top(d).self \in 1 .. Len(d.nodes)
         /\ Closed(d) = Returned(p, Top(d).self)
<1>1. PICK n, e : n = Len(d.nodes) /\ e = Len(d.open) /\ n \in Nat /\ e \in Nat /\ e > 0 /\ IsList(d.open)
  BY DEF IsState, IsNodes, IsList
<1>2. PICK os : os = SubSeq(d.open, 1, e - 1)
  OBVIOUS
<1>3. IsList(os) /\ IsFront(d.open, os)
  BY <1>1, <1>2, FrontIsList
<1>4. Len(os) = e - 1 /\ \A k \in 1 .. e - 1 : os[k] = d.open[k]
  BY <1>1, <1>3 DEF IsFront
<1>5. p = [d EXCEPT !.open = os]
  BY <1>1, <1>2 DEF Popped
<1>6. IsDoc(p) /\ p.err = d.err /\ p.nodes = d.nodes /\ p.open = os
  BY <1>5 DEF IsState, IsDoc
<1>7. \A k \in 1 .. e : IsFrame(d.open[k], n)
  BY <1>1 DEF IsState
<1>8. \A k \in 1 .. Len(os) : IsFrame(os[k], n)
  BY <1>1, <1>4, <1>7
<1>9. IsState(p)
  BY <1>1, <1>3, <1>6, <1>8 DEF IsState
<1>10. Top(d).self \in 1 .. n
  BY <1>1, <1>7 DEF Top, IsFrame
<1>11. Closed(d) = Returned(p, Top(d).self)
  BY Zenon DEF Closed, Popped
<1> QED  BY <1>1, <1>4, <1>6, <1>9, <1>10, <1>11 DEF SameFrames

(* An error is the last thing that happens.                                *)
LEMMA ErrorIsError ==
  ASSUME NEW d, IsDoc(d), NEW place, NEW why, why # NoText, NEW r, r = SetError(d, place, why)
  PROVE  r.err # NoText
BY DEF SetError, IsDoc

LEMMA Errors ==
  ASSUME NEW l
  PROVE  /\ \A why \in {"unclosed_string", "fraction", "integer_range", "number_expected", "too_deep",
                        "value_expected", "string_expected", "colon_expected",
                        "comma_or_end_expected", "trailing_text"} : why # NoText
         /\ NotANumber(l) # NoText
<1>1. \A why \in {"unclosed_string", "fraction", "integer_range", "number_expected", "too_deep",
                  "value_expected", "string_expected", "colon_expected",
                  "comma_or_end_expected", "trailing_text"} : why # NoText
  BY Zenon DEF NoText
<1>2. NotANumber(l) \in {"fraction", "integer_range", "number_expected"}
  BY DEF NotANumber
<1> QED  BY <1>1, <1>2

(* The lexeme moves the innermost call on, and adds no node.               *)
MovedTo(d, r, w, key) ==
  /\ r.nodes = d.nodes /\ r.want = w
  /\ Len(r.open) = Len(d.open) /\ SameFrames(d.open, r.open, Len(d.open) - 1)
  /\ Top(r).self = Top(d).self /\ Top(r).prev = Top(d).prev /\ Top(r).close = Top(d).close
  /\ Top(r).key = key

LEMMA WantMoves ==
  ASSUME NEW d, IsState(d), Len(d.open) > 0, NEW w, NEW r, r = [d EXCEPT !.want = w]
  PROVE  IsState(r) /\ r.err = d.err /\ MovedTo(d, r, w, Top(d).key)
<1>1. IsDoc(r) /\ r.nodes = d.nodes /\ r.err = d.err /\ r.open = d.open /\ r.want = w
  BY DEF IsState, IsDoc
<1>2. IsState(r)
  BY <1>1 DEF IsState
<1> QED  BY <1>1, <1>2, Zenon DEF MovedTo, SameFrames, Top

LEMMA KeyMoves ==
  ASSUME NEW d, IsState(d), Len(d.open) > 0, NEW key,
         NEW r, r = [d EXCEPT !.open[Len(d.open)].key = key, !.want = "colon"]
  PROVE  IsState(r) /\ r.err = d.err /\ MovedTo(d, r, "colon", key)
<1>1. PICK n, e : n = Len(d.nodes) /\ e = Len(d.open) /\ n \in Nat /\ e \in Nat /\ e > 0 /\ IsList(d.open)
  BY DEF IsState, IsNodes, IsList
<1>2. PICK f : f = d.open[e] /\ f = Top(d) /\ IsFrame(f, n)
  BY <1>1 DEF IsState, Top
<1>3. PICK x : x = [f EXCEPT !.key = key]
  OBVIOUS
<1>4. /\ IsFrame(x, n) /\ x.self = f.self /\ x.prev = f.prev /\ x.close = f.close /\ x.key = key
  BY <1>2, <1>3 DEF IsFrame
<1>5. PICK os : Replaced(d.open, e, x, os)
  BY DEF Replaced
<1>6. IsList(os) /\ IsChanged(d.open, e, x, os)
  <2>1. e \in 1 .. Len(d.open)
    BY <1>1
  <2> QED  BY <1>1, <1>5, <2>1, ExceptIsList, Zenon
<1>7. Len(os) = e /\ os[e] = x /\ \A k \in 1 .. e - 1 : os[k] = d.open[k]
  BY <1>1, <1>6 DEF IsChanged
<1>8. r = [[d EXCEPT !.open = os] EXCEPT !.want = "colon"]
  BY <1>1, <1>2, <1>3, <1>5 DEF Replaced
<1>9. IsDoc(r) /\ r.nodes = d.nodes /\ r.err = d.err /\ r.open = os /\ r.want = "colon"
  BY <1>8 DEF IsState, IsDoc
<1>10. \A k \in 1 .. e : IsFrame(os[k], n)
  <2>1. \A k \in 1 .. e : IsFrame(d.open[k], n)
    BY <1>1 DEF IsState
  <2> QED  BY <1>1, <1>4, <1>7, <2>1
<1>11. IsState(r)
  BY <1>1, <1>6, <1>7, <1>9, <1>10 DEF IsState
<1>12. Top(r) = x
  BY <1>7, <1>9 DEF Top
<1> QED  BY <1>1, <1>2, <1>4, <1>7, <1>9, <1>11, <1>12 DEF MovedTo, SameFrames

(* A value comes next.                                                     *)
Awaits(d) ==
  \/ d.want = "value"
  \/ d.want \in {"first", "kid"} /\ Top(d).close = "rbracket"

Goes(d) == IsReader(d) /\ d.err = NoText

LEMMA StepBlank ==
  ASSUME NEW text, NEW d, Goes(d), NEW i \in 1 .. Len(text), text[i].lex = "ws",
         d.want = "value" => Len(d.open) <= MAX_DEPTH, Len(d.open) \in Nat
  PROVE  ReadLexeme(text, d, i) = d
<1>1. At(text, i) = "ws"
  BY DEF At
<1>2. ~(Len(d.open) > MAX_DEPTH) \/ d.want # "value"
  BY JsonAssumption
<1> QED  BY <1>1, <1>2 DEF Goes, ReadLexeme, Value

LEMMA StepAwaits ==
  ASSUME NEW text, NEW d, Goes(d), Awaits(d), NEW i,
         \/ At(text, i) \notin {"ws", "rbracket", "rbrace"}
         \/ d.want = "value"
  PROVE  ReadLexeme(text, d, i) = Value(text, d, i)
<1>1. CASE d.want = "value"
  BY <1>1 DEF Goes, ReadLexeme
<1>2. CASE d.want = "first"
  <2>1. Top(d).close = "rbracket" /\ At(text, i) # Top(d).close /\ At(text, i) # "ws"
    BY <1>2 DEF Awaits
  <2> QED  BY <1>2, <2>1 DEF Goes, ReadLexeme, Kid
<1>3. CASE d.want = "kid"
  <2>1. Top(d).close = "rbracket" /\ At(text, i) # "ws"
    BY <1>3 DEF Awaits
  <2> QED  BY <1>3, <2>1 DEF Goes, ReadLexeme, Kid
<1> QED  BY <1>1, <1>2, <1>3 DEF Awaits

(* The document behind a scalar.                                           *)
WithScalar(d, r, kind, val, str) ==
  \E g : /\ IsState(g) /\ g.err = d.err /\ g.open = d.open
         /\ Grew(d.nodes, g.nodes, kind, val, str)
         /\ IsReader(r) /\ r.err = d.err /\ Back(g, r, Len(d.nodes) + 1)

LEMMA ScalarReturns ==
  ASSUME NEW d, IsState(d), NEW kind, NEW val, NEW str,
         NEW r, r = Returned(Grown(d, kind, val, str), Len(d.nodes) + 1)
  PROVE  WithScalar(d, r, kind, val, str)
<1>1. PICK g : g = Grown(d, kind, val, str)
  OBVIOUS
<1>2. /\ IsState(g) /\ g.err = d.err /\ g.open = d.open
      /\ Grew(d.nodes, g.nodes, kind, val, str)
  BY <1>1, GrownGrows
<1>3. PICK v : v = Len(d.nodes) + 1
  OBVIOUS
<1>4. v \in 1 .. Len(g.nodes)
  BY <1>2, <1>3 DEF Grew, IsState, IsNodes, IsList
<1>5. IsReader(r) /\ r.err = g.err /\ Back(g, r, v)
  BY <1>1, <1>2, <1>3, <1>4, ReturnedReturns
<1> QED  BY <1>2, <1>3, <1>5, Zenon DEF WithScalar

LEMMA StepScalar ==
  ASSUME NEW text, NEW d, Goes(d), Awaits(d), Len(d.open) <= MAX_DEPTH, Len(d.open) \in Nat,
         NEW i \in 1 .. Len(text), NEW t \in ScalarTrees(text[i])
  PROVE  \E kind, val, str : t = Tree(kind, val, str, <<>>) /\ WithScalar(d, ReadLexeme(text, d, i), kind, val, str)
<1>1. PICK l : l = text[i]
  OBVIOUS
<1>2. \E kind, val, str : /\ l.lex \in {"str", "int", "true", "false", "null"} /\ t = Tree(kind, val, str, <<>>)
                          /\ \/ l.lex = "str" /\ kind = "string" /\ val = 0 /\ str = l.text
                             \/ l.lex = "int" /\ kind = "int" /\ val = l.num /\ str = NoText
                             \/ l.lex = "true" /\ kind = "bool" /\ val = 1 /\ str = NoText
                             \/ l.lex = "false" /\ kind = "bool" /\ val = 0 /\ str = NoText
                             \/ l.lex = "null" /\ kind = "null" /\ val = 0 /\ str = NoText
  <2>1. t \in ScalarTrees(l)
    BY <1>1
  <2>2. CASE l.lex = "str"
    <3>1. t = Tree("string", 0, l.text, <<>>)
      BY <2>1, <2>2 DEF ScalarTrees
    <3> QED  BY <2>2, <3>1
  <2>3. CASE l.lex = "int"
    <3>1. t = Tree("int", l.num, NoText, <<>>)
      BY <2>1, <2>3 DEF ScalarTrees
    <3> QED  BY <2>3, <3>1
  <2>4. CASE l.lex = "true"
    <3>1. t = Tree("bool", 1, NoText, <<>>)
      BY <2>1, <2>4 DEF ScalarTrees
    <3> QED  BY <2>4, <3>1
  <2>5. CASE l.lex = "false"
    <3>1. t = Tree("bool", 0, NoText, <<>>)
      BY <2>1, <2>5 DEF ScalarTrees
    <3> QED  BY <2>5, <3>1
  <2>6. CASE l.lex = "null"
    <3>1. t = Tree("null", 0, NoText, <<>>)
      BY <2>1, <2>6 DEF ScalarTrees
    <3> QED  BY <2>6, <3>1
  <2>7. l.lex \in {"str", "int", "true", "false", "null"}
    BY <2>1 DEF ScalarTrees
  <2> QED  BY <2>2, <2>3, <2>4, <2>5, <2>6, <2>7
<1>3. PICK kind, val, str : /\ l.lex \in {"str", "int", "true", "false", "null"} /\ t = Tree(kind, val, str, <<>>)
                          /\ \/ l.lex = "str" /\ kind = "string" /\ val = 0 /\ str = l.text
                             \/ l.lex = "int" /\ kind = "int" /\ val = l.num /\ str = NoText
                             \/ l.lex = "true" /\ kind = "bool" /\ val = 1 /\ str = NoText
                             \/ l.lex = "false" /\ kind = "bool" /\ val = 0 /\ str = NoText
                             \/ l.lex = "null" /\ kind = "null" /\ val = 0 /\ str = NoText
  BY <1>2
<1>4. At(text, i) = l.lex
  BY <1>1 DEF At
<1>5. ~(Len(d.open) > MAX_DEPTH)
  BY JsonAssumption
<1>6. ReadLexeme(text, d, i) = Value(text, d, i)
  <2>1. At(text, i) \notin {"ws", "rbracket", "rbrace"}
    BY <1>3, <1>4
  <2> QED  BY <2>1, StepAwaits
<1>7. Value(text, d, i) = Returned(Grown(d, kind, val, str), Len(d.nodes) + 1)
  BY <1>1, <1>3, <1>4, <1>5 DEF Value
<1>8. WithScalar(d, ReadLexeme(text, d, i), kind, val, str)
  BY <1>6, <1>7, ScalarReturns DEF Goes, IsReader, IsState
<1> QED  BY <1>3, <1>8, Zenon

LEMMA StepOpens ==
  ASSUME NEW text, NEW d, Goes(d), Awaits(d), Len(d.open) <= MAX_DEPTH, Len(d.open) \in Nat,
         NEW i \in 1 .. Len(text), NEW type \in {"array", "object"}, text[i].lex = Open(type)
  PROVE  Goes(ReadLexeme(text, d, i)) /\ OpenedAt(d, ReadLexeme(text, d, i), type, Close(type))
<1>1. At(text, i) = Open(type) /\ Open(type) \in {"lbracket", "lbrace"}
  BY DEF At, Open
<1>2. ~(Len(d.open) > MAX_DEPTH)
  BY JsonAssumption
<1>3. ReadLexeme(text, d, i) = Value(text, d, i)
  BY <1>1, StepAwaits
<1>4. Value(text, d, i) = Opened(d, type, Close(type))
  BY <1>1, <1>2 DEF Value, Open, Close
<1>5. Close(type) \in {"rbracket", "rbrace"} /\ IsState(d)
  BY DEF Close, Goes, IsReader, IsState
<1>6. PICK r : r = ReadLexeme(text, d, i) /\ r = Opened(d, type, Close(type))
  BY <1>3, <1>4
<1>7. IsReader(r) /\ r.err = d.err /\ OpenedAt(d, r, type, Close(type))
  BY <1>5, <1>6, OpenedOpens
<1> QED  BY <1>6, <1>7 DEF Goes

ClosedAt(d, r) ==
  \E p : /\ IsState(p) /\ p.nodes = d.nodes
         /\ Len(p.open) = Len(d.open) - 1 /\ SameFrames(d.open, p.open, Len(p.open))
         /\ Back(p, r, Top(d).self)

LEMMA StepCloses ==
  ASSUME NEW text, NEW d, Goes(d), d.want \in {"first", "next"},
         NEW i \in 1 .. Len(text), text[i].lex = Top(d).close
  PROVE  Goes(ReadLexeme(text, d, i)) /\ ClosedAt(d, ReadLexeme(text, d, i))
<1>1. IsState(d) /\ Len(d.open) > 0 /\ d.err = NoText
  BY DEF Goes, IsReader, IsState, Stands
<1>2. At(text, i) = Top(d).close /\ At(text, i) \in {"rbracket", "rbrace"}
  BY <1>1 DEF At, Top, IsState, IsList, IsFrame
<1>3. ReadLexeme(text, d, i) = Closed(d)
  BY <1>1, <1>2 DEF ReadLexeme
<1>4. PICK p : p = Popped(d)
  OBVIOUS
<1>5. /\ IsState(p) /\ p.err = d.err /\ p.nodes = d.nodes
      /\ Len(p.open) = Len(d.open) - 1 /\ SameFrames(d.open, p.open, Len(p.open))
      /\ Top(d).self \in 1 .. Len(d.nodes)
      /\ Closed(d) = Returned(p, Top(d).self)
  BY <1>1, <1>4, PoppedPops
<1>6. PICK r, v : r = ReadLexeme(text, d, i) /\ v = Top(d).self /\ r = Returned(p, v)
  BY <1>3, <1>5
<1>7. IsReader(r) /\ r.err = p.err /\ Back(p, r, v)
  BY <1>5, <1>6, ReturnedReturns
<1> QED  BY <1>1, <1>5, <1>6, <1>7, Zenon DEF Goes, ClosedAt

LEMMA StepKeys ==
  ASSUME NEW text, NEW d, Goes(d), d.want \in {"first", "kid"}, Top(d).close = "rbrace",
         NEW i \in 1 .. Len(text), text[i].lex = "str"
  PROVE  Goes(ReadLexeme(text, d, i)) /\ MovedTo(d, ReadLexeme(text, d, i), "colon", text[i].text)
<1>1. IsState(d) /\ Len(d.open) > 0 /\ d.err = NoText
  BY DEF Goes, IsReader, IsState, Stands
<1>2. At(text, i) = "str"
  BY DEF At
<1>3. ReadLexeme(text, d, i) = Kid(text, d, i)
  BY <1>1, <1>2 DEF ReadLexeme
<1>4. PICK r, k : r = ReadLexeme(text, d, i) /\ k = text[i].text
  OBVIOUS
<1>5. r = [d EXCEPT !.open[Len(d.open)].key = k, !.want = "colon"]
  BY <1>2, <1>3, <1>4 DEF Kid
<1>6. IsState(r) /\ r.err = d.err /\ MovedTo(d, r, "colon", k)
  BY <1>1, <1>5, KeyMoves, Zenon
<1>7. Stands(r)
  BY <1>1, <1>6 DEF Stands, MovedTo
<1>8. IsReader(r)
  BY <1>6, <1>7 DEF IsReader, IsState
<1> QED  BY <1>1, <1>4, <1>6, <1>8, Zenon DEF Goes

LEMMA StepColon ==
  ASSUME NEW text, NEW d, Goes(d), d.want = "colon",
         NEW i \in 1 .. Len(text), text[i].lex = "colon"
  PROVE  Goes(ReadLexeme(text, d, i)) /\ MovedTo(d, ReadLexeme(text, d, i), "value", Top(d).key)
<1>1. IsState(d) /\ Len(d.open) > 0 /\ d.err = NoText /\ Top(d).close = "rbrace"
  BY DEF Goes, IsReader, IsState, Stands
<1>2. PICK r : r = ReadLexeme(text, d, i) /\ r = [d EXCEPT !.want = "value"]
  <2>1. At(text, i) = "colon"
    BY DEF At
  <2>2. ReadLexeme(text, d, i) = [d EXCEPT !.want = "value"]
    BY <1>1, <2>1 DEF ReadLexeme
  <2> QED  BY <2>2
<1>3. IsState(r) /\ r.err = d.err /\ MovedTo(d, r, "value", Top(d).key)
  <2>1. PICK w : w = "value" /\ r = [d EXCEPT !.want = w]
    BY <1>2
  <2>2. IsState(r) /\ r.err = d.err /\ MovedTo(d, r, w, Top(d).key)
    BY <1>1, <2>1, WantMoves
  <2> QED  BY <2>1, <2>2, Zenon
<1>4. Stands(r)
  BY <1>1, <1>3 DEF Stands, MovedTo
<1>5. IsReader(r)
  BY <1>3, <1>4 DEF IsReader, IsState
<1> QED  BY <1>1, <1>2, <1>3, <1>5, Zenon DEF Goes

LEMMA StepComma ==
  ASSUME NEW text, NEW d, Goes(d), d.want = "next",
         NEW i \in 1 .. Len(text), text[i].lex = "comma"
  PROVE  Goes(ReadLexeme(text, d, i)) /\ MovedTo(d, ReadLexeme(text, d, i), "kid", Top(d).key)
<1>1. IsState(d) /\ Len(d.open) > 0 /\ d.err = NoText
  BY DEF Goes, IsReader, IsState, Stands
<1>2. PICK r : r = ReadLexeme(text, d, i) /\ r = [d EXCEPT !.want = "kid"]
  <2>1. At(text, i) = "comma"
    BY DEF At
  <2>2. ReadLexeme(text, d, i) = [d EXCEPT !.want = "kid"]
    BY <1>1, <2>1 DEF ReadLexeme
  <2> QED  BY <2>2
<1>3. IsState(r) /\ r.err = d.err /\ MovedTo(d, r, "kid", Top(d).key)
  <2>1. PICK w : w = "kid" /\ r = [d EXCEPT !.want = w]
    BY <1>2
  <2>2. IsState(r) /\ r.err = d.err /\ MovedTo(d, r, w, Top(d).key)
    BY <1>1, <2>1, WantMoves
  <2> QED  BY <2>1, <2>2, Zenon
<1>4. Stands(r)
  BY <1>1, <1>3 DEF Stands, MovedTo
<1>5. IsReader(r)
  BY <1>3, <1>4 DEF IsReader, IsState
<1> QED  BY <1>1, <1>2, <1>3, <1>5, Zenon DEF Goes

(* Every other lexeme is an error.                                         *)
ValueCases(text, d, i) ==
  /\ Len(d.open) <= MAX_DEPTH
  /\ \/ At(text, i) = "ws"
     \/ At(text, i) \in {"str", "int", "true", "false", "null"}
     \/ \E type \in {"array", "object"} : At(text, i) = Open(type)

LEMMA ValueGoes ==
  ASSUME NEW text, NEW d, Goes(d), Len(d.open) \in Nat, NEW i, Value(text, d, i).err = NoText
  PROVE  ValueCases(text, d, i)
<1>0. IsDoc(d)
  BY DEF Goes, IsReader, IsState
<1>1. Len(d.open) <= MAX_DEPTH
  <2> SUFFICES ASSUME ~(Len(d.open) <= MAX_DEPTH) PROVE FALSE
    OBVIOUS
  <2>1. Len(d.open) > MAX_DEPTH
    BY JsonAssumption
  <2>2. Value(text, d, i) = SetError(d, i, "too_deep")
    BY <2>1 DEF Value
  <2> QED  BY <1>0, <2>2, Errors, ErrorIsError
<1>2. PICK l : l = At(text, i)
  OBVIOUS
<1>3. ~(Len(d.open) > MAX_DEPTH)
  BY <1>1, JsonAssumption
<1>4. l # "end"
  <2> SUFFICES ASSUME l = "end" PROVE FALSE
    OBVIOUS
  <2>1. Value(text, d, i) = SetError(d, i, "value_expected")
    BY <1>2, <1>3 DEF Value
  <2> QED  BY <1>0, <2>1, Errors, ErrorIsError
<1>5. l # "open"
  <2> SUFFICES ASSUME l = "open" PROVE FALSE
    OBVIOUS
  <2>1. Value(text, d, i) = SetError(d, Len(text) + 1, "unclosed_string")
    BY <1>2, <1>3 DEF Value, Unclosed
  <2> QED  BY <1>0, <2>1, Errors, ErrorIsError
<1>6. l \in {"ws", "str", "int", "true", "false", "null", "lbrace", "lbracket"}
  <2> SUFFICES ASSUME l \notin {"ws", "str", "int", "true", "false", "null", "lbrace", "lbracket"} PROVE FALSE
    OBVIOUS
  <2>1. Value(text, d, i) = SetError(d, i, NotANumber(l))
    BY <1>2, <1>3, <1>4, <1>5 DEF Value
  <2> QED  BY <1>0, <2>1, Errors, ErrorIsError
<1>7. l \in {"lbrace", "lbracket"} => \E type \in {"array", "object"} : l = Open(type)
  <2>1. Open("array") = "lbracket" /\ Open("object") = "lbrace"
    BY DEF Open
  <2> QED  BY <2>1
<1> QED  BY <1>1, <1>2, <1>6, <1>7 DEF ValueCases

LEMMA ScalarLexemes ==
  ASSUME NEW l, l.lex \in {"str", "int", "true", "false", "null"}
  PROVE  \E t : t \in ScalarTrees(l)
<1>1. CASE l.lex = "str"
  <2>1. ScalarTrees(l) = {Tree("string", 0, l.text, <<>>)}
    BY <1>1 DEF ScalarTrees
  <2> QED  BY <2>1, Zenon
<1>2. CASE l.lex = "int"
  <2>1. ScalarTrees(l) = {Tree("int", l.num, NoText, <<>>)}
    BY <1>2 DEF ScalarTrees
  <2> QED  BY <2>1, Zenon
<1>3. CASE l.lex = "true"
  <2>1. ScalarTrees(l) = {Tree("bool", 1, NoText, <<>>)}
    BY <1>3 DEF ScalarTrees
  <2> QED  BY <2>1, Zenon
<1>4. CASE l.lex = "false"
  <2>1. ScalarTrees(l) = {Tree("bool", 0, NoText, <<>>)}
    BY <1>4 DEF ScalarTrees
  <2> QED  BY <2>1, Zenon
<1>5. CASE l.lex = "null"
  <2>1. ScalarTrees(l) = {Tree("null", 0, NoText, <<>>)}
    BY <1>5 DEF ScalarTrees
  <2> QED  BY <2>1, Zenon
<1> QED  BY <1>1, <1>2, <1>3, <1>4, <1>5

(* What the lexeme at the cursor is, when it is no error.                  *)
Blanks(text, d, i)  == text[i].lex = "ws" /\ (d.want = "value" => Len(d.open) <= MAX_DEPTH)
Scalars(text, d, i) == Awaits(d) /\ Len(d.open) <= MAX_DEPTH /\ \E t : t \in ScalarTrees(text[i])
Opens(text, d, i)   ==
  Awaits(d) /\ Len(d.open) <= MAX_DEPTH /\ \E type \in {"array", "object"} : text[i].lex = Open(type)
Closes(text, d, i)  == d.want \in {"first", "next"} /\ text[i].lex = Top(d).close
Keys(text, d, i)    == d.want \in {"first", "kid"} /\ Top(d).close = "rbrace" /\ text[i].lex = "str"
Colons(text, d, i)  == d.want = "colon" /\ text[i].lex = "colon"
Commas(text, d, i)  == d.want = "next" /\ text[i].lex = "comma"

LEMMA ValueKinds ==
  ASSUME NEW text, NEW d, Awaits(d), NEW i \in 1 .. Len(text), ValueCases(text, d, i)
  PROVE  Blanks(text, d, i) \/ Scalars(text, d, i) \/ Opens(text, d, i)
<1>1. At(text, i) = text[i].lex
  BY DEF At
<1>2. CASE At(text, i) = "ws"
  BY <1>1, <1>2 DEF ValueCases, Blanks
<1>3. CASE At(text, i) \in {"str", "int", "true", "false", "null"}
  <2>1. PICK l : l = text[i] /\ l.lex \in {"str", "int", "true", "false", "null"}
    BY <1>1, <1>3
  <2>2. \E t : t \in ScalarTrees(l)
    BY <2>1, ScalarLexemes
  <2> QED  BY <2>1, <2>2, Zenon DEF ValueCases, Scalars
<1>4. CASE \E type \in {"array", "object"} : At(text, i) = Open(type)
  BY <1>1, <1>4 DEF ValueCases, Opens
<1> QED  BY <1>2, <1>3, <1>4, Zenon DEF ValueCases

StepKinds(text, d, i) ==
  \/ Blanks(text, d, i) \/ Scalars(text, d, i) \/ Opens(text, d, i) \/ Closes(text, d, i)
  \/ Keys(text, d, i) \/ Colons(text, d, i) \/ Commas(text, d, i)

LEMMA KidGoes ==
  ASSUME NEW text, NEW d, Goes(d), d.want \in {"first", "kid"}, NEW i, Kid(text, d, i).err = NoText
  PROVE  \/ Top(d).close = "rbracket" /\ ValueCases(text, d, i)
         \/ Top(d).close = "rbrace" /\ At(text, i) = "str"
<1>1. IsDoc(d) /\ Top(d).close \in {"rbracket", "rbrace"} /\ Len(d.open) \in Nat
  BY DEF Goes, IsReader, Stands, Top, IsFrame, IsList
<1>2. CASE Top(d).close = "rbracket"
  <2>1. Kid(text, d, i) = Value(text, d, i)
    BY <1>2 DEF Kid
  <2> QED  BY <1>1, <1>2, <2>1, ValueGoes
<1>3. CASE Top(d).close = "rbrace"
  <2>1. CASE At(text, i) = "open"
    <3>1. Kid(text, d, i) = SetError(d, Len(text) + 1, "unclosed_string")
      BY <1>3, <2>1 DEF Kid, Unclosed
    <3> QED  BY <1>1, <3>1, Errors, ErrorIsError
  <2>2. CASE At(text, i) \notin {"str", "open"}
    <3>1. Kid(text, d, i) = SetError(d, i, "string_expected")
      BY <1>3, <2>2 DEF Kid
    <3> QED  BY <1>1, <3>1, Errors, ErrorIsError
  <2> QED  BY <1>3, <2>1, <2>2
<1> QED  BY <1>1, <1>2, <1>3

LEMMA StepCases ==
  ASSUME NEW text, NEW d, Goes(d), NEW i \in 1 .. Len(text), text[i].lex # "end",
         ReadLexeme(text, d, i).err = NoText
  PROVE  StepKinds(text, d, i)
<1>1. At(text, i) = text[i].lex
  BY DEF At
<1>2. IsDoc(d) /\ d.err = NoText /\ Len(d.open) \in Nat
  BY DEF Goes, IsReader, IsList
<1>3. d.want \in {"value", "first", "kid", "colon", "next", "nothing"}
  BY DEF Goes, IsReader, Stands
<1>4. CASE d.want = "value"
  <2>1. ReadLexeme(text, d, i) = Value(text, d, i)
    BY <1>2, <1>4 DEF ReadLexeme
  <2>2. ValueCases(text, d, i)
    BY <1>2, <2>1, ValueGoes
  <2> QED  BY <1>4, <2>2, ValueKinds DEF Awaits, StepKinds
<1>5. CASE d.want # "value" /\ At(text, i) = "ws"
  BY <1>1, <1>5, Zenon DEF StepKinds, Blanks
<1>6. CASE d.want = "first" /\ At(text, i) # "ws"
  <2>1. CASE At(text, i) = Top(d).close
    BY <1>1, <1>6, <2>1 DEF StepKinds, Closes
  <2>2. CASE At(text, i) # Top(d).close
    <3>1. ReadLexeme(text, d, i) = Kid(text, d, i)
      BY <1>2, <1>6, <2>2 DEF ReadLexeme
    <3>2. CASE Top(d).close = "rbracket" /\ ValueCases(text, d, i)
      BY <1>6, <3>2, ValueKinds DEF Awaits, StepKinds
    <3>3. CASE Top(d).close = "rbrace" /\ At(text, i) = "str"
      BY <1>1, <1>6, <3>3 DEF StepKinds, Keys
    <3> QED  BY <1>6, <3>1, <3>2, <3>3, KidGoes
  <2> QED  BY <2>1, <2>2
<1>7. CASE d.want = "kid" /\ At(text, i) # "ws"
  <2>1. ReadLexeme(text, d, i) = Kid(text, d, i)
    BY <1>2, <1>7 DEF ReadLexeme
  <2>2. CASE Top(d).close = "rbracket" /\ ValueCases(text, d, i)
    BY <1>7, <2>2, ValueKinds DEF Awaits, StepKinds
  <2>3. CASE Top(d).close = "rbrace" /\ At(text, i) = "str"
    BY <1>1, <1>7, <2>3 DEF StepKinds, Keys
  <2> QED  BY <1>7, <2>1, <2>2, <2>3, KidGoes
<1>8. CASE d.want = "colon" /\ At(text, i) # "ws"
  <2>1. CASE At(text, i) = "colon"
    BY <1>1, <1>8, <2>1, Zenon DEF StepKinds, Colons
  <2>2. CASE At(text, i) # "colon"
    <3>1. ReadLexeme(text, d, i) = SetError(d, i, "colon_expected")
      BY <1>2, <1>8, <2>2 DEF ReadLexeme
    <3> QED  BY <1>2, <3>1, Errors, ErrorIsError
  <2> QED  BY <2>1, <2>2
<1>9. CASE d.want = "next" /\ At(text, i) # "ws"
  <2>1. CASE At(text, i) = "comma"
    BY <1>1, <1>9, <2>1, Zenon DEF StepKinds, Commas
  <2>2. CASE At(text, i) = Top(d).close
    BY <1>1, <1>9, <2>2 DEF StepKinds, Closes
  <2>3. CASE At(text, i) # "comma" /\ At(text, i) # Top(d).close
    <3>1. ReadLexeme(text, d, i) = SetError(d, i, "comma_or_end_expected")
      BY <1>2, <1>9, <2>3 DEF ReadLexeme
    <3> QED  BY <1>2, <3>1, Errors, ErrorIsError
  <2> QED  BY <2>1, <2>2, <2>3
<1>10. CASE d.want = "nothing" /\ At(text, i) # "ws"
  <2>1. At(text, i) # "end"
    BY <1>1
  <2>2. ReadLexeme(text, d, i) = SetError(d, i, "trailing_text")
    BY <1>2, <1>10, <2>1 DEF ReadLexeme
  <2> QED  BY <1>2, <2>2, Errors, ErrorIsError
<1> QED  BY <1>3, <1>4, <1>5, <1>6, <1>7, <1>8, <1>9, <1>10

(* Behind the text the reader is done with it, or refuses it.              *)
LEMMA StepEnd ==
  ASSUME NEW text, Len(text) \in Nat, NEW d, Goes(d), NEW i, i = Len(text) + 1
  PROVE  /\ d.want = "nothing" => ReadLexeme(text, d, i) = d
         /\ d.want # "nothing" => ReadLexeme(text, d, i).err # NoText
<1>1. At(text, i) = "end"
  BY DEF At
<1>2. IsDoc(d) /\ d.err = NoText /\ Len(d.open) \in Nat
  BY DEF Goes, IsReader, IsList
<1>3. d.want \in {"value", "first", "kid", "colon", "next", "nothing"}
  BY DEF Goes, IsReader, Stands
<1>4. Top(d).close # "end" \/ d.want \in {"value", "nothing"}
  BY <1>2 DEF Goes, IsReader, Stands, Top, IsFrame
<1>5. ~ ValueCases(text, d, i)
  BY <1>1 DEF ValueCases, Open
<1>6. CASE d.want = "nothing"
  BY <1>1, <1>2, <1>6 DEF ReadLexeme
<1>7. CASE d.want = "value"
  <2>1. ReadLexeme(text, d, i) = Value(text, d, i)
    BY <1>2, <1>7 DEF ReadLexeme
  <2> QED  BY <1>2, <1>5, <1>7, <2>1, ValueGoes
<1>8. CASE d.want \in {"first", "kid"}
  <2>1. ReadLexeme(text, d, i) = Kid(text, d, i)
    BY <1>1, <1>2, <1>4, <1>8 DEF ReadLexeme
  <2> QED  BY <1>1, <1>5, <1>8, <2>1, KidGoes
<1>9. CASE d.want = "colon"
  <2>1. ReadLexeme(text, d, i) = SetError(d, i, "colon_expected")
    BY <1>1, <1>2, <1>9 DEF ReadLexeme
  <2> QED  BY <1>2, <1>9, <2>1, Errors, ErrorIsError
<1>10. CASE d.want = "next"
  <2>1. ReadLexeme(text, d, i) = SetError(d, i, "comma_or_end_expected")
    BY <1>1, <1>2, <1>4, <1>10 DEF ReadLexeme
  <2> QED  BY <1>2, <1>10, <2>1, Errors, ErrorIsError
<1> QED  BY <1>3, <1>6, <1>7, <1>8, <1>9, <1>10

----------------------------------------------------------------------------
(* Everything of the grammar is read without an error.                     *)

ReadsOn(text, R) == \A i \in 1 .. Len(text) : R[i] = ReadLexeme(text, R[i - 1], i)

SameShape(d, r) ==
  Len(r.open) = Len(d.open) /\ \A k \in 1 .. Len(d.open) : r.open[k].close = d.open[k].close

(* A value or some members have been read behind d.                        *)
Settled(d, r) ==
  Goes(r) /\ SameShape(d, r) /\ r.want = IF Len(d.open) = 0 THEN "nothing" ELSE "next"

ReadsValue(R, i, j, e) ==
  Goes(R[i - 1]) /\ Awaits(R[i - 1]) /\ Len(R[i - 1].open) = e => Settled(R[i - 1], R[j])

ReadsItems(R, type, i, j, e) ==
  /\ Goes(R[i - 1]) /\ R[i - 1].want \in {"first", "kid"}
  /\ Len(R[i - 1].open) = e /\ Top(R[i - 1]).close = Close(type)
  => Settled(R[i - 1], R[j])

LEMMA ShapeOfShape ==
  ASSUME NEW a, NEW b, NEW c, SameShape(a, b), SameShape(b, c)
  PROVE  SameShape(a, c)
BY DEF SameShape

LEMMA ShapeOfTop ==
  ASSUME NEW d, NEW r, SameShape(d, r), Len(d.open) \in Nat, Len(d.open) > 0
  PROVE  Top(r).close = Top(d).close
<1>1. Len(d.open) \in 1 .. Len(d.open)
  OBVIOUS
<1> QED  BY <1>1 DEF SameShape, Top

LEMMA MovedShape ==
  ASSUME NEW d, NEW r, NEW w, NEW key, MovedTo(d, r, w, key), Len(d.open) \in Nat
  PROVE  SameShape(d, r)
<1> SUFFICES ASSUME NEW k \in 1 .. Len(d.open) PROVE r.open[k].close = d.open[k].close
  BY DEF SameShape, MovedTo
<1>1. CASE k = Len(d.open)
  BY <1>1 DEF MovedTo, Top
<1>2. CASE k # Len(d.open)
  <2>1. k \in 1 .. Len(d.open) - 1
    BY <1>2
  <2> QED  BY <2>1 DEF MovedTo, SameFrames
<1> QED  BY <1>1, <1>2

LEMMA BackSettles ==
  ASSUME NEW d, NEW r, NEW v, Goes(r), Back(d, r, v), Len(d.open) \in Nat
  PROVE  Settled(d, r)
<1>1. CASE Len(d.open) = 0
  BY <1>1 DEF Back, Settled, SameShape
<1>2. CASE Len(d.open) # 0
  <2>1. ASSUME NEW k \in 1 .. Len(d.open) PROVE r.open[k].close = d.open[k].close
    <3>1. CASE k = Len(d.open)
      BY <1>2, <3>1 DEF Back, Top
    <3>2. CASE k # Len(d.open)
      <4>1. k \in 1 .. Len(d.open) - 1
        BY <3>2
      <4> QED  BY <1>2, <4>1 DEF Back, SameFrames
    <3> QED  BY <3>1, <3>2
  <2> QED  BY <1>2, <2>1 DEF Back, Settled, SameShape
<1> QED  BY <1>1, <1>2

(* White space changes nothing.                                            *)
Rests(d) == Goes(d) /\ (d.want = "value" => Len(d.open) <= MAX_DEPTH)

Unmoved(R, i, j) == R[j] = R[i]

LEMMA BlankRun ==
  ASSUME NEW text, Len(text) \in Nat, NEW R, ReadsOn(text, R),
         NEW i \in 0 .. Len(text), NEW j \in i .. Len(text), Rests(R[i]), Blank(text, i + 1, j)
  PROVE  Unmoved(R, i, j)
<1>1. PICK d, n : d = R[i] /\ n = j - i /\ n \in Nat
  OBVIOUS
<1> DEFINE T == {k \in 0 .. n : R[i + k] = d}
<1>2. 0 \in T
  <2>1. i + 0 = i /\ 0 \in 0 .. n
    BY <1>1
  <2> QED  BY <1>1, <2>1, Zenon
<1>3. ASSUME NEW k \in 0 .. n - 1, k \in T PROVE k + 1 \in T
  <2>1. PICK h : h = i + (k + 1) /\ h \in 1 .. Len(text) /\ h - 1 = i + k /\ h \in i + 1 .. j
    BY <1>1
  <2>2. R[h] = ReadLexeme(text, d, h)
    BY <1>3, <2>1 DEF ReadsOn
  <2>3. text[h].lex = "ws"
    BY <2>1 DEF Blank
  <2>4. Len(d.open) \in Nat
    BY <1>1 DEF Rests, Goes, IsReader, IsList
  <2>5. ReadLexeme(text, d, h) = d
    BY <1>1, <2>1, <2>3, <2>4, StepBlank DEF Rests
  <2> QED  BY <1>1, <2>1, <2>2, <2>5
<1>4. \A k \in 0 .. n : k \in T
  <2>1. \A k \in 0 .. n - 1 : k \in T => k + 1 \in T
    BY <1>3
  <2> HIDE DEF T
  <2> QED  BY <1>1, <1>2, <2>1, SetInduction, Zenon
<1>5. n \in 0 .. n /\ i + n = j
  BY <1>1
<1> QED  BY <1>1, <1>4, <1>5 DEF Unmoved

(* One member, read with the values in it.                                 *)
ValuesRead(text, R, S, i, j, e) ==
  \A a \in i .. Len(text) + 1 : \A t \in S[<<"value", a, j, e>>] : ReadsValue(R, a, j, e)

LEMMA MemberReads ==
  ASSUME NEW text, Len(text) \in Nat, NEW R, ReadsOn(text, R), NEW S,
         NEW type \in {"array", "object"},
         NEW i \in 1 .. Len(text) + 1, NEW j \in 0 .. Len(text), NEW e \in 1 .. MAX_DEPTH + 1,
         ValuesRead(text, R, S, i, j, e),
         NEW m \in Member(text, S, type, i, j, e)
  PROVE  ReadsItems(R, type, i, j, e)
<1>1. PICK d : d = R[i - 1]
  OBVIOUS
<1> SUFFICES ASSUME Goes(d), d.want \in {"first", "kid"}, Len(d.open) = e, Top(d).close = Close(type)
             PROVE  Settled(d, R[j])
  BY <1>1 DEF ReadsItems
<1>2. PICK key, t : IsMember(text, S, type, i, j, e, key, t)
  <2>1. SaysMember(text, S, type, i, j, e, m)
    BY MemberRule, Zenon
  <2> QED  BY <2>1, Zenon DEF SaysMember
<1>3. CASE type = "array"
  <2>1. t \in S[<<"value", i, j, e>>]
    BY <1>2, <1>3, Zenon DEF IsMember
  <2>2. ReadsValue(R, i, j, e)
    <3>1. i \in i .. Len(text) + 1
      OBVIOUS
    <3> QED  BY <2>1, <3>1, Zenon DEF ValuesRead
  <2>3. Awaits(d)
    BY <1>3 DEF Awaits, Close
  <2> QED  BY <1>1, <2>2, <2>3 DEF ReadsValue
<1>4. CASE type # "array"
  <2>1. Top(d).close = "rbrace"
    BY <1>4 DEF Close
  <2>2. IsEntry(text, S, i, j, e, key, t)
    BY <1>2, <1>4, Zenon DEF IsMember
  <2>3. PICK c \in i .. j : \E p \in i .. c - 1 :
          /\ text[p].lex = "str" /\ text[c].lex = "colon" /\ key = text[p].text
          /\ Blank(text, i, p - 1) /\ Blank(text, p + 1, c - 1)
          /\ t \in S[<<"value", c + 1, j, e>>]
    BY <2>2, Zenon DEF IsEntry
  <2>4. PICK p \in i .. c - 1 :
          /\ text[p].lex = "str" /\ text[c].lex = "colon"
          /\ Blank(text, i, p - 1) /\ Blank(text, p + 1, c - 1)
          /\ t \in S[<<"value", c + 1, j, e>>]
    BY <2>3, Zenon
  <2>5. R[p - 1] = d
    <3>1. PICK a, b : a = i - 1 /\ b = p - 1 /\ a \in 0 .. Len(text) /\ b \in a .. Len(text) /\ a + 1 = i
      OBVIOUS
    <3>2. R[a] = d /\ Rests(R[a]) /\ Blank(text, a + 1, b)
      BY <1>1, <2>4, <3>1 DEF Rests
    <3>3. Unmoved(R, a, b)
      BY <3>1, <3>2, BlankRun, Zenon
    <3> QED  BY <3>1, <3>2, <3>3 DEF Unmoved
  <2>6. PICK k : k = R[p]
    OBVIOUS
  <2>7. Goes(k) /\ MovedTo(d, k, "colon", text[p].text)
    <3>1. p \in 1 .. Len(text) /\ R[p] = ReadLexeme(text, R[p - 1], p)
      BY DEF ReadsOn
    <3> QED  BY <2>1, <2>4, <2>5, <2>6, <3>1, StepKeys
  <2>8. R[c - 1] = k
    <3>1. PICK b : b = c - 1 /\ p \in 0 .. Len(text) /\ b \in p .. Len(text)
      OBVIOUS
    <3>2. Rests(R[p]) /\ Blank(text, p + 1, b)
      BY <2>4, <2>6, <2>7, <3>1 DEF MovedTo, Rests
    <3>3. Unmoved(R, p, b)
      BY <3>1, <3>2, BlankRun, Zenon
    <3> QED  BY <2>6, <3>1, <3>3 DEF Unmoved
  <2>9. PICK v : v = R[c]
    OBVIOUS
  <2>10. Goes(v) /\ MovedTo(k, v, "value", Top(k).key)
    <3>1. c \in 1 .. Len(text) /\ R[c] = ReadLexeme(text, R[c - 1], c)
      BY DEF ReadsOn
    <3>2. k.want = "colon"
      BY <2>7 DEF MovedTo
    <3> QED  BY <2>4, <2>7, <2>8, <2>9, <3>1, <3>2, StepColon
  <2>11. SameShape(d, v) /\ Len(v.open) = e
    <3>1. Len(d.open) \in Nat
      OBVIOUS
    <3>2. SameShape(d, k)
      BY <2>7, <3>1, MovedShape, Zenon
    <3>3. Len(k.open) = e /\ Len(v.open) = Len(k.open)
      BY <2>10, <3>2, Zenon DEF SameShape, MovedTo
    <3>4. Len(k.open) \in Nat
      BY <3>3
    <3>5. SameShape(k, v)
      BY <2>10, <3>4, MovedShape, Zenon
    <3> QED  BY <3>2, <3>3, <3>5, ShapeOfShape, Zenon
  <2>12. ReadsValue(R, c + 1, j, e)
    <3>1. c + 1 \in i .. Len(text) + 1
      OBVIOUS
    <3> QED  BY <2>4, <3>1, Zenon DEF ValuesRead
  <2>13. Settled(v, R[j])
    <3>1. Awaits(v) /\ (c + 1) - 1 = c
      BY <2>10 DEF MovedTo, Awaits
    <3> QED  BY <2>9, <2>10, <2>11, <2>12, <3>1 DEF ReadsValue
  <2> QED  BY <2>11, <2>13, ShapeOfShape DEF Settled
<1> QED  BY <1>3, <1>4

SpanRead(R, S, i, j, e) ==
  /\ \A t \in S[<<"value", i, j, e>>] : ReadsValue(R, i, j, e)
  /\ \A type \in {"array", "object"} : \A ms \in S[<<type, i, j, e>>] : e > 0 => ReadsItems(R, type, i, j, e)

(* The spans of less than m steps are read.                                *)
ReadBelow(text, R, S, m) ==
  \A i \in 1 .. Len(text) + 1, j \in 0 .. Len(text), e \in 0 .. MAX_DEPTH + 1 :
    j - i < m => SpanRead(R, S, i, j, e)

LEMMA EnclosedReads ==
  ASSUME NEW text, Len(text) \in Nat, NEW R, ReadsOn(text, R), NEW S,
         NEW i \in 1 .. Len(text) + 1, NEW j \in 0 .. Len(text), NEW e \in 0 .. MAX_DEPTH,
         ReadBelow(text, R, S, j - i),
         NEW type \in {"array", "object"}, NEW t, Enclosed(text, S, type, i, j, e, t)
  PROVE  ReadsValue(R, i, j, e)
<1>1. PICK d : d = R[i - 1]
  OBVIOUS
<1> SUFFICES ASSUME Goes(d), Awaits(d), Len(d.open) = e PROVE Settled(d, R[j])
  BY <1>1 DEF ReadsValue
<1>2. /\ i < j /\ text[i].lex = Open(type) /\ text[j].lex = Close(type)
      /\ \/ \E ms \in S[<<type, i + 1, j - 1, e + 1>>] : t = Tree(type, 0, NoText, ms)
         \/ Blank(text, i + 1, j - 1)
  BY DEF Enclosed
<1>3. PICK a, b, h : /\ a = i + 1 /\ b = j - 1 /\ h = e + 1 /\ a - 1 = i
                     /\ i \in 1 .. Len(text) /\ j \in 1 .. Len(text)
                     /\ a \in 1 .. Len(text) + 1 /\ b \in i .. Len(text) /\ h \in 1 .. MAX_DEPTH + 1
                     /\ b - a < j - i /\ h > 0
  <2>1. i < j
    BY <1>2
  <2>2. i \in 1 .. Len(text) /\ j \in 1 .. Len(text) /\ j - 1 \in i .. Len(text)
    BY <2>1
  <2>3. e + 1 \in 1 .. MAX_DEPTH + 1 /\ e + 1 > 0
    BY JsonAssumption
  <2>4. i + 1 \in 1 .. Len(text) + 1 /\ (i + 1) - 1 = i /\ (j - 1) - (i + 1) < j - i
    BY <2>1
  <2> QED  BY <2>2, <2>3, <2>4, Zenon
<1>4. PICK o : o = R[i]
  OBVIOUS
<1>5. Goes(o) /\ OpenedAt(d, o, type, Close(type))
  <2>1. R[i] = ReadLexeme(text, d, i)
    BY <1>1, <1>3 DEF ReadsOn
  <2>2. Len(d.open) <= MAX_DEPTH /\ Len(d.open) \in Nat
    BY JsonAssumption
  <2> QED  BY <1>2, <1>3, <1>4, <2>1, <2>2, StepOpens
<1>6. o.want = "first" /\ Len(o.open) = h /\ Top(o).close = Close(type)
  BY <1>3, <1>5 DEF OpenedAt
<1>7. PICK z : z = R[b]
  OBVIOUS
<1>8. Goes(z) /\ SameShape(o, z) /\ z.want \in {"first", "next"}
  <2>1. CASE \E ms \in S[<<type, a, b, h>>] : t = Tree(type, 0, NoText, ms)
    <3>1. SpanRead(R, S, a, b, h)
      <4>1. b \in 0 .. Len(text) /\ h \in 0 .. MAX_DEPTH + 1
        BY <1>3
      <4> QED  BY <1>3, <4>1, Zenon DEF ReadBelow
    <3>2. PICK ms : ms \in S[<<type, a, b, h>>]
      BY <2>1
    <3>3. h > 0
      BY <1>3
    <3>4. ReadsItems(R, type, a, b, h)
      BY <3>1, <3>2, <3>3, Zenon DEF SpanRead
    <3>5. Settled(o, z)
      BY <1>3, <1>4, <1>5, <1>6, <1>7, <3>4 DEF ReadsItems
    <3> QED  BY <1>3, <1>6, <3>5 DEF Settled
  <2>2. CASE Blank(text, i + 1, b)
    <3>1. Rests(R[i]) /\ i \in 0 .. Len(text)
      BY <1>3, <1>4, <1>5, <1>6 DEF Rests
    <3>2. Unmoved(R, i, b)
      BY <1>3, <2>2, <3>1, BlankRun, Zenon
    <3>3. z = o
      BY <1>4, <1>7, <3>2 DEF Unmoved
    <3> QED  BY <1>5, <1>6, <3>3 DEF SameShape
  <2> QED  BY <1>2, <1>3, <2>1, <2>2
<1>9. Len(z.open) = h /\ Top(z).close = Close(type)
  <2>1. Len(z.open) = h
    BY <1>6, <1>8 DEF SameShape
  <2>2. Top(z).close = Top(o).close
    BY <1>3, <1>6, <1>8, ShapeOfTop
  <2> QED  BY <1>6, <2>1, <2>2
<1>10. PICK r : r = R[j]
  OBVIOUS
<1>11. Goes(r) /\ ClosedAt(z, r)
  <2>1. R[j] = ReadLexeme(text, z, j)
    BY <1>3, <1>7 DEF ReadsOn
  <2> QED  BY <1>2, <1>3, <1>8, <1>9, <1>10, <2>1, StepCloses
<1>12. PICK p : /\ Len(p.open) = Len(z.open) - 1 /\ SameFrames(z.open, p.open, Len(p.open))
                /\ Back(p, r, Top(z).self)
  BY <1>11, Zenon DEF ClosedAt
<1>13. Len(p.open) = e
  BY <1>3, <1>9, <1>12
<1>14. SameShape(d, p)
  <2> SUFFICES ASSUME NEW k \in 1 .. e PROVE p.open[k].close = d.open[k].close
    BY <1>13 DEF SameShape
  <2>1. p.open[k] = z.open[k]
    BY <1>12, <1>13 DEF SameFrames
  <2>2. z.open[k].close = o.open[k].close
    BY <1>3, <1>6, <1>8 DEF SameShape
  <2>3. o.open[k] = d.open[k]
    BY <1>5 DEF OpenedAt, SameFrames
  <2> QED  BY <2>1, <2>2, <2>3
<1>15. Settled(p, r)
  <2>1. Len(p.open) \in Nat
    BY <1>13
  <2> QED  BY <1>11, <1>12, <2>1, BackSettles, Zenon
<1>16. SameShape(d, r) /\ r.want = IF Len(d.open) = 0 THEN "nothing" ELSE "next"
  BY <1>13, <1>14, <1>15, ShapeOfShape DEF Settled
<1> QED  BY <1>10, <1>11, <1>16 DEF Settled

LEMMA ValueReads ==
  ASSUME NEW text, Len(text) \in Nat, NEW R, ReadsOn(text, R), NEW S, IsGrammar(text, S),
         NEW i \in 1 .. Len(text) + 1, NEW j \in 0 .. Len(text), NEW e \in 0 .. MAX_DEPTH + 1,
         ReadBelow(text, R, S, j - i), NEW t \in S[<<"value", i, j, e>>]
  PROVE  ReadsValue(R, i, j, e)
<1>1. SaysValue(text, S, i, j, e, t)
  BY ValueRule, Zenon
<1>2. i \in 1 .. Len(text) /\ j \in 1 .. Len(text) /\ e \in 0 .. MAX_DEPTH /\ i <= j
  <2>1. i <= j /\ e <= MAX_DEPTH
    BY <1>1, Zenon DEF SaysValue
  <2> HIDE <1>1
  <2> QED  BY <2>1, JsonAssumption
<1>3. PICK d : d = R[i - 1]
  OBVIOUS
<1> SUFFICES ASSUME Goes(d), Awaits(d), Len(d.open) = e PROVE Settled(d, R[j])
  BY <1>3 DEF ReadsValue
<1>4. R[i] = ReadLexeme(text, d, i) /\ Len(d.open) \in Nat /\ Len(d.open) <= MAX_DEPTH
  BY <1>2, <1>3, JsonAssumption DEF ReadsOn
<1>5. CASE i = j /\ t \in ScalarTrees(text[i])
  <2>1. PICK kind, val, str : WithScalar(d, R[i], kind, val, str)
    <3>1. \E kind, val, str : t = Tree(kind, val, str, <<>>) /\ WithScalar(d, ReadLexeme(text, d, i), kind, val, str)
      BY <1>2, <1>4, <1>5, StepScalar
    <3> QED  BY <1>4, <3>1, Zenon
  <2>2. PICK g : /\ g.err = d.err /\ g.open = d.open /\ IsReader(R[i]) /\ R[i].err = d.err
                 /\ Back(g, R[i], Len(d.nodes) + 1)
    BY <2>1, Zenon DEF WithScalar
  <2>3. Goes(R[i]) /\ Len(g.open) \in Nat
    BY <1>4, <2>2 DEF Goes
  <2>4. Settled(g, R[i])
    BY <2>2, <2>3, BackSettles, Zenon
  <2> QED  BY <1>5, <2>2, <2>4 DEF Settled, SameShape
<1>6. CASE \E type \in {"array", "object"} : Enclosed(text, S, type, i, j, e, t)
  <2>1. PICK type \in {"array", "object"} : Enclosed(text, S, type, i, j, e, t)
    BY <1>6
  <2>2. ReadsValue(R, i, j, e)
    BY <1>2, <2>1, EnclosedReads, Zenon
  <2> QED  BY <1>3, <2>2 DEF ReadsValue
<1>7. CASE text[i].lex = "ws" /\ t \in S[<<"value", i + 1, j, e>>]
  <2>1. R[i] = d
    <3>1. ReadLexeme(text, d, i) = d
      BY <1>2, <1>4, <1>7, StepBlank, Zenon
    <3> QED  BY <1>4, <3>1
  <2>2. PICK a : a = i + 1 /\ a - 1 = i /\ a \in 1 .. Len(text) + 1 /\ j - a < j - i
    <3>1. i + 1 \in 1 .. Len(text) + 1 /\ (i + 1) - 1 = i /\ j - (i + 1) < j - i
      BY <1>2
    <3> QED  BY <3>1, Zenon
  <2>3. ReadsValue(R, a, j, e)
    <3>1. SpanRead(R, S, a, j, e)
      BY <2>2, Zenon DEF ReadBelow
    <3>2. t \in S[<<"value", a, j, e>>]
      BY <1>7, <2>2
    <3> QED  BY <3>1, <3>2, Zenon DEF SpanRead
  <2> QED  BY <2>1, <2>2, <2>3 DEF ReadsValue
<1>8. CASE text[j].lex = "ws" /\ t \in S[<<"value", i, j - 1, e>>]
  <2>1. PICK b : b = j - 1 /\ b \in 0 .. Len(text) /\ b - i < j - i
    BY <1>2
  <2>2. ReadsValue(R, i, b, e)
    <3>1. SpanRead(R, S, i, b, e)
      BY <2>1, Zenon DEF ReadBelow
    <3>2. t \in S[<<"value", i, b, e>>]
      BY <1>8, <2>1
    <3> QED  BY <3>1, <3>2, Zenon DEF SpanRead
  <2>3. PICK r : r = R[b] /\ Settled(d, r)
    BY <1>3, <2>2 DEF ReadsValue
  <2>4. Goes(r) /\ r.want # "value" /\ Len(r.open) \in Nat
    BY <1>4, <2>3 DEF Settled, SameShape
  <2>5. R[j] = ReadLexeme(text, r, j)
    BY <1>2, <2>1, <2>3 DEF ReadsOn
  <2>6. R[j] = r
    BY <1>2, <1>8, <2>4, <2>5, StepBlank
  <2> QED  BY <2>3, <2>6
<1> QED  BY <1>1, <1>5, <1>6, <1>7, <1>8 DEF SaysValue

(* The values of a span of members are read when the shorter spans are.    *)
LEMMA ValuesAreRead ==
  ASSUME NEW text, Len(text) \in Nat, NEW R, ReadsOn(text, R), NEW S, IsGrammar(text, S),
         NEW i \in 1 .. Len(text) + 1, NEW j \in 0 .. Len(text), NEW e \in 0 .. MAX_DEPTH + 1,
         ReadBelow(text, R, S, j - i)
  PROVE  ValuesRead(text, R, S, i, j, e)
<1> SUFFICES ASSUME NEW a \in i .. Len(text) + 1, NEW t \in S[<<"value", a, j, e>>]
             PROVE  ReadsValue(R, a, j, e)
  BY Zenon DEF ValuesRead
<1>1. a \in 1 .. Len(text) + 1
  OBVIOUS
<1>2. CASE a = i
  <2>1. t \in S[<<"value", i, j, e>>]
    BY <1>2
  <2>2. ReadsValue(R, i, j, e)
    BY <2>1, ValueReads, Zenon
  <2> QED  BY <1>2, <2>2
<1>3. CASE a # i
  <2>1. j - a < j - i
    BY <1>1, <1>3
  <2>2. SpanRead(R, S, a, j, e)
    BY <1>1, <2>1, Zenon DEF ReadBelow
  <2> QED  BY <2>2, Zenon DEF SpanRead
<1> QED  BY <1>2, <1>3

(* A member behind the comma follows the members before it.                *)
LEMMA CommaReads ==
  ASSUME NEW text, NEW R, ReadsOn(text, R), NEW type, NEW i, NEW j, NEW e,
         NEW k \in 1 .. Len(text), text[k].lex = "comma", e \in Nat, e > 0,
         ReadsItems(R, type, i, k - 1, e), ReadsItems(R, type, k + 1, j, e)
  PROVE  ReadsItems(R, type, i, j, e)
<1>1. PICK d, z, o, r : d = R[i - 1] /\ z = R[k - 1] /\ o = R[k] /\ r = R[j]
  OBVIOUS
<1> SUFFICES ASSUME Goes(d), d.want \in {"first", "kid"}, Len(d.open) = e, Top(d).close = Close(type)
             PROVE  Settled(d, r)
  BY <1>1 DEF ReadsItems
<1>2. Settled(d, z)
  BY <1>1 DEF ReadsItems
<1>3. Goes(z) /\ SameShape(d, z) /\ z.want = "next"
  BY <1>2 DEF Settled
<1>4. Len(z.open) = e /\ Top(z).close = Close(type)
  <2>1. Len(z.open) = e
    BY <1>3 DEF SameShape
  <2>2. Top(z).close = Top(d).close
    BY <1>3, ShapeOfTop
  <2> QED  BY <2>1, <2>2
<1>5. Goes(o) /\ MovedTo(z, o, "kid", Top(z).key)
  <2>1. o = ReadLexeme(text, z, k)
    BY <1>1 DEF ReadsOn
  <2> QED  BY <1>3, <2>1, StepComma
<1>6. SameShape(z, o) /\ Len(o.open) = e /\ o.want = "kid" /\ Top(o).close = Close(type)
  <2>1. Len(z.open) \in Nat /\ Len(z.open) > 0
    BY <1>4
  <2>2. SameShape(z, o)
    BY <1>5, <2>1, MovedShape, Zenon
  <2>3. Top(o).close = Top(z).close
    BY <2>1, <2>2, ShapeOfTop
  <2> QED  BY <1>4, <1>5, <2>2, <2>3, Zenon DEF MovedTo
<1>7. Settled(o, r)
  <2>1. R[(k + 1) - 1] = o
    BY <1>1
  <2> QED  BY <1>1, <1>5, <1>6, <2>1 DEF ReadsItems
<1>8. SameShape(d, r)
  <2>1. SameShape(d, o)
    BY <1>3, <1>6, ShapeOfShape, Zenon
  <2>2. SameShape(o, r)
    BY <1>7, Zenon DEF Settled
  <2> QED  BY <2>1, <2>2, ShapeOfShape, Zenon
<1>9. r.want = "next" /\ Goes(r)
  BY <1>6, <1>7 DEF Settled
<1> QED  BY <1>8, <1>9 DEF Settled

(* No members are spelled by nothing.                                      *)
LEMMA MemberSpan ==
  ASSUME NEW text, Len(text) \in Nat, NEW S, IsGrammar(text, S), NEW type \in {"array", "object"},
         NEW i \in 1 .. Len(text) + 1, NEW j \in 0 .. Len(text), NEW e \in 0 .. MAX_DEPTH + 1,
         NEW m \in Member(text, S, type, i, j, e)
  PROVE  i <= j
<1>1. PICK key, t : IsMember(text, S, type, i, j, e, key, t)
  <2>1. SaysMember(text, S, type, i, j, e, m)
    BY MemberRule, Zenon
  <2> QED  BY <2>1, Zenon DEF SaysMember
<1>2. CASE type = "array"
  <2>1. t \in S[<<"value", i, j, e>>]
    BY <1>1, <1>2, Zenon DEF IsMember
  <2>2. SaysValue(text, S, i, j, e, t)
    BY <2>1, ValueRule, Zenon
  <2> QED  BY <2>2, Zenon DEF SaysValue
<1>3. CASE type # "array"
  <2>1. IsEntry(text, S, i, j, e, key, t)
    BY <1>1, <1>3, Zenon DEF IsMember
  <2>2. \E c : c \in i .. j
    BY <2>1, Zenon DEF IsEntry
  <2> QED  BY <2>2
<1> QED  BY <1>2, <1>3

LEMMA MembersRead ==
  ASSUME NEW text, Len(text) \in Nat, NEW R, ReadsOn(text, R), NEW S, IsGrammar(text, S),
         NEW type \in {"array", "object"},
         NEW i \in 1 .. Len(text) + 1, NEW j \in 0 .. Len(text), NEW e \in 1 .. MAX_DEPTH + 1,
         ReadBelow(text, R, S, j - i), NEW ms \in S[<<type, i, j, e>>]
  PROVE  ReadsItems(R, type, i, j, e)
<1>1. e \in 0 .. MAX_DEPTH + 1 /\ e \in Nat /\ e > 0
  BY JsonAssumption
<1>2. SaysMembers(text, S, type, i, j, e, ms)
  BY <1>1, MembersRule, Zenon
<1>3. ValuesRead(text, R, S, i, j, e)
  BY <1>1, ValuesAreRead, Zenon
<1>4. CASE \E m \in Member(text, S, type, i, j, e) : ms = <<m>>
  <2>1. PICK m : m \in Member(text, S, type, i, j, e)
    BY <1>4
  <2> QED  BY <1>3, <2>1, MemberReads, Zenon
<1>5. CASE \E k \in i .. j : \E ns \in S[<<type, i, k - 1, e>>] : \E m \in Member(text, S, type, k + 1, j, e) :
             text[k].lex = "comma" /\ ms = Append(ns, m)
  <2>1. PICK k \in i .. j : \E ns \in S[<<type, i, k - 1, e>>] : \E m \in Member(text, S, type, k + 1, j, e) :
             text[k].lex = "comma"
    BY <1>5
  <2>2. PICK b, a : b = k - 1 /\ a = k + 1
    OBVIOUS
  <2>3. k \in 1 .. Len(text) /\ b \in 0 .. Len(text) /\ b - i < j - i /\ a \in 1 .. Len(text) + 1 /\ a >= i
    BY <2>2
  <2>4. PICK ns \in S[<<type, i, b, e>>] : \E m \in Member(text, S, type, a, j, e) : text[k].lex = "comma"
    BY <2>1, <2>2
  <2>5. PICK m \in Member(text, S, type, a, j, e) : text[k].lex = "comma"
    BY <2>4
  <2>6. ReadsItems(R, type, i, b, e)
    <3>1. SpanRead(R, S, i, b, e)
      BY <1>1, <2>3, Zenon DEF ReadBelow
    <3> QED  BY <1>1, <3>1, Zenon DEF SpanRead
  <2>7. ReadsItems(R, type, a, j, e)
    <3>1. ValuesRead(text, R, S, a, j, e)
      <4>1. \A x \in a .. Len(text) + 1 : x \in i .. Len(text) + 1
        BY <2>3
      <4> QED  BY <1>3, <4>1, Zenon DEF ValuesRead
    <3> QED  BY <2>3, <3>1, MemberReads, Zenon
  <2> QED  BY <1>1, <2>2, <2>3, <2>5, <2>6, <2>7, CommaReads, Zenon
<1> QED  BY <1>2, <1>4, <1>5, Zenon DEF SaysMembers

LEMMA AllRead ==
  ASSUME NEW text, Len(text) \in Nat, NEW R, ReadsOn(text, R), NEW S, IsGrammar(text, S)
  PROVE  ReadBelow(text, R, S, Len(text))
<1> DEFINE n == Len(text)
<1>0. n \in Nat
  OBVIOUS
<1>1. ReadBelow(text, R, S, 0)
  <2> SUFFICES ASSUME NEW i \in 1 .. n + 1, NEW j \in 0 .. n, NEW e \in 0 .. MAX_DEPTH + 1, j - i < 0
               PROVE  SpanRead(R, S, i, j, e)
    BY Zenon DEF ReadBelow
  <2>1. ~(i <= j)
    OBVIOUS
  <2>2. ASSUME NEW t \in S[<<"value", i, j, e>>] PROVE FALSE
    <3>1. SaysValue(text, S, i, j, e, t)
      BY ValueRule, Zenon
    <3> QED  BY <2>1, <3>1, Zenon DEF SaysValue
  <2>3. ASSUME NEW type \in {"array", "object"}, NEW ms \in S[<<type, i, j, e>>] PROVE FALSE
    <3>1. SaysMembers(text, S, type, i, j, e, ms)
      BY MembersRule, Zenon
    <3>2. \A k : k \notin i .. j
      BY <2>1
    <3>3. PICK m : m \in Member(text, S, type, i, j, e)
      BY <3>1, <3>2, Zenon DEF SaysMembers
    <3> QED  BY <2>1, <3>3, MemberSpan, Zenon
  <2> QED  BY <2>2, <2>3, Zenon DEF SpanRead
<1>2. ASSUME NEW m \in 0 .. n - 1, ReadBelow(text, R, S, m) PROVE ReadBelow(text, R, S, m + 1)
  <2> SUFFICES ASSUME NEW i \in 1 .. n + 1, NEW j \in 0 .. n, NEW e \in 0 .. MAX_DEPTH + 1, j - i < m + 1
               PROVE  SpanRead(R, S, i, j, e)
    BY Zenon DEF ReadBelow
  <2>1. CASE j - i < m
    BY <1>2, <2>1, Zenon DEF ReadBelow
  <2>2. CASE ~(j - i < m)
    <3>1. j - i = m
      BY <2>2
    <3>2. ReadBelow(text, R, S, j - i)
      BY <1>2, <3>1
    <3>3. ASSUME NEW t \in S[<<"value", i, j, e>>] PROVE ReadsValue(R, i, j, e)
      BY <3>2, <3>3, ValueReads, Zenon
    <3>4. ASSUME NEW type \in {"array", "object"}, NEW ms \in S[<<type, i, j, e>>], e > 0
          PROVE  ReadsItems(R, type, i, j, e)
      <4>1. e \in 1 .. MAX_DEPTH + 1
        BY <3>4, JsonAssumption
      <4> QED  BY <3>2, <3>4, <4>1, MembersRead, Zenon
    <3> QED  BY <3>3, <3>4, Zenon DEF SpanRead
  <2> QED  BY <2>1, <2>2
<1> DEFINE T == {m \in 0 .. n : ReadBelow(text, R, S, m)}
<1>3. 0 \in T
  <2>1. 0 \in 0 .. n
    BY <1>0
  <2> QED  BY <1>1, <2>1
<1>4. \A m \in 0 .. n - 1 : m \in T => m + 1 \in T
  <2> SUFFICES ASSUME NEW m \in 0 .. n - 1, m \in T PROVE m + 1 \in T
    OBVIOUS
  <2>1. ReadBelow(text, R, S, m + 1)
    BY <1>2, Zenon
  <2>2. m + 1 \in 0 .. n
    OBVIOUS
  <2> QED  BY <2>1, <2>2
<1>5. n \in 0 .. n
  BY <1>0
<1> HIDE DEF T, n
<1>6. \A m \in 0 .. n : m \in T
  BY <1>0, <1>3, <1>4, SetInduction, Zenon
<1> QED  BY <1>5, <1>6, Zenon DEF T, n

(* The reader begins.                                                      *)
LEMMA EmptyGoes ==
  /\ Goes(EmptyDoc) /\ Awaits(EmptyDoc) /\ Len(EmptyDoc.open) = 0
  /\ Len(EmptyDoc.nodes) = 0 /\ EmptyDoc.want = "value"
<1>1. IsList(<<>>) /\ Len(<<>>) = 0
  BY DEF IsList, Range
<1>2. /\ DOMAIN EmptyDoc = {"nodes", "err", "errAt", "open", "want"}
      /\ EmptyDoc.nodes = <<>> /\ EmptyDoc.err = NoText /\ EmptyDoc.open = <<>> /\ EmptyDoc.want = "value"
  BY DEF EmptyDoc
<1>3. PICK d : d = EmptyDoc
  OBVIOUS
<1>4. IsDoc(d) /\ IsNodes(d.nodes) /\ Len(d.nodes) = 0 /\ Len(d.open) = 0 /\ IsList(d.open)
  BY <1>1, <1>2, <1>3 DEF IsDoc, IsNodes
<1>5. Stands(d) /\ \A k \in 1 .. Len(d.open) : IsFrame(d.open[k], Len(d.nodes))
  BY <1>2, <1>3, <1>4 DEF Stands
<1> QED  BY <1>2, <1>3, <1>4, <1>5 DEF Goes, IsReader, Awaits

(* A document of the grammar is read without an error.                     *)
LEMMA GrammarIsRead ==
  ASSUME NEW text, Len(text) \in Nat, NEW t \in Spelled(text)[<<"value", 1, Len(text), 0>>]
  PROVE  Parse(text).err = NoText
<1>1. PICK R, S, n : R = Reading(text) /\ S = Spelled(text) /\ n = Len(text)
  OBVIOUS
<1>2. R[0] = EmptyDoc /\ \A i \in 1 .. n + 1 : R[i] = ReadLexeme(text, R[i - 1], i)
  BY <1>1, ReadingSteps
<1>3. ReadsOn(text, R) /\ R[n + 1] = ReadLexeme(text, R[n], n + 1)
  <2>1. n \in Nat /\ n + 1 \in 1 .. n + 1 /\ (n + 1) - 1 = n
    BY <1>1
  <2>2. \A i \in 1 .. n : i \in 1 .. n + 1
    BY <1>1
  <2> QED  BY <1>1, <1>2, <2>1, <2>2 DEF ReadsOn
<1>4. IsGrammar(text, S)
  BY <1>1, SpelledIsGrammar
<1>5. ReadBelow(text, R, S, n)
  BY <1>1, <1>3, <1>4, AllRead
<1>6. 1 \in 1 .. n + 1 /\ n \in 0 .. n /\ 0 \in 0 .. MAX_DEPTH + 1 /\ n - 1 < n /\ t \in S[<<"value", 1, n, 0>>]
  BY <1>1, JsonAssumption
<1>7. ReadsValue(R, 1, n, 0)
  <2>1. SpanRead(R, S, 1, n, 0)
    BY <1>1, <1>5, <1>6, Zenon DEF ReadBelow
  <2> QED  BY <1>6, <2>1, Zenon DEF SpanRead
<1>8. Goes(EmptyDoc) /\ Awaits(EmptyDoc) /\ Len(EmptyDoc.open) = 0
  BY EmptyGoes, Zenon
<1>9. Settled(EmptyDoc, R[n])
  <2>1. R[1 - 1] = EmptyDoc
    BY <1>2
  <2> QED  BY <1>7, <1>8, <2>1 DEF ReadsValue
<1>10. Goes(R[n]) /\ R[n].want = "nothing"
  BY <1>8, <1>9 DEF Settled
<1>11. R[n + 1] = R[n]
  <2>1. PICK h : h = n + 1 /\ h = Len(text) + 1
    BY <1>1
  <2>2. ReadLexeme(text, R[n], h) = R[n]
    BY <1>10, <2>1, StepEnd
  <2> QED  BY <1>3, <2>1, <2>2
<1>12. Parse(text) = R[n + 1]
  BY <1>1 DEF Parse
<1> QED  BY <1>10, <1>11, <1>12 DEF Goes

----------------------------------------------------------------------------
(* Everything that is read without an error is of the grammar.             *)

Kind(f) == IF f.close = "rbracket" THEN "array" ELSE "object"

(* The members ms of the container that opens at p are read up to c: none  *)
(* yet, or with a comma behind them.                                       *)
Begun(text, S, kind, p, e, ms, c) ==
  \/ c = p /\ ms = <<>>
  \/ c > p /\ text[c].lex = "comma" /\ ms \in S[<<kind, p + 1, c - 1, e>>]

(* What stands between c and the value of the next member, which begins at *)
(* a: nothing, or a key and a colon.                                       *)
Keyed(text, c, key, q, j) ==
  /\ text[q].lex = "str" /\ key = text[q].text
  /\ Blank(text, c + 1, q - 1) /\ Blank(text, q + 1, j)

Named(text, kind, c, key, a) ==
  IF kind = "array" THEN a = c + 1 /\ key = NoText
  ELSE a > c + 1 /\ text[a - 1].lex = "colon" /\ \E q \in c + 1 .. a - 2 : Keyed(text, c, key, q, a - 2)

(* The value of the next member is awaited behind j.                       *)
Waits(text, S, kind, p, e, ms, key, j) ==
  \E a \in p + 1 .. j + 1 : \E c \in p .. a - 1 :
    Begun(text, S, kind, p, e, ms, c) /\ Named(text, kind, c, key, a) /\ Blank(text, a, j)

LEMMA NamedIsMember ==
  ASSUME NEW text, Len(text) \in Nat, NEW S, IsGrammar(text, S), NEW kind \in {"array", "object"},
         NEW c \in 0 .. Len(text), NEW key, NEW a \in c + 1 .. Len(text) + 1, Named(text, kind, c, key, a),
         NEW j \in 0 .. Len(text), NEW e \in 0 .. MAX_DEPTH + 1, NEW t \in S[<<"value", a, j, e>>]
  PROVE  IsMember(text, S, kind, c + 1, j, e, key, t)
<1>1. CASE kind = "array"
  <2>1. a = c + 1 /\ key = NoText
    BY <1>1, Zenon DEF Named
  <2> QED  BY <1>1, <2>1, Zenon DEF IsMember
<1>2. CASE kind # "array"
  <2>1. a <= j
    <3>1. SaysValue(text, S, a, j, e, t)
      <4>1. a \in 1 .. Len(text) + 1
        OBVIOUS
      <4> QED  BY <4>1, ValueRule, Zenon
    <3> QED  BY <3>1, Zenon DEF SaysValue
  <2>2. a > c + 1 /\ text[a - 1].lex = "colon" /\ \E q \in c + 1 .. a - 2 : Keyed(text, c, key, q, a - 2)
    BY <1>2, Zenon DEF Named
  <2>3. PICK q \in c + 1 .. a - 2 : Keyed(text, c, key, q, a - 2)
    BY <2>2
  <2>4. PICK b : /\ b = a - 1 /\ b \in c + 1 .. j /\ q \in c + 1 .. b - 1
                 /\ b + 1 = a /\ b - 1 = a - 2
    <3>1. a > c + 1
      BY <2>2
    <3>2. /\ a - 1 \in c + 1 .. j /\ q \in c + 1 .. (a - 1) - 1
          /\ (a - 1) + 1 = a /\ (a - 1) - 1 = a - 2
      BY <2>1, <3>1
    <3> QED  BY <3>2, Zenon
  <2>5. /\ text[q].lex = "str" /\ text[b].lex = "colon" /\ key = text[q].text
        /\ Blank(text, c + 1, q - 1) /\ Blank(text, q + 1, b - 1)
        /\ t \in S[<<"value", b + 1, j, e>>]
    BY <2>2, <2>3, <2>4, Zenon DEF Keyed
  <2>6. IsEntry(text, S, c + 1, j, e, key, t)
    BY <2>4, <2>5, Zenon DEF IsEntry
  <2> QED  BY <1>2, <2>6, Zenon DEF IsMember
<1> QED  BY <1>1, <1>2

(* With its value the member joins the others.                             *)
LEMMA JoinedItem ==
  ASSUME NEW text, Len(text) \in Nat, NEW S, IsGrammar(text, S), NEW kind \in {"array", "object"},
         NEW p \in 1 .. Len(text), NEW e \in 0 .. MAX_DEPTH + 1, NEW ms,
         NEW c \in p .. Len(text), Begun(text, S, kind, p, e, ms, c),
         NEW j \in 0 .. Len(text), c <= j, NEW key, NEW t, IsMember(text, S, kind, c + 1, j, e, key, t)
  PROVE  Append(ms, Item(key, t)) \in S[<<kind, p + 1, j, e>>]
<1>1. p + 1 \in 1 .. Len(text) + 1
  OBVIOUS
<1>2. CASE c = p /\ ms = <<>>
  <2>1. <<Item(key, t)>> \in S[<<kind, p + 1, j, e>>]
    BY <1>1, <1>2, FirstItem, Zenon
  <2>2. Append(ms, Item(key, t)) = <<Item(key, t)>>
    BY <1>2
  <2> QED  BY <2>1, <2>2, Zenon
<1>3. CASE c > p /\ text[c].lex = "comma" /\ ms \in S[<<kind, p + 1, c - 1, e>>]
  <2>1. c \in p + 1 .. j
    <3>1. c > p
      BY <1>3
    <3> QED  BY <3>1
  <2> QED  BY <1>1, <1>3, <2>1, NextItem, Zenon
<1> QED  BY <1>2, <1>3, Zenon DEF Begun

LEMMA AwaitedValue ==
  ASSUME NEW text, Len(text) \in Nat, NEW S, IsGrammar(text, S), NEW kind \in {"array", "object"},
         NEW p \in 1 .. Len(text), NEW e \in 0 .. MAX_DEPTH + 1, NEW ms, NEW key,
         NEW b \in p + 1 .. Len(text), Waits(text, S, kind, p, e, ms, key, b - 1),
         NEW j \in b .. Len(text), NEW t \in S[<<"value", b, j, e>>]
  PROVE  Append(ms, Item(key, t)) \in S[<<kind, p + 1, j, e>>]
<1>0. b \in 1 .. Len(text) + 1 /\ j \in 0 .. Len(text)
  <2>1. b \in 1 .. Len(text) + 1
    OBVIOUS
  <2>2. j \in 0 .. Len(text)
    OBVIOUS
  <2> QED  BY <2>1, <2>2
<1>1. PICK h : h = b - 1 /\ h + 1 = b
  OBVIOUS
<1>2. PICK a \in p + 1 .. b : \E c \in p .. a - 1 :
        Begun(text, S, kind, p, e, ms, c) /\ Named(text, kind, c, key, a) /\ Blank(text, a, b - 1)
  BY <1>1, Zenon DEF Waits
<1>3. PICK c \in p .. a - 1 : Begun(text, S, kind, p, e, ms, c) /\ Named(text, kind, c, key, a) /\ Blank(text, a, b - 1)
  BY <1>2
<1>4. /\ b \in 1 .. Len(text) + 1 /\ j \in 0 .. Len(text) /\ a \in 1 .. b
      /\ c \in 0 .. Len(text) /\ c \in p .. Len(text) /\ a \in c + 1 .. Len(text) + 1 /\ c <= j
  <2>1. a \in 1 .. b
    OBVIOUS
  <2>2. c \in 0 .. Len(text) /\ c \in p .. Len(text)
    BY <1>0, <2>1
  <2>3. a \in c + 1 .. Len(text) + 1 /\ c <= j
    BY <1>0, <2>1
  <2> QED  BY <1>0, <2>1, <2>2, <2>3, Zenon
<1>5. t \in S[<<"value", a, j, e>>]
  BY <1>3, <1>4, BlanksInFront, Zenon
<1>6. IsMember(text, S, kind, c + 1, j, e, key, t)
  BY <1>3, <1>4, <1>5, NamedIsMember, Zenon
<1> QED  BY <1>3, <1>4, <1>6, JoinedItem, Zenon

(* The nodes as a forest: K[u] has the kids of node u, in order, and T[u]  *)
(* is the tree that node u is the root of.  Kids stand behind their parent *)
(* and have one parent.                                                    *)
KidsFit(ns, K, u) ==
  /\ ns[u].kidCount > 0 => ns[u].type \in {"array", "object"} /\ ns[u].firstKid = K[u][1]
  /\ \A m \in 1 .. ns[u].kidCount : K[u][m] \in u + 1 .. Len(ns)
  /\ \A m \in 1 .. ns[u].kidCount - 1 : ns[K[u][m]].nextSib = K[u][m + 1]

SamePlace(K, u, m, w, h) == K[u][m] = K[w][h] => u = w /\ m = h

Apart(ns, K) ==
  \A u \in 1 .. Len(ns) : \A w \in 1 .. Len(ns) :
    \A m \in 1 .. ns[u].kidCount : \A h \in 1 .. ns[w].kidCount : SamePlace(K, u, m, w, h)

Items(ns, K, T, u) == [m \in 1 .. ns[u].kidCount |-> Item(ns[K[u][m]].key, T[K[u][m]])]

Denoted(ns, K, T, u) == T[u] = Tree(ns[u].type, ns[u].num, ns[u].text, Items(ns, K, T, u))

Woven(ns, K, T) == Apart(ns, K) /\ \A u \in 1 .. Len(ns) : KidsFit(ns, K, u) /\ Denoted(ns, K, T, u)

(* Node v is nobody's kid.                                                 *)
Loose(ns, K, v) == \A u \in 1 .. Len(ns) : \A m \in 1 .. ns[u].kidCount : K[u][m] # v

(* The list with one more.                                                 *)
LEMMA AppendIsFunction ==
  ASSUME NEW k \in Nat, NEW f, f = [m \in 1 .. k |-> f[m]], NEW x
  PROVE  Append(f, x) = [m \in 1 .. k + 1 |-> IF m = k + 1 THEN x ELSE f[m]]
<1>1. PICK t : t = Append(f, x)
  OBVIOUS
<1>2. IsList(f) /\ Len(f) = k
  BY FunctionIsList
<1>3. IsList(t) /\ IsLonger(f, x, t)
  BY <1>1, <1>2, AppendIsList
<1>4. Len(t) = k + 1 /\ t[k + 1] = x /\ \A m \in 1 .. k : t[m] = f[m]
  BY <1>2, <1>3 DEF IsLonger
<1>5. t = [m \in 1 .. k + 1 |-> t[m]]
  <2>1. t \in Seq(Range(t))
    BY <1>3 DEF IsList
  <2>2. t \in [1 .. k + 1 -> Range(t)]
    BY <1>4, <2>1, LenProperties
  <2> QED  BY <2>2
<1>6. \A m \in 1 .. k + 1 : t[m] = IF m = k + 1 THEN x ELSE f[m]
  BY <1>4
<1> QED  BY <1>1, <1>5, <1>6

(* A new node.                                                             *)
Extended(ns, rs, K, T, L, U, t) ==
  /\ Woven(rs, L, U) /\ U[Len(ns) + 1] = t /\ Loose(rs, L, Len(ns) + 1)
  /\ \A u \in 1 .. Len(ns) : U[u] = T[u] /\ L[u] = K[u]

LEMMA WovenGrows ==
  ASSUME NEW ns, IsNodes(ns), NEW rs, NEW kind, NEW val, NEW str, Grew(ns, rs, kind, val, str),
         NEW K, NEW T, Woven(ns, K, T)
  PROVE  \E L, U : Extended(ns, rs, K, T, L, U, Tree(kind, val, str, <<>>))
<1>1. PICK n : n = Len(ns) /\ n \in Nat /\ \A u \in 1 .. n : ns[u].kidCount \in Nat
  BY DEF IsNodes, IsList, IsNode
<1>2. PICK t : t = Tree(kind, val, str, <<>>)
  OBVIOUS
<1>3. PICK L : L = [u \in 1 .. n + 1 |-> IF u = n + 1 THEN <<>> ELSE K[u]]
  OBVIOUS
<1>4. PICK U : U = [u \in 1 .. n + 1 |-> IF u = n + 1 THEN t ELSE T[u]]
  OBVIOUS
<1>5. Len(rs) = n + 1 /\ \A u \in 1 .. n : rs[u] = ns[u] /\ L[u] = K[u] /\ U[u] = T[u]
  <2>1. Len(rs) = n + 1 /\ \A u \in 1 .. n : rs[u] = ns[u]
    BY <1>1, Zenon DEF Grew
  <2>2. ASSUME NEW u \in 1 .. n PROVE L[u] = K[u] /\ U[u] = T[u]
    BY <1>1, <1>3, <1>4
  <2> QED  BY <2>1, <2>2
<1>6. /\ rs[n + 1].type = kind /\ rs[n + 1].num = val /\ rs[n + 1].text = str /\ rs[n + 1].kidCount = 0
      /\ U[n + 1] = t
  <2>1. /\ rs[n + 1].type = kind /\ rs[n + 1].num = val /\ rs[n + 1].text = str /\ rs[n + 1].kidCount = 0
    BY <1>1, Zenon DEF Grew
  <2>2. U[n + 1] = t
    BY <1>1, <1>4
  <2> QED  BY <2>1, <2>2
<1>7. ASSUME NEW u \in 1 .. n + 1, NEW m \in 1 .. rs[u].kidCount
      PROVE  /\ u \in 1 .. n /\ m \in 1 .. ns[u].kidCount /\ L[u][m] = K[u][m]
             /\ K[u][m] \in u + 1 .. n
  <2>1. u # n + 1
    BY <1>6
  <2>2. u \in 1 .. n
    BY <1>1, <2>1
  <2>3. KidsFit(ns, K, u)
    BY <1>1, <2>2, Zenon DEF Woven
  <2>4. m \in 1 .. ns[u].kidCount /\ L[u][m] = K[u][m]
    BY <1>5, <2>2
  <2>5. K[u][m] \in u + 1 .. n
    BY <1>1, <2>3, <2>4, Zenon DEF KidsFit
  <2> QED  BY <2>2, <2>4, <2>5
<1>8. Loose(rs, L, n + 1)
  <2> SUFFICES ASSUME NEW u \in 1 .. n + 1, NEW m \in 1 .. rs[u].kidCount PROVE L[u][m] # n + 1
    BY <1>5 DEF Loose
  <2>1. L[u][m] \in u + 1 .. n
    BY <1>7
  <2> QED  BY <1>1, <2>1
<1>9. Apart(rs, L)
  <2> SUFFICES ASSUME NEW u \in 1 .. n + 1, NEW w \in 1 .. n + 1,
                      NEW m \in 1 .. rs[u].kidCount, NEW h \in 1 .. rs[w].kidCount, L[u][m] = L[w][h]
               PROVE  u = w /\ m = h
    BY <1>5 DEF Apart, SamePlace
  <2>1. u \in 1 .. n /\ m \in 1 .. ns[u].kidCount /\ L[u][m] = K[u][m]
    BY <1>7
  <2>2. w \in 1 .. n /\ h \in 1 .. ns[w].kidCount /\ L[w][h] = K[w][h]
    BY <1>7
  <2>3. Apart(ns, K)
    BY DEF Woven
  <2>4. u \in 1 .. Len(ns) /\ w \in 1 .. Len(ns) /\ K[u][m] = K[w][h]
    BY <1>1, <2>1, <2>2
  <2>5. SamePlace(K, u, m, w, h)
    BY <2>1, <2>2, <2>3, <2>4, Zenon DEF Apart
  <2> QED  BY <2>4, <2>5 DEF SamePlace
<1>10. ASSUME NEW u \in 1 .. n + 1 PROVE KidsFit(rs, L, u)
  <2>1. CASE u = n + 1
    BY <1>6, <2>1 DEF KidsFit
  <2>2. CASE u # n + 1
    <3>1. u \in 1 .. n
      BY <1>1, <2>2
    <3>2. KidsFit(ns, K, u) /\ rs[u] = ns[u] /\ L[u] = K[u]
      BY <1>1, <1>5, <3>1, Zenon DEF Woven
    <3>3. \A m \in 1 .. ns[u].kidCount : K[u][m] \in u + 1 .. n
      BY <1>1, <3>2, Zenon DEF KidsFit
    <3>4. \A m \in 1 .. ns[u].kidCount : K[u][m] \in u + 1 .. n + 1
      BY <1>1, <3>1, <3>3
    <3>5. ASSUME NEW m \in 1 .. ns[u].kidCount - 1 PROVE rs[K[u][m]].nextSib = K[u][m + 1]
      <4>1. m \in 1 .. ns[u].kidCount /\ ns[K[u][m]].nextSib = K[u][m + 1]
        BY <1>1, <3>1, <3>2 DEF KidsFit
      <4>2. K[u][m] \in 1 .. n
        BY <3>1, <3>3, <4>1
      <4> QED  BY <1>5, <4>1, <4>2
    <3> QED  BY <1>5, <3>2, <3>4, <3>5 DEF KidsFit
  <2> QED  BY <2>1, <2>2
<1>11. ASSUME NEW u \in 1 .. n + 1 PROVE Denoted(rs, L, U, u)
  <2>1. CASE u = n + 1
    <3>1. Items(rs, L, U, u) = <<>>
      BY <1>6, <2>1 DEF Items
    <3> QED  BY <1>2, <1>6, <2>1, <3>1, Zenon DEF Denoted
  <2>2. CASE u # n + 1
    <3>1. u \in 1 .. n
      BY <1>1, <2>2
    <3>2. Denoted(ns, K, T, u) /\ rs[u] = ns[u] /\ L[u] = K[u] /\ U[u] = T[u]
      BY <1>1, <1>5, <3>1, Zenon DEF Woven
    <3>3. ASSUME NEW m \in 1 .. ns[u].kidCount
          PROVE  Item(rs[K[u][m]].key, U[K[u][m]]) = Item(ns[K[u][m]].key, T[K[u][m]])
      <4>1. K[u][m] \in u + 1 .. n
        BY <1>7, <3>1, <3>2
      <4>2. K[u][m] \in 1 .. n
        BY <3>1, <4>1
      <4> QED  BY <1>5, <4>2
    <3>4. Items(rs, L, U, u) = Items(ns, K, T, u)
      BY <3>2, <3>3 DEF Items
    <3> QED  BY <3>2, <3>4, Zenon DEF Denoted
  <2> QED  BY <2>1, <2>2
<1>12. Woven(rs, L, U)
  BY <1>5, <1>9, <1>10, <1>11, Zenon DEF Woven
<1>13. Extended(ns, rs, K, T, L, U, t)
  BY <1>1, <1>5, <1>6, <1>8, <1>12, Zenon DEF Extended
<1> QED  BY <1>2, <1>13, Zenon

LEMMA NotTheLast ==
  ASSUME NEW k \in Nat, NEW m \in 1 .. k - 1
  PROVE  m \in 1 .. k /\ m + 1 \in 1 .. k
OBVIOUS

(* A loose node becomes the last kid of a loose container.                 *)
LastKid(ns, K, f) ==
  f.prev = IF ns[f.self].kidCount = 0 THEN 0 ELSE K[f.self][ns[f.self].kidCount]

WithItem(w, t, x) == Tree(w.type, w.num, w.text, Append(t.kids, x))

Joined(ns, rs, K, T, L, U, f, v) ==
  /\ Woven(rs, L, U)
  /\ U[f.self] = WithItem(ns[f.self], T[f.self], Item(f.key, T[v]))
  /\ L[f.self][ns[f.self].kidCount + 1] = v
  /\ \A u \in 1 .. Len(ns) : u # f.self => U[u] = T[u] /\ L[u] = K[u]
  /\ \A w \in 1 .. Len(ns) : Loose(ns, K, w) /\ w # v => Loose(rs, L, w)

LEMMA WovenLinks ==
  ASSUME NEW ns, IsNodes(ns), NEW f, IsFrame(f, Len(ns)), NEW v \in 1 .. Len(ns), f.self < v,
         NEW rs, Linked(ns, rs, f, v), NEW K, NEW T, Woven(ns, K, T), LastKid(ns, K, f),
         Loose(ns, K, v), Loose(ns, K, f.self), ns[f.self].type \in {"array", "object"}
  PROVE  \E L, U : Joined(ns, rs, K, T, L, U, f, v)
<1>1. PICK n, s, c : n = Len(ns) /\ n \in Nat /\ s = f.self /\ s \in 1 .. n /\ c = ns[s].kidCount
  BY DEF IsNodes, IsList, IsFrame
<1>n. \A u \in 1 .. n : ns[u].kidCount \in Nat
  BY <1>1 DEF IsNodes, IsNode
<1>c. c \in Nat
  BY <1>1, <1>n
<1>p. c # 0 => 1 \in 1 .. c /\ c \in 1 .. c /\ c > 0
  BY <1>c
<1>v. v \in s + 1 .. n /\ v # s
  BY <1>1
<1>2. PICK x : x = WithItem(ns[s], T[s], Item(f.key, T[v]))
  OBVIOUS
<1>3. PICK ks : ks = [m \in 1 .. c + 1 |-> IF m = c + 1 THEN v ELSE K[s][m]]
  OBVIOUS
<1>4. PICK L : L = [u \in 1 .. n |-> IF u = s THEN ks ELSE K[u]]
  OBVIOUS
<1>5. PICK U : U = [u \in 1 .. n |-> IF u = s THEN x ELSE T[u]]
  OBVIOUS
<1>6. /\ L[s][c + 1] = v /\ U[s] = x /\ \A m \in 1 .. c : L[s][m] = K[s][m]
      /\ \A u \in 1 .. n : u # s => L[u] = K[u] /\ U[u] = T[u]
  <2>1. L[s] = ks /\ U[s] = x
    BY <1>1, <1>4, <1>5
  <2>2. ks[c + 1] = v /\ \A m \in 1 .. c : ks[m] = K[s][m]
    BY <1>c, <1>3
  <2>3. ASSUME NEW u \in 1 .. n, u # s PROVE L[u] = K[u] /\ U[u] = T[u]
    BY <1>4, <1>5, <2>3
  <2> QED  BY <2>1, <2>2, <2>3
<1>7. Len(rs) = n /\ \A u \in 1 .. n : LinkedNode(ns[u], rs[u], f, u, v)
  BY <1>1, Zenon DEF Linked
<1>8. /\ rs[s].kidCount = c + 1
      /\ \A u \in 1 .. n : u # s => rs[u].kidCount = ns[u].kidCount
  <2>1. rs[s].kidCount = c + 1
    BY <1>1, <1>7 DEF LinkedNode
  <2>2. ASSUME NEW u \in 1 .. n, u # s PROVE rs[u].kidCount = ns[u].kidCount
    BY <1>1, <1>7, <2>2 DEF LinkedNode
  <2> QED  BY <2>1, <2>2
<1>9. ASSUME NEW u \in 1 .. n, NEW m \in 1 .. ns[u].kidCount
      PROVE  K[u][m] \in u + 1 .. n /\ K[u][m] \in 1 .. n /\ K[u][m] # v /\ K[u][m] # s
  <2>1. KidsFit(ns, K, u)
    BY <1>1, Zenon DEF Woven
  <2>2. K[u][m] \in u + 1 .. n
    BY <1>1, <2>1, Zenon DEF KidsFit
  <2>3. K[u][m] # v /\ K[u][m] # s
    BY <1>1, Zenon DEF Loose
  <2>4. K[u][m] \in 1 .. n
    BY <2>2
  <2> QED  BY <2>2, <2>3, <2>4
<1>10. ASSUME NEW u \in 1 .. n, NEW m \in 1 .. rs[u].kidCount
       PROVE  \/ u = s /\ m = c + 1 /\ L[u][m] = v
              \/ m \in 1 .. ns[u].kidCount /\ L[u][m] = K[u][m]
  <2>1. CASE u = s
    <3>1. m \in 1 .. c + 1
      BY <1>8, <2>1
    <3>2. CASE m = c + 1
      BY <1>6, <2>1, <3>2
    <3>3. CASE m # c + 1
      <4>1. m \in 1 .. c
        BY <1>c, <3>1, <3>3
      <4> QED  BY <1>1, <1>6, <2>1, <4>1
    <3> QED  BY <3>2, <3>3
  <2>2. CASE u # s
    BY <1>6, <1>8, <2>2
  <2> QED  BY <2>1, <2>2
<1>11. Apart(rs, L)
  <2> SUFFICES ASSUME NEW u \in 1 .. n, NEW w \in 1 .. n,
                      NEW m \in 1 .. rs[u].kidCount, NEW h \in 1 .. rs[w].kidCount, L[u][m] = L[w][h]
               PROVE  u = w /\ m = h
    BY <1>7 DEF Apart, SamePlace
  <2>1. \/ u = s /\ m = c + 1 /\ L[u][m] = v
        \/ m \in 1 .. ns[u].kidCount /\ L[u][m] = K[u][m]
    BY <1>10
  <2>2. \/ w = s /\ h = c + 1 /\ L[w][h] = v
        \/ h \in 1 .. ns[w].kidCount /\ L[w][h] = K[w][h]
    BY <1>10
  <2>3. CASE L[u][m] = v
    BY <1>9, <2>1, <2>2, <2>3
  <2>4. CASE L[u][m] # v
    <3>1. /\ u \in 1 .. Len(ns) /\ w \in 1 .. Len(ns) /\ m \in 1 .. ns[u].kidCount /\ h \in 1 .. ns[w].kidCount
          /\ K[u][m] = K[w][h]
      BY <1>1, <2>1, <2>2, <2>4
    <3>2. SamePlace(K, u, m, w, h)
      BY <3>1, Zenon DEF Woven, Apart
    <3> QED  BY <3>1, <3>2 DEF SamePlace
  <2> QED  BY <2>3, <2>4
<1>12. ASSUME NEW u \in 1 .. n PROVE KidsFit(rs, L, u)
  <2>1. KidsFit(ns, K, u) /\ LinkedNode(ns[u], rs[u], f, u, v)
    BY <1>1, <1>7, Zenon DEF Woven
  <2>2. ASSUME rs[u].kidCount > 0 PROVE rs[u].type \in {"array", "object"} /\ rs[u].firstKid = L[u][1]
    <3>1. CASE u = s /\ c = 0
      <4>1. f.prev = 0 /\ c + 1 = 1
        BY <1>1, <3>1 DEF LastKid
      <4>2. rs[u].type = ns[s].type /\ rs[u].firstKid = v
        BY <1>1, <2>1, <3>1, <4>1 DEF LinkedNode
      <4> QED  BY <1>1, <1>6, <3>1, <4>1, <4>2
    <3>2. CASE u = s /\ c # 0
      <4>1. 1 \in 1 .. c /\ c \in 1 .. c /\ c > 0
        BY <1>p, <3>2, Zenon
      <4>2. f.prev = K[s][c] /\ K[s][c] \in s + 1 .. n
        <5>1. f.prev = K[s][c]
          BY <1>1, <3>2, Zenon DEF LastKid
        <5>2. K[s][c] \in s + 1 .. n
          BY <1>1, <1>9, <4>1, Zenon
        <5> QED  BY <5>1, <5>2
      <4>3. f.prev # 0
        BY <1>1, <4>2
      <4>4. rs[u].type = ns[s].type /\ rs[u].firstKid = ns[s].firstKid
        BY <1>1, <2>1, <3>2, <4>3 DEF LinkedNode
      <4>5. ns[s].firstKid = K[s][1]
        BY <1>1, <2>1, <3>2, <4>1 DEF KidsFit
      <4> QED  BY <1>1, <1>6, <3>2, <4>1, <4>4, <4>5
    <3>3. CASE u # s
      <4>1. rs[u].type = ns[u].type /\ rs[u].firstKid = ns[u].firstKid /\ ns[u].kidCount > 0
        BY <1>1, <1>8, <2>1, <2>2, <3>3 DEF LinkedNode
      <4> QED  BY <1>6, <2>1, <3>3, <4>1 DEF KidsFit
    <3> QED  BY <3>1, <3>2, <3>3
  <2>3. ASSUME NEW m \in 1 .. rs[u].kidCount PROVE L[u][m] \in u + 1 .. n
    <3>1. CASE u = s /\ L[u][m] = v
      BY <1>v, <3>1
    <3>2. CASE m \in 1 .. ns[u].kidCount /\ L[u][m] = K[u][m]
      <4>1. K[u][m] \in u + 1 .. n
        BY <1>9, <3>2
      <4> QED  BY <3>2, <4>1
    <3> QED  BY <1>10, <3>1, <3>2
  <2>4. ASSUME NEW m \in 1 .. rs[u].kidCount - 1 PROVE rs[L[u][m]].nextSib = L[u][m + 1]
    <3>1. CASE u = s /\ m = c
      <4>1. c > 0 /\ c \in 1 .. c /\ c # 0
        <5>1. m > 0
          OBVIOUS
        <5> QED  BY <1>c, <3>1, <5>1
      <4>2. L[u][m] = K[s][c] /\ f.prev = K[s][c]
        <5>1. L[s][c] = K[s][c]
          BY <1>6, <4>1
        <5>2. f.prev = K[s][c]
          BY <1>1, <4>1, Zenon DEF LastKid
        <5> QED  BY <3>1, <5>1, <5>2, Zenon
      <4>3. K[s][c] \in 1 .. n
        BY <1>1, <1>9, <4>1
      <4>4. LinkedNode(ns[K[s][c]], rs[K[s][c]], f, K[s][c], v)
        BY <1>7, <4>3
      <4>5. rs[K[s][c]].nextSib = v
        BY <4>2, <4>4 DEF LinkedNode
      <4> QED  BY <1>6, <3>1, <4>2, <4>5
    <3>2. CASE ~(u = s /\ m = c)
      <4>1. m \in 1 .. ns[u].kidCount /\ m \in 1 .. ns[u].kidCount - 1 /\ m + 1 \in 1 .. ns[u].kidCount
        <5>1. CASE u = s
          <6>1. m \in 1 .. c /\ m # c
            <7>1. m \in 1 .. (c + 1) - 1 /\ m # c
              BY <1>8, <3>2, <5>1
            <7> QED  BY <1>c, <7>1
          <6>2. m \in 1 .. c - 1 /\ m + 1 \in 1 .. c
            <7>1. m \in 1 .. c - 1
              BY <1>c, <6>1
            <7> QED  BY <1>c, <7>1, NotTheLast, Zenon
          <6> QED  BY <1>1, <5>1, <6>1, <6>2, Zenon
        <5>2. CASE u # s
          <6>1. PICK k : k = ns[u].kidCount /\ k \in Nat /\ m \in 1 .. k - 1
            BY <1>n, <1>8, <5>2
          <6>2. m \in 1 .. k /\ m + 1 \in 1 .. k
            BY <6>1, NotTheLast, Zenon
          <6> QED  BY <6>1, <6>2, Zenon
        <5> QED  BY <5>1, <5>2
      <4>2. L[u][m] = K[u][m] /\ L[u][m + 1] = K[u][m + 1]
        <5>1. CASE u = s
          BY <1>1, <1>6, <4>1, <5>1
        <5>2. CASE u # s
          BY <1>6, <5>2
        <5> QED  BY <5>1, <5>2
      <4>3. K[u][m] \in 1 .. n
        BY <1>9, <4>1
      <4>4. K[u][m] # f.prev
        <5>1. CASE c = 0
          <6>1. f.prev = 0
            BY <1>1, <5>1 DEF LastKid
          <6> QED  BY <4>3, <6>1
        <5>2. CASE c # 0
          <6>1. f.prev = K[s][c] /\ c \in 1 .. c
            BY <1>1, <1>p, <5>2, Zenon DEF LastKid
          <6>2. SamePlace(K, u, m, s, c)
            <7>1. u \in 1 .. Len(ns) /\ s \in 1 .. Len(ns) /\ c \in 1 .. ns[s].kidCount
              BY <1>1, <6>1
            <7> QED  BY <4>1, <7>1, Zenon DEF Woven, Apart
          <6> QED  BY <3>2, <6>1, <6>2 DEF SamePlace
        <5> QED  BY <5>1, <5>2
      <4>5. LinkedNode(ns[K[u][m]], rs[K[u][m]], f, K[u][m], v)
        BY <1>7, <4>3
      <4>6. rs[K[u][m]].nextSib = ns[K[u][m]].nextSib
        BY <4>4, <4>5 DEF LinkedNode
      <4>7. ns[K[u][m]].nextSib = K[u][m + 1]
        BY <2>1, <4>1, Zenon DEF KidsFit
      <4> QED  BY <4>2, <4>6, <4>7
    <3> QED  BY <3>1, <3>2
  <2> QED  BY <1>7, <2>2, <2>3, <2>4 DEF KidsFit
<1>13. ASSUME NEW u \in 1 .. n, NEW m \in 1 .. ns[u].kidCount
       PROVE  Item(rs[K[u][m]].key, U[K[u][m]]) = Item(ns[K[u][m]].key, T[K[u][m]])
  <2>1. K[u][m] \in 1 .. n /\ K[u][m] # v /\ K[u][m] # s
    BY <1>9
  <2>2. U[K[u][m]] = T[K[u][m]]
    BY <1>6, <2>1
  <2>3. LinkedNode(ns[K[u][m]], rs[K[u][m]], f, K[u][m], v)
    BY <1>7, <2>1
  <2>4. rs[K[u][m]].key = ns[K[u][m]].key
    BY <2>1, <2>3 DEF LinkedNode
  <2> QED  BY <2>2, <2>4
<1>14. ASSUME NEW u \in 1 .. n PROVE Denoted(rs, L, U, u)
  <2>0. Denoted(ns, K, T, u) /\ LinkedNode(ns[u], rs[u], f, u, v)
    BY <1>1, <1>7, Zenon DEF Woven
  <2>1. rs[u].type = ns[u].type /\ rs[u].num = ns[u].num /\ rs[u].text = ns[u].text
    BY <2>0, Zenon DEF LinkedNode
  <2>2. CASE u = s
    <3>1. PICK is, y : is = Items(ns, K, T, s) /\ y = Item(f.key, T[v])
      OBVIOUS
    <3>2. is = [m \in 1 .. c |-> is[m]]
      <4>1. is = [m \in 1 .. c |-> Item(ns[K[s][m]].key, T[K[s][m]])]
        BY <1>1, <3>1, Zenon DEF Items
      <4> QED  BY <4>1
    <3>3. Append(is, y) = [m \in 1 .. c + 1 |-> IF m = c + 1 THEN y ELSE is[m]]
      <4> HIDE <2>0
      <4> QED  BY <1>c, <3>2, AppendIsFunction
    <3>4. Items(rs, L, U, s) = [m \in 1 .. c + 1 |-> Item(rs[L[s][m]].key, U[L[s][m]])]
      BY <1>8 DEF Items
    <3>5. Item(rs[L[s][c + 1]].key, U[L[s][c + 1]]) = y
      <4>1. L[s][c + 1] = v /\ U[v] = T[v]
        BY <1>1, <1>6
      <4>2. LinkedNode(ns[v], rs[v], f, v, v)
        BY <1>1, <1>7
      <4>3. rs[v].key = f.key
        BY <4>2 DEF LinkedNode
      <4> QED  BY <3>1, <4>1, <4>3
    <3>6. ASSUME NEW m \in 1 .. c PROVE Item(rs[L[s][m]].key, U[L[s][m]]) = is[m]
      <4>1. L[s][m] = K[s][m]
        BY <1>6, Zenon
      <4>2. is[m] = Item(ns[K[s][m]].key, T[K[s][m]])
        <5>1. is = [h \in 1 .. c |-> Item(ns[K[s][h]].key, T[K[s][h]])]
          BY <1>1, <3>1, Zenon DEF Items
        <5> QED  BY <5>1
      <4>3. Item(rs[K[s][m]].key, U[K[s][m]]) = Item(ns[K[s][m]].key, T[K[s][m]])
        BY <1>1, <1>13
      <4> QED  BY <4>1, <4>2, <4>3, Zenon
    <3>7. ASSUME NEW m \in 1 .. c + 1
          PROVE  Item(rs[L[s][m]].key, U[L[s][m]]) = IF m = c + 1 THEN y ELSE is[m]
      <4>1. CASE m = c + 1
        BY <3>5, <4>1
      <4>2. CASE m # c + 1
        <5>1. m \in 1 .. c
          BY <1>c, <4>2
        <5> QED  BY <3>6, <4>2, <5>1
      <4> QED  BY <4>1, <4>2
    <3>8. Items(rs, L, U, s) = Append(is, y)
      BY <3>3, <3>4, <3>7
    <3>9. T[s].kids = is
      BY <2>0, <2>2, <3>1 DEF Denoted, Tree
    <3>10. U[s] = Tree(ns[s].type, ns[s].num, ns[s].text, Append(is, y))
      BY <1>2, <1>6, <3>1, <3>9, Zenon DEF WithItem
    <3> QED  BY <2>1, <2>2, <3>8, <3>10, Zenon DEF Denoted
  <2>3. CASE u # s
    <3>1. rs[u].kidCount = ns[u].kidCount /\ L[u] = K[u] /\ U[u] = T[u]
      BY <1>6, <1>8, <2>3
    <3>2. \A m \in 1 .. ns[u].kidCount : Item(rs[K[u][m]].key, U[K[u][m]]) = Item(ns[K[u][m]].key, T[K[u][m]])
      BY <1>13
    <3>3. Items(rs, L, U, u) = Items(ns, K, T, u)
      BY <3>1, <3>2 DEF Items
    <3> QED  BY <2>0, <2>1, <3>1, <3>3, Zenon DEF Denoted
  <2> QED  BY <2>2, <2>3
<1>15. Woven(rs, L, U)
  BY <1>7, <1>11, <1>12, <1>14, Zenon DEF Woven
<1>16. ASSUME NEW w \in 1 .. n, Loose(ns, K, w), w # v PROVE Loose(rs, L, w)
  <2> SUFFICES ASSUME NEW u \in 1 .. n, NEW m \in 1 .. rs[u].kidCount PROVE L[u][m] # w
    BY <1>7 DEF Loose
  <2>1. \A h \in 1 .. ns[u].kidCount : K[u][h] # w
    BY <1>1, <1>16, Zenon DEF Loose
  <2> QED  BY <1>10, <1>16, <2>1
<1>17. Joined(ns, rs, K, T, L, U, f, v)
  BY <1>1, <1>2, <1>6, <1>15, <1>16, Zenon DEF Joined
<1> QED  BY <1>17, Zenon

(* The open calls over the forest, and over the text: call k reads the     *)
(* container that opens at lexeme P[k].                                    *)
FrameFits(ns, K, f) ==
  /\ ns[f.self].type = Kind(f) /\ ns[f.self].num = 0 /\ ns[f.self].text = NoText
  /\ LastKid(ns, K, f) /\ Loose(ns, K, f.self)
  /\ Kind(f) = "array" => f.key = NoText

Rising(open) ==
  /\ \A k \in 1 .. Len(open) : \A h \in 1 .. k - 1 : open[h].self < open[k].self
  /\ Len(open) > 0 => open[1].self = 1

FrameWaits(text, S, T, f, p, k, j) == Waits(text, S, Kind(f), p, k, T[f.self].kids, f.key, j)

(* A value at depth k is awaited behind j.                                 *)
Outer(text, S, T, P, open, k, j) ==
  IF k = 0 THEN Blank(text, 1, j) ELSE FrameWaits(text, S, T, open[k], P[k], k, j)

MarkFits(text, S, T, P, open, k, i) ==
  /\ P[k] \in 1 .. i /\ text[P[k]].lex = Open(Kind(open[k]))
  /\ k > 1 => P[k - 1] < P[k]
  /\ Outer(text, S, T, P, open, k - 1, P[k] - 1)

Marks(text, S, T, P, open, i) == \A k \in 1 .. Len(open) : MarkFits(text, S, T, P, open, k, i)

FramesFit(ns, K, open) == \A k \in 1 .. Len(open) : FrameFits(ns, K, open[k])

Stack(text, S, ns, open, K, T, P, i) ==
  /\ Woven(ns, K, T) /\ FramesFit(ns, K, open) /\ Rising(open)
  /\ Len(open) <= MAX_DEPTH + 1 /\ Marks(text, S, T, P, open, i)

LEMMA StackLater ==
  ASSUME NEW text, NEW S, NEW ns, NEW open, NEW K, NEW T, NEW P, NEW i \in Nat,
         Stack(text, S, ns, open, K, T, P, i)
  PROVE  Stack(text, S, ns, open, K, T, P, i + 1)
<1>1. Marks(text, S, T, P, open, i)
  BY DEF Stack
<1>2. ASSUME NEW k \in 1 .. Len(open) PROVE MarkFits(text, S, T, P, open, k, i + 1)
  <2>1. MarkFits(text, S, T, P, open, k, i)
    BY <1>1, Zenon DEF Marks
  <2>2. P[k] \in 1 .. i + 1
    <3>1. P[k] \in 1 .. i
      BY <2>1, Zenon DEF MarkFits
    <3> QED  BY <3>1
  <2> QED  BY <2>1, <2>2, Zenon DEF MarkFits
<1>3. Marks(text, S, T, P, open, i + 1)
  BY <1>2, Zenon DEF Marks
<1> QED  BY <1>3, Zenon DEF Stack

(* The innermost call returns.                                             *)
LEMMA StackPops ==
  ASSUME NEW text, NEW S, NEW ns, NEW open, NEW K, NEW T, NEW P, NEW i,
         Stack(text, S, ns, open, K, T, P, i),
         NEW os, Len(open) \in Nat, Len(open) > 0, Len(os) = Len(open) - 1, SameFrames(open, os, Len(os))
  PROVE  Stack(text, S, ns, os, K, T, P, i)
<1>1. PICK n : n = Len(os) /\ n \in Nat /\ Len(open) = n + 1
  OBVIOUS
<1>2. \A k \in 1 .. n : os[k] = open[k] /\ k \in 1 .. Len(open)
  <2> SUFFICES ASSUME NEW k \in 1 .. n PROVE os[k] = open[k] /\ k \in 1 .. Len(open)
    OBVIOUS
  <2>1. os[k] = open[k]
    BY <1>1, Zenon DEF SameFrames
  <2>2. k \in 1 .. Len(open)
    BY <1>1
  <2> QED  BY <2>1, <2>2
<1>3. FramesFit(ns, K, os)
  <2> SUFFICES ASSUME NEW k \in 1 .. Len(os) PROVE FrameFits(ns, K, os[k])
    BY Zenon DEF FramesFit
  <2>1. os[k] = open[k] /\ k \in 1 .. Len(open)
    BY <1>1, <1>2
  <2>2. FrameFits(ns, K, open[k])
    BY <2>1, Zenon DEF Stack, FramesFit
  <2> QED  BY <2>1, <2>2
<1>4. Rising(os)
  <2>0. Rising(open)
    BY DEF Stack
  <2>1. ASSUME NEW k \in 1 .. n, NEW h \in 1 .. k - 1 PROVE os[h].self < os[k].self
    <3>1. h \in 1 .. n
      BY <1>1
    <3>2. open[h].self < open[k].self
      BY <1>2, <2>0, Zenon DEF Rising
    <3> QED  BY <1>2, <3>1, <3>2
  <2>2. ASSUME n > 0 PROVE os[1].self = 1
    <3>1. 1 \in 1 .. n /\ Len(open) > 0
      BY <1>1, <2>2
    <3>2. open[1].self = 1
      BY <2>0, <3>1, Zenon DEF Rising
    <3> QED  BY <1>2, <3>1, <3>2
  <2> QED  BY <1>1, <2>1, <2>2 DEF Rising
<1>5. Marks(text, S, T, P, os, i)
  <2> SUFFICES ASSUME NEW k \in 1 .. n PROVE MarkFits(text, S, T, P, os, k, i)
    BY <1>1, Zenon DEF Marks
  <2>1. MarkFits(text, S, T, P, open, k, i)
    BY <1>2, Zenon DEF Stack, Marks
  <2>2. os[k] = open[k]
    BY <1>2
  <2>3. Outer(text, S, T, P, os, k - 1, P[k] - 1)
    <3>1. Outer(text, S, T, P, open, k - 1, P[k] - 1)
      BY <2>1, Zenon DEF MarkFits
    <3>2. CASE k - 1 = 0
      BY <3>1, <3>2, Zenon DEF Outer
    <3>3. CASE k - 1 # 0
      <4>1. k - 1 \in 1 .. n
        BY <1>1, <3>3
      <4>2. os[k - 1] = open[k - 1]
        BY <1>2, <4>1
      <4> QED  BY <3>1, <4>2, Zenon DEF Outer
    <3> QED  BY <3>2, <3>3
  <2> QED  BY <2>1, <2>2, <2>3, Zenon DEF MarkFits
<1>6. Len(os) <= MAX_DEPTH + 1
  <2>1. Len(open) <= MAX_DEPTH + 1
    BY DEF Stack
  <2> QED  BY <1>1, <2>1, JsonAssumption
<1> QED  BY <1>3, <1>4, <1>5, <1>6, Zenon DEF Stack

(* A frame does not look at the trees of the nodes outside.                *)
SameCall(T, U, P, Q, open, os, k) ==
  k # 0 => os[k] = open[k] /\ Q[k] = P[k] /\ U[open[k].self] = T[open[k].self]

LEMMA OuterSame ==
  ASSUME NEW text, NEW S, NEW T, NEW U, NEW P, NEW Q, NEW open, NEW os, NEW k, NEW j,
         Outer(text, S, T, P, open, k, j), SameCall(T, U, P, Q, open, os, k)
  PROVE  Outer(text, S, U, Q, os, k, j)
<1>1. CASE k = 0
  BY <1>1, Zenon DEF Outer
<1>2. CASE k # 0
  <2>1. FrameWaits(text, S, T, open[k], P[k], k, j)
    BY <1>2, Zenon DEF Outer
  <2>2. FrameWaits(text, S, U, os[k], Q[k], k, j)
    BY <1>2, <2>1, Zenon DEF FrameWaits, SameCall
  <2> QED  BY <1>2, <2>2, Zenon DEF Outer
<1> QED  BY <1>1, <1>2

(* A node is added.                                                        *)
Stacked(text, S, rs, open, L, U, P, i, T, n, t) ==
  /\ Stack(text, S, rs, open, L, U, P, i) /\ U[n] = t /\ Loose(rs, L, n)
  /\ \A u \in 1 .. n - 1 : U[u] = T[u]

LEMMA StackGrows ==
  ASSUME NEW text, NEW S, NEW ns, IsNodes(ns), NEW open, IsList(open),
         \A k \in 1 .. Len(open) : IsFrame(open[k], Len(ns)), NEW K, NEW T, NEW P, NEW i,
         Stack(text, S, ns, open, K, T, P, i),
         NEW rs, NEW kind, NEW val, NEW str, Grew(ns, rs, kind, val, str)
  PROVE  \E L, U : Stacked(text, S, rs, open, L, U, P, i, T, Len(ns) + 1, Tree(kind, val, str, <<>>))
<1>1. PICK n, e : n = Len(ns) /\ n \in Nat /\ e = Len(open) /\ e \in Nat
  BY DEF IsNodes, IsList
<1>2. Woven(ns, K, T)
  BY DEF Stack
<1>3. PICK L, U : Extended(ns, rs, K, T, L, U, Tree(kind, val, str, <<>>))
  BY <1>2, WovenGrows, Zenon
<1>4. /\ Woven(rs, L, U) /\ U[n + 1] = Tree(kind, val, str, <<>>) /\ Loose(rs, L, n + 1)
      /\ \A u \in 1 .. n : U[u] = T[u] /\ L[u] = K[u]
  BY <1>1, <1>3, Zenon DEF Extended
<1>5. ASSUME NEW k \in 1 .. e PROVE open[k].self \in 1 .. n
  BY <1>1 DEF IsFrame
<1>6. Len(rs) = n + 1 /\ rs[n + 1].kidCount = 0 /\ \A u \in 1 .. n : rs[u] = ns[u]
  BY <1>1, Zenon DEF Grew
<1>7. ASSUME NEW k \in 1 .. e PROVE FrameFits(rs, L, open[k])
  <2>1. PICK f : f = open[k] /\ f.self \in 1 .. n
    BY <1>5
  <2>2. FrameFits(ns, K, f)
    BY <1>1, <2>1, Zenon DEF Stack, FramesFit
  <2>3. rs[f.self] = ns[f.self] /\ L[f.self] = K[f.self]
    BY <1>4, <1>6, <2>1
  <2>4. LastKid(rs, L, f)
    <3>1. LastKid(ns, K, f)
      BY <2>2, Zenon DEF FrameFits
    <3> QED  BY <2>3, <3>1, Zenon DEF LastKid
  <2>5. Loose(rs, L, f.self)
    <3> SUFFICES ASSUME NEW u \in 1 .. n + 1, NEW m \in 1 .. rs[u].kidCount PROVE L[u][m] # f.self
      BY <1>6 DEF Loose
    <3>1. u # n + 1
      BY <1>6
    <3>2. u \in 1 .. n
      BY <1>1, <3>1
    <3>3. m \in 1 .. ns[u].kidCount /\ L[u][m] = K[u][m]
      BY <1>4, <1>6, <3>2
    <3>4. Loose(ns, K, f.self)
      BY <2>2, Zenon DEF FrameFits
    <3> QED  BY <1>1, <3>2, <3>3, <3>4, Zenon DEF Loose
  <2> QED  BY <2>1, <2>2, <2>3, <2>4, <2>5, Zenon DEF FrameFits
<1>8. FramesFit(rs, L, open)
  BY <1>1, <1>7, Zenon DEF FramesFit
<1>9. ASSUME NEW k \in 1 .. e PROVE MarkFits(text, S, U, P, open, k, i)
  <2>1. MarkFits(text, S, T, P, open, k, i)
    BY <1>1, Zenon DEF Stack, Marks
  <2>2. Outer(text, S, T, P, open, k - 1, P[k] - 1)
    BY <2>1, Zenon DEF MarkFits
  <2>3. SameCall(T, U, P, P, open, open, k - 1)
    <3> SUFFICES ASSUME k - 1 # 0 PROVE U[open[k - 1].self] = T[open[k - 1].self]
      BY Zenon DEF SameCall
    <3>1. k - 1 \in 1 .. e
      BY <1>1
    <3>2. open[k - 1].self \in 1 .. n
      BY <1>5, <3>1
    <3> QED  BY <1>4, <3>2
  <2>4. Outer(text, S, U, P, open, k - 1, P[k] - 1)
    <3>1. PICK h, j : h = k - 1 /\ j = P[k] - 1
      OBVIOUS
    <3>2. Outer(text, S, T, P, open, h, j) /\ SameCall(T, U, P, P, open, open, h)
      BY <2>2, <2>3, <3>1
    <3>3. Outer(text, S, U, P, open, h, j)
      BY <3>2, OuterSame, Zenon
    <3> QED  BY <3>1, <3>3
  <2> QED  BY <2>1, <2>4, Zenon DEF MarkFits
<1>10. Marks(text, S, U, P, open, i)
  BY <1>1, <1>9, Zenon DEF Marks
<1>11. Stack(text, S, rs, open, L, U, P, i)
  BY <1>4, <1>8, <1>10, Zenon DEF Stack
<1>12. (n + 1) - 1 = n
  BY <1>1
<1>13. Stacked(text, S, rs, open, L, U, P, i, T, n + 1, Tree(kind, val, str, <<>>))
  BY <1>4, <1>11, <1>12, Zenon DEF Stacked
<1> QED  BY <1>1, <1>13, Zenon

LEMMA BelowLast ==
  ASSUME NEW k \in Nat, NEW m \in 1 .. k + 1, m # k + 1
  PROVE  m \in 1 .. k
OBVIOUS

(* A container opens.                                                      *)
Above(open, v) == \A k \in 1 .. Len(open) : open[k].self < v

Pushed(text, S, rs, os, L, U, Q, i) == Stack(text, S, rs, os, L, U, Q, i) /\ Q[Len(os)] = i

LEMMA StackPushes ==
  ASSUME NEW text, NEW S, NEW rs, NEW open, NEW L, NEW U, NEW P, NEW i \in Nat,
         Stack(text, S, rs, open, L, U, P, i), NEW j, j = i + 1,
         NEW e \in Nat, e = Len(open), e <= MAX_DEPTH, NEW os, Len(os) = e + 1, SameFrames(open, os, e),
         NEW x, os[e + 1] = x, FrameFits(rs, L, x), Above(open, x.self), e = 0 => x.self = 1,
         text[j].lex = Open(Kind(x)), Outer(text, S, U, P, open, e, i)
  PROVE  \E Q : Pushed(text, S, rs, os, L, U, Q, j)
<1>1. \A k \in 1 .. e : os[k] = open[k] /\ k # e + 1
  <2>1. \A k \in 1 .. e : os[k] = open[k]
    BY Zenon DEF SameFrames
  <2>2. \A k \in 1 .. e : k # e + 1
    OBVIOUS
  <2> QED  BY <2>1, <2>2, Zenon
<1>2. PICK Q : Q = [k \in 1 .. e + 1 |-> IF k = e + 1 THEN j ELSE P[k]]
  OBVIOUS
<1>3. Q[e + 1] = j /\ \A k \in 1 .. e : Q[k] = P[k]
  BY <1>2
<1>4. FramesFit(rs, L, os)
  <2> SUFFICES ASSUME NEW k \in 1 .. e + 1 PROVE FrameFits(rs, L, os[k])
    BY Zenon DEF FramesFit
  <2>1. CASE k = e + 1
    BY <2>1
  <2>2. CASE k # e + 1
    <3>1. k \in 1 .. e
      BY <2>2, BelowLast, Zenon
    <3>2. FrameFits(rs, L, open[k])
      BY <3>1, Zenon DEF Stack, FramesFit
    <3> QED  BY <1>1, <3>1, <3>2
  <2> QED  BY <2>1, <2>2
<1>5. Rising(os)
  <2>0. Rising(open)
    BY DEF Stack
  <2>1. ASSUME NEW k \in 1 .. e + 1, NEW h \in 1 .. k - 1 PROVE os[h].self < os[k].self
    <3>1. h \in 1 .. e
      OBVIOUS
    <3>2. CASE k = e + 1
      <4>1. open[h].self < x.self
        BY <3>1, Zenon DEF Above
      <4> QED  BY <1>1, <3>1, <3>2, <4>1
    <3>3. CASE k # e + 1
      <4>1. k \in 1 .. e
        BY <3>3, BelowLast, Zenon
      <4>2. open[h].self < open[k].self
        BY <2>0, <4>1, Zenon DEF Rising
      <4> QED  BY <1>1, <3>1, <4>1, <4>2
    <3> QED  BY <3>2, <3>3
  <2>2. os[1].self = 1
    <3>1. CASE e = 0
      BY <3>1
    <3>2. CASE e # 0
      <4>1. 1 \in 1 .. e /\ e > 0
        BY <3>2
      <4>2. open[1].self = 1
        BY <2>0, <4>1, Zenon DEF Rising
      <4> QED  BY <1>1, <4>1, <4>2
    <3> QED  BY <3>1, <3>2
  <2> QED  BY <2>1, <2>2 DEF Rising
<1>6. Stack(text, S, rs, open, L, U, P, j)
  BY StackLater, Zenon
<1>7. ASSUME NEW k \in 1 .. e PROVE MarkFits(text, S, U, Q, os, k, j)
  <2>1. MarkFits(text, S, U, P, open, k, j)
    BY <1>6, Zenon DEF Stack, Marks
  <2>2. PICK h, b : h = k - 1 /\ b = P[k] - 1 /\ (h = 0 \/ h \in 1 .. e) /\ (k > 1 => h \in 1 .. e)
    <3>1. (k - 1 = 0 \/ k - 1 \in 1 .. e) /\ (k > 1 => k - 1 \in 1 .. e)
      OBVIOUS
    <3> QED  BY <3>1, Zenon
  <2>3. P[k] \in 1 .. j /\ text[P[k]].lex = Open(Kind(open[k])) /\ Outer(text, S, U, P, open, h, b)
    BY <2>1, <2>2, Zenon DEF MarkFits
  <2>4. SameCall(U, U, P, Q, open, os, h)
    BY <1>1, <1>3, <2>2, Zenon DEF SameCall
  <2>5. Outer(text, S, U, Q, os, h, b)
    BY <2>3, <2>4, OuterSame, Zenon
  <2>6. k > 1 => Q[k - 1] < Q[k]
    <3>1. k > 1 => P[k - 1] < P[k]
      BY <2>1, Zenon DEF MarkFits
    <3>2. k > 1 => Q[k - 1] = P[k - 1]
      BY <1>3, <2>2, Zenon
    <3>3. Q[k] = P[k]
      BY <1>3, Zenon
    <3> QED  BY <3>1, <3>2, <3>3, Zenon
  <2> QED  BY <1>1, <1>3, <2>2, <2>3, <2>5, <2>6, Zenon DEF MarkFits
<1>8. MarkFits(text, S, U, Q, os, e + 1, j)
  <2>1. j \in 1 .. j /\ j - 1 = i /\ (e + 1) - 1 = e
    OBVIOUS
  <2>2. SameCall(U, U, P, Q, open, os, e)
    <3>1. e # 0 => e \in 1 .. e
      OBVIOUS
    <3> QED  BY <1>1, <1>3, <3>1, Zenon DEF SameCall
  <2>3. Outer(text, S, U, Q, os, e, i)
    BY <2>2, OuterSame, Zenon
  <2>4. e + 1 > 1 => Q[(e + 1) - 1] < Q[e + 1]
    <3> SUFFICES ASSUME e + 1 > 1 PROVE Q[e] < j
      BY <1>3, <2>1
    <3>1. e \in 1 .. e
      OBVIOUS
    <3>2. MarkFits(text, S, U, P, open, e, i)
      BY <3>1, Zenon DEF Stack, Marks
    <3>3. P[e] \in 1 .. i
      BY <3>2, Zenon DEF MarkFits
    <3> QED  BY <1>3, <3>1, <3>3
  <2>5. Q[e + 1] \in 1 .. j /\ text[Q[e + 1]].lex = Open(Kind(os[e + 1]))
    BY <1>3, <2>1, Zenon
  <2>6. Outer(text, S, U, Q, os, (e + 1) - 1, Q[e + 1] - 1)
    BY <1>3, <2>1, <2>3, Zenon
  <2> QED  BY <2>4, <2>5, <2>6, Zenon DEF MarkFits
<1>9. Marks(text, S, U, Q, os, j)
  <2> SUFFICES ASSUME NEW k \in 1 .. e + 1 PROVE MarkFits(text, S, U, Q, os, k, j)
    BY Zenon DEF Marks
  <2>1. k \in 1 .. e \/ k = e + 1
    OBVIOUS
  <2> QED  BY <1>7, <1>8, <2>1, Zenon
<1>10. Len(os) <= MAX_DEPTH + 1
  BY JsonAssumption
<1>11. Stack(text, S, rs, os, L, U, Q, j)
  BY <1>4, <1>5, <1>9, <1>10, Zenon DEF Stack
<1> QED  BY <1>3, <1>11, Zenon DEF Pushed

(* A value becomes the last item of the innermost container.               *)
JoinedStack(text, S, rs, os, L, U, P, i, s, ms) ==
  Stack(text, S, rs, os, L, U, P, i) /\ U[s].kids = ms

TopJoined(open, os, v) ==
  LET e == Len(open)
  IN  /\ Len(os) = e /\ SameFrames(open, os, e - 1)
      /\ os[e].self = open[e].self /\ os[e].close = open[e].close /\ os[e].key = open[e].key
      /\ os[e].prev = v

Calls(open, n) == \A k \in 1 .. Len(open) : IsFrame(open[k], n)

LEMMA StackJoins ==
  ASSUME NEW text, NEW S, NEW ns, IsNodes(ns), NEW open, NEW K, NEW T, NEW P, NEW i,
         Stack(text, S, ns, open, K, T, P, i), NEW e \in Nat, e = Len(open), e > 0,
         Calls(open, Len(ns)), NEW f, f = open[e],
         NEW v \in 1 .. Len(ns), Loose(ns, K, v), Above(open, v),
         NEW rs, Linked(ns, rs, f, v), NEW os, TopJoined(open, os, v)
  PROVE  \E L, U : JoinedStack(text, S, rs, os, L, U, P, i, f.self, Append(T[f.self].kids, Item(f.key, T[v])))
<1>0. \A k \in 1 .. e : IsFrame(open[k], Len(ns))
  BY Zenon DEF Calls
<1>2. e \in 1 .. e /\ e \in 1 .. Len(open)
  OBVIOUS
<1>1. PICK n, s : n = Len(ns) /\ n \in Nat /\ s = f.self /\ s \in 1 .. n /\ IsFrame(f, n)
  <2>1. IsFrame(f, Len(ns)) /\ Len(ns) \in Nat
    BY <1>0, <1>2 DEF IsNodes, IsList
  <2> QED  BY <2>1 DEF IsFrame
<1>3. FrameFits(ns, K, f)
  BY <1>2, Zenon DEF Stack, FramesFit
<1>4. PICK L, U : Joined(ns, rs, K, T, L, U, f, v)
  <2>1. f.self < v
    BY <1>2, Zenon DEF Above
  <2>2. LastKid(ns, K, f) /\ Loose(ns, K, f.self) /\ ns[f.self].type = Kind(f)
    BY <1>3, Zenon DEF FrameFits
  <2>3. ns[f.self].type \in {"array", "object"}
    BY <2>2 DEF Kind
  <2>4. Woven(ns, K, T)
    BY Zenon DEF Stack
  <2>5. IsFrame(f, Len(ns))
    BY <1>1
  <2> QED  BY <2>1, <2>2, <2>3, <2>4, <2>5, WovenLinks, Zenon
<1>5. /\ Woven(rs, L, U) /\ U[s] = WithItem(ns[s], T[s], Item(f.key, T[v]))
      /\ L[s][ns[s].kidCount + 1] = v
      /\ \A u \in 1 .. n : u # s => U[u] = T[u] /\ L[u] = K[u]
      /\ \A w \in 1 .. n : Loose(ns, K, w) /\ w # v => Loose(rs, L, w)
  BY <1>1, <1>4, Zenon DEF Joined
<1>6. /\ Len(os) = e /\ \A k \in 1 .. e - 1 : os[k] = open[k]
      /\ os[e].self = s /\ os[e].close = f.close /\ os[e].key = f.key /\ os[e].prev = v
  BY <1>1, Zenon DEF TopJoined, SameFrames
<1>7. Kind(os[e]) = Kind(f)
  BY <1>6 DEF Kind
<1>8. ASSUME NEW k \in 1 .. e, k # e
      PROVE  os[k] = open[k] /\ open[k].self \in 1 .. n /\ open[k].self # s /\ open[k].self # v
  <2>1. k \in 1 .. e - 1
    BY <1>8
  <2>2. open[k].self < s
    <3>1. Rising(open)
      BY Zenon DEF Stack
    <3> QED  BY <1>1, <1>2, <2>1, <3>1, Zenon DEF Rising
  <2>3. open[k].self < v
    BY Zenon DEF Above
  <2>4. open[k].self \in 1 .. n
    <3>1. IsFrame(open[k], n)
      BY <1>0, <1>1
    <3> QED  BY <3>1, Zenon DEF IsFrame
  <2>5. open[k].self # s /\ open[k].self # v
    BY <1>1, <2>2, <2>3, <2>4
  <2> QED  BY <1>6, <2>1, <2>4, <2>5, Zenon
<1>9. ASSUME NEW u \in 1 .. n PROVE LinkedNode(ns[u], rs[u], f, u, v)
  BY <1>1, Zenon DEF Linked
<1>10. ASSUME NEW k \in 1 .. e PROVE FrameFits(rs, L, os[k])
  <2>1. CASE k = e
    <3>1. LinkedNode(ns[s], rs[s], f, s, v)
      BY <1>1, <1>9
    <3>2. PICK c : c = ns[s].kidCount /\ c \in Nat
      BY <1>1 DEF IsNodes, IsNode
    <3>3. /\ rs[s].type = ns[s].type /\ rs[s].num = ns[s].num /\ rs[s].text = ns[s].text
          /\ rs[s].kidCount = c + 1
      BY <1>1, <3>1, <3>2 DEF LinkedNode
    <3>4. LastKid(rs, L, os[e])
      <4>1. c + 1 # 0
        BY <3>2
      <4> QED  BY <1>5, <1>6, <3>2, <3>3, <4>1, Zenon DEF LastKid
    <3>5. Loose(rs, L, s)
      <4>1. Loose(ns, K, s) /\ s # v
        BY <1>1, <1>2, <1>3 DEF FrameFits, Above
      <4> QED  BY <1>1, <1>5, <4>1
    <3>6. /\ ns[s].type = Kind(f) /\ ns[s].num = 0 /\ ns[s].text = NoText
          /\ Kind(f) = "array" => f.key = NoText
      BY <1>1, <1>3, Zenon DEF FrameFits
    <3> QED  BY <1>6, <1>7, <2>1, <3>3, <3>4, <3>5, <3>6, Zenon DEF FrameFits
  <2>2. CASE k # e
    <3>1. PICK g, w : /\ g = open[k] /\ w = g.self /\ os[k] = g /\ w \in 1 .. n /\ w # s /\ w # v
      BY <1>8, <2>2
    <3>2. FrameFits(ns, K, g)
      BY <3>1, Zenon DEF Stack, FramesFit
    <3>3. LinkedNode(ns[w], rs[w], f, w, v)
      BY <1>9, <3>1
    <3>4. /\ rs[w].type = ns[w].type /\ rs[w].num = ns[w].num /\ rs[w].text = ns[w].text
          /\ rs[w].kidCount = ns[w].kidCount
      BY <1>1, <3>1, <3>3, Zenon DEF LinkedNode
    <3>5. L[w] = K[w] /\ Loose(rs, L, w)
      <4>1. Loose(ns, K, w)
        BY <3>1, <3>2, Zenon DEF FrameFits
      <4> QED  BY <1>5, <3>1, <4>1, Zenon
    <3>6. LastKid(rs, L, g)
      <4>1. LastKid(ns, K, g)
        BY <3>2, Zenon DEF FrameFits
      <4> QED  BY <3>1, <3>4, <3>5, <4>1, Zenon DEF LastKid
    <3> QED  BY <3>1, <3>2, <3>4, <3>5, <3>6, Zenon DEF FrameFits
  <2> QED  BY <2>1, <2>2
<1>11. FramesFit(rs, L, os)
  BY <1>6, <1>10, Zenon DEF FramesFit
<1>12. \A k \in 1 .. e : os[k].self = open[k].self /\ Kind(os[k]) = Kind(open[k])
  BY <1>1, <1>6, <1>7, <1>8
<1>13. Rising(os)
  <2>0. Rising(open)
    BY Zenon DEF Stack
  <2>1. ASSUME NEW k \in 1 .. e, NEW h \in 1 .. k - 1 PROVE os[h].self < os[k].self
    <3>1. h \in 1 .. e
      OBVIOUS
    <3>2. open[h].self < open[k].self
      BY <2>0, Zenon DEF Rising
    <3> QED  BY <1>12, <3>1, <3>2, Zenon
  <2>2. os[1].self = 1
    <3>1. 1 \in 1 .. e
      OBVIOUS
    <3>2. open[1].self = 1
      BY <2>0, Zenon DEF Rising
    <3> QED  BY <1>12, <3>1, <3>2, Zenon
  <2> QED  BY <1>6, <2>1, <2>2, Zenon DEF Rising
<1>14. ASSUME NEW k \in 1 .. e PROVE MarkFits(text, S, U, P, os, k, i)
  <2>1. MarkFits(text, S, T, P, open, k, i)
    BY Zenon DEF Stack, Marks
  <2>2. PICK h, b : h = k - 1 /\ b = P[k] - 1 /\ (h = 0 \/ (h \in 1 .. e /\ h # e))
    <3>1. k - 1 = 0 \/ (k - 1 \in 1 .. e /\ k - 1 # e)
      OBVIOUS
    <3> QED  BY <3>1, Zenon
  <2>3. Outer(text, S, T, P, open, h, b)
    BY <2>1, <2>2, Zenon DEF MarkFits
  <2>4. SameCall(T, U, P, P, open, os, h)
    <3> SUFFICES ASSUME h # 0 PROVE os[h] = open[h] /\ U[open[h].self] = T[open[h].self]
      BY Zenon DEF SameCall
    <3>1. os[h] = open[h] /\ open[h].self \in 1 .. n /\ open[h].self # s
      BY <1>8, <2>2
    <3> QED  BY <1>5, <3>1, Zenon
  <2>5. Outer(text, S, U, P, os, h, b)
    BY <2>3, <2>4, OuterSame, Zenon
  <2> QED  BY <1>12, <2>1, <2>2, <2>5, Zenon DEF MarkFits
<1>15. Marks(text, S, U, P, os, i)
  BY <1>6, <1>14, Zenon DEF Marks
<1>16. Len(os) <= MAX_DEPTH + 1
  BY <1>6, Zenon DEF Stack
<1>17. Stack(text, S, rs, os, L, U, P, i)
  BY <1>5, <1>11, <1>13, <1>15, <1>16, Zenon DEF Stack
<1>18. U[s].kids = Append(T[s].kids, Item(f.key, T[v]))
  BY <1>5 DEF WithItem, Tree
<1> QED  BY <1>1, <1>17, <1>18, Zenon DEF JoinedStack

(* How far the innermost call is with its container.                       *)
HereIn(text, S, kind, p, e, ms, key, w, i) ==
  \/ w = "first" /\ ms = <<>> /\ Blank(text, p + 1, i)
  \/ w = "kid" /\ \E c \in p + 1 .. i : Begun(text, S, kind, p, e, ms, c) /\ Blank(text, c + 1, i)
  \/ w = "colon" /\ \E c \in p .. i : \E q \in c + 1 .. i :
       Begun(text, S, kind, p, e, ms, c) /\ Keyed(text, c, key, q, i)
  \/ w = "value" /\ Waits(text, S, kind, p, e, ms, key, i)
  \/ w = "next" /\ ms \in S[<<kind, p + 1, i, e>>]

LEMMA BlankGrows ==
  ASSUME NEW text, NEW a \in Int, NEW h \in Int, NEW i, i = h + 1, Blank(text, a, h), text[i].lex = "ws"
  PROVE  Blank(text, a, i)
<1> SUFFICES ASSUME NEW p \in a .. i PROVE text[p].lex = "ws"
  BY DEF Blank
<1>1. CASE p = i
  BY <1>1
<1>2. CASE p # i
  <2>1. p \in a .. h
    BY <1>2
  <2> QED  BY <2>1 DEF Blank
<1> QED  BY <1>1, <1>2

LEMMA NoBlank ==
  ASSUME NEW text, NEW a, NEW h, a \in Int, h \in Int, h < a
  PROVE  Blank(text, a, h)
<1>1. \A p : p \notin a .. h
  OBVIOUS
<1> QED  BY <1>1, Zenon DEF Blank

LEMMA HereBlank ==
  ASSUME NEW text, Len(text) \in Nat, NEW S, IsGrammar(text, S), NEW kind \in {"array", "object"},
         NEW h \in 0 .. Len(text) - 1, NEW i, i = h + 1, text[i].lex = "ws", NEW p \in 1 .. h,
         NEW e \in 0 .. MAX_DEPTH + 1, NEW ms, NEW key, NEW w, HereIn(text, S, kind, p, e, ms, key, w, h)
  PROVE  HereIn(text, S, kind, p, e, ms, key, w, i)
<1>0. h \in Int /\ i \in Nat /\ i - 1 = h /\ i \in 1 .. Len(text) /\ p + 1 \in 1 .. Len(text) + 1
  OBVIOUS
<1>1. CASE w = "first" /\ ms = <<>> /\ Blank(text, p + 1, h)
  <2>1. Blank(text, p + 1, i)
    BY <1>0, <1>1, BlankGrows
  <2> QED  BY <1>1, <2>1, Zenon DEF HereIn
<1>2. CASE w = "kid" /\ \E c \in p + 1 .. h : Begun(text, S, kind, p, e, ms, c) /\ Blank(text, c + 1, h)
  <2>1. PICK c \in p + 1 .. h : Begun(text, S, kind, p, e, ms, c) /\ Blank(text, c + 1, h)
    BY <1>2
  <2>2. c \in p + 1 .. i /\ c + 1 \in Int
    OBVIOUS
  <2>3. Blank(text, c + 1, i)
    BY <1>0, <2>1, <2>2, BlankGrows, Zenon
  <2> QED  BY <1>2, <2>1, <2>2, <2>3, Zenon DEF HereIn
<1>3. CASE w = "colon" /\ \E c \in p .. h : \E q \in c + 1 .. h :
             Begun(text, S, kind, p, e, ms, c) /\ Keyed(text, c, key, q, h)
  <2>1. PICK c \in p .. h : \E q \in c + 1 .. h : Begun(text, S, kind, p, e, ms, c) /\ Keyed(text, c, key, q, h)
    BY <1>3
  <2>2. PICK q \in c + 1 .. h : Begun(text, S, kind, p, e, ms, c) /\ Keyed(text, c, key, q, h)
    BY <2>1
  <2>3. c \in p .. i /\ q \in c + 1 .. i /\ q + 1 \in Int
    OBVIOUS
  <2>4. Blank(text, q + 1, i)
    <3>1. Blank(text, q + 1, h)
      BY <2>2, Zenon DEF Keyed
    <3> QED  BY <1>0, <2>3, <3>1, BlankGrows, Zenon
  <2>5. Keyed(text, c, key, q, i)
    BY <2>2, <2>4, Zenon DEF Keyed
  <2> QED  BY <1>3, <2>2, <2>3, <2>5, Zenon DEF HereIn
<1>4. CASE w = "value" /\ Waits(text, S, kind, p, e, ms, key, h)
  <2>1. PICK a \in p + 1 .. h + 1 : \E c \in p .. a - 1 :
          Begun(text, S, kind, p, e, ms, c) /\ Named(text, kind, c, key, a) /\ Blank(text, a, h)
    BY <1>4, Zenon DEF Waits
  <2>2. PICK c \in p .. a - 1 : Begun(text, S, kind, p, e, ms, c) /\ Named(text, kind, c, key, a) /\ Blank(text, a, h)
    BY <2>1
  <2>3. a \in p + 1 .. i + 1 /\ a \in Int
    OBVIOUS
  <2>4. Blank(text, a, i)
    BY <1>0, <2>2, <2>3, BlankGrows, Zenon
  <2>5. Waits(text, S, kind, p, e, ms, key, i)
    BY <2>2, <2>3, <2>4, Zenon DEF Waits
  <2> QED  BY <1>4, <2>5, Zenon DEF HereIn
<1>5. CASE w = "next" /\ ms \in S[<<kind, p + 1, h, e>>]
  <2>1. ms \in S[<<kind, p + 1, i, e>>]
    <3>1. ms \in S[<<kind, p + 1, i - 1, e>>]
      BY <1>0, <1>5
    <3> QED  BY <1>0, <3>1, BlankBehindMembers, Zenon
  <2> QED  BY <1>5, <2>1, Zenon DEF HereIn
<1> QED  BY <1>1, <1>2, <1>3, <1>4, <1>5, Zenon DEF HereIn

LEMMA HereKey ==
  ASSUME NEW text, NEW S, NEW h \in Nat, NEW i, i = h + 1, text[i].lex = "str", NEW p \in 1 .. h,
         NEW e, NEW ms, NEW key, NEW w \in {"first", "kid"}, HereIn(text, S, "object", p, e, ms, key, w, h)
  PROVE  HereIn(text, S, "object", p, e, ms, text[i].text, "colon", i)
<1>1. \E c \in p .. h : Begun(text, S, "object", p, e, ms, c) /\ Blank(text, c + 1, h)
  <2>1. CASE w = "first"
    <3>1. ms = <<>> /\ Blank(text, p + 1, h)
      BY <2>1 DEF HereIn
    <3>2. Begun(text, S, "object", p, e, ms, p) /\ p \in p .. h
      BY <3>1 DEF Begun
    <3> QED  BY <3>1, <3>2, Zenon
  <2>2. CASE w = "kid"
    <3>1. PICK c \in p + 1 .. h : Begun(text, S, "object", p, e, ms, c) /\ Blank(text, c + 1, h)
      BY <2>2 DEF HereIn
    <3>2. c \in p .. h
      OBVIOUS
    <3> QED  BY <3>1, <3>2, Zenon
  <2> QED  BY <2>1, <2>2
<1>2. PICK c \in p .. h : Begun(text, S, "object", p, e, ms, c) /\ Blank(text, c + 1, h)
  BY <1>1
<1>3. c \in p .. i /\ i \in c + 1 .. i /\ i - 1 = h /\ i + 1 \in Int /\ i \in Int /\ i < i + 1
  OBVIOUS
<1>4. Keyed(text, c, text[i].text, i, i)
  <2>1. Blank(text, i + 1, i)
    BY <1>3, NoBlank, Zenon
  <2> QED  BY <1>2, <1>3, <2>1, Zenon DEF Keyed
<1> QED  BY <1>2, <1>3, <1>4, Zenon DEF HereIn

LEMMA HereColon ==
  ASSUME NEW text, NEW S, NEW h \in Nat, NEW i, i = h + 1, text[i].lex = "colon", NEW p \in 1 .. h,
         NEW e, NEW ms, NEW key, HereIn(text, S, "object", p, e, ms, key, "colon", h)
  PROVE  HereIn(text, S, "object", p, e, ms, key, "value", i)
<1>1. PICK c \in p .. h : \E q \in c + 1 .. h : Begun(text, S, "object", p, e, ms, c) /\ Keyed(text, c, key, q, h)
  BY DEF HereIn
<1>2. PICK q \in c + 1 .. h : Begun(text, S, "object", p, e, ms, c) /\ Keyed(text, c, key, q, h)
  BY <1>1
<1>3. PICK a : /\ a = i + 1 /\ a \in Int /\ a \in p + 1 .. i + 1 /\ a - 1 = i /\ a - 2 = h /\ i < a /\ i \in Int
  OBVIOUS
<1>4. c \in p .. a - 1 /\ q \in c + 1 .. a - 2 /\ a > c + 1
  BY <1>3
<1>5. Named(text, "object", c, key, a)
  <2>1. Keyed(text, c, key, q, a - 2) /\ text[a - 1].lex = "colon" /\ "object" # "array"
    BY <1>2, <1>3
  <2> QED  BY <1>4, <2>1, Zenon DEF Named
<1>6. Blank(text, a, i)
  BY <1>3, NoBlank, Zenon
<1>7. Waits(text, S, "object", p, e, ms, key, i)
  BY <1>2, <1>3, <1>4, <1>5, <1>6, Zenon DEF Waits
<1> QED  BY <1>7, Zenon DEF HereIn

LEMMA HereComma ==
  ASSUME NEW text, NEW S, NEW kind, NEW h \in Nat, NEW i, i = h + 1, text[i].lex = "comma", NEW p \in 1 .. h,
         NEW e, NEW ms, NEW key, HereIn(text, S, kind, p, e, ms, key, "next", h)
  PROVE  HereIn(text, S, kind, p, e, ms, key, "kid", i)
<1>1. ms \in S[<<kind, p + 1, h, e>>]
  BY DEF HereIn
<1>2. i \in p + 1 .. i /\ i - 1 = h /\ i > p /\ i + 1 \in Int /\ i \in Int /\ i < i + 1
  OBVIOUS
<1>3. Begun(text, S, kind, p, e, ms, i)
  BY <1>1, <1>2, Zenon DEF Begun
<1>4. Blank(text, i + 1, i)
  BY <1>2, NoBlank, Zenon
<1> QED  BY <1>2, <1>3, <1>4, Zenon DEF HereIn

LEMMA HereAwaits ==
  ASSUME NEW text, NEW S, NEW kind, NEW h \in Nat, NEW p \in 1 .. h,
         NEW e, NEW ms, NEW key, NEW w, HereIn(text, S, kind, p, e, ms, key, w, h),
         \/ w = "value"
         \/ w \in {"first", "kid"} /\ kind = "array" /\ key = NoText
  PROVE  Waits(text, S, kind, p, e, ms, key, h)
<1>1. CASE w = "value"
  BY <1>1 DEF HereIn
<1>2. CASE w \in {"first", "kid"} /\ kind = "array" /\ key = NoText
  <2>1. \E c \in p .. h : Begun(text, S, kind, p, e, ms, c) /\ Blank(text, c + 1, h)
    <3>1. CASE w = "first"
      <4>1. ms = <<>> /\ Blank(text, p + 1, h)
        BY <3>1 DEF HereIn
      <4>2. Begun(text, S, kind, p, e, ms, p) /\ p \in p .. h
        BY <4>1 DEF Begun
      <4> QED  BY <4>1, <4>2, Zenon
    <3>2. CASE w = "kid"
      <4>1. PICK c \in p + 1 .. h : Begun(text, S, kind, p, e, ms, c) /\ Blank(text, c + 1, h)
        BY <3>2 DEF HereIn
      <4>2. c \in p .. h
        OBVIOUS
      <4> QED  BY <4>1, <4>2, Zenon
    <3> QED  BY <1>2, <3>1, <3>2
  <2>2. PICK c \in p .. h : Begun(text, S, kind, p, e, ms, c) /\ Blank(text, c + 1, h)
    BY <2>1
  <2>3. PICK a : a = c + 1 /\ a \in p + 1 .. h + 1 /\ c \in p .. a - 1
    OBVIOUS
  <2>4. Named(text, kind, c, key, a)
    BY <1>2, <2>3, Zenon DEF Named
  <2>5. Blank(text, a, h)
    BY <2>2, <2>3
  <2> QED  BY <2>2, <2>3, <2>4, <2>5, Zenon DEF Waits
<1> QED  BY <1>1, <1>2

(* What the state of the reader behind lexeme i says of the text.          *)
HereTop(text, S, d, T, P, i) ==
  HereIn(text, S, Kind(Top(d)), P[Len(d.open)], Len(d.open), T[Top(d).self].kids, Top(d).key, d.want, i)

Here(text, S, d, T, P, i) ==
  IF Len(d.open) = 0
  THEN \/ d.want = "value" /\ Len(d.nodes) = 0 /\ Blank(text, 1, i)
       \/ d.want = "nothing" /\ Len(d.nodes) > 0 /\ T[1] \in S[<<"value", 1, i, 0>>]
  ELSE HereTop(text, S, d, T, P, i)

Held(text, S, d, K, T, P, i) ==
  Stack(text, S, d.nodes, d.open, K, T, P, i) /\ Here(text, S, d, T, P, i)

Holds(text, S, d, i) == \E K, T, P : Held(text, S, d, K, T, P, i)

AtTop(text, S, ns, K, T, P, open, e, i) ==
  /\ P[e] \in 1 .. i /\ text[P[e]].lex = Open(Kind(open[e]))
  /\ Outer(text, S, T, P, open, e - 1, P[e] - 1) /\ (e > 1 => P[e - 1] < P[e])
  /\ FrameFits(ns, K, open[e]) /\ e \in 0 .. MAX_DEPTH + 1

LEMMA TopMark ==
  ASSUME NEW text, NEW S, NEW ns, NEW open, NEW K, NEW T, NEW P, NEW i, Stack(text, S, ns, open, K, T, P, i),
         NEW e \in Nat, e = Len(open), e > 0
  PROVE  AtTop(text, S, ns, K, T, P, open, e, i)
<1>1. e \in 1 .. Len(open)
  OBVIOUS
<1>2. MarkFits(text, S, T, P, open, e, i) /\ FrameFits(ns, K, open[e])
  BY <1>1, Zenon DEF Stack, Marks, FramesFit
<1>3. e \in 0 .. MAX_DEPTH + 1
  <2>1. Len(open) <= MAX_DEPTH + 1
    BY Zenon DEF Stack
  <2> QED  BY <2>1, JsonAssumption
<1> QED  BY <1>2, <1>3, Zenon DEF MarkFits, AtTop

LEMMA KindIsType ==
  ASSUME NEW f
  PROVE  /\ Kind(f) \in {"array", "object"}
         /\ f.close = "rbrace" => Kind(f) = "object"
         /\ f.close = "rbracket" => Kind(f) = "array"
         /\ f.close \in {"rbrace", "rbracket"} => f.close = Close(Kind(f))
BY DEF Kind, Close

LEMMA HoldsBlank ==
  ASSUME NEW text, Len(text) \in Nat, NEW S, IsGrammar(text, S), NEW d, Goes(d),
         NEW h \in 0 .. Len(text) - 1, NEW i, i = h + 1, text[i].lex = "ws", Holds(text, S, d, h)
  PROVE  Holds(text, S, d, i)
<1>1. PICK K, T, P : Held(text, S, d, K, T, P, h)
  BY Zenon DEF Holds
<1>2. Stack(text, S, d.nodes, d.open, K, T, P, i)
  <2>1. h \in Nat
    OBVIOUS
  <2> QED  BY <1>1, <2>1, StackLater, Zenon DEF Held
<1>3. PICK e : e = Len(d.open) /\ e \in Nat
  BY DEF Goes, IsReader, IsList
<1>4. Here(text, S, d, T, P, h)
  BY <1>1, Zenon DEF Held
<1>5. CASE e = 0
  <2>1. CASE d.want = "value" /\ Len(d.nodes) = 0 /\ Blank(text, 1, h)
    <3>1. Blank(text, 1, i)
      BY <2>1, BlankGrows
    <3>2. Here(text, S, d, T, P, i)
      BY <1>3, <1>5, <2>1, <3>1, Zenon DEF Here
    <3> QED  BY <1>2, <3>2, Zenon DEF Holds, Held
  <2>2. CASE d.want = "nothing" /\ Len(d.nodes) > 0 /\ T[1] \in S[<<"value", 1, h, 0>>]
    <3>1. i - 1 = h /\ i \in 1 .. Len(text) /\ 1 \in 1 .. Len(text) + 1 /\ 0 \in 0 .. MAX_DEPTH + 1
      BY JsonAssumption
    <3>2. T[1] \in S[<<"value", 1, i - 1, 0>>]
      BY <2>2, <3>1, Zenon
    <3>3. T[1] \in S[<<"value", 1, i, 0>>]
      BY <3>1, <3>2, BlankBehind, Zenon
    <3>4. Here(text, S, d, T, P, i)
      BY <1>3, <1>5, <2>2, <3>3, Zenon DEF Here
    <3> QED  BY <1>2, <3>4, Zenon DEF Holds, Held
  <2> QED  BY <1>3, <1>4, <1>5, <2>1, <2>2, Zenon DEF Here
<1>6. CASE e # 0
  <2>1. e > 0
    BY <1>3, <1>6
  <2>2. P[e] \in 1 .. h /\ e \in 0 .. MAX_DEPTH + 1
    <3>1. Stack(text, S, d.nodes, d.open, K, T, P, h)
      BY <1>1, Zenon DEF Held
    <3>2. AtTop(text, S, d.nodes, K, T, P, d.open, e, h)
      BY <1>3, <2>1, <3>1, TopMark, Zenon
    <3> QED  BY <3>2, Zenon DEF AtTop
  <2>3. HereTop(text, S, d, T, P, h)
    BY <1>3, <1>4, <1>6, Zenon DEF Here
  <2>4. PICK kind, ms, key, w : /\ kind = Kind(Top(d)) /\ ms = T[Top(d).self].kids /\ key = Top(d).key /\ w = d.want
                                /\ kind \in {"array", "object"}
    BY KindIsType, Zenon
  <2>5. HereIn(text, S, kind, P[e], e, ms, key, w, h)
    BY <1>3, <2>3, <2>4, Zenon DEF HereTop
  <2>6. HereIn(text, S, kind, P[e], e, ms, key, w, i)
    BY <2>2, <2>4, <2>5, HereBlank, Zenon
  <2>7. Here(text, S, d, T, P, i)
    BY <1>3, <1>6, <2>4, <2>6, Zenon DEF Here, HereTop
  <2> QED  BY <1>2, <2>7, Zenon DEF Holds, Held
<1> QED  BY <1>5, <1>6

(* The innermost call moves on.                                            *)
LEMMA StackMoves ==
  ASSUME NEW text, NEW S, NEW d, NEW K, NEW T, NEW P, NEW i, Stack(text, S, d.nodes, d.open, K, T, P, i),
         NEW e \in Nat, e = Len(d.open), e > 0, NEW r, NEW w, NEW key, MovedTo(d, r, w, key),
         Kind(Top(d)) = "array" => key = NoText
  PROVE  Stack(text, S, r.nodes, r.open, K, T, P, i)
<1>1. PICK ns, open, os, f, g : ns = d.nodes /\ open = d.open /\ os = r.open /\ f = open[e] /\ g = os[e]
  OBVIOUS
<1>2. /\ r.nodes = ns /\ Len(os) = e /\ \A k \in 1 .. e - 1 : os[k] = open[k]
      /\ g.self = f.self /\ g.prev = f.prev /\ g.close = f.close /\ g.key = key
  BY <1>1, Zenon DEF MovedTo, SameFrames, Top
<1>3. Stack(text, S, ns, open, K, T, P, i) /\ Kind(g) = Kind(f) /\ (Kind(f) = "array" => key = NoText)
  <2>1. Kind(g) = Kind(f)
    BY <1>2, Zenon DEF Kind
  <2> QED  BY <1>1, <2>1, Zenon DEF Top
<1>4. \A k \in 1 .. e : k = e \/ (k \in 1 .. e - 1 /\ os[k] = open[k])
  <2>1. \A k \in 1 .. e : k = e \/ k \in 1 .. e - 1
    OBVIOUS
  <2> QED  BY <1>2, <2>1, Zenon
<1>5. \A k \in 1 .. e : os[k].self = open[k].self /\ Kind(os[k]) = Kind(open[k])
  BY <1>1, <1>2, <1>3, <1>4, Zenon
<1>6. ASSUME NEW k \in 1 .. e PROVE FrameFits(ns, K, os[k])
  <2>1. FrameFits(ns, K, open[k])
    BY <1>1, <1>3, Zenon DEF Stack, FramesFit
  <2>2. CASE k = e
    <3>1. FrameFits(ns, K, f)
      BY <1>1, <2>1, <2>2
    <3>2. LastKid(ns, K, g)
      BY <1>2, <3>1, Zenon DEF FrameFits, LastKid
    <3>3. FrameFits(ns, K, g)
      BY <1>2, <1>3, <3>1, <3>2, Zenon DEF FrameFits
    <3> QED  BY <1>1, <2>2, <3>3
  <2>3. CASE k # e
    BY <1>4, <2>1, <2>3, Zenon
  <2> QED  BY <2>2, <2>3
<1>7. FramesFit(ns, K, os)
  BY <1>2, <1>6, Zenon DEF FramesFit
<1>8. Rising(os)
  <2>0. Rising(open)
    BY <1>3, Zenon DEF Stack
  <2>1. ASSUME NEW k \in 1 .. e, NEW h \in 1 .. k - 1 PROVE os[h].self < os[k].self
    <3>1. h \in 1 .. e
      OBVIOUS
    <3>2. open[h].self < open[k].self
      BY <1>1, <2>0, Zenon DEF Rising
    <3> QED  BY <1>5, <3>1, <3>2, Zenon
  <2>2. os[1].self = 1
    <3>1. 1 \in 1 .. e
      OBVIOUS
    <3>2. open[1].self = 1
      BY <1>1, <2>0, Zenon DEF Rising
    <3> QED  BY <1>5, <3>1, <3>2, Zenon
  <2> QED  BY <1>2, <2>1, <2>2, Zenon DEF Rising
<1>9. ASSUME NEW k \in 1 .. e PROVE MarkFits(text, S, T, P, os, k, i)
  <2>1. MarkFits(text, S, T, P, open, k, i)
    BY <1>1, <1>3, Zenon DEF Stack, Marks
  <2>2. PICK h, b : h = k - 1 /\ b = P[k] - 1 /\ (h = 0 \/ (h \in 1 .. e - 1))
    <3>1. k - 1 = 0 \/ k - 1 \in 1 .. e - 1
      OBVIOUS
    <3> QED  BY <3>1, Zenon
  <2>3. Outer(text, S, T, P, open, h, b)
    BY <2>1, <2>2, Zenon DEF MarkFits
  <2>4. SameCall(T, T, P, P, open, os, h)
    BY <1>2, <2>2, Zenon DEF SameCall
  <2>5. Outer(text, S, T, P, os, h, b)
    BY <2>3, <2>4, OuterSame, Zenon
  <2> QED  BY <1>5, <2>1, <2>2, <2>5, Zenon DEF MarkFits
<1>10. Marks(text, S, T, P, os, i)
  BY <1>2, <1>9, Zenon DEF Marks
<1>11. Stack(text, S, ns, os, K, T, P, i)
  BY <1>1, <1>2, <1>3, <1>7, <1>8, <1>10, Zenon DEF Stack
<1> QED  BY <1>1, <1>2, <1>11, Zenon

LEMMA HoldsMoves ==
  ASSUME NEW text, NEW S, NEW d, NEW h \in Nat, NEW i, i = h + 1, NEW K, NEW T, NEW P,
         Stack(text, S, d.nodes, d.open, K, T, P, h),
         NEW e \in Nat, e = Len(d.open), e > 0, NEW r, NEW w, NEW key, MovedTo(d, r, w, key),
         Kind(Top(d)) = "array" => key = NoText,
         HereIn(text, S, Kind(Top(d)), P[e], e, T[Top(d).self].kids, key, w, i)
  PROVE  Holds(text, S, r, i)
<1>1. Stack(text, S, d.nodes, d.open, K, T, P, i)
  BY StackLater, Zenon
<1>2. Stack(text, S, r.nodes, r.open, K, T, P, i)
  BY <1>1, StackMoves, Zenon
<1>3. /\ Len(r.open) = e /\ Top(r).self = Top(d).self /\ Kind(Top(r)) = Kind(Top(d))
      /\ Top(r).key = key /\ r.want = w
  BY Zenon DEF MovedTo, Kind
<1>4. e # 0
  OBVIOUS
<1>5. Here(text, S, r, T, P, i)
  BY <1>3, <1>4, Zenon DEF Here, HereTop
<1> QED  BY <1>2, <1>5, Zenon DEF Holds, Held

(* A key, a colon, a comma.                                                *)
LEMMA GoesStands ==
  ASSUME NEW d, Goes(d)
  PROVE  /\ Len(d.open) \in Nat
         /\ d.want \in {"first", "kid", "colon", "next"} => Len(d.open) > 0
         /\ d.want = "colon" => Top(d).close = "rbrace"
         /\ d.want = "value" /\ Len(d.open) > 0 => Top(d).close = "rbrace"
         /\ d.want = "nothing" => Len(d.open) = 0
BY DEF Goes, IsReader, IsList, Stands

TopStands(text, S, d, K, T, P, e, h) ==
  /\ Stack(text, S, d.nodes, d.open, K, T, P, h) /\ P[e] \in 1 .. h
  /\ HereIn(text, S, Kind(Top(d)), P[e], e, T[Top(d).self].kids, Top(d).key, d.want, h)
  /\ FrameFits(d.nodes, K, Top(d))
  /\ text[P[e]].lex = Open(Kind(Top(d))) /\ Outer(text, S, T, P, d.open, e - 1, P[e] - 1)
  /\ (e > 1 => P[e - 1] < P[e]) /\ e \in 0 .. MAX_DEPTH + 1

LEMMA HeldTop ==
  ASSUME NEW text, NEW S, NEW d, NEW K, NEW T, NEW P, NEW h, Held(text, S, d, K, T, P, h),
         NEW e \in Nat, e = Len(d.open), e > 0
  PROVE  TopStands(text, S, d, K, T, P, e, h)
<1>1. Stack(text, S, d.nodes, d.open, K, T, P, h) /\ Here(text, S, d, T, P, h)
  BY Zenon DEF Held
<1>2. AtTop(text, S, d.nodes, K, T, P, d.open, e, h)
  BY <1>1, TopMark, Zenon
<1>3. HereTop(text, S, d, T, P, h)
  <2>1. e # 0
    OBVIOUS
  <2> QED  BY <1>1, <2>1, Zenon DEF Here
<1> QED  BY <1>1, <1>2, <1>3, Zenon DEF HereTop, Top, TopStands, AtTop

LEMMA HoldsKeys ==
  ASSUME NEW text, NEW S, NEW d, Goes(d), NEW i \in 1 .. Len(text), Keys(text, d, i),
         NEW h \in Nat, i = h + 1, Holds(text, S, d, h)
  PROVE  Holds(text, S, ReadLexeme(text, d, i), i)
<1>1. d.want \in {"first", "kid"} /\ Top(d).close = "rbrace" /\ text[i].lex = "str"
  BY Zenon DEF Keys
<1>2. MovedTo(d, ReadLexeme(text, d, i), "colon", text[i].text)
  BY <1>1, StepKeys, Zenon
<1>3. PICK e : e = Len(d.open) /\ e \in Nat /\ e > 0
  BY <1>1, GoesStands
<1>4. PICK K, T, P : Held(text, S, d, K, T, P, h)
  BY Zenon DEF Holds
<1>5. TopStands(text, S, d, K, T, P, e, h)
  BY <1>3, <1>4, HeldTop, Zenon
<1>6. Kind(Top(d)) = "object" /\ "object" # "array"
  BY <1>1, KindIsType
<1>7. HereIn(text, S, "object", P[e], e, T[Top(d).self].kids, Top(d).key, d.want, h) /\ P[e] \in 1 .. h
  BY <1>5, <1>6, Zenon DEF TopStands
<1>8. HereIn(text, S, "object", P[e], e, T[Top(d).self].kids, text[i].text, "colon", i)
  BY <1>1, <1>7, HereKey, Zenon
<1>9. Stack(text, S, d.nodes, d.open, K, T, P, h)
  BY <1>5, Zenon DEF TopStands
<1> QED  BY <1>2, <1>3, <1>6, <1>8, <1>9, HoldsMoves, Zenon

LEMMA HoldsColons ==
  ASSUME NEW text, NEW S, NEW d, Goes(d), NEW i \in 1 .. Len(text), Colons(text, d, i),
         NEW h \in Nat, i = h + 1, Holds(text, S, d, h)
  PROVE  Holds(text, S, ReadLexeme(text, d, i), i)
<1>1. d.want = "colon" /\ text[i].lex = "colon"
  BY Zenon DEF Colons
<1>2. MovedTo(d, ReadLexeme(text, d, i), "value", Top(d).key)
  BY <1>1, StepColon, Zenon
<1>3. PICK e : e = Len(d.open) /\ e \in Nat /\ e > 0
  BY <1>1, GoesStands
<1>4. PICK K, T, P : Held(text, S, d, K, T, P, h)
  BY Zenon DEF Holds
<1>5. TopStands(text, S, d, K, T, P, e, h)
  BY <1>3, <1>4, HeldTop, Zenon
<1>6. Kind(Top(d)) = "object" /\ "object" # "array"
  BY <1>1, KindIsType, GoesStands
<1>7. HereIn(text, S, "object", P[e], e, T[Top(d).self].kids, Top(d).key, "colon", h) /\ P[e] \in 1 .. h
  BY <1>1, <1>5, <1>6, Zenon DEF TopStands
<1>8. HereIn(text, S, "object", P[e], e, T[Top(d).self].kids, Top(d).key, "value", i)
  BY <1>1, <1>7, HereColon, Zenon
<1>9. Stack(text, S, d.nodes, d.open, K, T, P, h)
  BY <1>5, Zenon DEF TopStands
<1> QED  BY <1>2, <1>3, <1>6, <1>8, <1>9, HoldsMoves, Zenon

LEMMA HoldsCommas ==
  ASSUME NEW text, NEW S, NEW d, Goes(d), NEW i \in 1 .. Len(text), Commas(text, d, i),
         NEW h \in Nat, i = h + 1, Holds(text, S, d, h)
  PROVE  Holds(text, S, ReadLexeme(text, d, i), i)
<1>1. d.want = "next" /\ text[i].lex = "comma"
  BY Zenon DEF Commas
<1>2. MovedTo(d, ReadLexeme(text, d, i), "kid", Top(d).key)
  BY <1>1, StepComma, Zenon
<1>3. PICK e : e = Len(d.open) /\ e \in Nat /\ e > 0
  BY <1>1, GoesStands
<1>4. PICK K, T, P : Held(text, S, d, K, T, P, h)
  BY Zenon DEF Holds
<1>5. TopStands(text, S, d, K, T, P, e, h)
  BY <1>3, <1>4, HeldTop, Zenon
<1>6. Kind(Top(d)) = "array" => Top(d).key = NoText
  BY <1>5, Zenon DEF TopStands, FrameFits
<1>7. HereIn(text, S, Kind(Top(d)), P[e], e, T[Top(d).self].kids, Top(d).key, "next", h) /\ P[e] \in 1 .. h
  BY <1>1, <1>5, Zenon DEF TopStands
<1>8. HereIn(text, S, Kind(Top(d)), P[e], e, T[Top(d).self].kids, Top(d).key, "kid", i)
  BY <1>1, <1>7, HereComma, Zenon
<1>9. Stack(text, S, d.nodes, d.open, K, T, P, h)
  BY <1>5, Zenon DEF TopStands
<1> QED  BY <1>2, <1>3, <1>6, <1>8, <1>9, HoldsMoves, Zenon

(* The value that comes next is awaited.                                   *)
LEMMA OuterHere ==
  ASSUME NEW text, NEW S, NEW d, Goes(d), Awaits(d), NEW h \in Nat,
         NEW K, NEW T, NEW P, Held(text, S, d, K, T, P, h), NEW e \in Nat, e = Len(d.open)
  PROVE  Outer(text, S, T, P, d.open, e, h) /\ (e = 0 => Len(d.nodes) = 0)
<1>1. CASE e = 0
  <2>1. d.want = "value"
    <3>0. ~(Len(d.open) > 0)
      BY <1>1
    <3>1. d.want \notin {"first", "kid"}
      BY <3>0, GoesStands, Zenon
    <3> QED  BY <3>1, Zenon DEF Awaits
  <2>2. d.want # "nothing"
    BY <2>1
  <2>3. Len(d.nodes) = 0 /\ Blank(text, 1, h)
    BY <1>1, <2>1, <2>2, Zenon DEF Held, Here
  <2> QED  BY <1>1, <2>3, Zenon DEF Outer
<1>2. CASE e # 0
  <2>1. e > 0
    BY <1>2
  <2>2. TopStands(text, S, d, K, T, P, e, h)
    BY <2>1, HeldTop, Zenon
  <2>3. /\ HereIn(text, S, Kind(Top(d)), P[e], e, T[Top(d).self].kids, Top(d).key, d.want, h)
        /\ P[e] \in 1 .. h /\ (Kind(Top(d)) = "array" => Top(d).key = NoText)
    BY <2>2, Zenon DEF TopStands, FrameFits
  <2>4. \/ d.want = "value"
        \/ d.want \in {"first", "kid"} /\ Kind(Top(d)) = "array" /\ Top(d).key = NoText
    BY <2>3, KindIsType, Zenon DEF Awaits
  <2>5. Waits(text, S, Kind(Top(d)), P[e], e, T[Top(d).self].kids, Top(d).key, h)
    BY <2>3, <2>4, HereAwaits, Zenon
  <2> QED  BY <1>2, <2>5, Zenon DEF Outer, FrameWaits, Top
<1> QED  BY <1>1, <1>2

LEMMA Between ==
  ASSUME NEW n \in Nat, NEW h \in Nat, NEW i \in 1 .. n, i = h + 1, NEW p \in 1 .. h,
         NEW b \in 1 .. i, p < b
  PROVE  p \in 1 .. n /\ b \in p + 1 .. n /\ i \in b .. n
OBVIOUS

LEMMA BelowNext ==
  ASSUME NEW n \in Nat, NEW k \in 1 .. n, NEW v, v = n + 1
  PROVE  k < v
OBVIOUS

LEMMA BlanksOfText ==
  ASSUME NEW text, Len(text) \in Nat, NEW S, IsGrammar(text, S), NEW i \in 1 .. Len(text), NEW b \in 1 .. i,
         NEW t \in S[<<"value", b, i, 0>>], Blank(text, 1, b - 1)
  PROVE  t \in S[<<"value", 1, i, 0>>]
<1>1. /\ b \in 1 .. Len(text) + 1 /\ i \in 0 .. Len(text) /\ 0 \in 0 .. MAX_DEPTH + 1 /\ 1 \in 1 .. b
  BY JsonAssumption
<1> QED  BY <1>1, BlanksInFront, Zenon

(* A value ends at lexeme i, for the call that awaits it.                  *)
LEMMA ValueEndsText ==
  ASSUME NEW text, Len(text) \in Nat, NEW S, IsGrammar(text, S), NEW g, NEW K, NEW T, NEW P,
         NEW h \in Nat, NEW i \in 1 .. Len(text), i = h + 1,
         Stack(text, S, g.nodes, g.open, K, T, P, h), Len(g.nodes) > 0, Len(g.open) = 0,
         NEW b \in 1 .. i, T[1] \in S[<<"value", b, i, 0>>], Blank(text, 1, b - 1), NEW r, Back(g, r, 1)
  PROVE  Holds(text, S, r, i)
<1>1. r.nodes = g.nodes /\ r.open = g.open /\ r.want = "nothing"
  BY Zenon DEF Back
<1>3. T[1] \in S[<<"value", 1, i, 0>>]
  BY BlanksOfText, Zenon
<1>4. Stack(text, S, r.nodes, r.open, K, T, P, i)
  BY <1>1, StackLater, Zenon
<1>5. Here(text, S, r, T, P, i)
  BY <1>1, <1>3, Zenon DEF Here
<1> QED  BY <1>4, <1>5, Zenon DEF Holds, Held

LEMMA ValueEndsKid ==
  ASSUME NEW text, Len(text) \in Nat, NEW S, IsGrammar(text, S), NEW g, IsState(g), NEW K, NEW T, NEW P,
         NEW h \in Nat, NEW i \in 1 .. Len(text), i = h + 1,
         Stack(text, S, g.nodes, g.open, K, T, P, h),
         NEW v \in 1 .. Len(g.nodes), Loose(g.nodes, K, v), Above(g.open, v),
         NEW e \in Nat, e = Len(g.open), e > 0,
         NEW b \in 1 .. i, T[v] \in S[<<"value", b, i, e>>], Outer(text, S, T, P, g.open, e, b - 1), P[e] < b,
         NEW r, Back(g, r, v)
  PROVE  Holds(text, S, r, i)
<1>0. e # 0
  OBVIOUS
<1>1. PICK ns, open, rs, os, f : /\ ns = g.nodes /\ open = g.open /\ rs = r.nodes /\ os = r.open
                                 /\ f = open[e] /\ f = Top(g) /\ os[Len(os)] = Top(r)
  BY Zenon DEF Top
<1>2. /\ Linked(ns, rs, f, v) /\ r.want = "next" /\ Len(os) = e /\ SameFrames(open, os, e - 1)
      /\ Top(r).self = f.self /\ Top(r).close = f.close /\ Top(r).key = f.key /\ Top(r).prev = v
  BY <1>0, <1>1, Zenon DEF Back
<1>3. TopJoined(open, os, v)
  BY <1>1, <1>2, Zenon DEF TopJoined
<1>4. IsNodes(ns) /\ Calls(open, Len(ns))
  BY <1>1, Zenon DEF IsState, Calls
<1>5. PICK L, U : JoinedStack(text, S, rs, os, L, U, P, h, f.self, Append(T[f.self].kids, Item(f.key, T[v])))
  <2>1. /\ Stack(text, S, ns, open, K, T, P, h) /\ e = Len(open) /\ f = open[e]
        /\ v \in 1 .. Len(ns) /\ Loose(ns, K, v) /\ Above(open, v)
    BY <1>1, Zenon
  <2>2. Linked(ns, rs, f, v)
    BY <1>2
  <2> QED  BY <2>1, <2>2, <1>3, <1>4, StackJoins, Zenon
<1>6. Stack(text, S, rs, os, L, U, P, i) /\ U[f.self].kids = Append(T[f.self].kids, Item(f.key, T[v]))
  <2>1. Stack(text, S, rs, os, L, U, P, h) /\ U[f.self].kids = Append(T[f.self].kids, Item(f.key, T[v]))
    BY <1>5, Zenon DEF JoinedStack
  <2> QED  BY <2>1, StackLater, Zenon
<1>7. P[e] \in 1 .. h /\ e \in 0 .. MAX_DEPTH + 1
  <2>1. AtTop(text, S, g.nodes, K, T, P, g.open, e, h)
    BY TopMark, Zenon
  <2> QED  BY <2>1, Zenon DEF AtTop
<1>8. P[e] \in 1 .. Len(text) /\ b \in P[e] + 1 .. Len(text) /\ i \in b .. Len(text)
  BY <1>7, Between, Zenon
<1>9. Waits(text, S, Kind(f), P[e], e, T[f.self].kids, f.key, b - 1)
  BY <1>0, <1>1, Zenon DEF Outer, FrameWaits
<1>10. Kind(f) \in {"array", "object"} /\ Kind(Top(r)) = Kind(f)
  BY <1>2, KindIsType, Zenon DEF Kind
<1>11. Append(T[f.self].kids, Item(f.key, T[v])) \in S[<<Kind(f), P[e] + 1, i, e>>]
  <2>1. PICK kind, p, ms, key, t :
          kind = Kind(f) /\ p = P[e] /\ ms = T[f.self].kids /\ key = f.key /\ t = T[v]
    OBVIOUS
  <2>2. /\ kind \in {"array", "object"} /\ p \in 1 .. Len(text) /\ b \in p + 1 .. Len(text)
        /\ Waits(text, S, kind, p, e, ms, key, b - 1) /\ t \in S[<<"value", b, i, e>>]
    BY <1>8, <1>9, <1>10, <2>1, Zenon
  <2>3. Append(ms, Item(key, t)) \in S[<<kind, p + 1, i, e>>]
    BY <1>7, <1>8, <2>2, AwaitedValue, Zenon
  <2> QED  BY <2>1, <2>3, Zenon
<1>12. HereIn(text, S, Kind(Top(r)), P[e], e, U[Top(r).self].kids, Top(r).key, "next", i)
  BY <1>2, <1>6, <1>10, <1>11, Zenon DEF HereIn
<1>13. Here(text, S, r, U, P, i)
  BY <1>0, <1>1, <1>2, <1>12, Zenon DEF Here, HereTop
<1> QED  BY <1>1, <1>6, <1>13, Zenon DEF Holds, Held

Ended(text, S, g, K, T, P, v, e, b, i) ==
  /\ Loose(g.nodes, K, v) /\ Above(g.open, v) /\ T[v] \in S[<<"value", b, i, e>>]
  /\ Outer(text, S, T, P, g.open, e, b - 1) /\ (e > 0 => P[e] < b) /\ (e = 0 => v = 1)

LEMMA ValueEnds ==
  ASSUME NEW text, Len(text) \in Nat, NEW S, IsGrammar(text, S), NEW g, IsState(g), NEW K, NEW T, NEW P,
         NEW h \in Nat, NEW i \in 1 .. Len(text), i = h + 1,
         Stack(text, S, g.nodes, g.open, K, T, P, h), NEW v \in 1 .. Len(g.nodes),
         NEW e \in Nat, e = Len(g.open), NEW b \in 1 .. i, Ended(text, S, g, K, T, P, v, e, b, i),
         NEW r, Back(g, r, v)
  PROVE  Holds(text, S, r, i)
<1>1. CASE e = 0
  <2>1. v = 1 /\ T[1] \in S[<<"value", b, i, 0>>] /\ Blank(text, 1, b - 1)
    BY <1>1, Zenon DEF Ended, Outer
  <2>2. Len(g.nodes) > 0
    BY DEF IsState, IsNodes, IsList
  <2> QED  BY <1>1, <2>1, <2>2, ValueEndsText, Zenon
<1>2. CASE e > 0
  BY <1>2, ValueEndsKid, Zenon DEF Ended
<1> QED  BY <1>1, <1>2

(* The node of a value that begins at lexeme i = h + 1.                    *)
Added(text, S, rs, open, L, U, P, h, v, e, t) ==
  /\ Stack(text, S, rs, open, L, U, P, h) /\ U[v] = t /\ Loose(rs, L, v) /\ Above(open, v)
  /\ Outer(text, S, U, P, open, e, h) /\ (e = 0 => v = 1)

LEMMA NodeIsAdded ==
  ASSUME NEW text, NEW S, NEW d, Goes(d), Awaits(d), NEW h \in Nat,
         NEW K, NEW T, NEW P, Held(text, S, d, K, T, P, h), NEW e \in Nat, e = Len(d.open),
         NEW n \in Nat, n = Len(d.nodes), NEW v, v = n + 1,
         NEW rs, NEW kind, NEW val, NEW str, Grew(d.nodes, rs, kind, val, str)
  PROVE  \E L, U : Added(text, S, rs, d.open, L, U, P, h, v, e, Tree(kind, val, str, <<>>))
<1>1. Outer(text, S, T, P, d.open, e, h) /\ (e = 0 => n = 0)
  BY OuterHere, Zenon
<1>2. PICK L, U : Stacked(text, S, rs, d.open, L, U, P, h, T, v, Tree(kind, val, str, <<>>))
  <2>1. IsNodes(d.nodes) /\ IsList(d.open) /\ \A k \in 1 .. Len(d.open) : IsFrame(d.open[k], Len(d.nodes))
    BY Zenon DEF Goes, IsReader
  <2>2. Stack(text, S, d.nodes, d.open, K, T, P, h)
    BY Zenon DEF Held
  <2> QED  BY <2>1, <2>2, StackGrows, Zenon
<1>3. v - 1 = n /\ (e = 0 => v = 1)
  BY <1>1
<1>4. /\ Stack(text, S, rs, d.open, L, U, P, h) /\ U[v] = Tree(kind, val, str, <<>>) /\ Loose(rs, L, v)
      /\ \A u \in 1 .. n : U[u] = T[u]
  BY <1>2, <1>3, Zenon DEF Stacked
<1>5. \A k \in 1 .. e : d.open[k].self \in 1 .. n
  BY Zenon DEF Goes, IsReader, IsFrame
<1>6. Above(d.open, v)
  BY <1>5, BelowNext, Zenon DEF Above
<1>7. Outer(text, S, U, P, d.open, e, h)
  <2>1. e # 0 => e \in 1 .. e
    OBVIOUS
  <2>2. SameCall(T, U, P, P, d.open, d.open, e)
    BY <1>4, <1>5, <2>1, Zenon DEF SameCall
  <2> QED  BY <1>1, <2>2, OuterSame, Zenon
<1> QED  BY <1>3, <1>4, <1>6, <1>7, Zenon DEF Added

(* A scalar.                                                               *)
LEMMA HoldsScalars ==
  ASSUME NEW text, Len(text) \in Nat, NEW S, IsGrammar(text, S), NEW d, Goes(d),
         NEW i \in 1 .. Len(text), Scalars(text, d, i),
         NEW h \in Nat, i = h + 1, Holds(text, S, d, h)
  PROVE  Holds(text, S, ReadLexeme(text, d, i), i)
<1>1. PICK K, T, P : Held(text, S, d, K, T, P, h)
  BY Zenon DEF Holds
<1>2. PICK t : t \in ScalarTrees(text[i])
  BY Zenon DEF Scalars
<1>3. Awaits(d) /\ Len(d.open) <= MAX_DEPTH
  BY Zenon DEF Scalars
<1>4. PICK e : e = Len(d.open) /\ e \in Nat
  BY GoesStands, Zenon
<1>5. PICK kind, val, str : t = Tree(kind, val, str, <<>>) /\ WithScalar(d, ReadLexeme(text, d, i), kind, val, str)
  BY <1>2, <1>3, <1>4, StepScalar, Zenon
<1>6. PICK g : /\ IsState(g) /\ g.open = d.open /\ Grew(d.nodes, g.nodes, kind, val, str)
               /\ Back(g, ReadLexeme(text, d, i), Len(d.nodes) + 1)
  BY <1>5, Zenon DEF WithScalar
<1>7. PICK n, v : n = Len(d.nodes) /\ n \in Nat /\ v = n + 1 /\ v \in 1 .. Len(g.nodes)
  <2>1. Len(d.nodes) \in Nat
    BY Zenon DEF Goes, IsReader, IsNodes, IsList
  <2>2. Len(g.nodes) = Len(d.nodes) + 1
    BY <1>6, Zenon DEF Grew
  <2>3. Len(d.nodes) + 1 \in 1 .. Len(g.nodes)
    BY <2>1, <2>2
  <2> QED  BY <2>1, <2>3, Zenon
<1>8. PICK L, U : Added(text, S, g.nodes, d.open, L, U, P, h, v, e, t)
  BY <1>1, <1>3, <1>4, <1>5, <1>6, <1>7, NodeIsAdded, Zenon
<1>9. U[v] \in S[<<"value", i, i, e>>]
  <2>1. /\ i \in 1 .. Len(text) + 1 /\ i \in 0 .. Len(text) /\ e \in 0 .. MAX_DEPTH + 1
        /\ i <= i /\ e <= MAX_DEPTH
    BY <1>3, <1>4, JsonAssumption
  <2>2. SaysValue(text, S, i, i, e, t)
    BY <1>2, <2>1, Zenon DEF SaysValue
  <2>3. t \in S[<<"value", i, i, e>>]
    BY <2>1, <2>2, ValueRule, Zenon
  <2> QED  BY <1>8, <2>3, Zenon DEF Added
<1>10. Stack(text, S, g.nodes, g.open, L, U, P, h)
  BY <1>6, <1>8, Zenon DEF Added
<1>11. e > 0 => P[e] < i
  <2> SUFFICES ASSUME e > 0 PROVE P[e] < i
    OBVIOUS
  <2>1. P[e] \in 1 .. h
    <3>1. AtTop(text, S, g.nodes, L, U, P, g.open, e, h)
      BY <1>4, <1>6, <1>10, TopMark, Zenon
    <3> QED  BY <3>1, Zenon DEF AtTop
  <2> QED  BY <2>1, BelowNext, Zenon
<1>12. i - 1 = h /\ i \in 1 .. i
  OBVIOUS
<1>13. Ended(text, S, g, L, U, P, v, e, i, i)
  BY <1>6, <1>8, <1>9, <1>11, <1>12, Zenon DEF Ended, Added
<1> QED  BY <1>4, <1>6, <1>7, <1>10, <1>12, <1>13, ValueEnds, Zenon

(* A container begins.                                                     *)
LEMMA HoldsOpens ==
  ASSUME NEW text, NEW S, NEW d, Goes(d), NEW i \in 1 .. Len(text), Opens(text, d, i),
         NEW h \in Nat, i = h + 1, Holds(text, S, d, h)
  PROVE  Holds(text, S, ReadLexeme(text, d, i), i)
<1>1. PICK K, T, P : Held(text, S, d, K, T, P, h)
  BY Zenon DEF Holds
<1>2. Awaits(d) /\ Len(d.open) <= MAX_DEPTH
  BY Zenon DEF Opens
<1>3. PICK kind \in {"array", "object"} : text[i].lex = Open(kind)
  BY Zenon DEF Opens
<1>4. PICK e : e = Len(d.open) /\ e \in Nat
  BY GoesStands, Zenon
<1>5. PICK r : r = ReadLexeme(text, d, i) /\ OpenedAt(d, r, kind, Close(kind))
  BY <1>2, <1>3, <1>4, StepOpens, Zenon
<1>6. PICK n, v : n = Len(d.nodes) /\ n \in Nat /\ v = n + 1
  BY Zenon DEF Goes, IsReader, IsNodes, IsList
<1>7. PICK rs, os, x : rs = r.nodes /\ os = r.open /\ x = Top(r)
  OBVIOUS
<1>8. /\ Grew(d.nodes, rs, kind, 0, NoText) /\ r.want = "first" /\ Len(os) = e + 1 /\ SameFrames(d.open, os, e)
      /\ x.self = v /\ x.prev = 0 /\ x.close = Close(kind) /\ x.key = NoText /\ os[e + 1] = x
  BY <1>4, <1>5, <1>6, <1>7, Zenon DEF OpenedAt, Top
<1>9. PICK L, U : Added(text, S, rs, d.open, L, U, P, h, v, e, Tree(kind, 0, NoText, <<>>))
  BY <1>1, <1>2, <1>4, <1>6, <1>8, NodeIsAdded, Zenon
<1>10. Kind(x) = kind
  BY <1>8 DEF Kind, Close
<1>11. FrameFits(rs, L, x)
  <2>1. rs[v].type = kind /\ rs[v].num = 0 /\ rs[v].text = NoText /\ rs[v].kidCount = 0
    BY <1>6, <1>8, Zenon DEF Grew
  <2>2. LastKid(rs, L, x)
    BY <1>8, <2>1, Zenon DEF LastKid
  <2> QED  BY <1>8, <1>9, <1>10, <2>1, <2>2, Zenon DEF FrameFits, Added
<1>12. PICK Q : Pushed(text, S, rs, os, L, U, Q, i)
  <2>1. /\ Stack(text, S, rs, d.open, L, U, P, h) /\ Above(d.open, x.self) /\ (e = 0 => x.self = 1)
        /\ Outer(text, S, U, P, d.open, e, h)
    BY <1>8, <1>9, Zenon DEF Added
  <2>2. text[i].lex = Open(Kind(x)) /\ e <= MAX_DEPTH
    BY <1>2, <1>3, <1>4, <1>10
  <2> QED  BY <1>4, <1>8, <1>11, <2>1, <2>2, StackPushes, Zenon
<1>13. Stack(text, S, r.nodes, r.open, L, U, Q, i) /\ Q[e + 1] = i
  BY <1>7, <1>8, <1>12, Zenon DEF Pushed
<1>14. U[x.self].kids = <<>>
  <2>1. U[x.self] = Tree(kind, 0, NoText, <<>>)
    BY <1>8, <1>9, Zenon DEF Added
  <2> QED  BY <2>1 DEF Tree
<1>15. Blank(text, i + 1, i)
  <2>1. i + 1 \in Int /\ i \in Int /\ i < i + 1
    OBVIOUS
  <2> QED  BY <2>1, NoBlank, Zenon
<1>16. HereIn(text, S, Kind(x), Q[e + 1], e + 1, U[x.self].kids, x.key, r.want, i)
  BY <1>8, <1>13, <1>14, <1>15, Zenon DEF HereIn
<1>17. Here(text, S, r, U, Q, i)
  <2>1. e + 1 # 0
    BY <1>4
  <2> QED  BY <1>7, <1>8, <1>16, <2>1, Zenon DEF Here, HereTop
<1> QED  BY <1>5, <1>13, <1>17, Zenon DEF Holds, Held

(* A container ends.                                                       *)
IsClosed(T, f) == \E ms : T[f.self] = Tree(Kind(f), 0, NoText, ms) /\ T[f.self].kids = ms

LEMMA ClosedTree ==
  ASSUME NEW ns, NEW K, NEW T, Woven(ns, K, T), NEW f, FrameFits(ns, K, f), f.self \in 1 .. Len(ns)
  PROVE  IsClosed(T, f)
<1>1. Denoted(ns, K, T, f.self)
  BY Zenon DEF Woven
<1>2. T[f.self] = Tree(Kind(f), 0, NoText, Items(ns, K, T, f.self))
  BY <1>1, Zenon DEF FrameFits, Denoted
<1>3. T[f.self].kids = Items(ns, K, T, f.self)
  BY <1>2 DEF Tree
<1> QED  BY <1>2, <1>3, Zenon DEF IsClosed

Shut(text, S, kind, p, e, ms, key, w, h, i) ==
  /\ p \in 1 .. h /\ text[p].lex = Open(kind) /\ text[i].lex = Close(kind)
  /\ w \in {"first", "next"} /\ HereIn(text, S, kind, p, e, ms, key, w, h)

LEMMA ClosedValue ==
  ASSUME NEW text, Len(text) \in Nat, NEW S, IsGrammar(text, S), NEW kind \in {"array", "object"},
         NEW i \in 1 .. Len(text), NEW h \in Nat, i = h + 1, NEW c \in 0 .. MAX_DEPTH, NEW e, e = c + 1,
         NEW p, NEW ms, NEW key, NEW w, Shut(text, S, kind, p, e, ms, key, w, h, i)
  PROVE  Tree(kind, 0, NoText, ms) \in S[<<"value", p, i, c>>]
<1>0. /\ p \in 1 .. h /\ text[p].lex = Open(kind) /\ text[i].lex = Close(kind)
      /\ w \in {"first", "next"} /\ HereIn(text, S, kind, p, e, ms, key, w, h)
  BY Zenon DEF Shut
<1>1. /\ i - 1 = h /\ p < i /\ p <= i /\ p \in 1 .. Len(text) + 1 /\ i \in 0 .. Len(text)
      /\ c \in 0 .. MAX_DEPTH + 1 /\ c <= MAX_DEPTH
  BY <1>0, JsonAssumption
<1>2. \/ ms = <<>> /\ Blank(text, p + 1, h)
      \/ ms \in S[<<kind, p + 1, h, e>>]
  BY <1>0, Zenon DEF HereIn
<1>3. Enclosed(text, S, kind, p, i, c, Tree(kind, 0, NoText, ms))
  BY <1>0, <1>1, <1>2, Zenon DEF Enclosed
<1>4. SaysValue(text, S, p, i, c, Tree(kind, 0, NoText, ms))
  BY <1>1, <1>3, Zenon DEF SaysValue
<1> QED  BY <1>1, <1>4, ValueRule, Zenon

LEMMA HoldsCloses ==
  ASSUME NEW text, Len(text) \in Nat, NEW S, IsGrammar(text, S), NEW d, Goes(d),
         NEW i \in 1 .. Len(text), Closes(text, d, i),
         NEW h \in Nat, i = h + 1, Holds(text, S, d, h)
  PROVE  Holds(text, S, ReadLexeme(text, d, i), i)
<1>1. PICK K, T, P : Held(text, S, d, K, T, P, h)
  BY Zenon DEF Holds
<1>2. d.want \in {"first", "next"} /\ text[i].lex = Top(d).close
  BY Zenon DEF Closes
<1>3. PICK e : e = Len(d.open) /\ e \in Nat /\ e > 0
  BY <1>2, GoesStands
<1>4. PICK g : /\ IsState(g) /\ g.nodes = d.nodes /\ Len(g.open) = Len(d.open) - 1
               /\ SameFrames(d.open, g.open, Len(g.open)) /\ Back(g, ReadLexeme(text, d, i), Top(d).self)
  BY <1>2, StepCloses, Zenon DEF ClosedAt
<1>5. PICK c : c = Len(g.open) /\ c = e - 1 /\ c \in Nat /\ e = c + 1
  <2>1. e - 1 \in Nat /\ e = (e - 1) + 1
    BY <1>3
  <2> QED  BY <1>3, <1>4, <2>1, Zenon
<1>6. PICK f, v, kind : f = Top(d) /\ v = f.self /\ kind = Kind(f)
  OBVIOUS
<1>7. TopStands(text, S, d, K, T, P, e, h)
  BY <1>1, <1>3, HeldTop, Zenon
<1>8. /\ Stack(text, S, d.nodes, d.open, K, T, P, h) /\ P[e] \in 1 .. h /\ FrameFits(d.nodes, K, f)
      /\ HereIn(text, S, kind, P[e], e, T[v].kids, f.key, d.want, h)
  BY <1>6, <1>7, Zenon DEF TopStands
<1>9. /\ text[P[e]].lex = Open(kind) /\ Outer(text, S, T, P, d.open, c, P[e] - 1)
      /\ (e > 1 => P[e - 1] < P[e]) /\ e \in 0 .. MAX_DEPTH + 1
  <2>1. e - 1 = c
    BY <1>5
  <2> QED  BY <1>6, <1>7, <2>1, Zenon DEF TopStands
<1>10. IsFrame(f, Len(d.nodes)) /\ v \in 1 .. Len(d.nodes) /\ f.close \in {"rbracket", "rbrace"}
  <2>1. e \in 1 .. Len(d.open)
    BY <1>3
  <2>2. IsFrame(f, Len(d.nodes))
    BY <1>3, <1>6, <2>1, Zenon DEF Goes, IsReader, Top
  <2> QED  BY <1>6, <2>2, Zenon DEF IsFrame
<1>11. PICK ms : T[v] = Tree(kind, 0, NoText, ms) /\ T[v].kids = ms
  <2>1. Woven(d.nodes, K, T)
    BY <1>8, Zenon DEF Stack
  <2>2. f.self \in 1 .. Len(d.nodes)
    BY <1>6, <1>10
  <2>3. IsClosed(T, f)
    BY <1>8, <2>1, <2>2, ClosedTree, Zenon
  <2> QED  BY <1>6, <2>3, Zenon DEF IsClosed
<1>12. kind \in {"array", "object"} /\ text[i].lex = Close(kind)
  BY <1>2, <1>6, <1>10, KindIsType, Zenon
<1>13. c \in 0 .. MAX_DEPTH
  BY <1>5, <1>9, JsonAssumption
<1>14. T[v] \in S[<<"value", P[e], i, c>>]
  <2>1. PICK p, key, w : p = P[e] /\ key = f.key /\ w = d.want
    OBVIOUS
  <2>2. Shut(text, S, kind, p, e, ms, key, w, h, i)
    BY <1>2, <1>8, <1>9, <1>11, <1>12, <2>1, Zenon DEF Shut
  <2>3. Tree(kind, 0, NoText, ms) \in S[<<"value", p, i, c>>]
    BY <1>5, <1>12, <1>13, <2>2, ClosedValue, Zenon
  <2> QED  BY <1>11, <2>1, <2>3, Zenon
<1>15. Stack(text, S, g.nodes, g.open, K, T, P, h)
  <2>1. Stack(text, S, d.nodes, g.open, K, T, P, h)
    BY <1>3, <1>4, <1>8, StackPops, Zenon
  <2> QED  BY <1>4, <2>1
<1>16. \A k \in 1 .. c : g.open[k] = d.open[k] /\ k \in 1 .. e - 1
  BY <1>4, <1>5, Zenon DEF SameFrames
<1>17. Rising(d.open)
  BY <1>8, Zenon DEF Stack
<1>18. Above(g.open, v)
  <2>1. e \in 1 .. Len(d.open)
    BY <1>3
  <2> QED  BY <1>3, <1>5, <1>6, <1>16, <1>17, <2>1, Zenon DEF Above, Rising, Top
<1>19. Outer(text, S, T, P, g.open, c, P[e] - 1)
  <2>1. c # 0 => c \in 1 .. c
    BY <1>5
  <2>2. SameCall(T, T, P, P, d.open, g.open, c)
    BY <1>16, <2>1, Zenon DEF SameCall
  <2> QED  BY <1>9, <2>2, OuterSame, Zenon
<1>20. (c > 0 => P[c] < P[e]) /\ (c = 0 => v = 1)
  <2>1. c > 0 => e > 1
    BY <1>5
  <2>2. c > 0 => P[c] < P[e]
    BY <1>5, <1>9, <2>1, Zenon
  <2>3. c = 0 => v = 1
    <3>1. c = 0 => e = 1
      BY <1>5
    <3> QED  BY <1>3, <1>6, <1>17, <3>1, Zenon DEF Rising, Top
  <2> QED  BY <2>2, <2>3
<1>21. P[e] \in 1 .. i
  BY <1>8
<1>22. Ended(text, S, g, K, T, P, v, c, P[e], i)
  <2>1. Loose(g.nodes, K, v)
    BY <1>4, <1>6, <1>8, Zenon DEF FrameFits
  <2> QED  BY <1>14, <1>18, <1>19, <1>20, <2>1, Zenon DEF Ended
<1> QED  BY <1>4, <1>5, <1>6, <1>10, <1>15, <1>21, <1>22, ValueEnds, Zenon

(* The reader begins with nothing open, and no node.                       *)
LEMMA EmptyHolds ==
  ASSUME NEW text, NEW S
  PROVE  Holds(text, S, EmptyDoc, 0)
<1>1. PICK K, T, P : K = 0 /\ T = 0 /\ P = 0
  OBVIOUS
<1>2. PICK ns, open : ns = EmptyDoc.nodes /\ open = EmptyDoc.open /\ Len(ns) = 0 /\ Len(open) = 0
  BY EmptyGoes, Zenon
<1>3. \A u : u \notin 1 .. 0
  OBVIOUS
<1>4. Woven(ns, K, T)
  BY <1>2, <1>3, Zenon DEF Woven, Apart
<1>5. FramesFit(ns, K, open) /\ Marks(text, S, T, P, open, 0)
  BY <1>2, <1>3, Zenon DEF FramesFit, Marks
<1>6. Rising(open) /\ Len(open) <= MAX_DEPTH + 1
  BY <1>2, JsonAssumption DEF Rising
<1>7. Blank(text, 1, 0)
  BY <1>3, Zenon DEF Blank
<1>8. Here(text, S, EmptyDoc, T, P, 0)
  BY <1>2, <1>7, EmptyGoes, Zenon DEF Here
<1>9. Stack(text, S, ns, open, K, T, P, 0)
  BY <1>4, <1>5, <1>6, Zenon DEF Stack
<1> QED  BY <1>2, <1>8, <1>9, Zenon DEF Holds, Held

(* Every lexeme that is no error goes on with it.                          *)
GoesOn(text, S, r, i) == Goes(r) /\ Holds(text, S, r, i)

LEMMA StepHolds ==
  ASSUME NEW text, Len(text) \in Nat, NEW S, IsGrammar(text, S), NEW d, Goes(d),
         NEW i \in 1 .. Len(text), text[i].lex # "end", NEW h \in Nat, i = h + 1, Holds(text, S, d, h),
         ReadLexeme(text, d, i).err = NoText
  PROVE  GoesOn(text, S, ReadLexeme(text, d, i), i)
<1>1. StepKinds(text, d, i)
  BY StepCases, Zenon
<1>2. Len(d.open) \in Nat /\ d.err = NoText /\ IsReader(d)
  BY GoesStands, Zenon DEF Goes
<1>3. CASE Blanks(text, d, i)
  <2>1. ReadLexeme(text, d, i) = d
    BY <1>2, <1>3, StepBlank, Zenon DEF Blanks
  <2>2. text[i].lex = "ws"
    BY <1>3, Zenon DEF Blanks
  <2>3. h \in 0 .. Len(text) - 1
    OBVIOUS
  <2>4. Holds(text, S, d, i)
    BY <2>2, <2>3, HoldsBlank, Zenon
  <2> QED  BY <2>1, <2>4 DEF GoesOn
<1>4. CASE Scalars(text, d, i)
  <2>1. Holds(text, S, ReadLexeme(text, d, i), i)
    BY <1>4, HoldsScalars, Zenon
  <2>2. PICK t : t \in ScalarTrees(text[i])
    BY <1>4, Zenon DEF Scalars
  <2>3. Awaits(d) /\ Len(d.open) <= MAX_DEPTH
    BY <1>4, Zenon DEF Scalars
  <2>4. \E kind, val, str : t = Tree(kind, val, str, <<>>) /\ WithScalar(d, ReadLexeme(text, d, i), kind, val, str)
    BY <1>2, <2>2, <2>3, StepScalar, Zenon
  <2>5. IsReader(ReadLexeme(text, d, i))
    BY <2>4, Zenon DEF WithScalar
  <2> QED  BY <2>1, <2>5, Zenon DEF GoesOn, Goes
<1>5. CASE Opens(text, d, i)
  <2>1. Holds(text, S, ReadLexeme(text, d, i), i)
    BY <1>5, HoldsOpens, Zenon
  <2>2. Awaits(d) /\ Len(d.open) <= MAX_DEPTH
    BY <1>5, Zenon DEF Opens
  <2>3. PICK kind \in {"array", "object"} : text[i].lex = Open(kind)
    BY <1>5, Zenon DEF Opens
  <2>4. Goes(ReadLexeme(text, d, i))
    BY <1>2, <2>2, <2>3, StepOpens, Zenon
  <2> QED  BY <2>1, <2>4, Zenon DEF GoesOn
<1>6. CASE Closes(text, d, i)
  <2>1. Holds(text, S, ReadLexeme(text, d, i), i)
    BY <1>6, HoldsCloses, Zenon
  <2>2. d.want \in {"first", "next"} /\ text[i].lex = Top(d).close
    BY <1>6, Zenon DEF Closes
  <2>3. Goes(ReadLexeme(text, d, i))
    BY <2>2, StepCloses, Zenon
  <2> QED  BY <2>1, <2>3, Zenon DEF GoesOn
<1>7. CASE Keys(text, d, i)
  <2>1. Holds(text, S, ReadLexeme(text, d, i), i)
    BY <1>7, HoldsKeys, Zenon
  <2>2. d.want \in {"first", "kid"} /\ Top(d).close = "rbrace" /\ text[i].lex = "str"
    BY <1>7, Zenon DEF Keys
  <2>3. Goes(ReadLexeme(text, d, i))
    BY <2>2, StepKeys, Zenon
  <2> QED  BY <2>1, <2>3, Zenon DEF GoesOn
<1>8. CASE Colons(text, d, i)
  <2>1. Holds(text, S, ReadLexeme(text, d, i), i)
    BY <1>8, HoldsColons, Zenon
  <2>2. d.want = "colon" /\ text[i].lex = "colon"
    BY <1>8, Zenon DEF Colons
  <2>3. Goes(ReadLexeme(text, d, i))
    BY <2>2, StepColon, Zenon
  <2> QED  BY <2>1, <2>3, Zenon DEF GoesOn
<1>9. CASE Commas(text, d, i)
  <2>1. Holds(text, S, ReadLexeme(text, d, i), i)
    BY <1>9, HoldsCommas, Zenon
  <2>2. d.want = "next" /\ text[i].lex = "comma"
    BY <1>9, Zenon DEF Commas
  <2>3. Goes(ReadLexeme(text, d, i))
    BY <2>2, StepComma, Zenon
  <2> QED  BY <2>1, <2>3, Zenon DEF GoesOn
<1> QED  BY <1>1, <1>3, <1>4, <1>5, <1>6, <1>7, <1>8, <1>9, Zenon DEF StepKinds

(* What is not a lexeme: the mark At puts behind the last.                 *)
IsText(text) == Len(text) \in Nat /\ \A i \in 1 .. Len(text) : text[i].lex # "end"

(* Behind every lexeme.                                                    *)
Fine(text, S, d, i) == d.err = NoText => GoesOn(text, S, d, i)

LEMMA AllFine ==
  ASSUME NEW text, IsText(text), NEW S, IsGrammar(text, S), NEW R, ReadsOn(text, R), R[0] = EmptyDoc
  PROVE  \A k \in 0 .. Len(text) : Fine(text, S, R[k], k)
<1> DEFINE n == Len(text)
           Done == {k \in 0 .. n : Fine(text, S, R[k], k)}
<1>0. n \in Nat /\ 0 \in 0 .. n
  BY DEF IsText
<1>1. 0 \in Done
  <2>1. Fine(text, S, EmptyDoc, 0)
    BY EmptyGoes, EmptyHolds, Zenon DEF Fine, GoesOn
  <2> QED  BY <1>0, <2>1
<1>2. ASSUME NEW h \in 0 .. n - 1, h \in Done PROVE h + 1 \in Done
  <2>1. PICK i, d, r : i = h + 1 /\ d = R[h] /\ r = ReadLexeme(text, d, i)
    OBVIOUS
  <2>2. h \in Nat /\ i \in 1 .. Len(text) /\ i \in 0 .. n /\ i - 1 = h
    BY <1>0, <2>1
  <2>3. R[i] = r
    BY <2>1, <2>2, Zenon DEF ReadsOn
  <2>4. Fine(text, S, r, i)
    <3> SUFFICES ASSUME r.err = NoText PROVE GoesOn(text, S, r, i)
      BY Zenon DEF Fine
    <3>1. d.err = NoText
      <4>1. d.err # NoText => r = d
        BY <2>1, Zenon DEF ReadLexeme
      <4> QED  BY <4>1
    <3>2. Goes(d) /\ Holds(text, S, d, h)
      BY <1>2, <2>1, <3>1, Zenon DEF Fine, GoesOn
    <3>3. text[i].lex # "end" /\ Len(text) \in Nat
      BY <2>2, Zenon DEF IsText
    <3> QED  BY <2>1, <2>2, <3>2, <3>3, StepHolds, Zenon
  <2> QED  BY <2>1, <2>2, <2>3, <2>4
<1>3. \A k \in 0 .. n - 1 : k \in Done => k + 1 \in Done
  BY <1>2
<1> HIDE DEF Done
<1>4. \A k \in 0 .. n : k \in Done
  BY <1>0, <1>1, <1>3, SetInduction, Zenon
<1> QED  BY <1>4, Zenon DEF Done, n

(* The nodes are woven into a tree of the grammar.                         *)
IsRead(text, d) ==
  /\ IsReader(d) /\ Len(d.nodes) > 0
  /\ \E K, T : Woven(d.nodes, K, T) /\ T[1] \in Spelled(text)[<<"value", 1, Len(text), 0>>]

LEMMA Sound ==
  ASSUME NEW text, IsText(text), Parse(text).err = NoText
  PROVE  IsRead(text, Parse(text))
<1>1. PICK R, S, n : R = Reading(text) /\ S = Spelled(text) /\ n = Len(text) /\ n \in Nat
  BY DEF IsText
<1>2. R[0] = EmptyDoc /\ \A i \in 1 .. n + 1 : R[i] = ReadLexeme(text, R[i - 1], i)
  BY <1>1, ReadingSteps
<1>3. ReadsOn(text, R) /\ R[n + 1] = ReadLexeme(text, R[n], n + 1)
  <2>1. n \in Nat /\ n + 1 \in 1 .. n + 1 /\ (n + 1) - 1 = n
    BY <1>1
  <2>2. \A i \in 1 .. n : i \in 1 .. n + 1
    BY <1>1
  <2> QED  BY <1>1, <1>2, <2>1, <2>2 DEF ReadsOn
<1>4. IsGrammar(text, S)
  BY <1>1, SpelledIsGrammar
<1>5. PICK d, r, h : d = R[n] /\ r = R[n + 1] /\ h = n + 1
  OBVIOUS
<1>6. r = Parse(text) /\ r = ReadLexeme(text, d, h) /\ r.err = NoText
  BY <1>1, <1>3, <1>5 DEF Parse
<1>7. d.err = NoText
  <2>1. d.err # NoText => r = d
    BY <1>6, Zenon DEF ReadLexeme
  <2> QED  BY <1>6, <2>1
<1>8. GoesOn(text, S, d, n)
  <2>1. n \in 0 .. Len(text)
    BY <1>1
  <2>2. Fine(text, S, R[n], n)
    BY <1>1, <1>2, <1>3, <1>4, <2>1, AllFine, Zenon
  <2> QED  BY <1>5, <1>7, <2>2, Zenon DEF Fine
<1>9. Goes(d) /\ Holds(text, S, d, n)
  BY <1>8, Zenon DEF GoesOn
<1>10. d.want = "nothing" /\ r = d
  <2>1. h = Len(text) + 1 /\ Len(text) \in Nat
    BY <1>1, <1>5
  <2>2. d.want # "nothing" => ReadLexeme(text, d, h).err # NoText
    BY <1>9, <2>1, StepEnd, Zenon
  <2>3. d.want = "nothing" => ReadLexeme(text, d, h) = d
    BY <1>9, <2>1, StepEnd, Zenon
  <2> QED  BY <1>6, <2>2, <2>3, Zenon
<1>11. PICK K, T, P : Held(text, S, d, K, T, P, n)
  BY <1>9, Zenon DEF Holds
<1>12. Len(d.open) = 0
  BY <1>9, <1>10, GoesStands, Zenon
<1>13. Len(d.nodes) > 0 /\ T[1] \in S[<<"value", 1, n, 0>>]
  <2>1. d.want # "value"
    BY <1>10
  <2> QED  BY <1>11, <1>12, <2>1, Zenon DEF Held, Here
<1>14. Woven(d.nodes, K, T)
  BY <1>11, Zenon DEF Held, Stack
<1>15. IsReader(d)
  BY <1>9, Zenon DEF Goes
<1> QED  BY <1>1, <1>6, <1>10, <1>13, <1>14, <1>15, Zenon DEF IsRead

(* Walking the nodes by index gives the tree they are woven into.          *)
Chain(d, v, f, k) == IF k = 1 THEN d.nodes[v].firstKid ELSE d.nodes[f[k - 1]].nextSib

IsChain(d, v, f, i) == \A k \in 1 .. i : f[k] = Chain(d, v, f, k)

LEMMA KidsAreChain ==
  ASSUME NEW d, NEW K, NEW u, KidsFit(d.nodes, K, u), NEW n \in Nat, n = d.nodes[u].kidCount, NEW i \in 1 .. n
  PROVE  IsChain(d, u, K[u], i)
<1> SUFFICES ASSUME NEW k \in 1 .. i PROVE K[u][k] = Chain(d, u, K[u], k)
  BY DEF IsChain
<1>1. CASE k = 1
  <2>1. d.nodes[u].firstKid = K[u][1]
    <3>1. n > 0
      OBVIOUS
    <3> QED  BY <3>1, Zenon DEF KidsFit
  <2> QED  BY <1>1, <2>1, Zenon DEF Chain
<1>2. CASE k # 1
  <2>1. k - 1 \in 1 .. n - 1 /\ (k - 1) + 1 = k
    BY <1>2
  <2>2. d.nodes[K[u][k - 1]].nextSib = K[u][(k - 1) + 1]
    BY <2>1, Zenon DEF KidsFit
  <2> QED  BY <1>2, <2>1, <2>2, Zenon DEF Chain
<1> QED  BY <1>1, <1>2

SameChain(f, g, i) == \A k \in 1 .. i : f[k] = g[k]

LEMMA ChainIsUnique ==
  ASSUME NEW d, NEW v, NEW i \in Nat, NEW f, IsChain(d, v, f, i), NEW g, IsChain(d, v, g, i)
  PROVE  SameChain(f, g, i)
<1> DEFINE Same == {k \in 0 .. i : k > 0 => f[k] = g[k]}
<1>1. 0 \in Same
  OBVIOUS
<1>2. ASSUME NEW h \in 0 .. i - 1, h \in Same PROVE h + 1 \in Same
  <2>1. PICK k : k = h + 1 /\ k \in 1 .. i /\ k - 1 = h /\ k \in 0 .. i
    <3>1. h + 1 \in 1 .. i /\ (h + 1) - 1 = h /\ h + 1 \in 0 .. i
      OBVIOUS
    <3> QED  BY <3>1, Zenon
  <2>2. f[k] = Chain(d, v, f, k) /\ g[k] = Chain(d, v, g, k)
    BY <2>1, Zenon DEF IsChain
  <2>3. CASE k = 1
    BY <2>1, <2>2, <2>3 DEF Chain
  <2>4. CASE k # 1
    <3>1. f[h] = g[h]
      BY <1>2, <2>1, <2>4
    <3>2. Chain(d, v, f, k) = Chain(d, v, g, k)
      BY <2>1, <2>4, <3>1, Zenon DEF Chain
    <3> QED  BY <2>1, <2>2, <3>2
  <2> QED  BY <2>3, <2>4
<1>3. \A h \in 0 .. i - 1 : h \in Same => h + 1 \in Same
  BY <1>2
<1>4. \A k \in 0 .. i : k \in Same
  <2> HIDE DEF Same
  <2> QED  BY <1>1, <1>3, SetInduction, Zenon
<1> QED  BY <1>4 DEF SameChain

(* The walk of Value::at.                                                  *)
LEMMA ElemWalks ==
  ASSUME NEW d, NEW v, NEW i \in Nat, i > 0, Type(d, v) \in {"array", "object"}, i <= Size(d, v),
         NEW g, IsChain(d, v, g, i)
  PROVE  Elem(d, v, i) = g[i]
<1> DEFINE body(f, k) == IF k = 1 THEN d.nodes[v].firstKid ELSE d.nodes[f[k - 1]].nextSib
           walk == CHOOSE f : f = [k \in 1 .. i |-> body(f, k)]
<1>1. Elem(d, v, i) = walk[i]
  BY Zenon DEF Elem
<1>2. [k \in 1 .. i |-> g[k]] = [k \in 1 .. i |-> body([h \in 1 .. i |-> g[h]], k)]
  <2>1. ASSUME NEW k \in 1 .. i PROVE g[k] = body([h \in 1 .. i |-> g[h]], k)
    <3>1. g[k] = Chain(d, v, g, k)
      BY Zenon DEF IsChain
    <3>2. CASE k = 1
      BY <3>1, <3>2, Zenon DEF Chain
    <3>3. CASE k # 1
      <4>1. [h \in 1 .. i |-> g[h]][k - 1] = g[k - 1]
        BY <3>3
      <4> QED  BY <3>1, <3>3, <4>1, Zenon DEF Chain
    <3> QED  BY <3>2, <3>3
  <2> HIDE DEF body
  <2> QED  BY <2>1
<1>3. walk = [k \in 1 .. i |-> body(walk, k)]
  <2>1. \E f : f = [k \in 1 .. i |-> body(f, k)]
    BY <1>2
  <2> HIDE DEF body
  <2> QED  BY <2>1, Zenon
<1>4. PICK w : w = walk
  OBVIOUS
<1>5. w = [k \in 1 .. i |-> body(w, k)]
  <2> HIDE DEF body, walk
  <2> QED  BY <1>3, <1>4
<1> HIDE DEF walk
<1>6. IsChain(d, v, w, i)
  <2> SUFFICES ASSUME NEW k \in 1 .. i PROVE w[k] = Chain(d, v, w, k)
    BY DEF IsChain
  <2>1. w[k] = body(w, k)
    <3> HIDE DEF body
    <3> QED  BY <1>5
  <2> QED  BY <2>1, Zenon DEF Chain
<1>7. i \in 1 .. i
  OBVIOUS
<1>8. w[i] = g[i]
  <2>1. SameChain(w, g, i)
    BY <1>6, ChainIsUnique, Zenon
  <2> QED  BY <1>7, <2>1, Zenon DEF SameChain
<1> QED  BY <1>1, <1>4, <1>8

ElemFits(d, K, u, i) == Elem(d, u, i) = K[u][i]

LEMMA ElemIsKid ==
  ASSUME NEW d, IsNodes(d.nodes), NEW K, NEW u \in 1 .. Len(d.nodes), KidsFit(d.nodes, K, u),
         NEW i \in 1 .. d.nodes[u].kidCount
  PROVE  ElemFits(d, K, u, i)
<1>1. PICK n : n = d.nodes[u].kidCount /\ n \in Nat
  BY DEF IsNodes, IsNode
<1>2. i \in Nat /\ i > 0 /\ i \in 1 .. n /\ i <= n /\ n > 0
  BY <1>1
<1>3. Size(d, u) = n
  <2>1. u \in DOMAIN d.nodes
    BY DEF IsNodes, IsList
  <2> QED  BY <1>1, <2>1, Zenon DEF Size
<1>4. Type(d, u) \in {"array", "object"}
  <2>1. u # 0
    BY DEF IsNodes, IsList
  <2> QED  BY <1>1, <1>2, <2>1, Zenon DEF Type, KidsFit
<1>5. IsChain(d, u, K[u], i)
  BY <1>1, <1>2, KidsAreChain, Zenon
<1>6. Elem(d, u, i) = K[u][i]
  BY <1>2, <1>3, <1>4, <1>5, ElemWalks, Zenon
<1> QED  BY <1>6 DEF ElemFits

(* The tree below a node, f for the nodes behind it.                       *)
NodeItems(d, f, u) ==
  [i \in 1 .. Size(d, u) |-> [key |-> d.nodes[Elem(d, u, i)].key, tree |-> f[Elem(d, u, i)]]]

NodeTree(d, f, u) == Tree(Type(d, u), d.nodes[u].num, d.nodes[u].text, NodeItems(d, f, u))

IsTrees(d, f) == \A u \in 1 .. Len(d.nodes) : f[u] = NodeTree(d, f, u)

AgreeBehind(d, T, f, u) == \A w \in u + 1 .. Len(d.nodes) : f[w] = T[w]

Agrees(d, T, f, u) == T[u] = NodeTree(d, f, u)

LEMMA ItemsAgree ==
  ASSUME NEW d, IsNodes(d.nodes), NEW K, NEW T, Woven(d.nodes, K, T), NEW u \in 1 .. Len(d.nodes), NEW f,
         AgreeBehind(d, T, f, u)
  PROVE  Agrees(d, T, f, u)
<1>1. KidsFit(d.nodes, K, u) /\ Denoted(d.nodes, K, T, u)
  BY Zenon DEF Woven
<1>2. PICK c, ns, n : c = d.nodes[u].kidCount /\ c \in Nat /\ ns = d.nodes /\ n = Len(ns) /\ n \in Nat
  BY DEF IsNodes, IsNode, IsList
<1>3. u # 0 /\ u \in DOMAIN ns
  BY <1>2 DEF IsNodes, IsList
<1>4. Size(d, u) = c /\ Type(d, u) = ns[u].type
  BY <1>2, <1>3, Zenon DEF Size, Type
<1>5. ASSUME NEW i \in 1 .. c
      PROVE  [key |-> ns[Elem(d, u, i)].key, tree |-> f[Elem(d, u, i)]] = Item(ns[K[u][i]].key, T[K[u][i]])
  <2>1. Elem(d, u, i) = K[u][i]
    <3>1. KidsFit(d.nodes, K, u) /\ i \in 1 .. d.nodes[u].kidCount
      BY <1>1, <1>2, Zenon
    <3>2. ElemFits(d, K, u, i)
      BY <3>1, ElemIsKid, Zenon
    <3> QED  BY <3>2, Zenon DEF ElemFits
  <2>2. K[u][i] \in u + 1 .. n
    BY <1>1, <1>2, Zenon DEF KidsFit
  <2>3. f[K[u][i]] = T[K[u][i]]
    BY <1>2, <2>2, Zenon DEF AgreeBehind
  <2> QED  BY <2>1, <2>3, Zenon DEF Item
<1>6. NodeItems(d, f, u) = [i \in 1 .. c |-> Item(ns[K[u][i]].key, T[K[u][i]])]
  <2>1. NodeItems(d, f, u) =
          [i \in 1 .. c |-> [key |-> ns[Elem(d, u, i)].key, tree |-> f[Elem(d, u, i)]]]
    BY <1>2, <1>4, Zenon DEF NodeItems
  <2> QED  BY <1>5, <2>1, Zenon
<1>7. Items(ns, K, T, u) = NodeItems(d, f, u)
  BY <1>2, <1>6, Zenon DEF Items
<1> QED  BY <1>1, <1>2, <1>4, <1>7, Zenon DEF Denoted, NodeTree, Agrees

IsNextBack(n, k, w) ==
  w \in 1 .. n /\ w + 1 = n + 1 - k /\ k + 1 \in 0 .. n /\ n + 1 - (k + 1) = w

LEMMA NextBack ==
  ASSUME NEW n \in Nat, NEW k \in 0 .. n - 1
  PROVE  \E w : IsNextBack(n, k, w)
<1>1. /\ n - k \in 1 .. n /\ (n - k) + 1 = n + 1 - k /\ k + 1 \in 0 .. n
      /\ n + 1 - (k + 1) = n - k
  OBVIOUS
<1> QED  BY <1>1, Zenon DEF IsNextBack

LEMMA FromHere ==
  ASSUME NEW n \in Nat, NEW w \in Nat, NEW u \in w .. n
  PROVE  u = w \/ u \in w + 1 .. n
OBVIOUS

AgreeAll(d, T, f) == \A u \in 1 .. Len(d.nodes) : f[u] = T[u]

LEMMA TreesAreWoven ==
  ASSUME NEW d, IsNodes(d.nodes), NEW K, NEW T, Woven(d.nodes, K, T), NEW f, IsTrees(d, f)
  PROVE  AgreeAll(d, T, f)
<1>1. PICK n : n = Len(d.nodes) /\ n \in Nat
  BY DEF IsNodes, IsList
<1> DEFINE Done == {k \in 0 .. n : \A u \in n + 1 - k .. n : f[u] = T[u]}
<1>2. 0 \in Done
  BY <1>1
<1>3. ASSUME NEW k \in 0 .. n - 1, k \in Done PROVE k + 1 \in Done
  <2>0. PICK w : IsNextBack(n, k, w)
    BY <1>1, NextBack, Zenon
  <2>1. w \in 1 .. n /\ w + 1 = n + 1 - k /\ k + 1 \in 0 .. n /\ n + 1 - (k + 1) = w
    BY <2>0, Zenon DEF IsNextBack
  <2>2. \A u \in w + 1 .. n : f[u] = T[u]
    <3>1. \A u \in n + 1 - k .. n : f[u] = T[u]
      BY <1>3, Zenon
    <3> QED  BY <2>1, <3>1, Zenon
  <2>3. Agrees(d, T, f, w)
    <3>1. AgreeBehind(d, T, f, w)
      BY <1>1, <2>2, Zenon DEF AgreeBehind
    <3> QED  BY <1>1, <2>1, <3>1, ItemsAgree, Zenon
  <2>4. f[w] = T[w]
    BY <1>1, <2>1, <2>3, Zenon DEF IsTrees, Agrees
  <2>5. w \in Nat
    BY <1>1, <2>1
  <2>6. \A u \in w .. n : f[u] = T[u]
    BY <1>1, <2>2, <2>4, <2>5, FromHere, Zenon
  <2> QED  BY <2>1, <2>6, Zenon
<1>4. \A k \in 0 .. n - 1 : k \in Done => k + 1 \in Done
  BY <1>3
<1>5. \A k \in 0 .. n : k \in Done
  <2> HIDE DEF Done
  <2> QED  BY <1>1, <1>2, <1>4, SetInduction, Zenon
<1>6. n \in 0 .. n /\ n + 1 - n = 1
  BY <1>1
<1> QED  BY <1>1, <1>5, <1>6 DEF AgreeAll

LEMMA TreeAtRoot ==
  ASSUME NEW d, IsNodes(d.nodes), Len(d.nodes) > 0, NEW K, NEW T, Woven(d.nodes, K, T)
  PROVE  TreeAt(d, 1) = T[1]
<1>1. PICK D : D = DOMAIN d.nodes /\ D = 1 .. Len(d.nodes) /\ 1 \in D
  BY DEF IsNodes, IsList
<1> DEFINE body(f, u) ==
             Tree(Type(d, u), d.nodes[u].num, d.nodes[u].text,
                  [i \in 1 .. Size(d, u) |->
                     [key |-> d.nodes[Elem(d, u, i)].key, tree |-> f[Elem(d, u, i)]]])
           tree == CHOOSE f : f = [u \in DOMAIN d.nodes |-> body(f, u)]
<1>2. TreeAt(d, 1) = tree[1]
  BY Zenon DEF TreeAt
<1>3. \A f, u : body(f, u) = NodeTree(d, f, u)
  BY Zenon DEF NodeTree, NodeItems
<1> HIDE DEF body
<1>4. PICK g : g = [u \in D |-> T[u]]
  OBVIOUS
<1>5. g = [u \in D |-> body(g, u)]
  <2> SUFFICES ASSUME NEW u \in D PROVE T[u] = body(g, u)
    BY <1>4
  <2>1. \A w \in u + 1 .. Len(d.nodes) : g[w] = T[w]
    <3>1. \A w \in u + 1 .. Len(d.nodes) : w \in D
      BY <1>1 DEF IsNodes, IsList
    <3> QED  BY <1>4, <3>1
  <2>2. AgreeBehind(d, T, g, u) /\ u \in 1 .. Len(d.nodes)
    BY <1>1, <2>1, Zenon DEF AgreeBehind
  <2>3. Agrees(d, T, g, u)
    BY <2>2, ItemsAgree, Zenon
  <2> QED  BY <1>3, <2>3, Zenon DEF Agrees
<1>6. tree = [u \in D |-> body(tree, u)]
  BY <1>1, <1>5, Zenon
<1>7. PICK t : t = tree
  OBVIOUS
<1>8. t = [u \in D |-> body(t, u)]
  <2> HIDE DEF tree
  <2> QED  BY <1>6, <1>7
<1> HIDE DEF tree
<1>9. IsTrees(d, t)
  <2> SUFFICES ASSUME NEW u \in D PROVE t[u] = NodeTree(d, t, u)
    BY <1>1, Zenon DEF IsTrees
  <2>1. t[u] = body(t, u)
    BY <1>8
  <2> QED  BY <1>3, <2>1
<1>10. AgreeAll(d, T, t)
  BY <1>9, TreesAreWoven, Zenon
<1> QED  BY <1>1, <1>2, <1>7, <1>10, Zenon DEF AgreeAll

(* The reader is exact: it accepts a text exactly when that is a document  *)
(* of the grammar within the depth limit, and walking the nodes by index,  *)
(* as the loaders do, gives that document.                                 *)
THEOREM ReaderReadsExactly ==
  ASSUME NEW text, IsText(text)
  PROVE  ReadsExactly(text)
<1>1. PICK d, spelled : d = Parse(text) /\ spelled = Spelled(text)[<<"value", 1, Len(text), 0>>]
  OBVIOUS
<1>2. ASSUME d.err = NoText PROVE TreeAt(d, 1) \in spelled
  <2>1. IsRead(text, d)
    BY <1>1, <1>2, Sound, Zenon
  <2>2. PICK K, T : Woven(d.nodes, K, T) /\ T[1] \in spelled
    BY <1>1, <2>1, Zenon DEF IsRead
  <2>3. IsNodes(d.nodes) /\ Len(d.nodes) > 0
    BY <2>1, Zenon DEF IsRead, IsReader
  <2>4. TreeAt(d, 1) = T[1]
    BY <2>2, <2>3, TreeAtRoot, Zenon
  <2> QED  BY <2>2, <2>4
<1>3. ASSUME NEW t \in spelled PROVE d.err = NoText
  <2>1. Len(text) \in Nat
    BY Zenon DEF IsText
  <2> QED  BY <1>1, <2>1, GrammarIsRead, Zenon
<1>4. d.err = NoText <=> spelled # {}
  BY <1>2, <1>3
<1> QED  BY <1>1, <1>2, <1>4, Zenon DEF ReadsExactly

(* What a host has typed is a text.                                        *)
DraftIsTyped == draft \in Seq(Alphabet)

LEMMA TypedIsText ==
  ASSUME NEW text \in Seq(Alphabet)
  PROVE  IsText(text)
<1>1. Len(text) \in Nat /\ \A i \in 1 .. Len(text) : text[i] \in Alphabet
  OBVIOUS
<1> QED  BY <1>1, ReaderAssumption, Zenon DEF IsText

LEMMA TypedInit == ConfigInit => DraftIsTyped
BY DEF ConfigInit, DraftIsTyped

LEMMA TypedNext == DraftIsTyped /\ [ConfigNext]_configVars => DraftIsTyped'
<1> SUFFICES ASSUME DraftIsTyped, [ConfigNext]_configVars PROVE DraftIsTyped'
  OBVIOUS
<1>1. CASE TypeDraft
  <2>1. PICK l \in Alphabet : draft' = Append(draft, l)
    BY <1>1, Zenon DEF TypeDraft
  <2> QED  BY <2>1 DEF DraftIsTyped
<1>2. CASE UNCHANGED draft
  BY <1>2 DEF DraftIsTyped
<1>3. ASSUME NEW h \in Handles, Fill(h) \/ Load(h) \/ Destroy(h) PROVE UNCHANGED draft
  BY <1>3, Zenon DEF Fill, Load, Destroy
<1>4. ASSUME NEW h \in Handles, NEW f, NEW e, Set(h, f, e) PROVE UNCHANGED draft
  BY <1>4, Zenon DEF Set
<1>5. ASSUME NEW w \in Worlds, DestroyWorld(w) \/ \E h \in Handles : CreateWorld(h, w) PROVE UNCHANGED draft
  BY <1>5, Zenon DEF DestroyWorld, CreateWorld
<1>6. CASE UNCHANGED configVars
  BY <1>2, <1>6 DEF configVars
<1> QED  BY <1>1, <1>2, <1>3, <1>4, <1>5, <1>6, Zenon DEF ConfigNext

(* Whatever is typed, within whatever limits: the reader accepts it        *)
(* exactly when it is a document of the grammar, and hands the loaders     *)
(* that document (json.h parseValue and Value).                            *)
THEOREM ReaderIsExact == ConfigSpec => []ReaderExact
<1>1. ConfigInit => DraftIsTyped
  BY TypedInit
<1>2. DraftIsTyped /\ [ConfigNext]_configVars => DraftIsTyped'
  BY TypedNext
<1>3. DraftIsTyped => ReaderExact
  <2> SUFFICES ASSUME DraftIsTyped PROVE ReaderExact
    OBVIOUS
  <2>1. IsText(draft)
    BY TypedIsText, Zenon DEF DraftIsTyped
  <2> QED  BY <2>1, ReaderReadsExactly, Zenon DEF ReaderExact
<1> QED  BY <1>1, <1>2, <1>3, PTL DEF ConfigSpec
(* A lexeme that is refused adds no node, whatever it is: the nodes of a   *)
(* text that is not accepted are a document, too.                          *)
Keeps(d, r) == r.err = NoText \/ r.nodes = d.nodes

LEMMA ErrorKeeps ==
  ASSUME NEW d, IsDoc(d), NEW i, NEW why
  PROVE  Keeps(d, SetError(d, i, why))
BY DEF Keeps, SetError, IsDoc

LEMMA ScalarKeeps ==
  ASSUME NEW d, IsState(d), d.err = NoText, NEW kind, NEW val, NEW str
  PROVE  Keeps(d, Returned(Grown(d, kind, val, str), Len(d.nodes) + 1))
<1>1. PICK r : r = Returned(Grown(d, kind, val, str), Len(d.nodes) + 1)
  OBVIOUS
<1>2. WithScalar(d, r, kind, val, str)
  BY <1>1, ScalarReturns
<1>3. r.err = d.err
  BY <1>2, Zenon DEF WithScalar
<1> QED  BY <1>1, <1>3, Zenon DEF Keeps

LEMMA ValueKeeps ==
  ASSUME NEW text, NEW d, Goes(d), NEW i
  PROVE  Keeps(d, Value(text, d, i))
<1>1. IsState(d) /\ d.err = NoText /\ IsDoc(d)
  BY DEF Goes, IsReader, IsState
<1>2. PICK l : l = At(text, i)
  OBVIOUS
<1>3. CASE Len(d.open) > MAX_DEPTH
  <2>1. Value(text, d, i) = SetError(d, i, "too_deep")
    BY <1>3 DEF Value
  <2> QED  BY <1>1, <2>1, ErrorKeeps
<1>4. CASE ~(Len(d.open) > MAX_DEPTH) /\ l \in {"ws", "end", "open"}
  <2>1. l = "ws" => Value(text, d, i) = d
    BY <1>2, <1>4 DEF Value
  <2>2. l = "end" => Value(text, d, i) = SetError(d, i, "value_expected")
    BY <1>2, <1>4 DEF Value
  <2>3. l = "open" => Value(text, d, i) = SetError(d, Len(text) + 1, "unclosed_string")
    BY <1>2, <1>4 DEF Value, Unclosed
  <2>4. Keeps(d, d)
    BY <1>1 DEF Keeps
  <2> QED  BY <1>1, <1>4, <2>1, <2>2, <2>3, <2>4, ErrorKeeps
<1>5. CASE ~(Len(d.open) > MAX_DEPTH) /\ l \in {"lbrace", "lbracket"}
  <2>1. \E kind, close : close \in {"rbracket", "rbrace"} /\ Value(text, d, i) = Opened(d, kind, close)
    <3>1. l = "lbrace" => Value(text, d, i) = Opened(d, "object", "rbrace")
      BY <1>2, <1>5 DEF Value
    <3>2. l = "lbracket" => Value(text, d, i) = Opened(d, "array", "rbracket")
      BY <1>2, <1>5 DEF Value
    <3> QED  BY <1>5, <3>1, <3>2
  <2>2. PICK r, kind, close : close \in {"rbracket", "rbrace"} /\ r = Value(text, d, i) /\ r = Opened(d, kind, close)
    BY <2>1
  <2>3. r.err = d.err
    BY <1>1, <2>2, OpenedOpens
  <2> QED  BY <1>1, <2>2, <2>3 DEF Keeps
<1>6. CASE ~(Len(d.open) > MAX_DEPTH) /\ l \in {"str", "int", "true", "false", "null"}
  <2>1. \E kind, val, str : Value(text, d, i) = Returned(Grown(d, kind, val, str), Len(d.nodes) + 1)
    <3>1. l = "str" => Value(text, d, i) = Returned(Grown(d, "string", 0, text[i].text), Len(d.nodes) + 1)
      BY <1>2, <1>6 DEF Value
    <3>2. l = "int" => Value(text, d, i) = Returned(Grown(d, "int", text[i].num, NoText), Len(d.nodes) + 1)
      BY <1>2, <1>6 DEF Value
    <3>3. l = "true" => Value(text, d, i) = Returned(Grown(d, "bool", 1, NoText), Len(d.nodes) + 1)
      BY <1>2, <1>6 DEF Value
    <3>4. l = "false" => Value(text, d, i) = Returned(Grown(d, "bool", 0, NoText), Len(d.nodes) + 1)
      BY <1>2, <1>6 DEF Value
    <3>5. l = "null" => Value(text, d, i) = Returned(Grown(d, "null", 0, NoText), Len(d.nodes) + 1)
      BY <1>2, <1>6 DEF Value
    <3> QED  BY <1>6, <3>1, <3>2, <3>3, <3>4, <3>5
  <2> QED  BY <1>1, <2>1, ScalarKeeps
<1>7. CASE ~(Len(d.open) > MAX_DEPTH) /\ l \notin {"ws", "end", "open", "lbrace", "lbracket", "str", "int", "true", "false", "null"}
  <2>1. Value(text, d, i) = SetError(d, i, NotANumber(l))
    BY <1>2, <1>7 DEF Value
  <2> QED  BY <1>1, <2>1, ErrorKeeps
<1> QED  BY <1>3, <1>4, <1>5, <1>6, <1>7

LEMMA KidKeeps ==
  ASSUME NEW text, NEW d, Goes(d), NEW i
  PROVE  Keeps(d, Kid(text, d, i))
<1>1. IsDoc(d) /\ d.err = NoText
  BY DEF Goes, IsReader, IsState
<1>2. CASE Top(d).close = "rbracket"
  <2>1. Kid(text, d, i) = Value(text, d, i)
    BY <1>2 DEF Kid
  <2> QED  BY <2>1, ValueKeeps
<1>3. CASE Top(d).close # "rbracket" /\ At(text, i) = "str"
  <2>1. Kid(text, d, i) = [d EXCEPT !.open[Len(d.open)].key = text[i].text, !.want = "colon"]
    BY <1>3 DEF Kid
  <2>2. Kid(text, d, i).nodes = d.nodes
    BY <1>1, <2>1 DEF IsDoc
  <2> QED  BY <2>2 DEF Keeps
<1>4. CASE Top(d).close # "rbracket" /\ At(text, i) # "str"
  <2>1. \E p, why : Kid(text, d, i) = SetError(d, p, why)
    <3>1. At(text, i) = "open" => Kid(text, d, i) = SetError(d, Len(text) + 1, "unclosed_string")
      BY <1>4 DEF Kid, Unclosed
    <3>2. At(text, i) # "open" => Kid(text, d, i) = SetError(d, i, "string_expected")
      BY <1>4 DEF Kid
    <3> QED  BY <3>1, <3>2
  <2> QED  BY <1>1, <2>1, ErrorKeeps
<1> QED  BY <1>2, <1>3, <1>4

LEMMA ClosedKeeps ==
  ASSUME NEW d, Goes(d), d.want \in {"first", "next"}
  PROVE  Keeps(d, Closed(d))
<1>1. IsState(d) /\ Len(d.open) > 0 /\ d.err = NoText
  BY DEF Goes, IsReader, IsState, Stands
<1>2. PICK p : p = Popped(d)
  OBVIOUS
<1>3. /\ IsState(p) /\ p.err = d.err /\ p.nodes = d.nodes
      /\ Top(d).self \in 1 .. Len(d.nodes) /\ Closed(d) = Returned(p, Top(d).self)
  BY <1>1, <1>2, PoppedPops
<1>4. PICK r, v : r = Closed(d) /\ v = Top(d).self /\ v \in 1 .. Len(p.nodes) /\ r = Returned(p, v)
  BY <1>3
<1>5. r.err = p.err
  BY <1>3, <1>4, ReturnedReturns
<1> QED  BY <1>1, <1>3, <1>4, <1>5 DEF Keeps

LEMMA StepKeeps ==
  ASSUME NEW text, NEW d, Goes(d), NEW i
  PROVE  Keeps(d, ReadLexeme(text, d, i))
<1>1. IsDoc(d) /\ d.err = NoText
  BY DEF Goes, IsReader, IsState
<1>2. d.want \in {"value", "first", "kid", "colon", "next", "nothing"}
  BY DEF Goes, IsReader, Stands
<1>3. Keeps(d, d)
  BY <1>1 DEF Keeps
<1>4. Keeps(d, Value(text, d, i)) /\ Keeps(d, Kid(text, d, i))
  BY ValueKeeps, KidKeeps
<1>5. \A w : Keeps(d, [d EXCEPT !.want = w])
  BY <1>1 DEF Keeps, IsDoc
<1>6. CASE d.want = "value"
  <2>1. ReadLexeme(text, d, i) = Value(text, d, i)
    BY <1>1, <1>6 DEF ReadLexeme
  <2> QED  BY <1>4, <2>1
<1>7. CASE d.want # "value" /\ At(text, i) = "ws"
  <2>1. ReadLexeme(text, d, i) = d
    BY <1>1, <1>7 DEF ReadLexeme
  <2> QED  BY <1>3, <2>1
<1>8. CASE d.want = "first" /\ At(text, i) # "ws"
  <2>1. At(text, i) = Top(d).close => ReadLexeme(text, d, i) = Closed(d)
    BY <1>1, <1>8 DEF ReadLexeme
  <2>2. At(text, i) # Top(d).close => ReadLexeme(text, d, i) = Kid(text, d, i)
    BY <1>1, <1>8 DEF ReadLexeme
  <2> QED  BY <1>4, <1>8, <2>1, <2>2, ClosedKeeps
<1>9. CASE d.want = "kid" /\ At(text, i) # "ws"
  <2>1. ReadLexeme(text, d, i) = Kid(text, d, i)
    BY <1>1, <1>9 DEF ReadLexeme
  <2> QED  BY <1>4, <2>1
<1>10. CASE d.want = "colon" /\ At(text, i) # "ws"
  <2>1. At(text, i) = "colon" => ReadLexeme(text, d, i) = [d EXCEPT !.want = "value"]
    BY <1>1, <1>10 DEF ReadLexeme
  <2>2. At(text, i) # "colon" => ReadLexeme(text, d, i) = SetError(d, i, "colon_expected")
    BY <1>1, <1>10 DEF ReadLexeme
  <2> QED  BY <1>1, <1>5, <2>1, <2>2, ErrorKeeps
<1>11. CASE d.want = "next" /\ At(text, i) # "ws"
  <2>1. At(text, i) = "comma" => ReadLexeme(text, d, i) = [d EXCEPT !.want = "kid"]
    BY <1>1, <1>11 DEF ReadLexeme
  <2>2. At(text, i) # "comma" /\ At(text, i) = Top(d).close => ReadLexeme(text, d, i) = Closed(d)
    BY <1>1, <1>11 DEF ReadLexeme
  <2>3. At(text, i) # "comma" /\ At(text, i) # Top(d).close =>
          ReadLexeme(text, d, i) = SetError(d, i, "comma_or_end_expected")
    BY <1>1, <1>11 DEF ReadLexeme
  <2> QED  BY <1>1, <1>5, <1>11, <2>1, <2>2, <2>3, ClosedKeeps, ErrorKeeps
<1>12. CASE d.want = "nothing" /\ At(text, i) # "ws"
  <2>1. At(text, i) = "end" => ReadLexeme(text, d, i) = d
    BY <1>1, <1>12 DEF ReadLexeme
  <2>2. At(text, i) # "end" => ReadLexeme(text, d, i) = SetError(d, i, "trailing_text")
    BY <1>1, <1>12 DEF ReadLexeme
  <2> QED  BY <1>1, <1>3, <2>1, <2>2, ErrorKeeps
<1> QED  BY <1>2, <1>6, <1>7, <1>8, <1>9, <1>10, <1>11, <1>12

HasNodes(d) == IsNodes(d.nodes)

(* Reading on, the nodes stay a list of nodes.                             *)
LEMMA NodesStay ==
  ASSUME NEW text, NEW d, HasNodes(d), d.err = NoText => Goes(d), NEW i,
         NEW r, r = ReadLexeme(text, d, i), r.err = NoText => Goes(r)
  PROVE  HasNodes(r)
<1>1. CASE d.err # NoText
  BY <1>1, Zenon DEF ReadLexeme
<1>2. CASE r.err = NoText
  <2>1. Goes(r)
    BY <1>2
  <2> QED  BY <2>1 DEF Goes, IsReader, HasNodes
<1>3. CASE d.err = NoText /\ r.err # NoText
  <2>1. Keeps(d, r)
    BY <1>3, StepKeeps, Zenon
  <2> QED  BY <1>3, <2>1, Zenon DEF Keeps, HasNodes
<1> QED  BY <1>1, <1>2, <1>3

(* Accepted or refused, what the reader hands over is a document as the    *)
(* loaders take it: the assumption on Read holds of Parse for every text.  *)
THEOREM ReaderGivesDocuments ==
  ASSUME NEW text, IsText(text)
  PROVE  IsDocument(Parse(text))
<1>1. PICK R, S, n : R = Reading(text) /\ S = Spelled(text) /\ n = Len(text) /\ n \in Nat
  BY DEF IsText
<1>2. R[0] = EmptyDoc /\ \A i \in 1 .. n + 1 : R[i] = ReadLexeme(text, R[i - 1], i)
  BY <1>1, ReadingSteps
<1>3. ReadsOn(text, R) /\ R[n + 1] = ReadLexeme(text, R[n], n + 1)
  <2>1. n \in Nat /\ n + 1 \in 1 .. n + 1 /\ (n + 1) - 1 = n
    BY <1>1
  <2>2. \A i \in 1 .. n : i \in 1 .. n + 1
    BY <1>1
  <2> QED  BY <1>1, <1>2, <2>1, <2>2 DEF ReadsOn
<1>4. \A k \in 0 .. n : R[k].err = NoText => Goes(R[k])
  <2>1. IsGrammar(text, S)
    BY <1>1, SpelledIsGrammar
  <2>2. \A k \in 0 .. n : Fine(text, S, R[k], k)
    BY <1>1, <1>2, <1>3, <2>1, AllFine, Zenon
  <2> QED  BY <2>2, Zenon DEF Fine, GoesOn
<1> DEFINE Done == {k \in 0 .. n : HasNodes(R[k])}
<1>5. 0 \in Done
  <2>1. Goes(EmptyDoc)
    BY EmptyGoes, Zenon
  <2>2. HasNodes(EmptyDoc)
    BY <2>1 DEF Goes, IsReader, HasNodes
  <2> QED  BY <1>1, <1>2, <2>2
<1>6. ASSUME NEW h \in 0 .. n - 1, h \in Done PROVE h + 1 \in Done
  <2>1. PICK i : i = h + 1 /\ i - 1 = h /\ i \in 1 .. n /\ i \in 0 .. n /\ h \in 0 .. n
    BY <1>1
  <2>2. PICK d, r : d = R[h] /\ r = R[i] /\ r = ReadLexeme(text, d, i)
    BY <1>1, <1>3, <2>1 DEF ReadsOn
  <2>3. (d.err = NoText => Goes(d)) /\ (r.err = NoText => Goes(r)) /\ HasNodes(d)
    BY <1>4, <1>6, <2>1, <2>2, Zenon
  <2>4. HasNodes(r)
    BY <2>2, <2>3, NodesStay, Zenon
  <2> QED  BY <2>1, <2>2, <2>4
<1>7. \A k \in 0 .. n - 1 : k \in Done => k + 1 \in Done
  BY <1>6
<1>8. n \in 0 .. n
  BY <1>1
<1> HIDE DEF Done
<1>9. n \in Done
  BY <1>1, <1>5, <1>7, <1>8, SetInduction, Zenon
<1>10. PICK d, r, h : d = R[n] /\ r = Parse(text) /\ h = n + 1 /\ r = ReadLexeme(text, d, h)
  BY <1>1, <1>3 DEF Parse
<1>11. HasNodes(d) /\ (d.err = NoText => Goes(d))
  BY <1>4, <1>8, <1>9, <1>10, Zenon DEF Done
<1>12. HasNodes(r)
  <2>1. CASE r.err = NoText
    <3>1. IsRead(text, r)
      BY <1>10, <2>1, Sound, Zenon
    <3> QED  BY <3>1 DEF IsRead, IsReader, HasNodes
  <2>2. CASE r.err # NoText
    BY <1>10, <1>11, <2>2, NodesStay, Zenon
  <2> QED  BY <2>1, <2>2
<1>13. IsDocument(r)
  BY <1>12 DEF HasNodes, IsDocument, IsNodes, IsList, IsNode
<1> QED  BY <1>10, <1>13
=============================================================================
