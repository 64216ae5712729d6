------------------------------- MODULE Pools -------------------------------
(* The two bounded pools of the field: recovery orbs and zones (OrbState   *)
(* and ZoneState in core/include/dc/world.h, orbRun and zoneRun in         *)
(* combat.h).  Both are arrays that keep their order when one is taken out *)
(* and that give up the one ending first when they are full.  A zone burns *)
(* on every tick, slows, or explodes once when its fuse ends; an orb goes  *)
(* to the hero who walks over it, or ends.                                 *)
(*                                                                         *)
(* Where an orb lies matters only for whether the hero reaches it in a     *)
(* tick: reach is that choice.  Amounts of damage and purge are left out.  *)
EXTENDS Integers, SequencesExt

CONSTANTS
  MAX_ORBS, MAX_ZONES,
  OrbLifetime,          \* orbLifetimeTicks
  Duration,             \* of each kind of zone; the fuse of an aftershock
  MaxOrbs, MaxZones, MaxTick  \* bounds of the model: pushed in all, and ticks

Kinds == {"Burn", "Aftershock", "Fissure"}

ASSUME PoolAssumption ==
  /\ MAX_ORBS \in Nat \ {0} /\ MAX_ZONES \in Nat \ {0} /\ MaxTick \in Nat
  /\ OrbLifetime \in Nat \ {0} /\ Duration \in [Kinds -> Nat \ {0}]
  /\ MaxOrbs \in Nat /\ MaxZones \in Nat

VARIABLES
  now,
  system,  \* which of the tick's systems runs next
  orbs,    \* records of serial and expire, in array order
  zones,   \* the same with a kind
  reach,   \* the orbs that the hero stands on in this tick
  dropped, \* history: how many orbs were dropped; serials are numbers
  laid,    \* history: the zones that were laid; serials are indices
  evicted, \* history: the zones given up for room
  blasts   \* history: who exploded, and in which tick

poolVars == <<now, system, orbs, zones, reach, dropped, laid, evicted, blasts>>

Serials(q) == {q[i].serial : i \in 1 .. Len(q)}

----------------------------------------------------------------------------
(* mutant: the last one takes the place of the removed one.                *)
TakenOutSwap(q, i) == [j \in 1 .. Len(q) - 1 |-> IF j = i THEN q[Len(q)] ELSE q[j]]

(* removeAt: what comes behind moves up.                                   *)
TakenOut(q, i) == RemoveAt(q, i)

(* The index that ends first, the lower one if two end together.           *)
Oldest(q) ==
  CHOOSE i \in 1 .. Len(q) : \A j \in 1 .. Len(q) :
    q[i].expire < q[j].expire \/ (q[i].expire = q[j].expire /\ i <= j)

(* push                                                                    *)
Pushed(q, max, x) == Append(IF Len(q) >= max THEN TakenOut(q, Oldest(q)) ELSE q, x)

(* mutant: the loop goes forward and steps over what has moved up.         *)
SweptForward(q, gone) ==
  LET from[k \in 0 .. Len(q)] ==
        IF k = 0 THEN <<q, 1>>
        ELSE LET p == from[k - 1]
             IN  IF p[2] > Len(p[1]) THEN p
                 ELSE <<IF p[1][p[2]].serial \in gone THEN TakenOut(p[1], p[2]) ELSE p[1], p[2] + 1>>
  IN  from[Len(q)][1]

(* The loops of zoneRun and orbRun go from the last index to the first.    *)
Swept(q, gone) ==
  LET from[i \in 1 .. Len(q) + 1] ==
        IF i > Len(q) THEN q
        ELSE IF q[i].serial \in gone THEN TakenOut(from[i + 1], i) ELSE from[i + 1]
  IN  from[1]

----------------------------------------------------------------------------
PoolsInit ==
  /\ now = 0 /\ system = "beginTick"
  /\ orbs = <<>> /\ zones = <<>> /\ reach = {}
  /\ dropped = 0 /\ laid = <<>> /\ evicted = {} /\ blasts = {}

BeginTick ==
  /\ system = "beginTick" /\ now < MaxTick
  /\ now' = now + 1 /\ system' = "zoneRun"
  /\ UNCHANGED <<orbs, zones, reach, dropped, laid, evicted, blasts>>

(* A kill in any system of the tick may drop an orb.                       *)
DropOrb ==
  /\ system # "beginTick" /\ dropped < MaxOrbs
  /\ dropped' = dropped + 1
  /\ orbs' = Pushed(orbs, MAX_ORBS, [serial |-> dropped', expire |-> now + OrbLifetime])
  /\ UNCHANGED <<now, system, zones, reach, laid, evicted, blasts>>

(* The zones that explode: Burn deals damage on every tick, Fissure never. *)
Exploding(q) == {i \in 1 .. Len(q) : q[i].kind = "Aftershock" /\ now >= q[i].expire}

Exploded(q) == blasts \cup {<<q[i].serial, now>> : i \in Exploding(q)}

Over(x)    == now >= x.expire
Overdue(q) == {q[i].serial : i \in {j \in 1 .. Len(q) : Over(q[j])}}

(* mutant: what has ended is taken out before the damage.                  *)
ZoneRunSweepsFirst ==
  /\ system = "zoneRun" /\ system' = "orbRun"
  /\ zones' = Swept(zones, Overdue(zones))
  /\ blasts' = Exploded(zones')
  /\ UNCHANGED <<now, orbs, reach, dropped, laid, evicted>>

(* zoneRun: damage in ascending order, then a second loop for the ended.   *)
ZoneRun ==
  /\ system = "zoneRun" /\ system' = "orbRun"
  /\ blasts' = Exploded(zones)
  /\ zones' = Swept(zones, Overdue(zones))
  /\ UNCHANGED <<now, orbs, reach, dropped, laid, evicted>>

(* orbRun: the orbs that have ended and those under the hero, in one loop. *)
OrbRun ==
  /\ system = "orbRun" /\ system' = "combatRun"
  /\ reach' \in SUBSET Serials(orbs)
  /\ orbs' = Swept(orbs, Overdue(orbs) \cup reach')
  /\ UNCHANGED <<now, zones, dropped, laid, evicted, blasts>>

(* executeSkill, from qteRun and combatRun, lays a zone.                   *)
LayZone(kind) ==
  /\ system = "combatRun" /\ Len(laid) < MaxZones
  /\ LET z == [serial |-> Len(laid) + 1, kind |-> kind, expire |-> now + Duration[kind]]
     IN  laid' = Append(laid, z) /\ zones' = Pushed(zones, MAX_ZONES, z)
  /\ evicted' = evicted \cup (Serials(zones) \ Serials(zones'))
  /\ UNCHANGED <<now, system, orbs, reach, dropped, blasts>>

PoolsEndTick ==
  /\ system = "combatRun" /\ system' = "beginTick"
  /\ reach' = {}
  /\ UNCHANGED <<now, orbs, zones, dropped, laid, evicted, blasts>>

PoolsNext ==
  BeginTick \/ DropOrb \/ ZoneRun \/ OrbRun \/ PoolsEndTick \/ \E k \in Kinds : LayZone(k)

PoolsSpec == PoolsInit /\ [][PoolsNext]_poolVars

----------------------------------------------------------------------------
(* After its run a pool holds nothing that has ended, and no orb is left   *)
(* under the hero, however many went in the same loop (combat.h:932, 1000: *)
(* a forward loop would step over what moves up).                          *)
NothingOverdue ==
  /\ system \in {"orbRun", "combatRun", "beginTick"} =>
       \A i \in 1 .. Len(zones) : ~Over(zones[i])
  /\ system = "combatRun" =>
       \A i \in 1 .. Len(orbs) : ~Over(orbs[i]) /\ orbs[i].serial \notin reach

(* An aftershock explodes once, in the tick in which its fuse ends, unless *)
(* it was given up for room before (world.h:228, combat.h:945).            *)
ExplodesOnce ==
  \A s \in 1 .. Len(laid) :
    LET z    == laid[s]
        ends == z.kind = "Aftershock" /\ s \notin evicted
                /\ (z.expire < now \/ (z.expire = now /\ system # "zoneRun"))
    IN  {b \in blasts : b[1] = s} = IF ends THEN {<<s, z.expire>>} ELSE {}

(* Taking out keeps the order: both arrays list their entries as pushed,   *)
(* which is the order in which damage is dealt (combat.h:930).             *)
OrderKept ==
  \A q \in {orbs, zones} : \A i, j \in 1 .. Len(q) : i < j => q[i].serial < q[j].serial
=============================================================================
