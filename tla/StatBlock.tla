----------------------------- MODULE StatBlock -----------------------------
(* The hero's modifiers (core/include/dc/stat_block.h, condition.h,        *)
(* small_vec.h) and the World functions that keep their conditions up to   *)
(* date (world.h).  Nothing is evaluated every tick.  A value is computed  *)
(* when it is read and cached until its stat is marked dirty; a condition  *)
(* is evaluated again only when what it reads is reported to have changed, *)
(* and only in the stats that the kind index names; timed conditions wait  *)
(* for the earliest end, a single cached number.                           *)
(*                                                                         *)
(* Values are raw Fixed numbers.  The amount of a modifier is a function   *)
(* of its sourceId, which names the card, item or event it comes from.     *)
EXTENDS Integers, SequencesExt

CONSTANTS
  Stat, CorruptionMax,    \* the stats; the one the corruption ratio divides by
  Base, MinValue, MinPct, \* HeroBaseline and StatBounds of each stat
  ONE,                    \* Fixed::ONE_RAW
  Source, Amount,         \* sourceIds and the amount each of them brings
  Additions,              \* what addFlat and addPctAdd are called with: field, amount
  MaxSum,                 \* bound of the model: the accumulated sums
  Conditions, Ops,        \* what addConditional is called with
  Capacity,               \* of each of the three vectors
  Gauges, Targets,        \* corruption values and archetypes of a target
  NO_TARGET, NO_EXPIRY, MaxTick

Kinds == {"Always", "CorruptionThreshold", "TargetArchetype", "TimeWindow"}

ASSUME StatAssumption ==
  /\ CorruptionMax \in Stat /\ ONE \in Nat \ {0} /\ Gauges \subseteq Int
  /\ MinValue \in [Stat -> Int] /\ MinPct \in [Stat -> Int]
  /\ Source \subseteq Nat \ {0} /\ Amount \in [Source -> Int]
  /\ Capacity \in [{"mults", "overrides", "conditionals"} -> Nat]
  /\ MaxTick \in Nat /\ NO_EXPIRY \in Int /\ NO_EXPIRY > MaxTick
  /\ Base \in [Stat -> Int] /\ Additions \subseteq {"accumFlat", "accumPctAdd"} \X Int
  /\ \A c \in Conditions : c.kind \in Kinds /\ c.paramA \in Int /\ c.paramB \in Int
  /\ \A c \in Conditions : c.kind = "TimeWindow" => c.paramA < NO_EXPIRY

VARIABLES
  entries,    \* StatEntry: base, sums and the three sorted vectors
  cache,      \* <<cached>> of each stat, <<>> while it is dirty
  usingKind,  \* statsUsingKind_, as sets of stats
  nextExpiry, \* nextExpiryTick_
  tick, corruption,
  target      \* archetype of hero.target; NO_TARGET when it is gone

indexVars == <<usingKind, nextExpiry>>
worldVars == <<tick, corruption, target>>
vars == <<entries, cache, indexVars, worldVars>>

----------------------------------------------------------------------------
FixedMul(a, b) == IF a * b < 0 THEN -((-(a * b)) \div ONE) ELSE (a * b) \div ONE
AtLeast(low, x) == IF x > low THEN x ELSE low

(* mutant: one list after the other.                                       *)
MergedInTurn(us, cs) == us \o cs

(* The two-pointer merge of two vectors, each ascending by source.         *)
Merged(us, cs) ==
  LET from[p \in (1 .. Len(us) + 1) \X (1 .. Len(cs) + 1)] ==
        LET a == p[1]
            c == p[2]
        IN  IF a > Len(us) THEN SubSeq(cs, c, Len(cs))
            ELSE IF c <= Len(cs) /\ us[a].source >= cs[c].source
                 THEN <<cs[c]>> \o from[<<a, c + 1>>]
                 ELSE <<us[a]>> \o from[<<a + 1, c>>]
  IN  from[<<1, 1>>]

Sum(mods) == FoldLeft(LAMBDA x, m : x + m.value, 0, mods)
Product(start, mods) == FoldLeft(LAMBDA x, m : FixedMul(x, ONE + m.value), start, mods)

(* The conditionals that a loop of compute does not pass over.             *)
On(mods, op) ==
  FoldLeft(LAMBDA q, m : IF m.active /\ m.op = op THEN Append(q, m) ELSE q, <<>>, mods)

ByFirst(mods) == CHOOSE m \in mods : \A n \in mods : m.source <= n.source
ByLast(mods)  == CHOOSE m \in mods : \A n \in mods : n.source <= m.source

(* compute: flat, percent, products by source, the first override, bound.  *)
Compute(s, e) ==
  LET on(op)  == On(e.conditionals, op)
      flat    == e.base + e.accumFlat + Sum(on("Flat"))
      pct     == AtLeast(MinPct[s], e.accumPctAdd + Sum(on("PercentAdd")))
      product == Product(FixedMul(flat, ONE + pct), Merged(e.mults, on("PercentMult")))
      firsts  == {q[1] : q \in {e.overrides, on("Override")} \ {<<>>}}
  IN  AtLeast(MinValue[s], IF firsts = {} THEN product ELSE ByFirst(firsts).value)

(* value: what a read returns.                                             *)
Value(s) == IF cache[s] = <<>> THEN Compute(s, entries[s]) ELSE cache[s][1]

(* insertSorted: behind the last element that is not greater.              *)
Places(q, source) ==
  {k \in 0 .. Len(q) : /\ k > 0 => q[k].source <= source
                       /\ \A j \in k + 1 .. Len(q) : source < q[j].source}

Room(e, field) == Len(e[field]) < Capacity[field]

Has(q, source) == \E i \in 1 .. Len(q) : q[i].source = source

(* The result of a successful insertSorted behind place k, and of eraseAt. *)
Inserted(q, k, m) ==
  [i \in 1 .. Len(q) + 1 |-> IF i <= k THEN q[i] ELSE IF i = k + 1 THEN m ELSE q[i - 1]]
Erased(q, i) == [j \in 1 .. Len(q) - 1 |-> IF j < i THEN q[j] ELSE q[j + 1]]

----------------------------------------------------------------------------
(* conditionContext.  It reads CorruptionMax through the cache.            *)
Permille(gauge) ==
  LET max == Value(CorruptionMax) IN IF max <= 0 THEN 1000 ELSE (gauge * 1000) \div max

(* evaluateCondition; between the two lines a threshold stays as it was.   *)
Holds(c, t, permille, arch, was) ==
  CASE c.kind = "Always" -> TRUE
    [] c.kind = "CorruptionThreshold" ->
         permille >= c.paramA \/ (permille >= c.paramB /\ was)
    [] c.kind = "TargetArchetype" -> arch # NO_TARGET /\ arch = c.paramA
    [] c.kind = "TimeWindow" -> t < c.paramA

Timed(es) ==
  {m \in UNION {{es[s].conditionals[i] : i \in 1 .. Len(es[s].conditionals)} : s \in Stat} :
     m.cond.kind = "TimeWindow" /\ m.active}

(* mutant: the latest end.                                                 *)
EarliestEndLatest(es) ==
  LET ends == {m.cond.paramA : m \in Timed(es)}
  IN  IF ends = {} THEN {NO_EXPIRY} ELSE {x \in ends : \A y \in ends : x >= y}

(* recomputeNextExpiry: the earliest end among the active ones.            *)
EarliestEnd(es) ==
  LET ends == {NO_EXPIRY} \cup {m.cond.paramA : m \in Timed(es)}
  IN  {x \in ends : \A y \in ends : x <= y}

(* rebuildKindIndex                                                        *)
KindIndex(es) ==
  [k \in Kinds |-> {s \in Stat : \E i \in 1 .. Len(es[s].conditionals) :
                                    es[s].conditionals[i].cond.kind = k}]

Refreshed(q, kinds, t, permille, arch) ==
  [i \in 1 .. Len(q) |->
     IF q[i].cond.kind \in kinds
     THEN [q[i] EXCEPT !.active = Holds(q[i].cond, t, permille, arch, q[i].active)]
     ELSE q[i]]

(* mutant: the stats whose conditions flipped are not marked.              *)
CacheAfterNone(changed) == [cache EXCEPT ![CorruptionMax] = <<Value(CorruptionMax)>>]

(* The cache once the context has been read and changed stats were marked. *)
CacheAfter(changed) ==
  [s \in Stat |-> IF s \in changed THEN <<>>
                  ELSE IF s = CorruptionMax THEN <<Value(s)>> ELSE cache[s]]

(* refreshConditions, with the context of the new tick, gauge and target.  *)
Refresh(kinds, t, permille, arch) ==
  LET affected == UNION {usingKind[k] : k \in kinds}
  IN  /\ entries' = [s \in Stat |->
                       IF s \in affected
                       THEN [entries[s] EXCEPT !.conditionals =
                               Refreshed(entries[s].conditionals, kinds, t, permille, arch)]
                       ELSE entries[s]]
      /\ IF affected # {} /\ "TimeWindow" \in kinds
         THEN nextExpiry' \in EarliestEnd(entries')
         ELSE nextExpiry' = nextExpiry
      /\ cache' = CacheAfter({s \in Stat : entries'[s] # entries[s]})
      /\ UNCHANGED usingKind

----------------------------------------------------------------------------
Empty(b) == [base |-> b, accumFlat |-> 0, accumPctAdd |-> 0,
             mults |-> <<>>, overrides |-> <<>>, conditionals |-> <<>>]

(* StatBlock.init and a new World.                                         *)
Init ==
  /\ entries = [s \in Stat |-> Empty(Base[s])]
  /\ cache = [s \in Stat |-> <<>>]
  /\ usingKind = [k \in Kinds |-> {}] /\ nextExpiry = NO_EXPIRY
  /\ tick = 0 /\ corruption = 0 /\ target = NO_TARGET

(* value: the first read after a change fills the cache.                   *)
Read(s) ==
  /\ cache' = [cache EXCEPT ![s] = <<Value(s)>>]
  /\ UNCHANGED <<entries, indexVars, worldVars>>

Change(s, e) ==
  /\ entries' = [entries EXCEPT ![s] = e]
  /\ cache' = [cache EXCEPT ![s] = <<>>]

(* addFlat and addPctAdd; their removals add the negative.                 *)
Accumulate(s, field, v) ==
  /\ entries[s][field] + v \in -MaxSum .. MaxSum
  /\ Change(s, [entries[s] EXCEPT ![field] = @ + v])
  /\ UNCHANGED <<indexVars, worldVars>>

(* A source is given to one modifier at a time (allocSourceId).            *)
Fresh(source) ==
  \A s \in Stat : LET e == entries[s]
                 IN ~Has(e.mults, source) /\ ~Has(e.overrides, source) /\ ~Has(e.conditionals, source)

(* addMult and addOverride.                                                *)
AddSourced(s, field, source) ==
  /\ Fresh(source) /\ ~Has(entries[s][field], source) /\ Room(entries[s], field)
  /\ \E k \in Places(entries[s][field], source) :
       Change(s, [entries[s] EXCEPT ![field] =
                    Inserted(@, k, [source |-> source, value |-> Amount[source]])])
  /\ UNCHANGED <<indexVars, worldVars>>

(* removeMult and removeOverride.                                          *)
RemoveSourced(s, field, i) ==
  /\ i \in 1 .. Len(entries[s][field])
  /\ Change(s, [entries[s] EXCEPT ![field] = Erased(@, i)])
  /\ UNCHANGED <<indexVars, worldVars>>

(* A condition may not read the stat it changes, nor switch off above the  *)
(* line where it switches on.                                              *)
Allowed(c, s) ==
  c.kind = "CorruptionThreshold" => s # CorruptionMax /\ c.paramB <= c.paramA

(* addConditional.  Its context argument is conditionContext().            *)
AddConditional(s, source, op, c) ==
  /\ Fresh(source) /\ Allowed(c, s)
  /\ ~Has(entries[s].conditionals, source) /\ Room(entries[s], "conditionals")
  /\ \E k \in Places(entries[s].conditionals, source) :
       entries' = [entries EXCEPT ![s].conditionals =
                     Inserted(@, k, [source |-> source, value |-> Amount[source], cond |-> c, op |-> op,
                                     active |-> Holds(c, tick, Permille(corruption), target, FALSE)])]
  /\ cache' = CacheAfter({s})
  /\ usingKind' = [usingKind EXCEPT ![c.kind] = @ \cup {s}]
  /\ nextExpiry' = IF c.kind = "TimeWindow" /\ c.paramA < nextExpiry THEN c.paramA ELSE nextExpiry
  /\ UNCHANGED worldVars

(* mutant: the kind is struck off for the stat, whoever else has it.       *)
RemoveConditionalUnindexed(s, i) ==
  /\ i \in 1 .. Len(entries[s].conditionals)
  /\ Change(s, [entries[s] EXCEPT !.conditionals = Erased(@, i)])
  /\ usingKind' = [usingKind EXCEPT ![entries[s].conditionals[i].cond.kind] = @ \ {s}]
  /\ nextExpiry' \in EarliestEnd(entries')
  /\ UNCHANGED worldVars

(* removeConditional rebuilds the index and the earliest end.              *)
RemoveConditional(s, i) ==
  /\ i \in 1 .. Len(entries[s].conditionals)
  /\ Change(s, [entries[s] EXCEPT !.conditionals = Erased(@, i)])
  /\ usingKind' = KindIndex(entries')
  /\ nextExpiry' \in EarliestEnd(entries')
  /\ UNCHANGED worldVars

(* A hit, a purge or the crowd moves the gauge: notifyCorruptionChanged.   *)
MoveGauge(gauge) ==
  /\ corruption' = gauge
  /\ Refresh({"CorruptionThreshold"}, tick, Permille(gauge), target)
  /\ UNCHANGED <<tick, target>>

(* selectTarget chooses another target, or none: notifyTargetChanged.      *)
ChangeTarget(arch) ==
  /\ target' = arch
  /\ Refresh({"TargetArchetype"}, tick, Permille(corruption), arch)
  /\ UNCHANGED <<tick, corruption>>

(* The target dies: nobody is told before the next selectTarget.           *)
TargetGone ==
  /\ target' = NO_TARGET
  /\ UNCHANGED <<entries, cache, indexVars, tick, corruption>>

(* beginTick: tickTimeConditions looks at the earliest end only.           *)
BeginTick ==
  /\ tick < MaxTick
  /\ tick' = tick + 1
  /\ IF tick' < nextExpiry
     THEN UNCHANGED <<entries, cache, indexVars>>
     ELSE Refresh({"TimeWindow"}, tick', Permille(corruption), target)
  /\ UNCHANGED <<corruption, target>>

(* refreshAllConditions, after a snapshot or new data.                     *)
RefreshAll ==
  /\ Refresh(Kinds, tick, Permille(corruption), target)
  /\ UNCHANGED worldVars

Next ==
  \/ BeginTick \/ RefreshAll \/ TargetGone
  \/ \E g \in Gauges : MoveGauge(g)
  \/ \E a \in Targets : ChangeTarget(a)
  \/ \E s \in Stat :
       \/ Read(s)
       \/ \E a \in Additions : Accumulate(s, a[1], a[2])
       \/ \E field \in {"mults", "overrides"} :
            \/ \E i \in Source : AddSourced(s, field, i)
            \/ \E i \in 1 .. Capacity[field] : RemoveSourced(s, field, i)
       \/ \E i \in Source, op \in Ops, c \in Conditions : AddConditional(s, i, op, c)
       \/ \E i \in 1 .. Capacity["conditionals"] : RemoveConditional(s, i)

Spec == Init /\ [][Next]_vars

----------------------------------------------------------------------------
SourcedMod == [source : Source, value : Int]
ConditionalMod ==
  [source : Source, value : Int, cond : Conditions, op : Ops, active : BOOLEAN]

(* Type invariant of the block (stat_block.h StatEntry and StatBlock).     *)
TypeOK ==
  /\ \A s \in Stat :
       LET e == entries[s]
       IN  /\ e.base \in Int /\ e.accumFlat \in Int /\ e.accumPctAdd \in Int
           /\ e.mults \in Seq(SourcedMod)
           /\ e.overrides \in Seq(SourcedMod)
           /\ e.conditionals \in Seq(ConditionalMod)
           /\ \A f \in DOMAIN Capacity : Len(e[f]) <= Capacity[f]
  /\ usingKind \in [Kinds -> SUBSET Stat] /\ nextExpiry \in Int
  /\ tick \in 0 .. MaxTick

(* A clean cache never lies: it holds what compute would return now,       *)
(* whatever was added, removed, switched or read in between.               *)
CacheHonest == \A s \in Stat : cache[s] # <<>> => cache[s] = <<Compute(s, entries[s])>>

(* The modifiers of s that are in force, as a set.                         *)
InForce(s) ==
  LET e == entries[s]
      all(q, op) == {[source |-> q[i].source, op |-> op, value |-> q[i].value] : i \in 1 .. Len(q)}
  IN  all(e.mults, "PercentMult") \cup all(e.overrides, "Override")
        \cup {[source |-> m.source, op |-> m.op, value |-> m.value] :
               m \in {e.conditionals[i] : i \in {j \in 1 .. Len(e.conditionals) : e.conditionals[j].active}}}

(* What a read returns depends on the set of modifiers in force alone, not *)
(* on the order in which they came, went and were switched: products are   *)
(* taken by ascending sourceId, and the smallest sourceId overrides.       *)
ValueOfModifiers ==
  \A s \in Stat :
    LET of(op)  == {m \in InForce(s) : m.op = op}
        e       == entries[s]
        flat    == e.base + e.accumFlat + MapThenSumSet(LAMBDA m : m.value, of("Flat"))
        pct     == AtLeast(MinPct[s], e.accumPctAdd + MapThenSumSet(LAMBDA m : m.value, of("PercentAdd")))
        product == MapThenFoldSet(LAMBDA x, v : FixedMul(v, ONE + x), FixedMul(flat, ONE + pct),
                                  LAMBDA m : m.value, ByLast, of("PercentMult"))
    IN  Value(s) = AtLeast(MinValue[s], IF of("Override") = {} THEN product ELSE ByFirst(of("Override")).value)

(* A modifier with an end is never in force at or after it, although only  *)
(* the earliest end is looked at (stat_block.h:263-271: the cached end is  *)
(* never late).                                                            *)
EndedNeverActive == \A m \in Timed(entries) : tick < m.cond.paramA

(* When the gauge moves every threshold follows, whichever stat it is on:  *)
(* it is on only at or above its lower line and off only below its upper.  *)
ThresholdsFollowGauge ==
  [][corruption' # corruption =>
       \A s \in Stat : \A i \in 1 .. Len(entries'[s].conditionals) :
         LET m == entries'[s].conditionals[i]
         IN  m.cond.kind = "CorruptionThreshold" =>
               IF m.active THEN Permille(corruption)' >= m.cond.paramB
                           ELSE Permille(corruption)' < m.cond.paramA]_vars
=============================================================================
