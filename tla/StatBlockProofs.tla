-------------------------- MODULE StatBlockProofs --------------------------
(* Proofs about the stat block, for every set of stats, modifiers and      *)
(* conditions.  The lazy parts never lie: the caches of values and the     *)
(* single cached end of all timed modifiers.  What a read returns depends  *)
(* on the set of modifiers in force alone, and the thresholds follow the   *)
(* gauge.                                                                  *)
EXTENDS StatBlock, FiniteSetTheorems, SequenceTheorems, WellFoundedInduction, TLAPS

----------------------------------------------------------------------------
(* The value cache.  What compute returns does not matter here: only that  *)
(* every step which changes an entry leaves its cache dirty.               *)

Domains == DOMAIN entries = Stat /\ DOMAIN cache = Stat

CacheInv == Domains /\ CacheHonest

LEMMA ValueIsComputed ==
  ASSUME CacheHonest, NEW s \in Stat
  PROVE  Value(s) = Compute(s, entries[s])
<1>1. CASE cache[s] = <<>>
  BY <1>1 DEF Value
<1>2. CASE cache[s] # <<>>
  <2>1. cache[s] = <<Compute(s, entries[s])>>
    BY <1>2 DEF CacheHonest
  <2>2. cache[s][1] = Compute(s, entries[s])
    BY <2>1
  <2> QED  BY <1>2, <2>2 DEF Value
<1> QED  BY <1>1, <1>2

(* It is enough that each stat is dirty, freshly read, or left alone.      *)
LEMMA CacheStep ==
  ASSUME CacheInv, Domains',
         \A s \in Stat : \/ cache'[s] = <<>>
                         \/ /\ entries'[s] = entries[s]
                            /\ cache'[s] \in {cache[s], <<Value(s)>>}
  PROVE  CacheInv'
<1>1. ASSUME NEW s \in Stat, cache'[s] # <<>>
      PROVE  cache'[s] = <<Compute(s, entries'[s])>>
  <2>1. entries'[s] = entries[s] /\ cache'[s] \in {cache[s], <<Value(s)>>}
    BY <1>1
  <2>2. Value(s) = Compute(s, entries[s])
    BY ValueIsComputed DEF CacheInv
  <2>3. CASE cache'[s] = cache[s]
    BY <1>1, <2>1, <2>3 DEF CacheInv, CacheHonest
  <2>4. CASE cache'[s] = <<Value(s)>>
    BY <2>1, <2>2, <2>4
  <2> QED  BY <2>1, <2>3, <2>4
<1> QED  BY <1>1 DEF CacheInv, CacheHonest

LEMMA ChangeKeepsCache ==
  ASSUME CacheInv, NEW s \in Stat, NEW e, Change(s, e)
  PROVE  CacheInv'
<1>1. Domains'
  BY DEF CacheInv, Domains, Change
<1>2. \A x \in Stat : cache'[x] = <<>> \/ (entries'[x] = entries[x] /\ cache'[x] = cache[x])
  BY DEF CacheInv, Domains, Change
<1> QED  BY <1>1, <1>2, CacheStep

LEMMA RefreshKeepsCache ==
  ASSUME CacheInv, NEW kinds, NEW t, NEW permille, NEW arch, Refresh(kinds, t, permille, arch)
  PROVE  CacheInv'
<1>1. cache' = CacheAfter({s \in Stat : entries'[s] # entries[s]}) /\ DOMAIN entries' = Stat
  BY DEF Refresh
<1>2. Domains'
  BY <1>1 DEF CacheAfter, Domains
<1>3. \A x \in Stat : \/ cache'[x] = <<>>
                      \/ entries'[x] = entries[x] /\ cache'[x] \in {cache[x], <<Value(x)>>}
  BY <1>1 DEF CacheAfter
<1> QED  BY <1>2, <1>3, CacheStep

LEMMA AddConditionalKeepsCache ==
  ASSUME CacheInv, NEW s \in Stat, NEW source, NEW op, NEW c, AddConditional(s, source, op, c)
  PROVE  CacheInv'
<1>1. PICK k : entries' = [entries EXCEPT ![s].conditionals =
                 Inserted(@, k, [source |-> source, value |-> Amount[source], cond |-> c, op |-> op,
                                 active |-> Holds(c, tick, Permille(corruption), target, FALSE)])]
  BY DEF AddConditional
<1>2. cache' = CacheAfter({s})
  BY DEF AddConditional
<1>3. Domains' /\ \A x \in Stat : x # s => entries'[x] = entries[x]
  BY <1>1, <1>2 DEF CacheInv, Domains, CacheAfter
<1>4. \A x \in Stat : \/ cache'[x] = <<>>
                      \/ x # s /\ cache'[x] \in {cache[x], <<Value(x)>>}
  BY <1>2 DEF CacheAfter
<1> QED  BY <1>3, <1>4, CacheStep

(* The caches stay honest ...                                              *)
THEOREM StatCacheInvariant == Spec => []CacheInv
<1>1. Init => CacheInv
  BY DEF Init, CacheInv, Domains, CacheHonest
<1>2. CacheInv /\ [Next]_vars => CacheInv'
  <2> SUFFICES ASSUME CacheInv, [Next]_vars
               PROVE  CacheInv'
    OBVIOUS
  <2>1. CASE entries' = entries /\ cache' = cache
    BY <2>1 DEF CacheInv, Domains, CacheHonest
  <2>2. ASSUME NEW s \in Stat, Read(s)
        PROVE  CacheInv'
    BY <2>2, CacheStep DEF Read, CacheInv, Domains
  <2>3. ASSUME NEW s \in Stat, NEW e, Change(s, e)
        PROVE  CacheInv'
    BY <2>3, ChangeKeepsCache
  <2>4. CASE BeginTick
    <3>1. CASE tick' < nextExpiry
      BY <2>1, <2>4, <3>1 DEF BeginTick
    <3>2. CASE ~(tick' < nextExpiry)
      BY <2>4, <3>2, RefreshKeepsCache DEF BeginTick
    <3> QED  BY <3>1, <3>2
  <2>5. CASE RefreshAll
    BY <2>5, RefreshKeepsCache DEF RefreshAll
  <2>6. CASE TargetGone
    BY <2>1, <2>6 DEF TargetGone
  <2>7. ASSUME NEW g \in Gauges, MoveGauge(g)
        PROVE  CacheInv'
    BY <2>7, RefreshKeepsCache DEF MoveGauge
  <2>8. ASSUME NEW a \in Targets, ChangeTarget(a)
        PROVE  CacheInv'
    BY <2>8, RefreshKeepsCache DEF ChangeTarget
  <2>9. ASSUME NEW s \in Stat, NEW field, NEW v, Accumulate(s, field, v)
        PROVE  CacheInv'
    BY <2>3, <2>9 DEF Accumulate
  <2>10. ASSUME NEW s \in Stat, NEW field, NEW i, AddSourced(s, field, i)
         PROVE  CacheInv'
    BY <2>3, <2>10 DEF AddSourced
  <2>11. ASSUME NEW s \in Stat, NEW field, NEW i, RemoveSourced(s, field, i)
         PROVE  CacheInv'
    BY <2>3, <2>11 DEF RemoveSourced
  <2>12. ASSUME NEW s \in Stat, NEW i, RemoveConditional(s, i)
         PROVE  CacheInv'
    BY <2>3, <2>12 DEF RemoveConditional
  <2>13. ASSUME NEW s \in Stat, NEW i, NEW op, NEW c, AddConditional(s, i, op, c)
         PROVE  CacheInv'
    BY <2>13, AddConditionalKeepsCache
  <2>14. CASE UNCHANGED vars
    BY <2>1, <2>14 DEF vars
  <2> QED  BY <2>2, <2>4, <2>5, <2>6, <2>7, <2>8, <2>9, <2>10, <2>11, <2>12, <2>13, <2>14 DEF Next
<1> QED  BY <1>1, <1>2, PTL DEF Spec

(* A clean cache equals what compute would return, in every reachable      *)
(* state: stat_block.h:296 compares the two in tests.                      *)
THEOREM StatCacheHonest == Spec => []CacheHonest
<1>1. CacheInv => CacheHonest
  BY DEF CacheInv
<1> QED  BY <1>1, StatCacheInvariant, PTL

----------------------------------------------------------------------------
(* The vectors: what insertSorted, eraseAt and a refresh leave behind.     *)

LEMMA InsertedElements ==
  ASSUME NEW S, NEW q \in Seq(S), NEW k \in 0 .. Len(q), NEW m \in S
  PROVE  /\ Inserted(q, k, m) \in Seq(S)
         /\ Len(Inserted(q, k, m)) = Len(q) + 1
         /\ \A i \in 1 .. Len(q) + 1 :
              \/ Inserted(q, k, m)[i] = m
              \/ \E j \in 1 .. Len(q) : Inserted(q, k, m)[i] = q[j]
<1>1. ASSUME NEW i \in 1 .. Len(q) + 1
      PROVE  \/ Inserted(q, k, m)[i] = m
             \/ \E j \in 1 .. Len(q) : Inserted(q, k, m)[i] = q[j]
  <2>1. CASE i <= k
    <3>1. Inserted(q, k, m)[i] = q[i] /\ i \in 1 .. Len(q)
      BY <2>1 DEF Inserted
    <3> QED  BY <3>1
  <2>2. CASE i = k + 1
    BY <2>2 DEF Inserted
  <2>3. CASE i > k + 1
    <3>1. Inserted(q, k, m)[i] = q[i - 1] /\ i - 1 \in 1 .. Len(q)
      BY <2>3 DEF Inserted
    <3> QED  BY <3>1
  <2> QED  BY <2>1, <2>2, <2>3
<1>2. Inserted(q, k, m) \in [1 .. Len(q) + 1 -> S]
  <2>1. \A i \in 1 .. Len(q) + 1 : Inserted(q, k, m)[i] \in S
    BY <1>1
  <2> QED  BY <2>1 DEF Inserted
<1>3. Inserted(q, k, m) \in Seq(S) /\ Len(Inserted(q, k, m)) = Len(q) + 1
  BY <1>2
<1> QED  BY <1>1, <1>3

LEMMA ErasedElements ==
  ASSUME NEW S, NEW q \in Seq(S), NEW i \in 1 .. Len(q)
  PROVE  /\ Erased(q, i) \in Seq(S)
         /\ Len(Erased(q, i)) = Len(q) - 1
         /\ \A a \in 1 .. Len(q) - 1 : \E j \in 1 .. Len(q) : Erased(q, i)[a] = q[j]
<1>1. ASSUME NEW a \in 1 .. Len(q) - 1
      PROVE  \E j \in 1 .. Len(q) : Erased(q, i)[a] = q[j]
  <2>1. Erased(q, i)[a] = q[a] \/ Erased(q, i)[a] = q[a + 1]
    BY DEF Erased
  <2>2. a \in 1 .. Len(q) /\ a + 1 \in 1 .. Len(q)
    OBVIOUS
  <2> QED  BY <2>1, <2>2
<1>2. Erased(q, i) \in [1 .. Len(q) - 1 -> S]
  <2>1. \A a \in 1 .. Len(q) - 1 : Erased(q, i)[a] \in S
    BY <1>1
  <2> QED  BY <2>1 DEF Erased
<1>3. Len(q) - 1 \in Nat
  OBVIOUS
<1>4. Erased(q, i) \in Seq(S) /\ Len(Erased(q, i)) = Len(q) - 1
  BY <1>2, <1>3
<1> QED  BY <1>1, <1>4

LEMMA HoldsIsBoolean ==
  ASSUME NEW c \in Conditions, NEW t \in Int, NEW permille, NEW arch, NEW was \in BOOLEAN
  PROVE  /\ Holds(c, t, permille, arch, was) \in BOOLEAN
         /\ c.kind = "TimeWindow" => (Holds(c, t, permille, arch, was) <=> t < c.paramA)
<1>1. c.kind \in Kinds
  BY StatAssumption DEF StatAssumption
<1>2. CASE c.kind = "Always"
  <2>1. Holds(c, t, permille, arch, was) = TRUE
    BY <1>2 DEF Holds
  <2> QED  BY <1>2, <2>1
<1>3. CASE c.kind = "CorruptionThreshold"
  <2>1. Holds(c, t, permille, arch, was) = (permille >= c.paramA \/ (permille >= c.paramB /\ was))
    BY <1>3 DEF Holds
  <2> QED  BY <1>3, <2>1
<1>4. CASE c.kind = "TargetArchetype"
  <2>1. Holds(c, t, permille, arch, was) = (arch # NO_TARGET /\ arch = c.paramA)
    BY <1>4 DEF Holds
  <2> QED  BY <1>4, <2>1
<1>5. CASE c.kind = "TimeWindow"
  <2>1. Holds(c, t, permille, arch, was) <=> t < c.paramA
    BY <1>5 DEF Holds
  <2>2. Holds(c, t, permille, arch, was) \in BOOLEAN
    BY <1>5 DEF Holds
  <2> QED  BY <2>1, <2>2
<1> QED  BY <1>1, <1>2, <1>3, <1>4, <1>5 DEF Kinds

LEMMA RefreshedElements ==
  ASSUME NEW q \in Seq(ConditionalMod), NEW kinds, NEW t \in Int, NEW permille, NEW arch
  PROVE  LET r == Refreshed(q, kinds, t, permille, arch)
         IN  /\ r \in Seq(ConditionalMod)
             /\ Len(r) = Len(q)
             /\ \A i \in 1 .. Len(q) :
                  /\ r[i].cond = q[i].cond
                  /\ r[i].cond.kind \notin kinds => r[i] = q[i]
                  /\ r[i].cond.kind \in kinds /\ r[i].cond.kind = "TimeWindow" =>
                       (r[i].active <=> t < r[i].cond.paramA)
<1> DEFINE r == Refreshed(q, kinds, t, permille, arch)
<1>1. ASSUME NEW i \in 1 .. Len(q)
      PROVE  /\ r[i] \in ConditionalMod
             /\ r[i].cond = q[i].cond
             /\ r[i].cond.kind \notin kinds => r[i] = q[i]
             /\ r[i].cond.kind \in kinds /\ r[i].cond.kind = "TimeWindow" =>
                  (r[i].active <=> t < r[i].cond.paramA)
  <2>1. q[i] \in ConditionalMod
    OBVIOUS
  <2>2. q[i].cond \in Conditions /\ q[i].active \in BOOLEAN
    BY <2>1 DEF ConditionalMod
  <2>3. CASE q[i].cond.kind \notin kinds
    <3>1. r[i] = q[i]
      BY <2>3 DEF Refreshed
    <3> QED  BY <2>1, <2>3, <3>1
  <2>4. CASE q[i].cond.kind \in kinds
    <3> DEFINE h == Holds(q[i].cond, t, permille, arch, q[i].active)
    <3>1. r[i] = [q[i] EXCEPT !.active = h]
      BY <2>4 DEF Refreshed
    <3>2. h \in BOOLEAN /\ (q[i].cond.kind = "TimeWindow" => (h <=> t < q[i].cond.paramA))
      BY <2>2, HoldsIsBoolean
    <3> HIDE DEF h
    <3>3. r[i] \in ConditionalMod /\ r[i].cond = q[i].cond /\ r[i].active = h
      BY <2>1, <3>1, <3>2 DEF ConditionalMod
    <3> QED  BY <2>4, <3>2, <3>3
  <2> QED  BY <2>3, <2>4
<1>2. r \in [1 .. Len(q) -> ConditionalMod]
  BY <1>1 DEF Refreshed
<1>3. r \in Seq(ConditionalMod) /\ Len(r) = Len(q)
  BY <1>2
<1> QED  BY <1>1, <1>3

----------------------------------------------------------------------------
(* Types, and what the two caches of the conditions promise: the kind      *)
(* index names every stat that has a condition of the kind, and the cached *)
(* end is not later than any end still to come.                            *)

Entry == [base : Int, accumFlat : Int, accumPctAdd : Int,
          mults : Seq(SourcedMod), overrides : Seq(SourcedMod), conditionals : Seq(ConditionalMod)]

Fits(e) == \A f \in DOMAIN Capacity : Len(e[f]) <= Capacity[f]

TypeInv ==
  /\ entries \in [Stat -> Entry]
  /\ \A s \in Stat : Fits(entries[s])
  /\ usingKind \in [Kinds -> SUBSET Stat] /\ nextExpiry \in Int
  /\ tick \in 0 .. MaxTick

(* A condition is found by its kind, and no end is passed by.              *)
Found(m, s, index)  == s \in index[m.cond.kind]
InTime(m, t, next) ==
  m.cond.kind = "TimeWindow" /\ m.active => t < m.cond.paramA /\ next <= m.cond.paramA

Watched(es, index, t, next) ==
  \A s \in Stat : \A i \in 1 .. Len(es[s].conditionals) :
    Found(es[s].conditionals[i], s, index) /\ InTime(es[s].conditionals[i], t, next)

StatInv == TypeInv /\ Watched(entries, usingKind, tick, nextExpiry)

LEMMA ConditionTypes ==
  ASSUME NEW q \in Seq(ConditionalMod), NEW i \in 1 .. Len(q)
  PROVE  /\ q[i] \in ConditionalMod
         /\ q[i].cond \in Conditions /\ q[i].cond.kind \in Kinds /\ q[i].cond.paramA \in Int
         /\ q[i].active \in BOOLEAN
<1>1. q[i] \in ConditionalMod
  OBVIOUS
<1>2. q[i].cond \in Conditions /\ q[i].active \in BOOLEAN
  BY <1>1 DEF ConditionalMod
<1> QED  BY <1>1, <1>2, StatAssumption DEF StatAssumption

LEMMA TimedElements ==
  ASSUME NEW es, NEW s \in Stat, NEW i \in 1 .. Len(es[s].conditionals),
         es[s].conditionals[i].cond.kind = "TimeWindow", es[s].conditionals[i].active
  PROVE  es[s].conditionals[i] \in Timed(es)
<1>1. es[s].conditionals[i] \in {es[s].conditionals[j] : j \in 1 .. Len(es[s].conditionals)}
  OBVIOUS
<1> QED  BY <1>1 DEF Timed

LEMMA EarliestEndIsEarly ==
  ASSUME NEW es \in [Stat -> Entry], NEW x \in EarliestEnd(es)
  PROVE  /\ x \in Int
         /\ \A s \in Stat : \A i \in 1 .. Len(es[s].conditionals) :
              LET m == es[s].conditionals[i]
              IN  m.cond.kind = "TimeWindow" /\ m.active => x <= m.cond.paramA
<1> DEFINE ends == {NO_EXPIRY} \cup {m.cond.paramA : m \in Timed(es)}
<1>1. x \in ends /\ \A y \in ends : x <= y
  BY DEF EarliestEnd
<1>2. ASSUME NEW m \in Timed(es)
      PROVE  m.cond.paramA \in Int
  <2>1. PICK s \in Stat : m \in {es[s].conditionals[i] : i \in 1 .. Len(es[s].conditionals)}
    BY DEF Timed
  <2>2. PICK i \in 1 .. Len(es[s].conditionals) : m = es[s].conditionals[i]
    BY <2>1
  <2>3. es[s].conditionals \in Seq(ConditionalMod)
    BY DEF Entry
  <2> QED  BY <2>2, <2>3, ConditionTypes
<1>3. NO_EXPIRY \in Int
  BY StatAssumption DEF StatAssumption
<1>4. x \in Int
  BY <1>1, <1>2, <1>3
<1>5. ASSUME NEW s \in Stat, NEW i \in 1 .. Len(es[s].conditionals),
             es[s].conditionals[i].cond.kind = "TimeWindow", es[s].conditionals[i].active
      PROVE  x <= es[s].conditionals[i].cond.paramA
  <2>1. es[s].conditionals[i] \in Timed(es)
    BY <1>5, TimedElements
  <2>2. es[s].conditionals[i].cond.paramA \in ends
    BY <2>1
  <2> HIDE DEF ends
  <2> QED  BY <1>1, <2>2
<1> QED  BY <1>4, <1>5

(* Steps that leave every vector of conditions alone.                      *)
LEMMA SameConditions ==
  ASSUME StatInv, entries' \in [Stat -> Entry],
         \A s \in Stat : Fits(entries'[s]) /\ entries'[s].conditionals = entries[s].conditionals,
         UNCHANGED indexVars, tick' = tick
  PROVE  StatInv'
<1>1. TypeInv'
  BY DEF StatInv, TypeInv, indexVars
<1>2. Watched(entries', usingKind', tick', nextExpiry')
  BY DEF StatInv, Watched, indexVars
<1> QED  BY <1>1, <1>2 DEF StatInv

LEMMA ChangedEntry ==
  ASSUME entries \in [Stat -> Entry], NEW s \in Stat, NEW e \in Entry, Change(s, e)
  PROVE  /\ entries' \in [Stat -> Entry] /\ entries'[s] = e
         /\ \A x \in Stat : x # s => entries'[x] = entries[x]
BY DEF Change

LEMMA AccumulateStep ==
  ASSUME StatInv, NEW s \in Stat, NEW a \in Additions, Accumulate(s, a[1], a[2])
  PROVE  StatInv'
<1>1. a[1] \in {"accumFlat", "accumPctAdd"} /\ a[2] \in Int
  BY StatAssumption DEF StatAssumption
<1> DEFINE e == [entries[s] EXCEPT ![a[1]] = @ + a[2]]
<1>2. Change(s, e) /\ UNCHANGED indexVars /\ tick' = tick
  BY DEF Accumulate, worldVars
<1>3. entries \in [Stat -> Entry] /\ entries[s] \in Entry /\ Fits(entries[s])
  BY DEF StatInv, TypeInv
<1>4. /\ e \in Entry
      /\ e.mults = entries[s].mults /\ e.overrides = entries[s].overrides
      /\ e.conditionals = entries[s].conditionals
  <2>1. CASE a[1] = "accumFlat"
    <3>1. entries[s].accumFlat + a[2] \in Int
      BY <1>1, <1>3 DEF Entry
    <3>2. e = [entries[s] EXCEPT !.accumFlat = entries[s].accumFlat + a[2]]
      BY <2>1
    <3> HIDE DEF e
    <3> QED  BY <1>3, <3>1, <3>2 DEF Entry
  <2>2. CASE a[1] = "accumPctAdd"
    <3>1. entries[s].accumPctAdd + a[2] \in Int
      BY <1>1, <1>3 DEF Entry
    <3>2. e = [entries[s] EXCEPT !.accumPctAdd = entries[s].accumPctAdd + a[2]]
      BY <2>2
    <3> HIDE DEF e
    <3> QED  BY <1>3, <3>1, <3>2 DEF Entry
  <2> QED  BY <1>1, <2>1, <2>2
<1> HIDE DEF e
<1>5. Fits(e)
  BY <1>3, <1>4, StatAssumption DEF Fits, StatAssumption
<1>6. entries' \in [Stat -> Entry] /\ entries'[s] = e /\ \A x \in Stat : x # s => entries'[x] = entries[x]
  BY <1>2, <1>3, <1>4, ChangedEntry
<1>7. \A x \in Stat : Fits(entries'[x]) /\ entries'[x].conditionals = entries[x].conditionals
  BY <1>4, <1>5, <1>6 DEF StatInv, TypeInv
<1> QED  BY <1>2, <1>6, <1>7, SameConditions

(* One of the two vectors of unconditional modifiers is replaced.          *)
LEMMA SourcedStep ==
  ASSUME StatInv, NEW s \in Stat, NEW field \in {"mults", "overrides"},
         NEW q \in Seq(SourcedMod), Len(q) <= Capacity[field],
         Change(s, [entries[s] EXCEPT ![field] = q]), UNCHANGED <<indexVars, worldVars>>
  PROVE  StatInv'
<1> DEFINE e == [entries[s] EXCEPT ![field] = q]
<1>1. entries \in [Stat -> Entry] /\ entries[s] \in Entry /\ Fits(entries[s])
  BY DEF StatInv, TypeInv
<1>2. e \in Entry /\ e.conditionals = entries[s].conditionals /\ Fits(e)
  <2>1. CASE field = "mults"
    <3>1. e \in Entry /\ e.mults = q /\ e.overrides = entries[s].overrides
          /\ e.conditionals = entries[s].conditionals
      BY <1>1, <2>1 DEF Entry
    <3> HIDE DEF e
    <3>2. Fits(e)
      BY <1>1, <2>1, <3>1, StatAssumption DEF Fits, StatAssumption
    <3> QED  BY <3>1, <3>2
  <2>2. CASE field = "overrides"
    <3>1. e \in Entry /\ e.overrides = q /\ e.mults = entries[s].mults
          /\ e.conditionals = entries[s].conditionals
      BY <1>1, <2>2 DEF Entry
    <3> HIDE DEF e
    <3>2. Fits(e)
      BY <1>1, <2>2, <3>1, StatAssumption DEF Fits, StatAssumption
    <3> QED  BY <3>1, <3>2
  <2> QED  BY <2>1, <2>2
<1>3. Change(s, e)
  OBVIOUS
<1> HIDE DEF e
<1>4. entries' \in [Stat -> Entry] /\ entries'[s] = e /\ \A x \in Stat : x # s => entries'[x] = entries[x]
  BY <1>1, <1>2, <1>3, ChangedEntry
<1>5. \A x \in Stat : Fits(entries'[x]) /\ entries'[x].conditionals = entries[x].conditionals
  BY <1>2, <1>4 DEF StatInv, TypeInv
<1>6. UNCHANGED indexVars /\ tick' = tick
  BY DEF worldVars
<1> QED  BY <1>4, <1>5, <1>6, SameConditions

LEMMA AddSourcedStep ==
  ASSUME StatInv, NEW s \in Stat, NEW field \in {"mults", "overrides"}, NEW i \in Source,
         AddSourced(s, field, i)
  PROVE  StatInv'
<1> DEFINE m == [source |-> i, value |-> Amount[i]]
           q == entries[s][field]
<1>1. q \in Seq(SourcedMod) /\ Capacity[field] \in Nat
  BY StatAssumption DEF StatInv, TypeInv, Entry, StatAssumption
<1>2. m \in SourcedMod
  BY StatAssumption DEF StatAssumption, SourcedMod
<1>3. Len(q) < Capacity[field] /\ UNCHANGED <<indexVars, worldVars>>
  BY DEF AddSourced, Room
<1>4. PICK k \in Places(q, i) : Change(s, [entries[s] EXCEPT ![field] = Inserted(q, k, m)])
  BY DEF AddSourced
<1>5. k \in 0 .. Len(q)
  BY DEF Places
<1> HIDE DEF m, q
<1>6. Inserted(q, k, m) \in Seq(SourcedMod) /\ Len(Inserted(q, k, m)) = Len(q) + 1
  BY <1>1, <1>2, <1>5, InsertedElements
<1>7. Len(Inserted(q, k, m)) <= Capacity[field]
  BY <1>1, <1>3, <1>6
<1> QED  BY <1>3, <1>4, <1>6, <1>7, SourcedStep

LEMMA RemoveSourcedStep ==
  ASSUME StatInv, NEW s \in Stat, NEW field \in {"mults", "overrides"}, NEW i,
         RemoveSourced(s, field, i)
  PROVE  StatInv'
<1> DEFINE q == entries[s][field]
<1>1. q \in Seq(SourcedMod) /\ Capacity[field] \in Nat /\ Len(q) <= Capacity[field]
  BY StatAssumption DEF StatInv, TypeInv, Entry, Fits, StatAssumption
<1>2. /\ i \in 1 .. Len(q) /\ UNCHANGED <<indexVars, worldVars>>
      /\ Change(s, [entries[s] EXCEPT ![field] = Erased(q, i)])
  BY DEF RemoveSourced
<1> HIDE DEF q
<1>3. Erased(q, i) \in Seq(SourcedMod) /\ Len(Erased(q, i)) = Len(q) - 1
  BY <1>1, <1>2, ErasedElements
<1>4. Len(Erased(q, i)) <= Capacity[field]
  BY <1>1, <1>3
<1> QED  BY <1>2, <1>3, <1>4, SourcedStep

(* The vector of conditions of s is replaced by q.                         *)
LEMMA ConditionalsType ==
  ASSUME TypeInv, NEW s \in Stat,
         NEW q \in Seq(ConditionalMod), Len(q) <= Capacity["conditionals"],
         Change(s, [entries[s] EXCEPT !.conditionals = q])
  PROVE  /\ entries' \in [Stat -> Entry] /\ entries'[s].conditionals = q
         /\ \A x \in Stat : x # s => entries'[x] = entries[x]
         /\ \A x \in Stat : Fits(entries'[x])
<1> DEFINE e == [entries[s] EXCEPT !.conditionals = q]
<1>1. entries \in [Stat -> Entry] /\ entries[s] \in Entry /\ Fits(entries[s])
  BY DEF TypeInv
<1>2. e \in Entry /\ e.conditionals = q /\ e.mults = entries[s].mults /\ e.overrides = entries[s].overrides
  BY <1>1 DEF Entry
<1>3. Change(s, e)
  OBVIOUS
<1> HIDE DEF e
<1>4. Fits(e)
  BY <1>1, <1>2, StatAssumption DEF Fits, StatAssumption
<1>5. entries' \in [Stat -> Entry] /\ entries'[s] = e /\ \A x \in Stat : x # s => entries'[x] = entries[x]
  BY <1>1, <1>2, <1>3, ChangedEntry
<1> QED  BY <1>2, <1>4, <1>5 DEF TypeInv

LEMMA RemoveConditionalStep ==
  ASSUME StatInv, NEW s \in Stat, NEW i, RemoveConditional(s, i)
  PROVE  StatInv'
<1> DEFINE q == entries[s].conditionals
<1>1. /\ entries \in [Stat -> Entry] /\ q \in Seq(ConditionalMod)
      /\ Len(q) <= Capacity["conditionals"] /\ Capacity["conditionals"] \in Nat
  BY StatAssumption DEF StatInv, TypeInv, Entry, Fits, StatAssumption
<1>2. /\ i \in 1 .. Len(q) /\ Change(s, [entries[s] EXCEPT !.conditionals = Erased(q, i)])
      /\ usingKind' = KindIndex(entries') /\ nextExpiry' \in EarliestEnd(entries') /\ tick' = tick
  BY DEF RemoveConditional, worldVars
<1>3. /\ Erased(q, i) \in Seq(ConditionalMod) /\ Len(Erased(q, i)) = Len(q) - 1
      /\ \A a \in 1 .. Len(q) - 1 : \E j \in 1 .. Len(q) : Erased(q, i)[a] = q[j]
  BY <1>1, <1>2, ErasedElements
<1>4. Len(Erased(q, i)) <= Capacity["conditionals"]
  BY <1>1, <1>3
<1>5. /\ entries' \in [Stat -> Entry] /\ entries'[s].conditionals = Erased(q, i)
      /\ \A x \in Stat : x # s => entries'[x] = entries[x]
      /\ \A x \in Stat : Fits(entries'[x])
  BY <1>2, <1>3, <1>4, ConditionalsType DEF StatInv
<1>6. /\ nextExpiry' \in Int
      /\ \A x \in Stat : \A j \in 1 .. Len(entries'[x].conditionals) :
           LET m == entries'[x].conditionals[j]
           IN  m.cond.kind = "TimeWindow" /\ m.active => nextExpiry' <= m.cond.paramA
  BY <1>2, <1>5, EarliestEndIsEarly
<1>7. usingKind' \in [Kinds -> SUBSET Stat]
  BY <1>2 DEF KindIndex
<1>8. TypeInv'
  BY <1>2, <1>5, <1>6, <1>7 DEF StatInv, TypeInv
<1>9. ASSUME NEW x \in Stat, NEW j \in 1 .. Len(entries'[x].conditionals)
      PROVE  /\ Found(entries'[x].conditionals[j], x, usingKind')
             /\ InTime(entries'[x].conditionals[j], tick', nextExpiry')
  <2> DEFINE m == entries'[x].conditionals[j]
  <2>1. entries'[x].conditionals \in Seq(ConditionalMod)
    BY <1>5 DEF Entry
  <2>2. m.cond.kind \in Kinds
    BY <2>1, ConditionTypes
  <2>3. Found(m, x, usingKind')
    BY <1>2, <2>2 DEF KindIndex, Found
  <2>4. \E k \in 1 .. Len(entries[x].conditionals) : m = entries[x].conditionals[k]
    <3>1. CASE x = s
      <4>1. j \in 1 .. Len(q) - 1
        BY <1>3, <1>5, <3>1
      <4>2. \E k \in 1 .. Len(q) : Erased(q, i)[j] = q[k]
        BY <1>3, <4>1
      <4> QED  BY <1>5, <3>1, <4>2
    <3>2. CASE x # s
      BY <1>5, <3>2
    <3> QED  BY <3>1, <3>2
  <2>5. m.cond.kind = "TimeWindow" /\ m.active => tick < m.cond.paramA
    BY <2>4 DEF StatInv, Watched, InTime
  <2> QED  BY <1>2, <1>6, <2>3, <2>5 DEF InTime
<1> QED  BY <1>8, <1>9 DEF StatInv, Watched

LEMMA AddConditionalStep ==
  ASSUME StatInv, NEW s \in Stat, NEW i \in Source, NEW op \in Ops, NEW c \in Conditions,
         AddConditional(s, i, op, c)
  PROVE  StatInv'
<1> DEFINE q == entries[s].conditionals
           h == Holds(c, tick, Permille(corruption), target, FALSE)
           m == [source |-> i, value |-> Amount[i], cond |-> c, op |-> op, active |-> h]
<1>1. /\ entries \in [Stat -> Entry] /\ q \in Seq(ConditionalMod)
      /\ Len(q) <= Capacity["conditionals"] /\ Capacity["conditionals"] \in Nat
      /\ nextExpiry \in Int /\ tick \in Nat /\ tick \in Int /\ usingKind \in [Kinds -> SUBSET Stat]
  <2>1. /\ entries \in [Stat -> Entry] /\ q \in Seq(ConditionalMod)
        /\ Len(q) <= Capacity["conditionals"] /\ Capacity["conditionals"] \in Nat
    BY StatAssumption DEF StatInv, TypeInv, Entry, Fits, StatAssumption
  <2>2. nextExpiry \in Int /\ tick \in Nat /\ tick \in Int /\ usingKind \in [Kinds -> SUBSET Stat]
    BY DEF StatInv, TypeInv
  <2> QED  BY <2>1, <2>2
<1>2. c.kind \in Kinds /\ c.paramA \in Int
  BY StatAssumption DEF StatAssumption
<1>3. h \in BOOLEAN /\ (c.kind = "TimeWindow" => (h <=> tick < c.paramA))
  BY <1>1, HoldsIsBoolean
<1>4. PICK k \in Places(q, i) : entries' = [entries EXCEPT ![s].conditionals = Inserted(q, k, m)]
  BY DEF AddConditional
<1>5. /\ Len(q) < Capacity["conditionals"]
      /\ usingKind' = [usingKind EXCEPT ![c.kind] = @ \cup {s}]
      /\ nextExpiry' = IF c.kind = "TimeWindow" /\ c.paramA < nextExpiry THEN c.paramA ELSE nextExpiry
      /\ tick' = tick
  BY DEF AddConditional, Room, worldVars
<1>6. Amount[i] \in Int
  BY StatAssumption DEF StatAssumption
<1> HIDE DEF h
<1>7. m \in ConditionalMod /\ m.cond = c /\ m.active = h
  BY <1>3, <1>6 DEF ConditionalMod
<1>8. k \in 0 .. Len(q)
  BY DEF Places
<1> HIDE DEF m, q
<1>9. /\ Inserted(q, k, m) \in Seq(ConditionalMod) /\ Len(Inserted(q, k, m)) = Len(q) + 1
      /\ \A a \in 1 .. Len(q) + 1 :
           Inserted(q, k, m)[a] = m \/ \E j \in 1 .. Len(q) : Inserted(q, k, m)[a] = q[j]
  BY <1>1, <1>7, <1>8, InsertedElements
<1>10. Len(Inserted(q, k, m)) <= Capacity["conditionals"]
  BY <1>1, <1>5, <1>9
<1>11. /\ entries' \in [Stat -> Entry] /\ entries'[s].conditionals = Inserted(q, k, m)
       /\ \A x \in Stat : x # s => entries'[x] = entries[x]
       /\ \A x \in Stat : Fits(entries'[x])
  <2> DEFINE e == [entries[s] EXCEPT !.conditionals = Inserted(q, k, m)]
  <2>1. entries' = [entries EXCEPT ![s] = e]
    BY <1>4
  <2>2. entries[s] \in Entry /\ Fits(entries[s])
    BY DEF StatInv, TypeInv
  <2>3. /\ e \in Entry /\ e.conditionals = Inserted(q, k, m)
        /\ e.mults = entries[s].mults /\ e.overrides = entries[s].overrides
    BY <1>9, <2>2 DEF Entry
  <2> HIDE DEF e
  <2>4. Fits(e)
    BY <1>10, <2>2, <2>3, StatAssumption DEF Fits, StatAssumption
  <2>5. entries' \in [Stat -> Entry] /\ entries'[s] = e /\ \A x \in Stat : x # s => entries'[x] = entries[x]
    BY <1>1, <2>1, <2>3
  <2> QED  BY <2>3, <2>4, <2>5 DEF StatInv, TypeInv
<1>12. usingKind' \in [Kinds -> SUBSET Stat] /\ nextExpiry' \in Int
  <2>1. usingKind' \in [Kinds -> SUBSET Stat]
    BY <1>1, <1>2, <1>5
  <2>2. nextExpiry' \in Int
    BY <1>1, <1>2, <1>5
  <2> QED  BY <2>1, <2>2
<1>13. TypeInv'
  BY <1>5, <1>11, <1>12 DEF StatInv, TypeInv
<1>14. \A kd \in Kinds : usingKind[kd] \subseteq usingKind'[kd]
  BY <1>1, <1>2, <1>5
<1>15. nextExpiry' <= nextExpiry /\ (c.kind = "TimeWindow" => nextExpiry' <= c.paramA)
  BY <1>1, <1>2, <1>5
<1>16. s \in usingKind'[c.kind]
  BY <1>1, <1>2, <1>5
<1>17. ASSUME NEW x \in Stat, NEW j \in 1 .. Len(entries[x].conditionals)
       PROVE  /\ Found(entries[x].conditionals[j], x, usingKind')
              /\ InTime(entries[x].conditionals[j], tick', nextExpiry')
  <2> DEFINE n == entries[x].conditionals[j]
  <2>1. entries[x].conditionals \in Seq(ConditionalMod)
    BY <1>1 DEF Entry
  <2>2. n.cond.kind \in Kinds /\ n.cond.paramA \in Int
    BY <2>1, ConditionTypes
  <2>3. Found(n, x, usingKind) /\ InTime(n, tick, nextExpiry)
    BY DEF StatInv, Watched
  <2> HIDE DEF n
  <2>4. Found(n, x, usingKind')
    BY <1>14, <2>2, <2>3 DEF Found
  <2>5. InTime(n, tick', nextExpiry')
    BY <1>1, <1>5, <1>12, <1>15, <2>2, <2>3 DEF InTime
  <2> QED  BY <2>4, <2>5 DEF n
<1>18. Found(m, s, usingKind') /\ InTime(m, tick', nextExpiry')
  BY <1>3, <1>5, <1>7, <1>15, <1>16 DEF Found, InTime
<1>19. ASSUME NEW x \in Stat, NEW j \in 1 .. Len(entries'[x].conditionals)
       PROVE  /\ Found(entries'[x].conditionals[j], x, usingKind')
              /\ InTime(entries'[x].conditionals[j], tick', nextExpiry')
  <2>1. CASE x = s
    <3>1. j \in 1 .. Len(q) + 1
      BY <1>9, <1>11, <2>1
    <3>2. CASE Inserted(q, k, m)[j] = m
      BY <1>11, <1>18, <2>1, <3>2
    <3>3. CASE \E a \in 1 .. Len(q) : Inserted(q, k, m)[j] = q[a]
      BY <1>11, <1>17, <2>1, <3>3 DEF q
    <3> QED  BY <1>9, <3>1, <3>2, <3>3
  <2>2. CASE x # s
    BY <1>11, <1>17, <2>2
  <2> QED  BY <2>1, <2>2
<1> QED  BY <1>13, <1>19 DEF StatInv, Watched

(* A refresh at a tick t that is not an unwatched end: either the timed    *)
(* conditions are evaluated, or none of their ends has come.               *)
LEMMA RefreshStep ==
  ASSUME StatInv, NEW kinds \in SUBSET Kinds, NEW t \in 0 .. MaxTick, NEW permille, NEW arch,
         Refresh(kinds, t, permille, arch), tick' = t,
         "TimeWindow" \in kinds \/ t = tick
  PROVE  StatInv'
<1> DEFINE affected == UNION {usingKind[k] : k \in kinds}
           new(s)   == Refreshed(entries[s].conditionals, kinds, t, permille, arch)
<1>1. /\ entries' = [s \in Stat |-> IF s \in affected
                                    THEN [entries[s] EXCEPT !.conditionals = new(s)]
                                    ELSE entries[s]]
      /\ IF affected # {} /\ "TimeWindow" \in kinds
         THEN nextExpiry' \in EarliestEnd(entries')
         ELSE nextExpiry' = nextExpiry
      /\ usingKind' = usingKind
  BY DEF Refresh
<1>2. t \in Int /\ nextExpiry \in Int /\ entries \in [Stat -> Entry]
  BY DEF StatInv, TypeInv
<1>3. ASSUME NEW s \in Stat
      PROVE  /\ entries[s] \in Entry /\ entries[s].conditionals \in Seq(ConditionalMod)
             /\ entries'[s] \in Entry /\ Fits(entries'[s])
             /\ s \in affected => entries'[s].conditionals = new(s)
             /\ s \notin affected => entries'[s] = entries[s]
             /\ Len(entries'[s].conditionals) = Len(entries[s].conditionals)
  <2>1. entries[s] \in Entry /\ Fits(entries[s]) /\ entries[s].conditionals \in Seq(ConditionalMod)
    BY DEF StatInv, TypeInv, Entry
  <2>2. new(s) \in Seq(ConditionalMod) /\ Len(new(s)) = Len(entries[s].conditionals)
    <3>1. PICK q \in Seq(ConditionalMod) : q = entries[s].conditionals
      BY <2>1
    <3>2. /\ Refreshed(q, kinds, t, permille, arch) \in Seq(ConditionalMod)
          /\ Len(Refreshed(q, kinds, t, permille, arch)) = Len(q)
      BY <1>2, RefreshedElements
    <3> QED  BY <3>1, <3>2, Zenon
  <2>3. CASE s \in affected
    <3>1. entries'[s] = [entries[s] EXCEPT !.conditionals = new(s)]
      BY <1>1, <2>3
    <3> HIDE DEF new, affected
    <3>2. /\ entries'[s] \in Entry /\ entries'[s].conditionals = new(s)
          /\ entries'[s].mults = entries[s].mults /\ entries'[s].overrides = entries[s].overrides
      BY <2>1, <2>2, <3>1 DEF Entry
    <3>3. Fits(entries'[s])
      BY <2>1, <2>2, <3>2, StatAssumption DEF Fits, StatAssumption
    <3> QED  BY <2>1, <2>2, <2>3, <3>2, <3>3
  <2>4. CASE s \notin affected
    BY <1>1, <2>1, <2>4
  <2> QED  BY <2>3, <2>4
<1>4. entries' \in [Stat -> Entry]
  BY <1>1, <1>3
<1>5. nextExpiry' \in Int
  BY <1>1, <1>2, <1>4, EarliestEndIsEarly
<1>6. TypeInv'
  BY <1>1, <1>3, <1>4, <1>5 DEF StatInv, TypeInv
<1>7. ASSUME NEW s \in Stat, NEW i \in 1 .. Len(entries'[s].conditionals)
      PROVE  /\ Found(entries'[s].conditionals[i], s, usingKind')
             /\ InTime(entries'[s].conditionals[i], tick', nextExpiry')
  <2> DEFINE m == entries'[s].conditionals[i]
             n == entries[s].conditionals[i]
  <2>1. i \in 1 .. Len(entries[s].conditionals) /\ entries[s].conditionals \in Seq(ConditionalMod)
    BY <1>3
  <2>2. Found(n, s, usingKind) /\ InTime(n, tick, nextExpiry) /\ n.cond.kind \in Kinds
    BY <2>1, ConditionTypes DEF StatInv, Watched
  <2>3. m.cond = n.cond /\ (n.cond.kind \notin kinds => m = n)
    <3>1. CASE s \in affected
      BY <1>2, <1>3, <2>1, <3>1, RefreshedElements
    <3>2. CASE s \notin affected
      BY <1>3, <3>2
    <3> QED  BY <3>1, <3>2
  <2>4. Found(m, s, usingKind')
    BY <1>1, <2>2, <2>3 DEF Found
  <2>5. CASE n.cond.kind = "TimeWindow" /\ "TimeWindow" \in kinds
    <3>1. s \in affected
      BY <2>2, <2>5 DEF Found
    <3>2. m.active <=> t < m.cond.paramA
      BY <1>2, <1>3, <2>1, <2>3, <2>5, <3>1, RefreshedElements
    <3>3. m.active => nextExpiry' <= m.cond.paramA
      <4>1. nextExpiry' \in EarliestEnd(entries')
        BY <1>1, <2>5, <3>1
      <4> QED  BY <1>4, <2>3, <2>5, <4>1, EarliestEndIsEarly
    <3> QED  BY <2>4, <3>2, <3>3 DEF InTime
  <2>6. CASE n.cond.kind = "TimeWindow" /\ "TimeWindow" \notin kinds
    <3>1. m = n /\ nextExpiry' = nextExpiry /\ tick' = tick
      BY <1>1, <2>3, <2>6
    <3> QED  BY <2>2, <2>4, <3>1
  <2>7. CASE n.cond.kind # "TimeWindow"
    BY <2>3, <2>4, <2>7 DEF InTime
  <2> QED  BY <2>5, <2>6, <2>7
<1> QED  BY <1>6, <1>7 DEF StatInv, Watched

(* A tick before the cached end is before every end, so that nothing needs *)
(* to be looked at.                                                        *)
LEMMA TickStep ==
  ASSUME StatInv, BeginTick
  PROVE  StatInv'
<1>1. tick' \in 0 .. MaxTick /\ tick' = tick + 1 /\ nextExpiry \in Int
  BY StatAssumption DEF BeginTick, StatInv, TypeInv, StatAssumption
<1>2. CASE tick' < nextExpiry
  <2>1. entries' = entries /\ usingKind' = usingKind /\ nextExpiry' = nextExpiry
    BY <1>2 DEF BeginTick, indexVars
  <2>2. TypeInv'
    BY <1>1, <2>1 DEF StatInv, TypeInv
  <2>3. ASSUME NEW s \in Stat, NEW i \in 1 .. Len(entries[s].conditionals)
        PROVE  /\ Found(entries[s].conditionals[i], s, usingKind)
               /\ InTime(entries[s].conditionals[i], tick', nextExpiry)
    <3> DEFINE m == entries[s].conditionals[i]
    <3>1. entries[s].conditionals \in Seq(ConditionalMod)
      BY DEF StatInv, TypeInv, Entry
    <3>2. m.cond.paramA \in Int
      BY <3>1, ConditionTypes
    <3>3. Found(m, s, usingKind) /\ InTime(m, tick, nextExpiry)
      BY DEF StatInv, Watched
    <3> HIDE DEF m
    <3>4. InTime(m, tick', nextExpiry)
      BY <1>1, <1>2, <3>2, <3>3 DEF InTime
    <3> QED  BY <3>3, <3>4 DEF m
  <2>4. Watched(entries', usingKind', tick', nextExpiry')
    BY <2>1, <2>3 DEF Watched
  <2> QED  BY <2>2, <2>4 DEF StatInv
<1>3. CASE ~(tick' < nextExpiry)
  <2>1. Refresh({"TimeWindow"}, tick', Permille(corruption), target)
    BY <1>3 DEF BeginTick
  <2> QED  BY <1>1, <2>1, RefreshStep DEF Kinds
<1> QED  BY <1>2, <1>3

THEOREM StatInvariant == Spec => []StatInv
<1>1. Init => StatInv
  <2> SUFFICES ASSUME Init
               PROVE  StatInv
    OBVIOUS
  <2>1. /\ entries = [s \in Stat |-> Empty(Base[s])] /\ tick = 0
        /\ usingKind = [k \in Kinds |-> {}] /\ nextExpiry = NO_EXPIRY
    BY DEF Init
  <2>2. \A s \in Stat : /\ Empty(Base[s]) \in Entry /\ Fits(Empty(Base[s]))
                        /\ Len(Empty(Base[s]).conditionals) = 0
    <3> TAKE s \in Stat
    <3>1. Base[s] \in Int
      BY StatAssumption DEF StatAssumption
    <3>2. Empty(Base[s]) \in Entry
      BY <3>1 DEF Empty, Entry
    <3>3. Fits(Empty(Base[s]))
      BY StatAssumption DEF Empty, Fits, StatAssumption
    <3>4. Len(Empty(Base[s]).conditionals) = 0
      BY DEF Empty
    <3> QED  BY <3>2, <3>3, <3>4
  <2>3. entries \in [Stat -> Entry] /\ \A s \in Stat : Fits(entries[s])
    BY <2>1, <2>2
  <2>4. NO_EXPIRY \in Int /\ 0 \in 0 .. MaxTick
    BY StatAssumption DEF StatAssumption
  <2>5. TypeInv
    BY <2>1, <2>3, <2>4 DEF TypeInv
  <2>6. Watched(entries, usingKind, tick, nextExpiry)
    BY <2>1, <2>2 DEF Watched
  <2> QED  BY <2>5, <2>6 DEF StatInv
<1>2. StatInv /\ [Next]_vars => StatInv'
  <2> SUFFICES ASSUME StatInv, [Next]_vars
               PROVE  StatInv'
    OBVIOUS
  <2>1. CASE UNCHANGED <<entries, indexVars, tick>>
    BY <2>1 DEF StatInv, TypeInv, Watched, indexVars
  <2>2. tick \in 0 .. MaxTick
    BY DEF StatInv, TypeInv
  <2>3. CASE BeginTick
    BY <2>3, TickStep
  <2>4. CASE RefreshAll
    <3>1. Refresh(Kinds, tick, Permille(corruption), target) /\ tick' = tick
      BY <2>4 DEF RefreshAll, worldVars
    <3> QED  BY <2>2, <3>1, RefreshStep
  <2>5. CASE TargetGone
    BY <2>1, <2>5 DEF TargetGone
  <2>6. ASSUME NEW g \in Gauges, MoveGauge(g)
        PROVE  StatInv'
    <3>1. Refresh({"CorruptionThreshold"}, tick, Permille(g), target) /\ tick' = tick
      BY <2>6 DEF MoveGauge
    <3> QED  BY <2>2, <3>1, RefreshStep DEF Kinds
  <2>7. ASSUME NEW a \in Targets, ChangeTarget(a)
        PROVE  StatInv'
    <3>1. Refresh({"TargetArchetype"}, tick, Permille(corruption), a) /\ tick' = tick
      BY <2>7 DEF ChangeTarget
    <3> QED  BY <2>2, <3>1, RefreshStep DEF Kinds
  <2>8. ASSUME NEW s \in Stat, Read(s)
        PROVE  StatInv'
    BY <2>1, <2>8 DEF Read, worldVars
  <2>9. ASSUME NEW s \in Stat, NEW a \in Additions, Accumulate(s, a[1], a[2])
        PROVE  StatInv'
    BY <2>9, AccumulateStep
  <2>10. ASSUME NEW s \in Stat, NEW field \in {"mults", "overrides"}, NEW i \in Source,
                AddSourced(s, field, i)
         PROVE  StatInv'
    BY <2>10, AddSourcedStep
  <2>11. ASSUME NEW s \in Stat, NEW field \in {"mults", "overrides"}, NEW i, RemoveSourced(s, field, i)
         PROVE  StatInv'
    BY <2>11, RemoveSourcedStep
  <2>12. ASSUME NEW s \in Stat, NEW i \in Source, NEW op \in Ops, NEW c \in Conditions,
                AddConditional(s, i, op, c)
         PROVE  StatInv'
    BY <2>12, AddConditionalStep
  <2>13. ASSUME NEW s \in Stat, NEW i, RemoveConditional(s, i)
         PROVE  StatInv'
    BY <2>13, RemoveConditionalStep
  <2>14. CASE UNCHANGED vars
    BY <2>1, <2>14 DEF vars, worldVars
  <2> QED  BY <2>3, <2>4, <2>5, <2>6, <2>7, <2>8, <2>9, <2>10, <2>11, <2>12, <2>13, <2>14 DEF Next
<1> QED  BY <1>1, <1>2, PTL DEF Spec

(* Type correctness of the block, and no vector beyond its capacity.       *)
THEOREM StatTypeOK == Spec => []TypeOK
<1>1. StatInv => TypeOK
  BY DEF StatInv, TypeInv, TypeOK, Entry, Fits
<1> QED  BY <1>1, StatInvariant, PTL

(* No timed modifier is in force at or after its end, although a tick      *)
(* looks at nothing but the earliest end (stat_block.h:263-271).           *)
THEOREM StatEndedNeverActive == Spec => []EndedNeverActive
<1>1. StatInv => EndedNeverActive
  <2> SUFFICES ASSUME StatInv, NEW m \in Timed(entries)
               PROVE  tick < m.cond.paramA
    BY DEF EndedNeverActive
  <2>1. PICK s \in Stat : m \in {entries[s].conditionals[i] : i \in 1 .. Len(entries[s].conditionals)}
    BY DEF Timed
  <2>2. PICK i \in 1 .. Len(entries[s].conditionals) : m = entries[s].conditionals[i]
    BY <2>1
  <2>3. m.cond.kind = "TimeWindow" /\ m.active
    BY DEF Timed
  <2> QED  BY <2>2, <2>3 DEF StatInv, Watched, InTime
<1> QED  BY <1>1, StatInvariant, PTL

----------------------------------------------------------------------------
(* What compute returns.  The folds and the merge of the model are defined *)
(* recursively: these lemmas say what they compute, by induction over the  *)
(* length of a vector or the size of a set.                                *)

(* Every set of numbers that is not empty has a least one.                 *)
LEMMA LeastNatural ==
  ASSUME NEW T \in SUBSET Nat, T # {}
  PROVE  \E x \in T : \A y \in T : x <= y
<1>1. PICK x \in T : \A y \in T : ~ (<<y, x>> \in OpToRel(<, Nat))
  BY WFMin, NatLessThanWellFounded, Zenon
<1>2. ASSUME NEW y \in T PROVE x <= y
  <2>1. <<y, x>> \in Nat \X Nat /\ ~(<<y, x>> \in {ss \in Nat \X Nat : ss[1] < ss[2]})
    BY <1>1 DEF OpToRel
  <2> QED  BY <2>1
<1> QED  BY <1>2

(* Induction over a set of numbers.                                        *)
LEMMA SetInduction ==
  ASSUME NEW T, NEW n \in Nat, 0 \in T, \A k \in 0 .. n - 1 : k \in T => k + 1 \in T
  PROVE  \A k \in 0 .. n : k \in T
<1> DEFINE out == {k \in 0 .. n : k \notin T}
<1> SUFFICES ASSUME out # {} PROVE FALSE
  OBVIOUS
<1>1. out \in SUBSET Nat
  OBVIOUS
<1>2. PICK x \in out : \A y \in out : x <= y
  <2> HIDE DEF out
  <2> QED  BY <1>1, LeastNatural
<1>3. x # 0 /\ x \in Nat /\ x <= n
  BY <1>2
<1>4. x - 1 \in 0 .. n - 1 /\ x - 1 \in T
  BY <1>2, <1>3
<1> QED  BY <1>2, <1>3, <1>4

(* A finite set of numbers has its greatest.                               *)
LEMMA MaxIsLast ==
  ASSUME NEW n \in Nat, NEW s \in SUBSET (1 .. n), s # {}
  PROVE  Max(s) \in s /\ \A x \in s : x <= Max(s)
<1> DEFINE back == {k \in Nat : n - k \in s}
<1>1. PICK x \in s : TRUE
  OBVIOUS
<1>2. x \in 1 .. n
  BY <1>1
<1>3. n - x \in Nat /\ n - (n - x) = x
  BY <1>2
<1>4. n - x \in back
  BY <1>1, <1>3
<1>5. PICK b \in back : \A y \in back : b <= y
  BY <1>4, LeastNatural
<1>6. n - b \in s /\ b \in Nat
  BY <1>5
<1>7. ASSUME NEW y \in s PROVE y <= n - b
  <2>1. n - y \in Nat /\ n - (n - y) = y
    OBVIOUS
  <2>2. n - y \in back
    BY <2>1
  <2>3. b <= n - y
    BY <2>2, <1>5
  <2> QED  BY <2>1, <2>3, <1>6
<1>8. \E z \in s : \A y \in s : z >= y
  <2>1. \A y \in s : n - b >= y
    BY <1>6, <1>7
  <2> QED  BY <1>6, <2>1
<1>9. Max(s) \in s /\ \A y \in s : Max(s) >= y
  BY <1>8, Zenon DEF Max
<1>10. \A y \in s : y \in Int
  OBVIOUS
<1> QED  BY <1>9, <1>10

(* The numbers from 1 up to k, the greatest taken away.                    *)
LEMMA MaxOfPrefix ==
  ASSUME NEW k \in Nat, k # 0
  PROVE  1 .. k # {} /\ Max(1 .. k) = k /\ (1 .. k) \ {k} = 1 .. k - 1
<1>1. 1 .. k # {} /\ k \in 1 .. k
  OBVIOUS
<1>2. Max(1 .. k) \in 1 .. k /\ k <= Max(1 .. k)
  BY <1>1, MaxIsLast
<1> QED  BY <1>1, <1>2

(* A fold over a finite set that takes one element c[s] after the other    *)
(* out of it has a result for each of its subsets, whatever H and c are:   *)
(* this is what the recursive definition of a fold means.                  *)
Folded(g, S, b, H, c) ==
  \A s \in SUBSET S : g[s] = IF s = {} THEN b ELSE H[<<g[s \ {c[s]}], c[s]>>]

LEMMA FoldExists ==
  ASSUME NEW S, IsFiniteSet(S), NEW V, NEW b \in V, NEW H, H \in [V \X S -> V],
         NEW c, \A s \in SUBSET S : s # {} => c[s] \in s
  PROVE  \E g \in [SUBSET S -> V] : Folded(g, S, b, H, c)
<1> DEFINE All == SUBSET S
           step(g, s) == IF s = {} THEN b ELSE H[<<g[s \ {c[s]}], c[s]>>]
           n == Cardinality(S)
           T == {m \in 0 .. n : \E g \in [All -> V] :
                                  \A s \in All : Cardinality(s) <= m => g[s] = step(g, s)}
<1>1. n \in Nat /\ \A s \in All : IsFiniteSet(s) /\ Cardinality(s) \in 0 .. n
  BY FS_CardinalityType, FS_Subset
<1>2. \A s \in All : s # {} => /\ c[s] \in s /\ c[s] \in S /\ s \ {c[s]} \in All
                              /\ Cardinality(s \ {c[s]}) = Cardinality(s) - 1
  BY <1>1, FS_RemoveElement
<1>3. 0 \in T
  <2>1. [s \in All |-> b] \in [All -> V]
    OBVIOUS
  <2>2. \A s \in All : Cardinality(s) <= 0 => s = {}
    BY <1>1, FS_EmptySet
  <2>3. \A s \in All : Cardinality(s) <= 0 => [t \in All |-> b][s] = step([t \in All |-> b], s)
    BY <2>2
  <2> HIDE DEF All, step, n
  <2> QED  BY <2>1, <2>3, <1>1
<1>4. ASSUME NEW m \in 0 .. n - 1, m \in T PROVE m + 1 \in T
  <2>1. PICK g \in [All -> V] : \A s \in All : Cardinality(s) <= m => g[s] = step(g, s)
    BY <1>4
  <2> DEFINE h == [s \in All |-> IF Cardinality(s) <= m THEN g[s] ELSE H[<<g[s \ {c[s]}], c[s]>>]]
  <2>2. h \in [All -> V]
    <3>1. ASSUME NEW s \in All, ~(Cardinality(s) <= m) PROVE H[<<g[s \ {c[s]}], c[s]>>] \in V
      <4>1. s # {}
        BY <3>1, <1>1, FS_EmptySet
      <4>2. c[s] \in S /\ s \ {c[s]} \in All
        BY <4>1, <1>2
      <4>3. g[s \ {c[s]}] \in V
        BY <4>2
      <4> QED  BY <4>2, <4>3
    <3> QED  BY <3>1
  <2>3. ASSUME NEW s \in All, Cardinality(s) <= m + 1 PROVE h[s] = step(h, s)
    <3>1. CASE s = {}
      <4>1. Cardinality(s) <= m /\ h[s] = g[s] /\ g[s] = b
        BY <3>1, <2>1, FS_EmptySet
      <4> QED  BY <4>1, <3>1
    <3>2. CASE s # {}
      <4>1. Cardinality(s \ {c[s]}) = Cardinality(s) - 1 /\ Cardinality(s) \in Nat
        BY <3>2, <1>1, <1>2
      <4>2. s \ {c[s]} \in All /\ Cardinality(s \ {c[s]}) <= m
        BY <3>2, <1>2, <4>1, <2>3, <1>1
      <4>3. h[s \ {c[s]}] = g[s \ {c[s]}]
        BY <4>2
      <4>4. h[s] = H[<<g[s \ {c[s]}], c[s]>>]
        BY <2>1, <3>2
      <4> QED  BY <3>2, <4>3, <4>4
    <3> QED  BY <3>1, <3>2
  <2> HIDE DEF h, step, All
  <2>4. m + 1 \in 0 .. n
    BY <1>1
  <2> QED  BY <2>2, <2>3, <2>4
<1>5. n \in T
  <2> HIDE DEF T
  <2> QED  BY <1>1, <1>3, <1>4, SetInduction
<1>6. PICK g \in [All -> V] : \A s \in All : Cardinality(s) <= n => g[s] = step(g, s)
  BY <1>5
<1>7. \A s \in All : g[s] = step(g, s)
  <2> HIDE DEF step, All
  <2> QED  BY <1>6, <1>1
<1> QED  BY <1>7 DEF Folded

(* Whatever satisfies the equation of a fold has values of its type.       *)
FoldsIn(g, S, V, b, H, c) ==
  /\ g[{}] = b
  /\ \A s \in SUBSET S : s # {} /\ g[s \ {c[s]}] \in V => g[s] = H[<<g[s \ {c[s]}], c[s]>>]

LEMMA FoldTyped ==
  ASSUME NEW S, IsFiniteSet(S), NEW V, NEW b \in V, NEW H, H \in [V \X S -> V],
         NEW c, \A s \in SUBSET S : s # {} => c[s] \in s,
         NEW g, FoldsIn(g, S, V, b, H, c)
  PROVE  Folded(g, S, b, H, c) /\ \A s \in SUBSET S : g[s] \in V
<1> DEFINE All == SUBSET S
           n == Cardinality(S)
           T == {m \in 0 .. n : \A s \in All : Cardinality(s) <= m => g[s] \in V}
<1>1. n \in Nat /\ \A s \in All : IsFiniteSet(s) /\ Cardinality(s) \in 0 .. n
  BY FS_CardinalityType, FS_Subset
<1>2. \A s \in All : s # {} => /\ c[s] \in s /\ c[s] \in S /\ s \ {c[s]} \in All
                              /\ Cardinality(s \ {c[s]}) = Cardinality(s) - 1
  BY <1>1, FS_RemoveElement
<1>3. 0 \in T
  <2>1. \A s \in All : Cardinality(s) <= 0 => s = {}
    BY <1>1, FS_EmptySet
  <2>2. \A s \in All : Cardinality(s) <= 0 => g[s] \in V
    BY <2>1 DEF FoldsIn
  <2> HIDE DEF All, n
  <2> QED  BY <2>2, <1>1
<1>4. \A m \in 0 .. n - 1 : m \in T => m + 1 \in T
  <2> SUFFICES ASSUME NEW m \in 0 .. n - 1, m \in T PROVE m + 1 \in T
    OBVIOUS
  <2>1. ASSUME NEW s \in All, Cardinality(s) <= m + 1, s # {} PROVE g[s] \in V
    <3>1. /\ s \ {c[s]} \in All /\ c[s] \in S /\ Cardinality(s) \in Nat
          /\ Cardinality(s \ {c[s]}) = Cardinality(s) - 1
      BY <2>1, <1>1, <1>2
    <3>2. Cardinality(s \ {c[s]}) <= m
      BY <1>1, <2>1, <3>1
    <3>3. g[s \ {c[s]}] \in V
      BY <3>1, <3>2
    <3>4. g[s] = H[<<g[s \ {c[s]}], c[s]>>] /\ <<g[s \ {c[s]}], c[s]>> \in V \X S
      BY <2>1, <3>1, <3>3 DEF FoldsIn
    <3> QED  BY <3>4
  <2>2. \A s \in All : Cardinality(s) <= m + 1 => g[s] \in V
    <3>1. g[{}] \in V
      BY DEF FoldsIn
    <3> QED  BY <2>1, <3>1
  <2>3. m + 1 \in 0 .. n
    BY <1>1
  <2> HIDE DEF All
  <2> QED  BY <2>2, <2>3
<1>5. n \in T
  <2>1. \A k \in 0 .. n : k \in T
    <3> HIDE DEF T
    <3> QED  BY <1>1, <1>3, <1>4, SetInduction
  <2> QED  BY <2>1, <1>1
<1>6. \A s \in All : g[s] \in V
  <2> HIDE DEF All
  <2> QED  BY <1>1, <1>5
<1>7. ASSUME NEW s \in All PROVE g[s] = IF s = {} THEN b ELSE H[<<g[s \ {c[s]}], c[s]>>]
  <2>1. CASE s = {}
    <3>1. g[{}] = b
      BY DEF FoldsIn
    <3> QED  BY <2>1, <3>1
  <2>2. CASE s # {}
    <3>1. g[s \ {c[s]}] \in V
      BY <1>2, <1>6, <2>2
    <3> QED  BY <2>2, <3>1 DEF FoldsIn
  <2> QED  BY <2>1, <2>2
<1>8. Folded(g, S, b, H, c)
  BY <1>7 DEF Folded
<1> QED  BY <1>6, <1>8

(* p has what a loop over n places has made of b after each of them.       *)
Running(p, V, b, H, n) ==
  /\ p \in [0 .. n -> V] /\ p[0] = b
  /\ \A k \in 1 .. n : p[k] = H[<<p[k - 1], k>>]

(* A loop over n places: g has the equation of the fold, and h has it as   *)
(* long as the values stay in V.                                           *)
Looped(g, b, H, n) ==
  \A s \in SUBSET (1 .. n) : g[s] = IF s = {} THEN b ELSE H[<<g[s \ {Max(s)}], Max(s)>>]
Loops(h, V, b, H, n) ==
  /\ h[{}] = b
  /\ \A s \in SUBSET (1 .. n) :
       s # {} /\ Max(s) \in 1 .. n /\ h[s \ {Max(s)}] \in V => h[s] = H[<<h[s \ {Max(s)}], Max(s)>>]
RunsTo(g, V, b, H, n) == \E p : Running(p, V, b, H, n) /\ g[1 .. n] = p[n]

LEMMA LoopExists ==
  ASSUME NEW V, NEW b \in V, NEW n \in Nat, NEW H \in [V \X (1 .. n) -> V]
  PROVE  \E g \in [SUBSET (1 .. n) -> V] : Looped(g, b, H, n)
<1> DEFINE c == [s \in SUBSET (1 .. n) |-> Max(s)]
           S == 1 .. n
<1>1. \A s \in SUBSET S : c[s] = Max(s)
  OBVIOUS
<1>2. \A s \in SUBSET S : s # {} => c[s] \in s
  BY <1>1, MaxIsLast
<1>3. IsFiniteSet(S) /\ S = 1 .. n
  BY FS_Interval
<1> HIDE DEF c, S
<1>4. PICK g \in [SUBSET S -> V] : Folded(g, S, b, H, c)
  BY <1>2, <1>3, FoldExists
<1> QED  BY <1>1, <1>3, <1>4 DEF Folded, Looped

(* Whatever satisfies the equation of a loop is made of its running values.*)
LEMMA LoopRuns ==
  ASSUME NEW V, NEW b \in V, NEW n \in Nat, NEW H \in [V \X (1 .. n) -> V], NEW g,
         Loops(g, V, b, H, n)
  PROVE  RunsTo(g, V, b, H, n)
<1> DEFINE p == [k \in 0 .. n |-> g[1 .. k]]
           T == {k \in 0 .. n : p[k] \in V}
<1>1. p[0] = b /\ \A k \in 0 .. n : p[k] = g[1 .. k]
  <2>1. 1 .. 0 = {} /\ 0 \in 0 .. n
    OBVIOUS
  <2> QED  BY <2>1 DEF Loops
<1>2. p = [k \in 0 .. n |-> p[k]] /\ p[n] = g[1 .. n]
  OBVIOUS
<1>3. ASSUME NEW k \in 1 .. n, p[k - 1] \in V
      PROVE  p[k] = H[<<p[k - 1], k>>] /\ p[k] \in V
  <2>1. 1 .. k \in SUBSET (1 .. n) /\ k \in Nat /\ k # 0 /\ k - 1 \in 0 .. n /\ k \in 0 .. n
    OBVIOUS
  <2>2. 1 .. k # {} /\ Max(1 .. k) = k /\ (1 .. k) \ {k} = 1 .. k - 1
    BY <2>1, MaxOfPrefix
  <2>3. p[k - 1] = g[1 .. k - 1] /\ p[k] = g[1 .. k]
    BY <1>1, <2>1
  <2>4. g[1 .. k] = H[<<g[1 .. k - 1], k>>]
    BY <1>3, <2>1, <2>2, <2>3 DEF Loops
  <2>5. <<p[k - 1], k>> \in V \X (1 .. n)
    BY <1>3
  <2> HIDE DEF p
  <2> QED  BY <2>3, <2>4, <2>5
<1> HIDE DEF p
<1>4. 0 \in T
  BY <1>1
<1>5. \A k \in 0 .. n - 1 : k \in T => k + 1 \in T
  <2>1. \A k \in 0 .. n - 1 : k + 1 \in 1 .. n /\ k + 1 \in 0 .. n /\ (k + 1) - 1 = k
    OBVIOUS
  <2>2. \A k \in 0 .. n - 1 : p[k] \in V => p[k + 1] \in V
    BY <1>3, <2>1
  <2> HIDE DEF p
  <2> QED  BY <2>1, <2>2
<1>6. \A k \in 0 .. n : k \in T
  <2> HIDE DEF T
  <2> QED  BY <1>4, <1>5, SetInduction
<1>7. p \in [0 .. n -> V]
  BY <1>2, <1>6
<1>8. \A k \in 1 .. n : p[k] = H[<<p[k - 1], k>>]
  <2>1. \A k \in 1 .. n : k - 1 \in 0 .. n
    OBVIOUS
  <2> QED  BY <1>3, <1>6, <2>1
<1> QED  BY <1>1, <1>2, <1>7, <1>8 DEF Running, RunsTo

(* What compute sums up, after each modifier.                              *)
LEMMA SumRuns ==
  ASSUME NEW M, NEW q \in Seq(M), \A k \in 1 .. Len(q) : q[k].value \in Int
  PROVE  \E p \in [0 .. Len(q) -> Int] :
           /\ p[0] = 0 /\ Sum(q) = p[Len(q)]
           /\ \A k \in 1 .. Len(q) : p[k] = p[k - 1] + q[k].value
<1>1. PICK n \in Nat : n = Len(q) /\ DOMAIN q = 1 .. n
  OBVIOUS
<1> DEFINE step(x, m) == x + m.value
           H == [w \in Int \X (1 .. n) |-> step(w[1], q[w[2]])]
           G == CHOOSE g : g = [s \in SUBSET DOMAIN q |->
                  IF s = {} THEN 0 ELSE step(g[s \ {Max(s)}], q[Max(s)])]
<1>2. Sum(q) = G[DOMAIN q]
  BY Zenon DEF Sum, FoldLeft, MapThenFoldSet
<1>3. H \in [Int \X (1 .. n) -> Int] /\ 0 \in Int
  BY <1>1
<1>4. \A v \in Int, k \in 1 .. n : H[<<v, k>>] = step(v, q[k])
  OBVIOUS
<1> HIDE DEF H
<1>5. PICK g \in [SUBSET (1 .. n) -> Int] : Looped(g, 0, H, n)
  BY <1>3, LoopExists
<1>6. \A s \in SUBSET (1 .. n) : s # {} => Max(s) \in 1 .. n /\ g[s \ {Max(s)}] \in Int
  BY MaxIsLast
<1> HIDE DEF step
<1>7. \A s \in SUBSET (1 .. n) : s # {} => H[<<g[s \ {Max(s)}], Max(s)>>] = step(g[s \ {Max(s)}], q[Max(s)])
  BY <1>4, <1>6
<1>8. g = [s \in SUBSET DOMAIN q |-> IF s = {} THEN 0 ELSE step(g[s \ {Max(s)}], q[Max(s)])]
  BY <1>1, <1>5, <1>7 DEF Looped
<1>9. G = [s \in SUBSET DOMAIN q |-> IF s = {} THEN 0 ELSE step(G[s \ {Max(s)}], q[Max(s)])]
  BY <1>8, Zenon
<1> HIDE DEF G
<1>10. G[{}] = 0
  BY <1>9
<1>11. Loops(G, Int, 0, H, n)
  BY <1>1, <1>4, <1>9, <1>10 DEF Loops
<1>12. PICK p : Running(p, Int, 0, H, n) /\ G[1 .. n] = p[n]
  <2>1. RunsTo(G, Int, 0, H, n)
    BY <1>3, <1>11, LoopRuns
  <2> QED  BY <2>1 DEF RunsTo
<1>13. p \in [0 .. n -> Int] /\ p[0] = 0 /\ Sum(q) = p[n]
  BY <1>1, <1>2, <1>12 DEF Running
<1>14. \A k \in 1 .. n : p[k] = p[k - 1] + q[k].value
  <2> SUFFICES ASSUME NEW k \in 1 .. n PROVE p[k] = p[k - 1] + q[k].value
    OBVIOUS
  <2>1. p[k - 1] \in Int /\ p[k] = H[<<p[k - 1], k>>]
    BY <1>12 DEF Running
  <2> QED  BY <1>4, <2>1 DEF step
<1> QED  BY <1>1, <1>13, <1>14

(* The product of two Fixed numbers is one.                                *)
LEMMA FixedMulInt ==
  ASSUME NEW a \in Int, NEW b \in Int
  PROVE  FixedMul(a, b) \in Int
<1>1. PICK c \in Int : c = a * b
  OBVIOUS
<1>2. ONE \in Nat /\ ONE # 0
  BY StatAssumption DEF StatAssumption
<1>3. c \div ONE \in Int /\ (-c) \div ONE \in Int
  BY <1>2
<1> QED  BY <1>1, <1>3 DEF FixedMul

(* What compute multiplies, after each modifier.                           *)
LEMMA ProductRuns ==
  ASSUME NEW M, NEW q \in Seq(M), \A k \in 1 .. Len(q) : q[k].value \in Int, NEW start \in Int
  PROVE  \E p \in [0 .. Len(q) -> Int] :
           /\ p[0] = start /\ Product(start, q) = p[Len(q)]
           /\ \A k \in 1 .. Len(q) : p[k] = FixedMul(p[k - 1], ONE + q[k].value)
<1>1. PICK n \in Nat : n = Len(q) /\ DOMAIN q = 1 .. n
  OBVIOUS
<1> DEFINE step(x, m) == FixedMul(x, ONE + m.value)
           H == [w \in Int \X (1 .. n) |-> step(w[1], q[w[2]])]
           G == CHOOSE g : g = [s \in SUBSET DOMAIN q |->
                  IF s = {} THEN start ELSE step(g[s \ {Max(s)}], q[Max(s)])]
<1>2. Product(start, q) = G[DOMAIN q]
  BY Zenon DEF Product, FoldLeft, MapThenFoldSet
<1>3. H \in [Int \X (1 .. n) -> Int]
  <2>1. \A v \in Int, k \in 1 .. n : step(v, q[k]) \in Int
    <3> SUFFICES ASSUME NEW v \in Int, NEW k \in 1 .. n PROVE step(v, q[k]) \in Int
      OBVIOUS
    <3>1. ONE + q[k].value \in Int
      BY <1>1, StatAssumption DEF StatAssumption
    <3> QED  BY <3>1, FixedMulInt
  <2> HIDE DEF step
  <2> QED  BY <2>1
<1>4. \A v \in Int, k \in 1 .. n : H[<<v, k>>] = step(v, q[k])
  <2> HIDE DEF step
  <2> QED  OBVIOUS
<1> HIDE DEF H
<1>5. PICK g \in [SUBSET (1 .. n) -> Int] : Looped(g, start, H, n)
  BY <1>3, LoopExists
<1>6. \A s \in SUBSET (1 .. n) : s # {} => Max(s) \in 1 .. n /\ g[s \ {Max(s)}] \in Int
  BY MaxIsLast
<1> HIDE DEF step
<1>7. \A s \in SUBSET (1 .. n) : s # {} => H[<<g[s \ {Max(s)}], Max(s)>>] = step(g[s \ {Max(s)}], q[Max(s)])
  BY <1>4, <1>6
<1>8. g = [s \in SUBSET DOMAIN q |-> IF s = {} THEN start ELSE step(g[s \ {Max(s)}], q[Max(s)])]
  BY <1>1, <1>5, <1>7 DEF Looped
<1>9. G = [s \in SUBSET DOMAIN q |-> IF s = {} THEN start ELSE step(G[s \ {Max(s)}], q[Max(s)])]
  BY <1>8, Zenon
<1> HIDE DEF G
<1>10. G[{}] = start
  BY <1>9
<1>11. Loops(G, Int, start, H, n)
  <2>1. ASSUME NEW s \in SUBSET (1 .. n), s # {}, Max(s) \in 1 .. n, G[s \ {Max(s)}] \in Int
        PROVE  G[s] = H[<<G[s \ {Max(s)}], Max(s)>>]
    <3>1. G[s] = step(G[s \ {Max(s)}], q[Max(s)])
      BY <1>1, <1>9, <2>1
    <3>2. H[<<G[s \ {Max(s)}], Max(s)>>] = step(G[s \ {Max(s)}], q[Max(s)])
      BY <1>4, <2>1
    <3> QED  BY <3>1, <3>2
  <2> QED  BY <1>10, <2>1, Zenon DEF Loops
<1>12. PICK p : Running(p, Int, start, H, n) /\ G[1 .. n] = p[n]
  <2>1. RunsTo(G, Int, start, H, n)
    BY <1>3, <1>11, LoopRuns
  <2> QED  BY <2>1 DEF RunsTo
<1>13. p \in [0 .. n -> Int] /\ p[0] = start /\ Product(start, q) = p[n]
  BY <1>1, <1>2, <1>12 DEF Running
<1>14. \A k \in 1 .. n : p[k] = FixedMul(p[k - 1], ONE + q[k].value)
  <2> SUFFICES ASSUME NEW k \in 1 .. n PROVE p[k] = FixedMul(p[k - 1], ONE + q[k].value)
    OBVIOUS
  <2>1. p[k - 1] \in Int /\ p[k] = H[<<p[k - 1], k>>]
    BY <1>12 DEF Running
  <2> QED  BY <1>4, <2>1 DEF step
<1> QED  BY <1>1, <1>13, <1>14

(* The conditionals a loop of compute has taken, after each of them.       *)
LEMMA OnRuns ==
  ASSUME NEW M, NEW q \in Seq(M), NEW op
  PROVE  \E p \in [0 .. Len(q) -> Seq(M)] :
           /\ p[0] = <<>> /\ On(q, op) = p[Len(q)]
           /\ \A k \in 1 .. Len(q) :
                p[k] = IF q[k].active /\ q[k].op = op THEN Append(p[k - 1], q[k]) ELSE p[k - 1]
<1>1. PICK n \in Nat : n = Len(q) /\ DOMAIN q = 1 .. n
  OBVIOUS
<1> DEFINE V == Seq(M)
           step(r, m) == IF m.active /\ m.op = op THEN Append(r, m) ELSE r
           H == [w \in V \X (1 .. n) |-> step(w[1], q[w[2]])]
           G == CHOOSE g : g = [s \in SUBSET DOMAIN q |->
                  IF s = {} THEN <<>> ELSE step(g[s \ {Max(s)}], q[Max(s)])]
<1>2. On(q, op) = G[DOMAIN q]
  BY Zenon DEF On, FoldLeft, MapThenFoldSet
<1>3. <<>> \in V
  OBVIOUS
<1>4. H \in [V \X (1 .. n) -> V] /\ <<>> \in V
  <2>1. ASSUME NEW v \in V, NEW k \in 1 .. n
        PROVE  step(v, q[k]) \in V
    <3>1. q[k] \in M
      BY <1>1
    <3>2. Append(v, q[k]) \in V
      BY <3>1
    <3> QED  BY <3>2
  <2> HIDE DEF step, V
  <2> QED  BY <1>3, <2>1
<1>5. \A v \in V, k \in 1 .. n : H[<<v, k>>] = step(v, q[k])
  <2> HIDE DEF step, V
  <2> QED  OBVIOUS
<1> HIDE DEF H, V
<1>6. PICK g \in [SUBSET (1 .. n) -> V] : Looped(g, <<>>, H, n)
  BY <1>4, LoopExists
<1>7. \A s \in SUBSET (1 .. n) : s # {} => Max(s) \in 1 .. n /\ g[s \ {Max(s)}] \in V
  BY MaxIsLast
<1> HIDE DEF step
<1>8. \A s \in SUBSET (1 .. n) : s # {} => H[<<g[s \ {Max(s)}], Max(s)>>] = step(g[s \ {Max(s)}], q[Max(s)])
  BY <1>5, <1>7
<1>9. g = [s \in SUBSET DOMAIN q |-> IF s = {} THEN <<>> ELSE step(g[s \ {Max(s)}], q[Max(s)])]
  BY <1>1, <1>6, <1>8 DEF Looped
<1>10. G = [s \in SUBSET DOMAIN q |-> IF s = {} THEN <<>> ELSE step(G[s \ {Max(s)}], q[Max(s)])]
  BY <1>9, Zenon
<1> HIDE DEF G
<1>11. G[{}] = <<>>
  BY <1>10
<1>12. Loops(G, V, <<>>, H, n)
  BY <1>1, <1>5, <1>10, <1>11 DEF Loops
<1>13. PICK p : Running(p, V, <<>>, H, n) /\ G[1 .. n] = p[n]
  <2>1. RunsTo(G, V, <<>>, H, n)
    BY <1>4, <1>12, LoopRuns
  <2> QED  BY <2>1 DEF RunsTo
<1>14. p \in [0 .. n -> V] /\ p[0] = <<>> /\ On(q, op) = p[n]
  BY <1>1, <1>2, <1>13 DEF Running
<1>15. \A k \in 1 .. n : p[k] = step(p[k - 1], q[k])
  <2> SUFFICES ASSUME NEW k \in 1 .. n PROVE p[k] = step(p[k - 1], q[k])
    OBVIOUS
  <2>1. p[k - 1] \in V /\ p[k] = H[<<p[k - 1], k>>]
    BY <1>13 DEF Running
  <2> QED  BY <1>5, <2>1
<1> QED  BY <1>1, <1>14, <1>15 DEF step, V

(* A vector is ascending by source; what it holds.                         *)
Ascending(q) == \A i, j \in 1 .. Len(q) : i < j => q[i].source < q[j].source
Elements(q)  == {q[i] : i \in 1 .. Len(q)}

LEMMA AppendAscending ==
  ASSUME NEW M, NEW q \in Seq(M), NEW m \in M, Ascending(q),
         \A x \in Elements(q) : x.source < m.source
  PROVE  Ascending(Append(q, m)) /\ Elements(Append(q, m)) = Elements(q) \cup {m}
<1> DEFINE r == Append(q, m)
<1>1. Len(r) = Len(q) + 1 /\ r[Len(q) + 1] = m /\ \A i \in 1 .. Len(q) : r[i] = q[i]
  OBVIOUS
<1> HIDE DEF r
<1>2. \A i \in 1 .. Len(q) : q[i].source < m.source
  BY DEF Elements
<1>3. Ascending(r)
  BY <1>1, <1>2 DEF Ascending
<1>4. 1 .. Len(q) + 1 = (1 .. Len(q)) \cup {Len(q) + 1}
  OBVIOUS
<1>5. {r[i] : i \in (1 .. Len(q)) \cup {Len(q) + 1}} = {q[i] : i \in 1 .. Len(q)} \cup {m}
  BY <1>1
<1>6. Elements(r) = Elements(q) \cup {m}
  BY <1>1, <1>4, <1>5 DEF Elements
<1> QED  BY <1>3, <1>6 DEF r

LEMMA PrependAscending ==
  ASSUME NEW M, NEW q \in Seq(M), NEW m \in M, Ascending(q),
         \A x \in Elements(q) : m.source < x.source
  PROVE  LET r == <<m>> \o q
         IN  r \in Seq(M) /\ Ascending(r) /\ Elements(r) = Elements(q) \cup {m}
<1> DEFINE r == <<m>> \o q
<1>1. r \in Seq(M)
  OBVIOUS
<1>2. Len(r) = Len(q) + 1 /\ r[1] = m /\ \A i \in 1 .. Len(q) : r[i + 1] = q[i]
  OBVIOUS
<1> HIDE DEF r
<1>3. \A i \in 1 .. Len(q) : m.source < q[i].source
  BY DEF Elements
<1>4. \A i \in 1 .. Len(r) : i = 1 \/ (i - 1 \in 1 .. Len(q) /\ r[i] = q[i - 1])
  BY <1>2
<1>5. Ascending(r)
  <2> SUFFICES ASSUME NEW i \in 1 .. Len(r), NEW j \in 1 .. Len(r), i < j
               PROVE  r[i].source < r[j].source
    BY DEF Ascending
  <2>1. j - 1 \in 1 .. Len(q) /\ r[j] = q[j - 1]
    BY <1>4
  <2>2. CASE i = 1
    BY <1>2, <1>3, <2>1, <2>2
  <2>3. CASE i # 1
    <3>1. i - 1 \in 1 .. Len(q) /\ r[i] = q[i - 1] /\ i - 1 < j - 1
      BY <1>4, <2>3
    <3> QED  BY <2>1, <3>1 DEF Ascending
  <2> QED  BY <2>2, <2>3
<1>6. Elements(r) \subseteq Elements(q) \cup {m}
  BY <1>2, <1>4 DEF Elements
<1>7. Elements(q) \cup {m} \subseteq Elements(r)
  <2>1. \A i \in 1 .. Len(q) : i + 1 \in 1 .. Len(r) /\ 1 \in 1 .. Len(r)
    BY <1>2
  <2>2. 1 \in 1 .. Len(r)
    BY <1>2
  <2> QED  BY <1>2, <2>1, <2>2 DEF Elements
<1> QED  BY <1>1, <1>5, <1>6, <1>7 DEF r

(* A loop of compute takes the conditionals in force, in their order.      *)
LEMMA OnElements ==
  ASSUME NEW M, NEW q \in Seq(M), Ascending(q), NEW op
  PROVE  /\ On(q, op) \in Seq(M) /\ Ascending(On(q, op))
         /\ Elements(On(q, op)) = {m \in Elements(q) : m.active /\ m.op = op}
<1>1. PICK p \in [0 .. Len(q) -> Seq(M)] :
        /\ p[0] = <<>> /\ On(q, op) = p[Len(q)]
        /\ \A k \in 1 .. Len(q) :
             p[k] = IF q[k].active /\ q[k].op = op THEN Append(p[k - 1], q[k]) ELSE p[k - 1]
  BY OnRuns
<1>2. PICK n \in Nat : n = Len(q)
  OBVIOUS
<1> DEFINE taken(k) == {m \in {q[i] : i \in 1 .. k} : m.active /\ m.op = op}
           T == {k \in 0 .. n : Ascending(p[k]) /\ Elements(p[k]) = taken(k)}
<1>3. 0 \in T
  <2>1. Len(p[0]) = 0 /\ 1 .. 0 = {}
    BY <1>1
  <2>2. Ascending(p[0]) /\ Elements(p[0]) = {}
    BY <2>1 DEF Ascending, Elements
  <2>3. taken(0) = {}
    BY <2>1
  <2> HIDE DEF taken
  <2> QED  BY <2>2, <2>3
<1>4. ASSUME NEW k \in 0 .. n - 1, Ascending(p[k]), Elements(p[k]) = taken(k)
      PROVE  Ascending(p[k + 1]) /\ Elements(p[k + 1]) = taken(k + 1)
  <2>1. k + 1 \in 1 .. Len(q) /\ (k + 1) - 1 = k /\ k \in 0 .. Len(q)
    BY <1>2
  <2>2. p[k + 1] = IF q[k + 1].active /\ q[k + 1].op = op THEN Append(p[k], q[k + 1]) ELSE p[k]
    BY <1>1, <2>1
  <2>3. p[k] \in Seq(M) /\ q[k + 1] \in M
    BY <2>1
  <2>4. 1 .. k + 1 = (1 .. k) \cup {k + 1}
    OBVIOUS
  <2>5. CASE q[k + 1].active /\ q[k + 1].op = op
    <3>1. \A i \in 1 .. k : q[i].source < q[k + 1].source
      BY <2>1 DEF Ascending
    <3>2. \A x \in Elements(p[k]) : x.source < q[k + 1].source
      BY <1>4, <3>1
    <3>3. Ascending(Append(p[k], q[k + 1])) /\ Elements(Append(p[k], q[k + 1])) = Elements(p[k]) \cup {q[k + 1]}
      BY <1>4, <2>3, <3>2, AppendAscending
    <3>4. taken(k + 1) = taken(k) \cup {q[k + 1]}
      BY <2>4, <2>5
    <3> HIDE DEF taken
    <3> QED  BY <1>4, <2>2, <2>5, <3>3, <3>4
  <2>6. CASE ~(q[k + 1].active /\ q[k + 1].op = op)
    <3>1. taken(k + 1) = taken(k)
      BY <2>4, <2>6
    <3> HIDE DEF taken
    <3> QED  BY <1>4, <2>2, <2>6, <3>1
  <2> QED  BY <2>5, <2>6
<1>5. \A k \in 0 .. n - 1 : k \in T => k + 1 \in T
  <2>1. \A k \in 0 .. n - 1 : k + 1 \in 0 .. n
    OBVIOUS
  <2> HIDE DEF taken
  <2> QED  BY <1>4, <2>1
<1>6. \A k \in 0 .. n : k \in T
  <2> HIDE DEF T
  <2> QED  BY <1>3, <1>5, SetInduction
<1>7. n \in T
  <2> HIDE DEF T
  <2> QED  BY <1>6
<1>8. p[n] \in Seq(M) /\ taken(n) = {m \in Elements(q) : m.active /\ m.op = op}
  BY <1>2 DEF Elements
<1> HIDE DEF taken
<1> QED  BY <1>1, <1>2, <1>7, <1>8

(* What the merge makes of the rest of both vectors from places a and c.   *)
AnyMod == SourcedMod \cup ConditionalMod
Pairs(us, cs) == (1 .. Len(us) + 1) \X (1 .. Len(cs) + 1)
MergeStep(g, us, cs, p) ==
  LET a == p[1]
      c == p[2]
  IN  IF a > Len(us) THEN SubSeq(cs, c, Len(cs))
      ELSE IF c <= Len(cs) /\ us[a].source >= cs[c].source
           THEN <<cs[c]>> \o g[<<a, c + 1>>]
           ELSE <<us[a]>> \o g[<<a + 1, c>>]
MergeIter(us, cs) ==
  CHOOSE g : g = [p \in Pairs(us, cs) |-> MergeStep(g, us, cs, p)]

LEMMA MergedUnfold ==
  ASSUME NEW us, NEW cs
  PROVE  Merged(us, cs) = MergeIter(us, cs)[<<1, 1>>]
BY Zenon DEF Merged, MergeIter, Pairs, MergeStep

(* The ways a step can go on, and the pairs it goes on with.               *)
AtEnd(us, a) == a > Len(us)
WithRest(cs, c) == SubSeq(cs, c, Len(cs))
WithSecond(g, cs, a, c) == <<cs[c]>> \o g[<<a, c + 1>>]
WithFirst(g, us, a, c)  == <<us[a]>> \o g[<<a + 1, c>>]
Second(us, cs, a, c) == c <= Len(cs) /\ us[a].source >= cs[c].source

LEMMA MergePairs ==
  ASSUME NEW us \in Seq(AnyMod), NEW cs \in Seq(AnyMod)
  PROVE  /\ \A p \in Pairs(us, cs) : \E a \in 1 .. Len(us) + 1, c \in 1 .. Len(cs) + 1 : p = <<a, c>>
         /\ \A a \in 1 .. Len(us) + 1, c \in 1 .. Len(cs) + 1 :
              /\ <<a, c>> \in Pairs(us, cs)
              /\ ~AtEnd(us, a) => us[a] \in AnyMod /\ <<a + 1, c>> \in Pairs(us, cs)
              /\ Second(us, cs, a, c) => cs[c] \in AnyMod /\ <<a, c + 1>> \in Pairs(us, cs)
<1>1. PICK l \in Nat, r \in Nat : l = Len(us) /\ r = Len(cs) /\ Pairs(us, cs) = (1 .. l + 1) \X (1 .. r + 1)
  BY DEF Pairs
<1>2. \A p \in Pairs(us, cs) : \E a \in 1 .. Len(us) + 1, c \in 1 .. Len(cs) + 1 : p = <<a, c>>
  BY <1>1
<1>3. ASSUME NEW a \in 1 .. Len(us) + 1, NEW c \in 1 .. Len(cs) + 1
      PROVE  /\ <<a, c>> \in Pairs(us, cs)
             /\ ~AtEnd(us, a) => us[a] \in AnyMod /\ <<a + 1, c>> \in Pairs(us, cs)
             /\ Second(us, cs, a, c) => cs[c] \in AnyMod /\ <<a, c + 1>> \in Pairs(us, cs)
  <2>1. <<a, c>> \in Pairs(us, cs)
    BY <1>1
  <2>2. ASSUME ~AtEnd(us, a) PROVE us[a] \in AnyMod /\ <<a + 1, c>> \in Pairs(us, cs)
    <3>1. a \in 1 .. Len(us) /\ a + 1 \in 1 .. l + 1 /\ c \in 1 .. r + 1
      BY <1>1, <2>2 DEF AtEnd
    <3> QED  BY <1>1, <3>1
  <2>3. ASSUME Second(us, cs, a, c) PROVE cs[c] \in AnyMod /\ <<a, c + 1>> \in Pairs(us, cs)
    <3>1. c \in 1 .. Len(cs) /\ c + 1 \in 1 .. r + 1 /\ a \in 1 .. l + 1
      BY <1>1, <2>3 DEF Second
    <3> QED  BY <1>1, <3>1
  <2> QED  BY <2>1, <2>2, <2>3
<1> QED  BY <1>2, <1>3

LEMMA MergeEnds ==
  ASSUME NEW us, NEW cs, NEW g, NEW a, NEW c, AtEnd(us, a)
  PROVE  MergeStep(g, us, cs, <<a, c>>) = WithRest(cs, c)
<1>1. <<a, c>>[1] = a /\ <<a, c>>[2] = c
  OBVIOUS
<1> QED  BY <1>1, Zenon DEF MergeStep, AtEnd, WithRest

LEMMA MergeTakesSecond ==
  ASSUME NEW us, NEW cs, NEW g, NEW a, NEW c, ~AtEnd(us, a), Second(us, cs, a, c)
  PROVE  MergeStep(g, us, cs, <<a, c>>) = WithSecond(g, cs, a, c)
<1>1. c <= Len(cs) /\ us[a].source >= cs[c].source
  BY DEF Second
<1>2. <<a, c>>[1] = a /\ <<a, c>>[2] = c
  OBVIOUS
<1> QED  BY <1>1, <1>2, Zenon DEF MergeStep, AtEnd, WithSecond

LEMMA MergeTakesFirst ==
  ASSUME NEW us, NEW cs, NEW g, NEW a, NEW c, ~AtEnd(us, a), ~Second(us, cs, a, c)
  PROVE  MergeStep(g, us, cs, <<a, c>>) = WithFirst(g, us, a, c)
<1>1. ~(c <= Len(cs) /\ us[a].source >= cs[c].source)
  BY DEF Second
<1>2. <<a, c>>[1] = a /\ <<a, c>>[2] = c
  OBVIOUS
<1> QED  BY <1>1, <1>2, Zenon DEF MergeStep, AtEnd, WithFirst

LEMMA MergeTyped ==
  ASSUME NEW us \in Seq(AnyMod), NEW cs \in Seq(AnyMod),
         NEW g \in [Pairs(us, cs) -> Seq(AnyMod)], NEW p \in Pairs(us, cs)
  PROVE  MergeStep(g, us, cs, p) \in Seq(AnyMod)
<1>1. PICK a \in 1 .. Len(us) + 1, c \in 1 .. Len(cs) + 1 : p = <<a, c>>
  BY MergePairs
<1>2. CASE AtEnd(us, a)
  <2>1. MergeStep(g, us, cs, <<a, c>>) = WithRest(cs, c)
    BY <1>2, MergeEnds
  <2>2. WithRest(cs, c) \in Seq(AnyMod)
    BY DEF WithRest
  <2> QED  BY <1>1, <2>1, <2>2
<1>3. CASE ~AtEnd(us, a) /\ Second(us, cs, a, c)
  <2>1. cs[c] \in AnyMod /\ g[<<a, c + 1>>] \in Seq(AnyMod)
    BY <1>3, MergePairs
  <2>2. MergeStep(g, us, cs, <<a, c>>) = WithSecond(g, cs, a, c)
    BY <1>3, MergeTakesSecond
  <2>3. WithSecond(g, cs, a, c) \in Seq(AnyMod)
    BY <2>1 DEF WithSecond
  <2> QED  BY <1>1, <2>2, <2>3
<1>4. CASE ~AtEnd(us, a) /\ ~Second(us, cs, a, c)
  <2>1. us[a] \in AnyMod /\ g[<<a + 1, c>>] \in Seq(AnyMod)
    BY <1>4, MergePairs
  <2>2. MergeStep(g, us, cs, <<a, c>>) = WithFirst(g, us, a, c)
    BY <1>4, MergeTakesFirst
  <2>3. WithFirst(g, us, a, c) \in Seq(AnyMod)
    BY <2>1 DEF WithFirst
  <2> QED  BY <1>1, <2>2, <2>3
<1> QED  BY <1>2, <1>3, <1>4

(* The recursive function of the merge exists.                             *)
LEMMA MergeExists ==
  ASSUME NEW us \in Seq(AnyMod), NEW cs \in Seq(AnyMod)
  PROVE  \A p \in Pairs(us, cs) : MergeIter(us, cs)[p] = MergeStep(MergeIter(us, cs), us, cs, p)
<1>1. PICK l \in Nat, r \in Nat : l = Len(us) /\ r = Len(cs)
  OBVIOUS
<1> DEFINE n == l + r
           All == Pairs(us, cs)
           step(g, p) == MergeStep(g, us, cs, p)
           left(a, c) == (l + 1 - a) + (r + 1 - c)
           Solves(g, m) == \A a \in 1 .. l + 1, c \in 1 .. r + 1 :
                             left(a, c) <= m => g[<<a, c>>] = step(g, <<a, c>>)
           T == {m \in 0 .. n : \E g \in [All -> Seq(AnyMod)] : Solves(g, m)}
<1>2. \E g \in [All -> Seq(AnyMod)] : Solves(g, 0)
  <2>1. PICK g \in [All -> Seq(AnyMod)] : \A p \in All : g[p] = <<>>
    <3>1. [p \in All |-> <<>>] \in [All -> Seq(AnyMod)]
      OBVIOUS
    <3> HIDE DEF All
    <3> QED  BY <3>1
  <2>2. ASSUME NEW a \in 1 .. l + 1, NEW c \in 1 .. r + 1, left(a, c) <= 0
        PROVE  g[<<a, c>>] = step(g, <<a, c>>)
    <3>1. a = l + 1 /\ c = r + 1 /\ AtEnd(us, a)
      BY <2>2, <1>1 DEF AtEnd
    <3>2. <<a, c>> \in All /\ a \in 1 .. Len(us) + 1 /\ c \in 1 .. Len(cs) + 1
      BY <1>1, MergePairs
    <3>3. step(g, <<a, c>>) = WithRest(cs, c)
      BY <3>1, <3>2, MergeEnds
    <3>4. WithRest(cs, Len(cs) + 1) = <<>>
      BY DEF WithRest
    <3> QED  BY <2>1, <3>1, <3>2, <3>3, <3>4, <1>1
  <2> HIDE DEF step, All
  <2> QED  BY <2>2
<1>3. ASSUME NEW m \in 0 .. n - 1, NEW g \in [All -> Seq(AnyMod)], Solves(g, m)
      PROVE  \E h \in [All -> Seq(AnyMod)] : Solves(h, m + 1)
  <2> DEFINE h == [p \in All |-> step(g, p)]
  <2>1. ASSUME NEW p \in All PROVE step(g, p) \in Seq(AnyMod)
    BY MergeTyped
  <2>2. h \in [All -> Seq(AnyMod)]
    <3> HIDE DEF step, All
    <3> QED  BY <2>1
  <2>3. \A a \in 1 .. l + 1, c \in 1 .. r + 1 :
          /\ h[<<a, c>>] = step(g, <<a, c>>)
          /\ left(a, c) <= m => h[<<a, c>>] = g[<<a, c>>]
    <3>1. \A a \in 1 .. l + 1, c \in 1 .. r + 1 : <<a, c>> \in All
      BY <1>1, MergePairs
    <3> HIDE DEF step, All
    <3> QED  BY <1>3, <3>1
  <2> HIDE DEF h
  <2>4. ASSUME NEW a \in 1 .. l + 1, NEW c \in 1 .. r + 1, left(a, c) <= m + 1
        PROVE  h[<<a, c>>] = step(h, <<a, c>>)
    <3>1. a \in 1 .. Len(us) + 1 /\ c \in 1 .. Len(cs) + 1 /\ h[<<a, c>>] = step(g, <<a, c>>)
      BY <1>1, <2>3
    <3>2. CASE AtEnd(us, a)
      <4>1. step(g, <<a, c>>) = WithRest(cs, c)
        BY <3>2, MergeEnds
      <4>2. step(h, <<a, c>>) = WithRest(cs, c)
        BY <3>2, MergeEnds
      <4> HIDE DEF step
      <4> QED  BY <3>1, <4>1, <4>2
    <3>3. CASE ~AtEnd(us, a) /\ Second(us, cs, a, c)
      <4>1. PICK d \in 1 .. r + 1 : d = c + 1 /\ left(a, d) <= m
        BY <1>1, <2>4, <3>3 DEF AtEnd, Second
      <4>2. h[<<a, d>>] = g[<<a, d>>] /\ d = c + 1
        BY <2>3, <4>1
      <4>3. step(g, <<a, c>>) = WithSecond(g, cs, a, c)
        BY <3>1, <3>3, MergeTakesSecond
      <4>4. step(h, <<a, c>>) = WithSecond(h, cs, a, c)
        BY <3>1, <3>3, MergeTakesSecond
      <4> HIDE DEF step
      <4> QED  BY <3>1, <4>2, <4>3, <4>4 DEF WithSecond
    <3>4. CASE ~AtEnd(us, a) /\ ~Second(us, cs, a, c)
      <4>1. a + 1 \in 1 .. l + 1 /\ left(a + 1, c) <= m
        BY <1>1, <2>4, <3>4 DEF AtEnd
      <4>2. h[<<a + 1, c>>] = g[<<a + 1, c>>]
        BY <2>3, <4>1
      <4>3. step(g, <<a, c>>) = WithFirst(g, us, a, c)
        BY <3>1, <3>4, MergeTakesFirst
      <4>4. step(h, <<a, c>>) = WithFirst(h, us, a, c)
        BY <3>1, <3>4, MergeTakesFirst
      <4> HIDE DEF step
      <4> QED  BY <3>1, <4>2, <4>3, <4>4 DEF WithFirst
    <3> QED  BY <1>1, <3>2, <3>3, <3>4
  <2> HIDE DEF step, All
  <2> QED  BY <2>2, <2>4
<1>4. 0 \in T /\ \A m \in 0 .. n - 1 : m \in T => m + 1 \in T
  <2>1. 0 \in 0 .. n /\ \A m \in 0 .. n - 1 : m + 1 \in 0 .. n
    OBVIOUS
  <2> HIDE DEF Solves, All, n
  <2> QED  BY <1>2, <1>3, <2>1
<1>5. n \in T
  <2>1. n \in Nat
    OBVIOUS
  <2> HIDE DEF T, n
  <2>2. \A m \in 0 .. n : m \in T
    BY <2>1, <1>4, SetInduction
  <2> QED  BY <2>1, <2>2
<1>6. PICK g \in [All -> Seq(AnyMod)] : Solves(g, n)
  <2> HIDE DEF Solves, All, n
  <2> QED  BY <1>5
<1>7. \A p \in All : g[p] = step(g, p)
  <2> SUFFICES ASSUME NEW p \in All PROVE g[p] = step(g, p)
    OBVIOUS
  <2>1. PICK a \in 1 .. l + 1, c \in 1 .. r + 1 : p = <<a, c>>
    BY <1>1, MergePairs
  <2>2. left(a, c) <= n
    OBVIOUS
  <2> HIDE DEF step, All, left, n
  <2> QED  BY <1>6, <2>1, <2>2
<1>8. g = [p \in All |-> step(g, p)]
  <2> HIDE DEF step, All
  <2> QED  BY <1>7
<1>9. MergeIter(us, cs) = [p \in All |-> step(MergeIter(us, cs), p)]
  BY <1>8, Zenon DEF MergeIter
<1> HIDE DEF step, All
<1>10. \A p \in All : MergeIter(us, cs)[p] = step(MergeIter(us, cs), p)
  BY <1>9
<1> QED  BY <1>10 DEF step, All

LEMMA AnyModFields ==
  ASSUME NEW m \in AnyMod
  PROVE  m.source \in Source /\ m.source \in Int /\ m.value \in Int
<1>1. \A x \in Source : x \in Int
  BY StatAssumption DEF StatAssumption
<1>2. CASE m \in SourcedMod
  BY <1>1, <1>2 DEF SourcedMod
<1>3. CASE m \in ConditionalMod
  BY <1>1, <1>3 DEF ConditionalMod
<1> QED  BY <1>2, <1>3 DEF AnyMod

(* What is left of a vector from place k on.                               *)
RestOf(q, k) == {q[i] : i \in k .. Len(q)}

LEMMA RestOfVector ==
  ASSUME NEW M, NEW q \in Seq(M), NEW k \in 1 .. Len(q) + 1
  PROVE  /\ k = Len(q) + 1 => RestOf(q, k) = {}
         /\ k <= Len(q) => RestOf(q, k) = RestOf(q, k + 1) \cup {q[k]}
         /\ SubSeq(q, k, Len(q)) \in Seq(M)
         /\ Elements(SubSeq(q, k, Len(q))) = RestOf(q, k)
<1>1. ASSUME k = Len(q) + 1 PROVE RestOf(q, k) = {}
  <2>1. k .. Len(q) = {}
    BY <1>1
  <2> QED  BY <2>1 DEF RestOf
<1>2. ASSUME k <= Len(q) PROVE RestOf(q, k) = RestOf(q, k + 1) \cup {q[k]}
  <2>1. k .. Len(q) = (k + 1 .. Len(q)) \cup {k}
    BY <1>2
  <2>2. {q[i] : i \in (k + 1 .. Len(q)) \cup {k}} = {q[i] : i \in k + 1 .. Len(q)} \cup {q[k]}
    OBVIOUS
  <2> QED  BY <2>1, <2>2 DEF RestOf
<1> DEFINE r == SubSeq(q, k, Len(q))
<1>3. r \in Seq(M) /\ Len(r) = Len(q) + 1 - k /\ \A i \in 1 .. Len(q) + 1 - k : r[i] = q[k + i - 1]
  OBVIOUS
<1> HIDE DEF r
<1>4. Elements(r) = RestOf(q, k)
  <2>1. ASSUME NEW i \in 1 .. Len(r) PROVE \E j \in k .. Len(q) : r[i] = q[j]
    <3>1. k + i - 1 \in k .. Len(q) /\ r[i] = q[k + i - 1]
      BY <1>3
    <3> QED  BY <3>1
  <2>2. ASSUME NEW j \in k .. Len(q) PROVE \E i \in 1 .. Len(r) : r[i] = q[j]
    <3>1. j - k + 1 \in 1 .. Len(r)
      BY <1>3
    <3>2. PICK i \in 1 .. Len(r) : i = j - k + 1
      BY <3>1
    <3>3. i \in 1 .. Len(q) + 1 - k /\ k + i - 1 = j
      BY <1>3, <3>2
    <3>4. r[i] = q[k + i - 1]
      BY <1>3, <3>3
    <3> QED  BY <3>3, <3>4
  <2>3. Elements(r) \subseteq RestOf(q, k)
    BY <2>1 DEF Elements, RestOf
  <2>4. RestOf(q, k) \subseteq Elements(r)
    BY <2>2 DEF Elements, RestOf
  <2> QED  BY <2>3, <2>4
<1> QED  BY <1>1, <1>2, <1>3, <1>4 DEF r

LEMMA TailAscending ==
  ASSUME NEW q \in Seq(AnyMod), Ascending(q), NEW k \in 1 .. Len(q) + 1
  PROVE  /\ Ascending(SubSeq(q, k, Len(q)))
         /\ k <= Len(q) => /\ \A x \in RestOf(q, k + 1) : q[k].source < x.source
                           /\ \A x \in RestOf(q, k) : q[k].source <= x.source
<1> DEFINE r == SubSeq(q, k, Len(q))
<1>1. Len(r) = Len(q) + 1 - k /\ \A i \in 1 .. Len(q) + 1 - k : r[i] = q[k + i - 1]
  OBVIOUS
<1> HIDE DEF r
<1>2. Ascending(r)
  <2> SUFFICES ASSUME NEW i \in 1 .. Len(r), NEW j \in 1 .. Len(r), i < j
               PROVE  r[i].source < r[j].source
    BY DEF Ascending
  <2>1. /\ k + i - 1 \in 1 .. Len(q) /\ k + j - 1 \in 1 .. Len(q) /\ k + i - 1 < k + j - 1
        /\ r[i] = q[k + i - 1] /\ r[j] = q[k + j - 1]
    BY <1>1
  <2> QED  BY <2>1 DEF Ascending
<1>3. ASSUME k <= Len(q)
      PROVE  /\ \A x \in RestOf(q, k + 1) : q[k].source < x.source
             /\ \A x \in RestOf(q, k) : q[k].source <= x.source
  <2>1. \A i \in k + 1 .. Len(q) : q[k].source < q[i].source
    BY <1>3 DEF Ascending
  <2>2. \A x \in RestOf(q, k + 1) : q[k].source < x.source
    BY <2>1 DEF RestOf
  <2>3. \A x \in RestOf(q, k) : x.source \in Int
    <3>1. \A i \in k .. Len(q) : q[i] \in AnyMod
      OBVIOUS
    <3> QED  BY <3>1, AnyModFields DEF RestOf
  <2>4. RestOf(q, k) = RestOf(q, k + 1) \cup {q[k]}
    BY <1>3, RestOfVector
  <2>5. q[k].source \in Int
    BY <2>3, <2>4
  <2>6. \A x \in RestOf(q, k) : q[k].source <= x.source
    BY <2>2, <2>3, <2>4, <2>5
  <2> QED  BY <2>2, <2>6
<1> QED  BY <1>2, <1>3 DEF r

(* No source is in both vectors.                                           *)
Apart(us, cs) == \A x \in Elements(us), y \in Elements(cs) : x.source # y.source

(* The merge from places a and c is as it should be.                       *)
MergedRest(r, us, cs, a, c) ==
  r \in Seq(AnyMod) /\ Ascending(r) /\ Elements(r) = RestOf(us, a) \cup RestOf(cs, c)

LEMMA MergeSecondStep ==
  ASSUME NEW us \in Seq(AnyMod), NEW cs \in Seq(AnyMod), Ascending(us), Ascending(cs), Apart(us, cs),
         NEW a \in 1 .. Len(us), NEW c \in 1 .. Len(cs), us[a].source >= cs[c].source,
         NEW r, MergedRest(r, us, cs, a, c + 1)
  PROVE  MergedRest(<<cs[c]>> \o r, us, cs, a, c)
<1>1. us[a] \in AnyMod /\ cs[c] \in AnyMod /\ us[a] \in Elements(us) /\ cs[c] \in Elements(cs)
  BY DEF Elements
<1>2. us[a].source # cs[c].source
  BY <1>1 DEF Apart
<1>3. us[a].source \in Int /\ cs[c].source \in Int
  BY <1>1, AnyModFields
<1>4. cs[c].source < us[a].source
  BY <1>2, <1>3
<1>5. a \in 1 .. Len(us) + 1 /\ a <= Len(us) /\ c \in 1 .. Len(cs) + 1 /\ c <= Len(cs)
  OBVIOUS
<1>6. \A x \in RestOf(us, a) : us[a].source <= x.source
  BY <1>5, TailAscending
<1>7. \A x \in RestOf(cs, c + 1) : cs[c].source < x.source
  BY <1>5, TailAscending
<1>8. \A x \in RestOf(us, a) : x.source \in Int
  <2>1. \A i \in a .. Len(us) : us[i] \in AnyMod
    OBVIOUS
  <2> QED  BY <2>1, AnyModFields DEF RestOf
<1>9. \A x \in Elements(r) : cs[c].source < x.source
  BY <1>3, <1>4, <1>6, <1>7, <1>8 DEF MergedRest
<1>10. r \in Seq(AnyMod) /\ Ascending(r) /\ Elements(r) = RestOf(us, a) \cup RestOf(cs, c + 1)
  BY DEF MergedRest
<1> DEFINE n == <<cs[c]>> \o r
<1>11. n \in Seq(AnyMod) /\ Ascending(n) /\ Elements(n) = Elements(r) \cup {cs[c]}
  BY <1>1, <1>9, <1>10, PrependAscending
<1> HIDE DEF n
<1>12. RestOf(cs, c) = RestOf(cs, c + 1) \cup {cs[c]}
  BY <1>5, RestOfVector
<1>13. MergedRest(n, us, cs, a, c)
  BY <1>10, <1>11, <1>12 DEF MergedRest
<1> QED  BY <1>13 DEF n

LEMMA MergeFirstStep ==
  ASSUME NEW us \in Seq(AnyMod), NEW cs \in Seq(AnyMod), Ascending(us), Ascending(cs),
         NEW a \in 1 .. Len(us), NEW c \in 1 .. Len(cs) + 1, c <= Len(cs) => us[a].source < cs[c].source,
         NEW r, MergedRest(r, us, cs, a + 1, c)
  PROVE  MergedRest(<<us[a]>> \o r, us, cs, a, c)
<1>1. us[a] \in AnyMod
  OBVIOUS
<1>2. us[a].source \in Int
  BY <1>1, AnyModFields
<1>3. a \in 1 .. Len(us) + 1 /\ a <= Len(us)
  OBVIOUS
<1>4. \A x \in RestOf(us, a + 1) : us[a].source < x.source
  BY <1>3, TailAscending
<1>5. \A x \in RestOf(cs, c) : us[a].source < x.source
  <2>1. CASE c = Len(cs) + 1
    BY <2>1, RestOfVector
  <2>2. CASE c <= Len(cs)
    <3>1. \A x \in RestOf(cs, c) : cs[c].source <= x.source
      BY <2>2, TailAscending
    <3>2. \A i \in c .. Len(cs) : cs[i] \in AnyMod
      OBVIOUS
    <3>3. cs[c].source \in Int /\ \A x \in RestOf(cs, c) : x.source \in Int
      BY <2>2, <3>2, AnyModFields DEF RestOf
    <3> QED  BY <1>2, <2>2, <3>1, <3>3
  <2> QED  BY <2>1, <2>2
<1>6. r \in Seq(AnyMod) /\ Ascending(r) /\ Elements(r) = RestOf(us, a + 1) \cup RestOf(cs, c)
  BY DEF MergedRest
<1>7. \A x \in Elements(r) : us[a].source < x.source
  BY <1>4, <1>5, <1>6
<1> DEFINE n == <<us[a]>> \o r
<1>8. n \in Seq(AnyMod) /\ Ascending(n) /\ Elements(n) = Elements(r) \cup {us[a]}
  BY <1>1, <1>6, <1>7, PrependAscending
<1> HIDE DEF n
<1>9. RestOf(us, a) = RestOf(us, a + 1) \cup {us[a]}
  BY <1>3, RestOfVector
<1>10. MergedRest(n, us, cs, a, c)
  BY <1>6, <1>8, <1>9 DEF MergedRest
<1> QED  BY <1>10 DEF n

(* compute takes the products of both vectors once each, by their source.  *)
LEMMA MergedElements ==
  ASSUME NEW us \in Seq(AnyMod), NEW cs \in Seq(AnyMod), Ascending(us), Ascending(cs), Apart(us, cs)
  PROVE  /\ Merged(us, cs) \in Seq(AnyMod) /\ Ascending(Merged(us, cs))
         /\ Elements(Merged(us, cs)) = Elements(us) \cup Elements(cs)
<1>1. PICK l \in Nat, r \in Nat : l = Len(us) /\ r = Len(cs)
  OBVIOUS
<1>2. PICK g : g = MergeIter(us, cs)
  OBVIOUS
<1> DEFINE n == l + r
           left(a, c) == (l + 1 - a) + (r + 1 - c)
           good(a, c) == MergedRest(g[<<a, c>>], us, cs, a, c)
           T == {m \in 0 .. n : \A a \in 1 .. l + 1, c \in 1 .. r + 1 : left(a, c) <= m => good(a, c)}
<1>3. ASSUME NEW a \in 1 .. l + 1, NEW c \in 1 .. r + 1
      PROVE  g[<<a, c>>] = MergeStep(g, us, cs, <<a, c>>)
  <2>1. <<a, c>> \in Pairs(us, cs)
    BY <1>1, MergePairs
  <2> QED  BY <1>2, <2>1, MergeExists
<1>4. ASSUME NEW c \in 1 .. r + 1 PROVE good(l + 1, c)
  <2>1. AtEnd(us, l + 1) /\ l + 1 \in 1 .. l + 1
    BY <1>1 DEF AtEnd
  <2>2. g[<<l + 1, c>>] = SubSeq(cs, c, Len(cs))
    <3>1. MergeStep(g, us, cs, <<l + 1, c>>) = WithRest(cs, c)
      BY <2>1, MergeEnds
    <3> QED  BY <1>3, <2>1, <3>1 DEF WithRest
  <2>3. /\ SubSeq(cs, c, Len(cs)) \in Seq(AnyMod) /\ Elements(SubSeq(cs, c, Len(cs))) = RestOf(cs, c)
        /\ Ascending(SubSeq(cs, c, Len(cs)))
    BY <1>1, RestOfVector, TailAscending
  <2>4. RestOf(us, l + 1) = {}
    BY <1>1, RestOfVector
  <2> QED  BY <2>2, <2>3, <2>4 DEF MergedRest
<1>5. 0 \in T
  <2>1. ASSUME NEW a \in 1 .. l + 1, NEW c \in 1 .. r + 1, left(a, c) <= 0 PROVE good(a, c)
    <3>1. a = l + 1
      BY <2>1
    <3> QED  BY <1>4, <3>1
  <2> HIDE DEF good
  <2> QED  BY <2>1
<1>6. ASSUME NEW m \in 0 .. n - 1,
             \A a \in 1 .. l + 1, c \in 1 .. r + 1 : left(a, c) <= m => good(a, c),
             NEW a \in 1 .. l + 1, NEW c \in 1 .. r + 1, left(a, c) <= m + 1
      PROVE  good(a, c)
  <2>1. CASE AtEnd(us, a)
    <3>1. a = l + 1
      BY <1>1, <2>1 DEF AtEnd
    <3> QED  BY <1>4, <3>1
  <2>2. CASE ~AtEnd(us, a) /\ Second(us, cs, a, c)
    <3>1. /\ a \in 1 .. Len(us) /\ c \in 1 .. Len(cs) /\ us[a].source >= cs[c].source
          /\ c + 1 \in 1 .. r + 1 /\ left(a, c + 1) <= m
      BY <1>1, <1>6, <2>2 DEF AtEnd, Second
    <3>2. PICK t : t = g[<<a, c + 1>>]
      OBVIOUS
    <3>3. good(a, c + 1)
      <4> HIDE DEF good
      <4> QED  BY <1>6, <3>1
    <3>4. MergedRest(t, us, cs, a, c + 1)
      BY <3>2, <3>3
    <3>5. MergedRest(<<cs[c]>> \o t, us, cs, a, c)
      BY <3>1, <3>4, MergeSecondStep
    <3>6. MergeStep(g, us, cs, <<a, c>>) = WithSecond(g, cs, a, c)
      BY <2>2, MergeTakesSecond
    <3>7. WithSecond(g, cs, a, c) = <<cs[c]>> \o t
      BY <3>2 DEF WithSecond
    <3> QED  BY <1>3, <3>5, <3>6, <3>7
  <2>3. CASE ~AtEnd(us, a) /\ ~Second(us, cs, a, c)
    <3>1. a \in 1 .. Len(us) /\ a + 1 \in 1 .. l + 1 /\ left(a + 1, c) <= m
      BY <1>1, <1>6, <2>3 DEF AtEnd
    <3>2. c <= Len(cs) => us[a].source < cs[c].source
      <4>1. c <= Len(cs) => us[a].source \in Int /\ cs[c].source \in Int
        <5>1. c <= Len(cs) => us[a] \in AnyMod /\ cs[c] \in AnyMod
          BY <3>1, <1>1
        <5> QED  BY <5>1, AnyModFields
      <4> QED  BY <2>3, <4>1 DEF Second
    <3>3. PICK t : t = g[<<a + 1, c>>]
      OBVIOUS
    <3>4. good(a + 1, c)
      <4> HIDE DEF good
      <4> QED  BY <1>6, <3>1
    <3>5. MergedRest(t, us, cs, a + 1, c)
      BY <3>3, <3>4
    <3>6. MergedRest(<<us[a]>> \o t, us, cs, a, c)
      BY <1>1, <3>1, <3>2, <3>5, MergeFirstStep
    <3>7. MergeStep(g, us, cs, <<a, c>>) = WithFirst(g, us, a, c)
      BY <2>3, MergeTakesFirst, Zenon
    <3>8. WithFirst(g, us, a, c) = <<us[a]>> \o t
      BY <3>3 DEF WithFirst
    <3> QED  BY <1>3, <3>6, <3>7, <3>8
  <2> QED  BY <2>1, <2>2, <2>3
<1>7. \A m \in 0 .. n - 1 : m \in T => m + 1 \in T
  <2>1. \A m \in 0 .. n - 1 : m + 1 \in 0 .. n
    OBVIOUS
  <2> HIDE DEF good, left, n
  <2> QED  BY <1>6, <2>1
<1>8. n \in T
  <2>1. n \in Nat
    OBVIOUS
  <2> HIDE DEF T, n
  <2>2. \A m \in 0 .. n : m \in T
    BY <2>1, <1>5, <1>7, SetInduction
  <2> QED  BY <2>1, <2>2
<1>9. good(1, 1)
  <2>1. 1 \in 1 .. l + 1 /\ 1 \in 1 .. r + 1 /\ left(1, 1) <= n
    OBVIOUS
  <2> HIDE DEF good, left, n
  <2> QED  BY <1>8, <2>1
<1>10. Merged(us, cs) = g[<<1, 1>>]
  BY <1>2, MergedUnfold
<1>11. RestOf(us, 1) = Elements(us) /\ RestOf(cs, 1) = Elements(cs)
  BY DEF RestOf, Elements
<1> QED  BY <1>9, <1>10, <1>11 DEF MergedRest

(* The modifiers of a vector as the set that is in force.                  *)
Mark(m, op)          == [source |-> m.source, op |-> op, value |-> m.value]
Marks(ms, op)        == {Mark(m, op) : m \in ms}
FirstMarks(q, op, k) == {Mark(q[i], op) : i \in 1 .. k}

AreMarks(q, op, S, n) ==
  /\ IsFiniteSet(S) /\ \A x \in S : x.source \in Int /\ x.value \in Int
  /\ FirstMarks(q, op, 0) = {} /\ FirstMarks(q, op, n) = S
  /\ \A k \in 1 .. n :
       /\ FirstMarks(q, op, k) \in SUBSET S
       /\ Mark(q[k], op) \in FirstMarks(q, op, k)
       /\ FirstMarks(q, op, k) \ {Mark(q[k], op)} = FirstMarks(q, op, k - 1)
       /\ \A x \in FirstMarks(q, op, k) : x = Mark(q[k], op) \/ x.source < Mark(q[k], op).source

LEMMA VectorMarks ==
  ASSUME NEW q \in Seq(AnyMod), Ascending(q), NEW op
  PROVE  AreMarks(q, op, Marks(Elements(q), op), Len(q))
<1> DEFINE S == Marks(Elements(q), op)
           r == [k \in 1 .. Len(q) |-> Mark(q[k], op)]
<1>1. \A k \in 1 .. Len(q) : /\ r[k] = Mark(q[k], op) /\ r[k].source = q[k].source
                             /\ r[k].source \in Int /\ r[k].value \in Int
  <2> SUFFICES ASSUME NEW k \in 1 .. Len(q)
               PROVE  /\ r[k] = Mark(q[k], op) /\ r[k].source = q[k].source
                      /\ r[k].source \in Int /\ r[k].value \in Int
    OBVIOUS
  <2>1. q[k] \in AnyMod
    OBVIOUS
  <2>2. q[k].source \in Int /\ q[k].value \in Int
    BY <2>1, AnyModFields
  <2> QED  BY <2>2 DEF Mark
<1>2. r = [k \in 1 .. Len(q) |-> r[k]]
  OBVIOUS
<1>3. S = {r[k] : k \in 1 .. Len(q)}
  BY <1>1 DEF Marks, Elements
<1>4. \A k \in 0 .. Len(q) : FirstMarks(q, op, k) = {r[i] : i \in 1 .. k}
  <2> SUFFICES ASSUME NEW k \in 0 .. Len(q)
               PROVE  {Mark(q[i], op) : i \in 1 .. k} = {r[i] : i \in 1 .. k}
    BY DEF FirstMarks
  <2>1. \A i \in 1 .. k : r[i] = Mark(q[i], op)
    BY <1>1
  <2> HIDE DEF r
  <2> QED  BY <2>1
<1> HIDE DEF r, S
<1>5. IsFiniteSet(S)
  <2>1. r \in [1 .. Len(q) -> S]
    BY <1>2, <1>3
  <2>2. r \in Surjection(1 .. Len(q), S)
    BY <1>3, <2>1 DEF Surjection
  <2>3. IsFiniteSet(1 .. Len(q))
    BY FS_Interval
  <2> QED  BY <2>2, <2>3, FS_Surjection
<1>6. \A x \in S : x.source \in Int /\ x.value \in Int
  BY <1>1, <1>3
<1>7. FirstMarks(q, op, 0) = {} /\ FirstMarks(q, op, Len(q)) = S
  <2>1. 0 \in 0 .. Len(q) /\ Len(q) \in 0 .. Len(q) /\ 1 .. 0 = {}
    OBVIOUS
  <2> QED  BY <1>3, <1>4, <2>1
<1>8. ASSUME NEW k \in 1 .. Len(q)
      PROVE  /\ FirstMarks(q, op, k) \in SUBSET S
             /\ Mark(q[k], op) \in FirstMarks(q, op, k)
             /\ FirstMarks(q, op, k) \ {Mark(q[k], op)} = FirstMarks(q, op, k - 1)
             /\ \A x \in FirstMarks(q, op, k) : x = Mark(q[k], op) \/ x.source < Mark(q[k], op).source
  <2>1. /\ FirstMarks(q, op, k) = {r[i] : i \in 1 .. k} /\ Mark(q[k], op) = r[k]
        /\ FirstMarks(q, op, k - 1) = {r[i] : i \in 1 .. k - 1}
    <3>1. k \in 0 .. Len(q) /\ k - 1 \in 0 .. Len(q)
      OBVIOUS
    <3> QED  BY <1>1, <1>4, <3>1
  <2>2. \A i \in 1 .. k - 1 : r[i].source < r[k].source
    BY <1>1 DEF Ascending
  <2>3. r[k].source \in Int
    BY <1>1
  <2>4. r[k] \notin {r[i] : i \in 1 .. k - 1}
    BY <2>2, <2>3
  <2>5. 1 .. k = (1 .. k - 1) \cup {k}
    OBVIOUS
  <2>6. {r[i] : i \in 1 .. k} = {r[i] : i \in 1 .. k - 1} \cup {r[k]}
    BY <2>5
  <2>7. {r[i] : i \in 1 .. k} \in SUBSET S
    BY <1>3
  <2>8. \A x \in {r[i] : i \in 1 .. k} : x = r[k] \/ x.source < r[k].source
    BY <2>2, <2>6
  <2> QED  BY <2>1, <2>4, <2>6, <2>7, <2>8
<1>9. AreMarks(q, op, S, Len(q))
  BY <1>5, <1>6, <1>7, <1>8, Zenon DEF AreMarks
<1> QED  BY <1>9 DEF S

(* The sum over a set: from any element of it, not only the chosen one.    *)
SomeOf(s) == CHOOSE x \in s : TRUE
SetSum(S) == MapThenSumSet(LAMBDA m : m.value, S)

Adds(g, S) == g[{}] = 0 /\ \A s \in SUBSET S : \A x \in s : g[s] = g[s \ {x}] + x.value

LEMMA SetSumRuns ==
  ASSUME NEW S, IsFiniteSet(S), \A x \in S : x.value \in Int
  PROVE  \E g \in [SUBSET S -> Int] : SetSum(S) = g[S] /\ Adds(g, S)
<1> DEFINE step(g, s) == SomeOf(s).value + g[s \ {SomeOf(s)}]
           c == [s \in SUBSET S |-> SomeOf(s)]
           H == [w \in Int \X S |-> w[2].value + w[1]]
           G == CHOOSE g : g = [s \in SUBSET S |-> IF s = {} THEN 0 ELSE step(g, s)]
<1>1. SetSum(S) = G[S]
  BY Zenon DEF SetSum, MapThenSumSet, MapThenFoldSet, SomeOf
<1>2. H \in [Int \X S -> Int] /\ \A v \in Int, x \in S : H[<<v, x>>] = x.value + v
  OBVIOUS
<1>3. \A s \in SUBSET S : c[s] = SomeOf(s) /\ (s # {} => c[s] \in s)
  BY DEF SomeOf
<1> HIDE DEF c, H
<1>4. PICK g \in [SUBSET S -> Int] : Folded(g, S, 0, H, c)
  <2>1. 0 \in Int
    OBVIOUS
  <2> QED  BY <1>2, <1>3, <2>1, FoldExists
<1>5. ASSUME NEW s \in SUBSET S PROVE g[s] = IF s = {} THEN 0 ELSE step(g, s)
  <2>1. CASE s = {}
    BY <1>4, <2>1 DEF Folded
  <2>2. CASE s # {}
    <3>1. SomeOf(s) \in S /\ c[s] = SomeOf(s) /\ g[s \ {SomeOf(s)}] \in Int
      BY <1>3, <2>2
    <3>2. g[s] = H[<<g[s \ {SomeOf(s)}], SomeOf(s)>>]
      BY <1>4, <2>2, <3>1 DEF Folded
    <3> QED  BY <1>2, <2>2, <3>1, <3>2
  <2> QED  BY <2>1, <2>2
<1>6. g = [s \in SUBSET S |-> IF s = {} THEN 0 ELSE step(g, s)]
  BY <1>5
<1>7. G = [s \in SUBSET S |-> IF s = {} THEN 0 ELSE step(G, s)]
  BY <1>6, Zenon
<1> HIDE DEF G
<1>8. ASSUME NEW s \in SUBSET S, s # {}, G[s \ {c[s]}] \in Int
      PROVE  G[s] = H[<<G[s \ {c[s]}], c[s]>>]
  <2>1. SomeOf(s) \in S /\ c[s] = SomeOf(s)
    BY <1>3, <1>8
  <2>2. G[s] = SomeOf(s).value + G[s \ {SomeOf(s)}]
    BY <1>7, <1>8
  <2>3. H[<<G[s \ {SomeOf(s)}], SomeOf(s)>>] = SomeOf(s).value + G[s \ {SomeOf(s)}]
    BY <1>2, <1>8, <2>1
  <2> QED  BY <2>1, <2>2, <2>3
<1>9. G[{}] = 0 /\ 0 \in Int
  BY <1>7
<1>10. Folded(G, S, 0, H, c) /\ \A s \in SUBSET S : G[s] \in Int
  <2>1. \A s \in SUBSET S : s # {} /\ G[s \ {c[s]}] \in Int => G[s] = H[<<G[s \ {c[s]}], c[s]>>]
    BY <1>8
  <2>2. H \in [Int \X S -> Int] /\ \A s \in SUBSET S : s # {} => c[s] \in s
    BY <1>2, <1>3
  <2>3. FoldsIn(G, S, Int, 0, H, c)
    BY <1>9, <2>1 DEF FoldsIn
  <2> QED  BY <1>9, <2>2, <2>3, FoldTyped
<1> DEFINE n == Cardinality(S)
           All == SUBSET S
           adds(s) == \A x \in s : G[s] = G[s \ {x}] + x.value
           T == {m \in 0 .. n : \A s \in All : Cardinality(s) <= m => adds(s)}
<1>11. n \in Nat /\ \A s \in All : IsFiniteSet(s) /\ Cardinality(s) \in 0 .. n
  BY FS_CardinalityType, FS_Subset
<1>12. 0 \in T
  <2>1. \A s \in All : Cardinality(s) <= 0 => s = {}
    BY <1>11, FS_EmptySet
  <2>2. \A s \in All : Cardinality(s) <= 0 => adds(s)
    BY <2>1
  <2> HIDE DEF adds, All, n
  <2> QED  BY <2>2, <1>11
<1>13. ASSUME NEW m \in 0 .. n - 1, \A s \in All : Cardinality(s) <= m => adds(s),
              NEW s \in All, Cardinality(s) <= m + 1, NEW x \in s
       PROVE  G[s] = G[s \ {x}] + x.value
  <2>1. PICK y \in s : y = SomeOf(s)
    BY <1>3
  <2>2. G[s] = y.value + G[s \ {y}]
    BY <1>7, <2>1
  <2>3. CASE x = y
    <3>1. y.value \in Int /\ G[s \ {y}] \in Int
      BY <1>10
    <3> QED  BY <2>2, <2>3, <3>1
  <2>4. CASE x # y
    <3>1. s \ {x} \in All /\ s \ {y} \in All /\ x \in s \ {y} /\ y \in s \ {x} /\ IsFiniteSet(s)
      BY <1>11, <2>4
    <3>2. Cardinality(s \ {x}) = Cardinality(s) - 1 /\ Cardinality(s \ {y}) = Cardinality(s) - 1
      BY <3>1, FS_RemoveElement
    <3>3. Cardinality(s \ {x}) <= m /\ Cardinality(s \ {y}) <= m
      BY <1>11, <1>13, <3>1, <3>2
    <3>4. G[s \ {y}] = G[(s \ {y}) \ {x}] + x.value
      BY <1>13, <3>1, <3>3
    <3>5. G[s \ {x}] = G[(s \ {x}) \ {y}] + y.value
      BY <1>13, <3>1, <3>3
    <3>6. (s \ {y}) \ {x} = (s \ {x}) \ {y}
      OBVIOUS
    <3>7. PICK z \in Int : z = G[(s \ {x}) \ {y}]
      BY <1>10, <3>1
    <3>8. x.value \in Int /\ y.value \in Int
      OBVIOUS
    <3>9. G[s] = y.value + (z + x.value) /\ G[s \ {x}] = z + y.value
      BY <2>2, <3>4, <3>5, <3>6, <3>7
    <3> QED  BY <3>7, <3>8, <3>9
  <2> QED  BY <2>3, <2>4
<1>14. \A m \in 0 .. n - 1 : m \in T => m + 1 \in T
  <2>1. \A m \in 0 .. n - 1 : m + 1 \in 0 .. n
    BY <1>11
  <2> HIDE DEF All, n
  <2> QED  BY <1>13, <2>1
<1>15. n \in T
  <2> HIDE DEF T, n
  <2>1. \A m \in 0 .. n : m \in T
    BY <1>11, <1>12, <1>14, SetInduction
  <2> QED  BY <1>11, <2>1
<1>16. \A s \in All : adds(s)
  <2> HIDE DEF adds, All
  <2> QED  BY <1>11, <1>15
<1>17. G \in [SUBSET S -> Int]
  BY <1>7, <1>10
<1>18. Adds(G, S)
  BY <1>9, <1>16 DEF Adds
<1> QED  BY <1>1, <1>17, <1>18

(* A vector and the set of its modifiers have the same sum ...             *)
LEMMA SumOfMarks ==
  ASSUME NEW q \in Seq(AnyMod), Ascending(q), NEW op
  PROVE  SetSum(Marks(Elements(q), op)) = Sum(q) /\ Sum(q) \in Int
<1>1. PICK S : S = Marks(Elements(q), op)
  OBVIOUS
<1>2. PICK n \in Nat : n = Len(q)
  OBVIOUS
<1>3. /\ IsFiniteSet(S) /\ \A x \in S : x.value \in Int
      /\ FirstMarks(q, op, 0) = {} /\ FirstMarks(q, op, n) = S
      /\ \A k \in 1 .. n : /\ FirstMarks(q, op, k) \in SUBSET S
                           /\ Mark(q[k], op) \in FirstMarks(q, op, k)
                           /\ FirstMarks(q, op, k) \ {Mark(q[k], op)} = FirstMarks(q, op, k - 1)
  <2>1. AreMarks(q, op, S, n)
    BY <1>1, <1>2, VectorMarks
  <2> QED  BY <2>1 DEF AreMarks
<1>4. \A k \in 1 .. n : q[k].value \in Int /\ Mark(q[k], op).value = q[k].value
  <2> SUFFICES ASSUME NEW k \in 1 .. n
               PROVE  q[k].value \in Int /\ Mark(q[k], op).value = q[k].value
    OBVIOUS
  <2>1. q[k] \in AnyMod
    BY <1>2
  <2> QED  BY <2>1, AnyModFields DEF Mark
<1>5. PICK g \in [SUBSET S -> Int] : SetSum(S) = g[S] /\ Adds(g, S)
  BY <1>3, SetSumRuns
<1>6. PICK p \in [0 .. n -> Int] :
        /\ p[0] = 0 /\ Sum(q) = p[n]
        /\ \A k \in 1 .. n : p[k] = p[k - 1] + q[k].value
  BY <1>2, <1>4, SumRuns
<1> DEFINE T == {k \in 0 .. n : g[FirstMarks(q, op, k)] = p[k]}
<1>7. 0 \in T
  <2>1. g[FirstMarks(q, op, 0)] = 0
    BY <1>3, <1>5 DEF Adds
  <2>2. p[0] = 0 /\ 0 \in 0 .. n
    BY <1>6
  <2> QED  BY <2>1, <2>2
<1>8. \A k \in 0 .. n - 1 : k \in T => k + 1 \in T
  <2> SUFFICES ASSUME NEW k \in 0 .. n - 1, g[FirstMarks(q, op, k)] = p[k]
               PROVE  k + 1 \in T
    OBVIOUS
  <2>1. PICK j \in 1 .. n : j = k + 1 /\ j - 1 = k
    OBVIOUS
  <2>2. g[FirstMarks(q, op, j)] = g[FirstMarks(q, op, k)] + q[j].value
    <3>1. /\ FirstMarks(q, op, j) \in SUBSET S /\ Mark(q[j], op) \in FirstMarks(q, op, j)
          /\ FirstMarks(q, op, j) \ {Mark(q[j], op)} = FirstMarks(q, op, k)
      BY <1>3, <2>1
    <3>2. g[FirstMarks(q, op, j)] = g[FirstMarks(q, op, k)] + Mark(q[j], op).value
      BY <1>5, <3>1 DEF Adds
    <3> QED  BY <1>4, <3>2
  <2>3. p[j] = p[k] + q[j].value
    BY <1>6, <2>1
  <2> QED  BY <2>1, <2>2, <2>3
<1>9. n \in T
  <2> HIDE DEF T
  <2>1. \A k \in 0 .. n : k \in T
    BY <1>7, <1>8, SetInduction
  <2> QED  BY <2>1
<1> QED  BY <1>1, <1>3, <1>5, <1>6, <1>9

(* ... and the same product, which the set takes from the last source on.  *)
SetProduct(start, S) ==
  MapThenFoldSet(LAMBDA x, v : FixedMul(v, ONE + x), start, LAMBDA m : m.value, ByLast, S)

LEMMA ProductOfMarks ==
  ASSUME NEW q \in Seq(AnyMod), Ascending(q), NEW op, NEW start \in Int
  PROVE  SetProduct(start, Marks(Elements(q), op)) = Product(start, q) /\ Product(start, q) \in Int
<1>1. PICK S : S = Marks(Elements(q), op)
  OBVIOUS
<1>2. PICK n \in Nat : n = Len(q)
  OBVIOUS
<1>3. /\ IsFiniteSet(S) /\ \A x \in S : x.source \in Int /\ x.value \in Int
      /\ FirstMarks(q, op, 0) = {} /\ FirstMarks(q, op, n) = S
      /\ \A k \in 1 .. n :
           /\ FirstMarks(q, op, k) \in SUBSET S
           /\ Mark(q[k], op) \in FirstMarks(q, op, k)
           /\ FirstMarks(q, op, k) \ {Mark(q[k], op)} = FirstMarks(q, op, k - 1)
           /\ \A x \in FirstMarks(q, op, k) : x = Mark(q[k], op) \/ x.source < Mark(q[k], op).source
  <2>1. AreMarks(q, op, S, n)
    BY <1>1, <1>2, VectorMarks
  <2> QED  BY <2>1 DEF AreMarks
<1>4. \A k \in 1 .. n : q[k].value \in Int /\ Mark(q[k], op).value = q[k].value
  <2> SUFFICES ASSUME NEW k \in 1 .. n
               PROVE  q[k].value \in Int /\ Mark(q[k], op).value = q[k].value
    OBVIOUS
  <2>1. q[k] \in AnyMod
    BY <1>2
  <2> QED  BY <2>1, AnyModFields DEF Mark
<1>5. ASSUME NEW s, NEW m \in s, \A x \in s : x.source \in Int,
             \A x \in s : x = m \/ x.source < m.source
      PROVE  ByLast(s) = m
  <2>1. \A x \in s : x.source <= m.source
    BY <1>5
  <2>2. \E l \in s : \A x \in s : x.source <= l.source
    BY <2>1
  <2>3. ByLast(s) \in s /\ \A x \in s : x.source <= ByLast(s).source
    BY <2>2, Zenon DEF ByLast
  <2>4. ByLast(s) = m \/ ByLast(s).source < m.source
    BY <1>5, <2>3
  <2> QED  BY <1>5, <2>3, <2>4
<1>6. ASSUME NEW s \in SUBSET S, s # {} PROVE ByLast(s) \in s
  <2> DEFINE at == {k \in 1 .. n : Mark(q[k], op) \in s}
  <2>1. S = {Mark(q[k], op) : k \in 1 .. n}
    BY <1>3 DEF FirstMarks
  <2>2. at \in SUBSET (1 .. n) /\ at # {}
    BY <1>6, <2>1
  <2> HIDE DEF at
  <2>3. PICK l \in at : \A k \in at : k <= l
    BY <1>2, <2>2, MaxIsLast
  <2>4. l \in 1 .. n /\ Mark(q[l], op) \in s
    BY <2>3 DEF at
  <2>5. ASSUME NEW x \in s PROVE x = Mark(q[l], op) \/ x.source < Mark(q[l], op).source
    <3>1. PICK k \in 1 .. n : x = Mark(q[k], op)
      BY <2>1
    <3>2. k <= l
      BY <2>3, <3>1 DEF at
    <3>3. x \in FirstMarks(q, op, l)
      BY <3>1, <3>2 DEF FirstMarks
    <3> QED  BY <1>3, <2>4, <3>3
  <2>6. \A x \in s : x.source \in Int
    BY <1>3
  <2> QED  BY <1>5, <2>4, <2>5, <2>6
<1> DEFINE step(g, s) == FixedMul(g[s \ {ByLast(s)}], ONE + ByLast(s).value)
           c == [s \in SUBSET S |-> ByLast(s)]
           H == [w \in Int \X S |-> FixedMul(w[1], ONE + w[2].value)]
           G == CHOOSE g : g = [s \in SUBSET S |-> IF s = {} THEN start ELSE step(g, s)]
<1>7. SetProduct(start, S) = G[S]
  BY Zenon DEF SetProduct, MapThenFoldSet
<1>8. /\ H \in [Int \X S -> Int]
      /\ \A v \in Int, x \in S : H[<<v, x>>] = FixedMul(v, ONE + x.value)
  <2>1. ASSUME NEW v \in Int, NEW x \in S PROVE FixedMul(v, ONE + x.value) \in Int
    <3>1. ONE + x.value \in Int
      BY <1>3, StatAssumption DEF StatAssumption
    <3> QED  BY <3>1, FixedMulInt
  <2> QED  BY <2>1
<1>9. \A s \in SUBSET S : c[s] = ByLast(s) /\ (s # {} => c[s] \in s)
  BY <1>6
<1> HIDE DEF c, H
<1>10. PICK g \in [SUBSET S -> Int] : Folded(g, S, start, H, c)
  BY <1>3, <1>8, <1>9, FoldExists
<1>11. ASSUME NEW s \in SUBSET S PROVE g[s] = IF s = {} THEN start ELSE step(g, s)
  <2>1. CASE s = {}
    BY <1>10, <2>1 DEF Folded
  <2>2. CASE s # {}
    <3>1. ByLast(s) \in S /\ c[s] = ByLast(s) /\ g[s \ {ByLast(s)}] \in Int
      BY <1>9, <2>2
    <3>2. g[s] = H[<<g[s \ {ByLast(s)}], ByLast(s)>>]
      BY <1>10, <2>2, <3>1 DEF Folded
    <3> QED  BY <1>8, <2>2, <3>1, <3>2
  <2> QED  BY <2>1, <2>2
<1>12. g = [s \in SUBSET S |-> IF s = {} THEN start ELSE step(g, s)]
  <2> HIDE DEF step
  <2> QED  BY <1>11
<1>13. G = [s \in SUBSET S |-> IF s = {} THEN start ELSE step(G, s)]
  BY <1>12, Zenon
<1> HIDE DEF G
<1>14. PICK p \in [0 .. n -> Int] :
         /\ p[0] = start /\ Product(start, q) = p[n]
         /\ \A k \in 1 .. n : p[k] = FixedMul(p[k - 1], ONE + q[k].value)
  <2>1. \A k \in 1 .. Len(q) : q[k].value \in Int
    BY <1>2, <1>4
  <2>2. \E p \in [0 .. Len(q) -> Int] :
           /\ p[0] = start /\ Product(start, q) = p[Len(q)]
           /\ \A k \in 1 .. Len(q) : p[k] = FixedMul(p[k - 1], ONE + q[k].value)
    BY <2>1, ProductRuns
  <2> QED  BY <1>2, <2>2
<1> DEFINE T == {k \in 0 .. n : G[FirstMarks(q, op, k)] = p[k]}
<1>15. 0 \in T
  <2>1. FirstMarks(q, op, 0) = {} /\ {} \in SUBSET S
    BY <1>3
  <2>2. G[{}] = start
    BY <1>13, <2>1
  <2>3. G[FirstMarks(q, op, 0)] = start
    BY <2>1, <2>2
  <2>4. p[0] = start /\ 0 \in 0 .. n
    BY <1>14
  <2> QED  BY <2>3, <2>4
<1>16. \A k \in 0 .. n - 1 : k \in T => k + 1 \in T
  <2> SUFFICES ASSUME NEW k \in 0 .. n - 1, G[FirstMarks(q, op, k)] = p[k]
               PROVE  k + 1 \in T
    OBVIOUS
  <2>1. PICK j \in 1 .. n : j = k + 1 /\ j - 1 = k
    OBVIOUS
  <2> DEFINE s == FirstMarks(q, op, j)
             m == Mark(q[j], op)
  <2>2. /\ s \in SUBSET S /\ m \in s /\ s \ {m} = FirstMarks(q, op, k)
        /\ \A x \in s : x = m \/ x.source < m.source
    BY <1>3, <2>1
  <2>3. \A x \in s : x.source \in Int
    BY <1>3, <2>2
  <2> HIDE DEF s, m
  <2>4. ByLast(s) = m
    BY <1>5, <2>2, <2>3
  <2>5. G[s] = FixedMul(G[s \ {m}], ONE + m.value)
    BY <1>13, <2>2, <2>4
  <2>6. m.value = q[j].value
    BY <1>4 DEF m
  <2>7. p[j] = FixedMul(p[k], ONE + q[j].value)
    BY <1>14, <2>1
  <2>8. G[FirstMarks(q, op, j)] = p[j]
    BY <2>2, <2>5, <2>6, <2>7 DEF s
  <2> QED  BY <2>1, <2>8
<1>17. n \in T
  <2> HIDE DEF T
  <2>1. \A k \in 0 .. n : k \in T
    BY <1>15, <1>16, SetInduction
  <2> QED  BY <2>1
<1> QED  BY <1>1, <1>3, <1>7, <1>14, <1>17

(* The entry of a stat as its operations leave it: every vector ascending, *)
(* no source twice, and no condition that addConditional would refuse.     *)
Tidy(s, e) ==
  /\ Ascending(e.mults) /\ Ascending(e.overrides) /\ Ascending(e.conditionals)
  /\ Apart(e.mults, e.conditionals) /\ Apart(e.overrides, e.conditionals)
  /\ \A i \in 1 .. Len(e.conditionals) : Allowed(e.conditionals[i].cond, s)

LEMMA VectorTypes ==
  ASSUME NEW e \in Entry
  PROVE  /\ e.mults \in Seq(AnyMod) /\ e.overrides \in Seq(AnyMod)
         /\ e.conditionals \in Seq(AnyMod) /\ e.conditionals \in Seq(ConditionalMod)
         /\ e.base \in Int /\ e.accumFlat \in Int /\ e.accumPctAdd \in Int
<1>1. /\ e.mults \in Seq(SourcedMod) /\ e.overrides \in Seq(SourcedMod)
      /\ e.conditionals \in Seq(ConditionalMod)
      /\ e.base \in Int /\ e.accumFlat \in Int /\ e.accumPctAdd \in Int
  BY DEF Entry
<1>2. \A q \in Seq(SourcedMod) : q \in Seq(AnyMod)
  BY DEF AnyMod
<1>3. \A q \in Seq(ConditionalMod) : q \in Seq(AnyMod)
  BY DEF AnyMod
<1> QED  BY <1>1, <1>2, <1>3

(* The conditionals of an entry that a loop of compute takes.              *)
LEMMA TakenOn ==
  ASSUME NEW s, NEW e \in Entry, Tidy(s, e), NEW op
  PROVE  LET q == On(e.conditionals, op)
         IN  /\ q \in Seq(AnyMod) /\ Ascending(q)
             /\ Elements(q) = {m \in Elements(e.conditionals) : m.active /\ m.op = op}
             /\ Apart(e.mults, q) /\ Apart(e.overrides, q)
<1>1. e.conditionals \in Seq(AnyMod) /\ Ascending(e.conditionals)
  BY VectorTypes DEF Tidy
<1>2. PICK q : q = On(e.conditionals, op)
  OBVIOUS
<1>3. /\ q \in Seq(AnyMod) /\ Ascending(q)
      /\ Elements(q) = {m \in Elements(e.conditionals) : m.active /\ m.op = op}
  BY <1>1, <1>2, OnElements
<1>4. Apart(e.mults, q) /\ Apart(e.overrides, q)
  BY <1>3 DEF Tidy, Apart
<1> QED  BY <1>2, <1>3, <1>4

(* A product of both vectors.                                              *)
LEMMA TakenProduct ==
  ASSUME NEW s, NEW e \in Entry, Tidy(s, e)
  PROVE  LET q == Merged(e.mults, On(e.conditionals, "PercentMult"))
         IN  /\ q \in Seq(AnyMod) /\ Ascending(q)
             /\ Elements(q) = Elements(e.mults) \cup Elements(On(e.conditionals, "PercentMult"))
<1>1. PICK us, cs : us = e.mults /\ cs = On(e.conditionals, "PercentMult")
  OBVIOUS
<1>2. us \in Seq(AnyMod) /\ Ascending(us)
  BY <1>1, VectorTypes DEF Tidy
<1>3. cs \in Seq(AnyMod) /\ Ascending(cs) /\ Apart(us, cs)
  BY <1>1, TakenOn
<1>4. /\ Merged(us, cs) \in Seq(AnyMod) /\ Ascending(Merged(us, cs))
      /\ Elements(Merged(us, cs)) = Elements(us) \cup Elements(cs)
  BY <1>2, <1>3, MergedElements
<1> QED  BY <1>1, <1>4

(* The first of two ascending vectors that share no source.                *)
Firsts(us, cs) == {q[1] : q \in {us, cs} \ {<<>>}}

LEMMA HeadIsFirst ==
  ASSUME NEW q \in Seq(AnyMod), Ascending(q), q # <<>>
  PROVE  /\ q[1] \in Elements(q) /\ q[1].source \in Int
         /\ \A x \in Elements(q) : x = q[1] \/ q[1].source < x.source
<1>1. 1 \in 1 .. Len(q) /\ q[1] \in AnyMod
  OBVIOUS
<1>2. \A i \in 1 .. Len(q) : i = 1 \/ q[1].source < q[i].source
  BY <1>1 DEF Ascending
<1> QED  BY <1>1, <1>2, AnyModFields DEF Elements

LEMMA FirstOfBoth ==
  ASSUME NEW us \in Seq(AnyMod), NEW cs \in Seq(AnyMod), Ascending(us), Ascending(cs), Apart(us, cs)
  PROVE  LET All == Elements(us) \cup Elements(cs)
         IN  /\ Firsts(us, cs) = {} <=> All = {}
             /\ All # {} => /\ ByFirst(Firsts(us, cs)) \in All
                            /\ \A x \in All : \/ x = ByFirst(Firsts(us, cs))
                                              \/ ByFirst(Firsts(us, cs)).source < x.source
<1>1. \A q \in Seq(AnyMod) : Elements(q) = {} <=> q = <<>>
  <2> SUFFICES ASSUME NEW q \in Seq(AnyMod)
               PROVE  Elements(q) = {} <=> q = <<>>
    OBVIOUS
  <2>1. CASE q = <<>>
    BY <2>1 DEF Elements
  <2>2. CASE q # <<>>
    <3>1. 1 \in 1 .. Len(q)
      BY <2>2
    <3> QED  BY <2>2, <3>1 DEF Elements
  <2> QED  BY <2>1, <2>2
<1>2. us # <<>> => /\ us[1] \in Elements(us) /\ us[1].source \in Int
                   /\ \A x \in Elements(us) : x = us[1] \/ us[1].source < x.source
  BY HeadIsFirst
<1>3. cs # <<>> => /\ cs[1] \in Elements(cs) /\ cs[1].source \in Int
                   /\ \A x \in Elements(cs) : x = cs[1] \/ cs[1].source < x.source
  BY HeadIsFirst
<1>4. \A x \in Elements(us) \cup Elements(cs) : x.source \in Int
  <2>1. \A x \in Elements(us) \cup Elements(cs) : x \in AnyMod
    BY DEF Elements
  <2> QED  BY <2>1, AnyModFields
<1> DEFINE All == Elements(us) \cup Elements(cs)
           F == Firsts(us, cs)
<1>5. F = {} <=> All = {}
  BY <1>1 DEF Firsts
<1>6. ASSUME NEW f \in F, \A x \in All : x = f \/ f.source < x.source, F \subseteq All
      PROVE  ByFirst(F) = f
  <2>1. \A x \in F : f.source <= x.source
    BY <1>4, <1>6
  <2>2. ByFirst(F) \in F /\ \A x \in F : ByFirst(F).source <= x.source
    <3>1. \E m \in F : \A x \in F : m.source <= x.source
      BY <2>1
    <3> HIDE DEF F
    <3> QED  BY <3>1, Zenon DEF ByFirst
  <2>3. ByFirst(F).source <= f.source /\ ByFirst(F) \in All
    BY <1>6, <2>2
  <2> QED  BY <1>4, <1>6, <2>3
<1>7. ASSUME All # {}
      PROVE  \E f \in F : \A x \in All : x = f \/ f.source < x.source
  <2>1. CASE us = <<>>
    <3>1. Elements(us) = {} /\ cs # <<>> /\ cs[1] \in F
      BY <1>1, <1>7, <2>1 DEF Firsts
    <3> QED  BY <1>3, <3>1
  <2>2. CASE us # <<>> /\ cs = <<>>
    <3>1. Elements(cs) = {} /\ us[1] \in F
      BY <1>1, <2>2 DEF Firsts
    <3> QED  BY <1>2, <2>2, <3>1
  <2>3. CASE us # <<>> /\ cs # <<>>
    <3>1. us[1] \in F /\ cs[1] \in F
      BY <2>3 DEF Firsts
    <3>2. us[1].source # cs[1].source
      BY <1>2, <1>3, <2>3 DEF Apart
    <3> HIDE DEF F
    <3>3. CASE us[1].source < cs[1].source
      <4>1. \A x \in Elements(cs) : us[1].source < x.source
        BY <1>2, <1>3, <1>4, <2>3, <3>3
      <4> QED  BY <1>2, <2>3, <3>1, <4>1
    <3>4. CASE cs[1].source < us[1].source
      <4>1. \A x \in Elements(us) : cs[1].source < x.source
        BY <1>2, <1>3, <1>4, <2>3, <3>4
      <4> QED  BY <1>3, <2>3, <3>1, <4>1
    <3> QED  BY <1>2, <1>3, <2>3, <3>2, <3>3, <3>4
  <2> QED  BY <2>1, <2>2, <2>3
<1>8. F \subseteq All
  BY <1>2, <1>3 DEF Firsts
<1>9. All # {} => /\ ByFirst(F) \in All
                  /\ \A x \in All : x = ByFirst(F) \/ ByFirst(F).source < x.source
  <2> SUFFICES ASSUME All # {}
               PROVE  /\ ByFirst(F) \in All
                      /\ \A x \in All : x = ByFirst(F) \/ ByFirst(F).source < x.source
    OBVIOUS
  <2> HIDE DEF All, F
  <2>1. PICK f \in F : \A x \in All : x = f \/ f.source < x.source
    BY <1>7
  <2>2. ByFirst(F) = f
    BY <1>6, <1>8, <2>1
  <2> QED  BY <1>8, <2>1, <2>2
<1> QED  BY <1>5, <1>9

(* The override of the smallest source is the one that the code takes.     *)
LEMMA FirstOverride ==
  ASSUME NEW us \in Seq(AnyMod), NEW cs \in Seq(AnyMod), Ascending(us), Ascending(cs), Apart(us, cs),
         NEW op
  PROVE  LET All == Elements(us) \cup Elements(cs)
         IN  /\ Firsts(us, cs) = {} <=> Marks(All, op) = {}
             /\ All # {} => /\ ByFirst(Firsts(us, cs)).value = ByFirst(Marks(All, op)).value
                            /\ ByFirst(Firsts(us, cs)).value \in Int
<1>1. PICK All : All = Elements(us) \cup Elements(cs)
  OBVIOUS
<1>2. PICK f : f = ByFirst(Firsts(us, cs))
  OBVIOUS
<1>3. /\ Firsts(us, cs) = {} <=> All = {}
      /\ All # {} => f \in All /\ \A x \in All : x = f \/ f.source < x.source
  BY <1>1, <1>2, FirstOfBoth
<1>4. Marks(All, op) = {} <=> All = {}
  BY DEF Marks
<1>5. \A x \in All : x.source \in Int /\ x.value \in Int
  <2>1. \A x \in All : x \in AnyMod
    BY <1>1 DEF Elements
  <2> QED  BY <2>1, AnyModFields
<1>6. ASSUME All # {} PROVE f.value = ByFirst(Marks(All, op)).value /\ f.value \in Int
  <2>1. \A x \in Marks(All, op) : x.source \in Int /\ (x = Mark(f, op) \/ Mark(f, op).source < x.source)
    <3> SUFFICES ASSUME NEW y \in All
                 PROVE  LET x == Mark(y, op)
                        IN  x.source \in Int /\ (x = Mark(f, op) \/ Mark(f, op).source < x.source)
      BY DEF Marks
    <3>1. Mark(y, op).source = y.source /\ Mark(f, op).source = f.source
      BY DEF Mark
    <3> QED  BY <1>3, <1>5, <1>6, <3>1
  <2>2. Mark(f, op) \in Marks(All, op) /\ Mark(f, op).value = f.value /\ f.value \in Int
    BY <1>3, <1>5, <1>6 DEF Marks, Mark
  <2>3. \E m \in Marks(All, op) : \A x \in Marks(All, op) : m.source <= x.source
    BY <2>1, <2>2
  <2>4. /\ ByFirst(Marks(All, op)) \in Marks(All, op)
        /\ \A x \in Marks(All, op) : ByFirst(Marks(All, op)).source <= x.source
    BY <2>3, Zenon DEF ByFirst
  <2>5. ByFirst(Marks(All, op)) = Mark(f, op)
    BY <2>1, <2>2, <2>4
  <2> QED  BY <2>2, <2>5
<1> QED  BY <1>1, <1>2, <1>3, <1>4, <1>6

(* What compute returns, from the four sets of modifiers in force.         *)
OfSets(s, e, flats, pcts, mults, overs) ==
  LET flat    == e.base + e.accumFlat + SetSum(flats)
      pct     == AtLeast(MinPct[s], e.accumPctAdd + SetSum(pcts))
      product == SetProduct(FixedMul(flat, ONE + pct), mults)
  IN  AtLeast(MinValue[s], IF overs = {} THEN product ELSE ByFirst(overs).value)

OnMarks(e, op) == Marks(Elements(On(e.conditionals, op)), op)
MultMarks(e)   == Marks(Elements(e.mults) \cup Elements(On(e.conditionals, "PercentMult")), "PercentMult")
OverMarks(e)   == Marks(Elements(e.overrides) \cup Elements(On(e.conditionals, "Override")), "Override")

LEMMA ComputeOfMarks ==
  ASSUME NEW s \in Stat, NEW e \in Entry, Tidy(s, e)
  PROVE  /\ Compute(s, e) = OfSets(s, e, OnMarks(e, "Flat"), OnMarks(e, "PercentAdd"), MultMarks(e), OverMarks(e))
         /\ Compute(s, e) \in Int
<1>1. PICK qf, qp, qo, qm : /\ qf = On(e.conditionals, "Flat") /\ qp = On(e.conditionals, "PercentAdd")
                            /\ qo = On(e.conditionals, "Override")
                            /\ qm = Merged(e.mults, On(e.conditionals, "PercentMult"))
  OBVIOUS
<1>2. SetSum(OnMarks(e, "Flat")) = Sum(qf) /\ Sum(qf) \in Int
  <2>1. qf \in Seq(AnyMod) /\ Ascending(qf)
    BY <1>1, TakenOn
  <2> QED  BY <1>1, <2>1, SumOfMarks DEF OnMarks
<1>3. SetSum(OnMarks(e, "PercentAdd")) = Sum(qp) /\ Sum(qp) \in Int
  <2>1. qp \in Seq(AnyMod) /\ Ascending(qp)
    BY <1>1, TakenOn
  <2> QED  BY <1>1, <2>1, SumOfMarks DEF OnMarks
<1>4. ASSUME NEW v \in Int
      PROVE  SetProduct(v, MultMarks(e)) = Product(v, qm) /\ Product(v, qm) \in Int
  <2>1. /\ qm \in Seq(AnyMod) /\ Ascending(qm)
        /\ Elements(qm) = Elements(e.mults) \cup Elements(On(e.conditionals, "PercentMult"))
    BY <1>1, TakenProduct
  <2>2. MultMarks(e) = Marks(Elements(qm), "PercentMult")
    BY <2>1 DEF MultMarks
  <2> QED  BY <2>1, <2>2, ProductOfMarks
<1>5. PICK F : F = Firsts(e.overrides, qo)
  OBVIOUS
<1>6. /\ F = {} <=> OverMarks(e) = {}
      /\ F # {} => ByFirst(F).value = ByFirst(OverMarks(e)).value /\ ByFirst(F).value \in Int
  <2>1. qo \in Seq(AnyMod) /\ Ascending(qo) /\ Apart(e.overrides, qo)
    BY <1>1, TakenOn
  <2>2. e.overrides \in Seq(AnyMod) /\ Ascending(e.overrides)
    BY VectorTypes DEF Tidy
  <2>3. PICK All : All = Elements(e.overrides) \cup Elements(qo)
    OBVIOUS
  <2>4. OverMarks(e) = Marks(All, "Override")
    BY <1>1, <2>3 DEF OverMarks
  <2>5. /\ F = {} <=> Marks(All, "Override") = {}
        /\ All # {} => /\ ByFirst(F).value = ByFirst(Marks(All, "Override")).value
                       /\ ByFirst(F).value \in Int
    BY <1>5, <2>1, <2>2, <2>3, FirstOverride
  <2>6. All # {} <=> Marks(All, "Override") # {}
    BY DEF Marks
  <2> QED  BY <2>4, <2>5, <2>6
<1>7. \A low \in Int, x \in Int : AtLeast(low, x) \in Int
  BY DEF AtLeast
<1>8. MinPct[s] \in Int /\ MinValue[s] \in Int /\ ONE \in Int
  BY StatAssumption DEF StatAssumption
<1>9. PICK flat, pct, start : /\ flat = e.base + e.accumFlat + Sum(qf)
                              /\ pct = AtLeast(MinPct[s], e.accumPctAdd + Sum(qp))
                              /\ start = FixedMul(flat, ONE + pct)
  OBVIOUS
<1>10. start \in Int
  <2>1. flat \in Int /\ e.accumPctAdd + Sum(qp) \in Int
    BY <1>2, <1>3, <1>9, VectorTypes
  <2>2. pct \in Int
    BY <1>7, <1>8, <1>9, <2>1
  <2>3. ONE + pct \in Int
    BY <1>8, <2>2
  <2> QED  BY <1>9, <2>1, <2>3, FixedMulInt
<1>11. Compute(s, e) = AtLeast(MinValue[s], IF F = {} THEN Product(start, qm) ELSE ByFirst(F).value)
  BY <1>1, <1>5, <1>9, Zenon DEF Compute, Firsts
<1>12. OfSets(s, e, OnMarks(e, "Flat"), OnMarks(e, "PercentAdd"), MultMarks(e), OverMarks(e))
         = AtLeast(MinValue[s], IF OverMarks(e) = {} THEN SetProduct(start, MultMarks(e))
                                ELSE ByFirst(OverMarks(e)).value)
  BY <1>2, <1>3, <1>9, Zenon DEF OfSets
<1>13. CASE F = {}
  <2>1. Product(start, qm) \in Int /\ SetProduct(start, MultMarks(e)) = Product(start, qm)
    BY <1>4, <1>10
  <2> QED  BY <1>6, <1>7, <1>8, <1>11, <1>12, <1>13, <2>1
<1>14. CASE F # {}
  BY <1>6, <1>7, <1>8, <1>11, <1>12, <1>14
<1> QED  BY <1>13, <1>14

(* The four sets are those that ValueOfModifiers takes out of InForce.     *)
LEMMA InForceMarks ==
  ASSUME NEW s \in Stat, entries[s] \in Entry, Tidy(s, entries[s])
  PROVE  LET of(op) == {m \in InForce(s) : m.op = op}
             e      == entries[s]
         IN  /\ of("Flat") = OnMarks(e, "Flat") /\ of("PercentAdd") = OnMarks(e, "PercentAdd")
             /\ of("PercentMult") = MultMarks(e) /\ of("Override") = OverMarks(e)
<1>1. PICK e \in Entry : e = entries[s]
  OBVIOUS
<1> DEFINE switched == {x \in Elements(e.conditionals) : x.active}
           taken(op) == {x \in Elements(e.conditionals) : x.active /\ x.op = op}
           ms == Marks(Elements(e.mults), "PercentMult")
           os == Marks(Elements(e.overrides), "Override")
           cs == {Mark(x, x.op) : x \in switched}
<1>2. InForce(s) = ms \cup os \cup cs
  <2>1. {[source |-> e.mults[i].source, op |-> "PercentMult", value |-> e.mults[i].value] :
           i \in 1 .. Len(e.mults)} = ms
    BY DEF Marks, Mark, Elements
  <2>2. {[source |-> e.overrides[i].source, op |-> "Override", value |-> e.overrides[i].value] :
           i \in 1 .. Len(e.overrides)} = os
    BY DEF Marks, Mark, Elements
  <2>3. {e.conditionals[i] : i \in {j \in 1 .. Len(e.conditionals) : e.conditionals[j].active}} = switched
    BY DEF Elements
  <2>4. {[source |-> m.source, op |-> m.op, value |-> m.value] : m \in switched} = cs
    BY DEF Mark
  <2> HIDE DEF ms, os, cs, switched
  <2> QED  BY <1>1, <2>1, <2>2, <2>3, <2>4 DEF InForce
<1>3. \A x, op : Mark(x, op).op = op
  BY DEF Mark
<1>4. \A m \in ms : m.op = "PercentMult"
  BY <1>3 DEF Marks
<1>5. \A m \in os : m.op = "Override"
  BY <1>3 DEF Marks
<1>6. ASSUME NEW op PROVE {m \in cs : m.op = op} = Marks(taken(op), op)
  <2>1. \A x \in taken(op) : Mark(x, op) \in cs /\ Mark(x, op).op = op
    BY <1>3
  <2>2. ASSUME NEW m \in cs, m.op = op PROVE m \in Marks(taken(op), op)
    <3>1. PICK x \in switched : m = Mark(x, x.op)
      OBVIOUS
    <3>2. x.op = op /\ x \in taken(op)
      BY <1>3, <2>2, <3>1
    <3> QED  BY <3>1, <3>2 DEF Marks
  <2> HIDE DEF cs, taken
  <2> QED  BY <2>1, <2>2 DEF Marks
<1>7. ASSUME NEW op PROVE Elements(On(e.conditionals, op)) = taken(op)
  BY <1>1, TakenOn
<1>8. ASSUME NEW A, NEW B, NEW op PROVE Marks(A \cup B, op) = Marks(A, op) \cup Marks(B, op)
  BY DEF Marks
<1> HIDE DEF ms, os, cs, taken, switched
<1>9. /\ {m \in InForce(s) : m.op = "Flat"} = Marks(taken("Flat"), "Flat")
      /\ {m \in InForce(s) : m.op = "PercentAdd"} = Marks(taken("PercentAdd"), "PercentAdd")
  BY <1>2, <1>4, <1>5, <1>6
<1>10. {m \in InForce(s) : m.op = "PercentMult"} = ms \cup Marks(taken("PercentMult"), "PercentMult")
  BY <1>2, <1>4, <1>5, <1>6
<1>11. {m \in InForce(s) : m.op = "Override"} = os \cup Marks(taken("Override"), "Override")
  BY <1>2, <1>4, <1>5, <1>6
<1>12. OnMarks(e, "Flat") = Marks(taken("Flat"), "Flat")
       /\ OnMarks(e, "PercentAdd") = Marks(taken("PercentAdd"), "PercentAdd")
  BY <1>7 DEF OnMarks
<1>13. MultMarks(e) = ms \cup Marks(taken("PercentMult"), "PercentMult")
  BY <1>7, <1>8 DEF MultMarks, ms
<1>14. OverMarks(e) = os \cup Marks(taken("Override"), "Override")
  BY <1>7, <1>8 DEF OverMarks, os
<1> QED  BY <1>1, <1>9, <1>10, <1>11, <1>12, <1>13, <1>14

TidyInv == \A s \in Stat : Tidy(s, entries[s])

LEMMA TidyGivesValues ==
  ASSUME CacheHonest, StatInv, TidyInv
  PROVE  ValueOfModifiers
<1> SUFFICES ASSUME NEW s \in Stat
             PROVE  LET of(op) == {m \in InForce(s) : m.op = op}
                    IN  Value(s) = OfSets(s, entries[s], of("Flat"), of("PercentAdd"),
                                          of("PercentMult"), of("Override"))
  BY Zenon DEF ValueOfModifiers, OfSets, SetSum, SetProduct
<1>1. Value(s) = Compute(s, entries[s])
  BY ValueIsComputed
<1>2. entries[s] \in Entry /\ Tidy(s, entries[s])
  BY DEF StatInv, TypeInv, TidyInv
<1>3. Compute(s, entries[s]) = OfSets(s, entries[s], OnMarks(entries[s], "Flat"),
                                      OnMarks(entries[s], "PercentAdd"),
                                      MultMarks(entries[s]), OverMarks(entries[s]))
  BY <1>2, ComputeOfMarks
<1>4. /\ {m \in InForce(s) : m.op = "Flat"} = OnMarks(entries[s], "Flat")
      /\ {m \in InForce(s) : m.op = "PercentAdd"} = OnMarks(entries[s], "PercentAdd")
      /\ {m \in InForce(s) : m.op = "PercentMult"} = MultMarks(entries[s])
      /\ {m \in InForce(s) : m.op = "Override"} = OverMarks(entries[s])
  BY <1>2, InForceMarks
<1> QED  BY <1>1, <1>3, <1>4

----------------------------------------------------------------------------
(* Every operation leaves its entry tidy.                                  *)

LEMMA InsertedAscending ==
  ASSUME NEW q \in Seq(AnyMod), Ascending(q), NEW m \in AnyMod, ~Has(q, m.source),
         NEW k \in Places(q, m.source)
  PROVE  /\ Ascending(Inserted(q, k, m))
         /\ \A x \in Elements(Inserted(q, k, m)) : x \in Elements(q) \/ x = m
<1>1. PICK r : r = Inserted(q, k, m)
  OBVIOUS
<1>2. PICK n \in Nat : n = Len(q)
  OBVIOUS
<1>3. /\ k \in 0 .. n /\ (k > 0 => q[k].source <= m.source)
      /\ \A j \in k + 1 .. n : m.source < q[j].source
  BY <1>2 DEF Places
<1>4. \A i \in 1 .. n : q[i].source \in Int /\ q[i].source # m.source
  <2> SUFFICES ASSUME NEW i \in 1 .. n
               PROVE  q[i].source \in Int /\ q[i].source # m.source
    OBVIOUS
  <2>1. q[i] \in AnyMod
    BY <1>2
  <2> QED  BY <1>2, <2>1, AnyModFields DEF Has
<1>5. m.source \in Int
  BY AnyModFields
<1>6. \A i \in 1 .. k : q[i].source < m.source
  <2> SUFFICES ASSUME NEW i \in 1 .. k
               PROVE  q[i].source < m.source
    OBVIOUS
  <2>1. k \in 1 .. n /\ i \in 1 .. n
    BY <1>3
  <2>2. q[k].source < m.source
    BY <1>3, <1>4, <1>5, <2>1
  <2>3. i = k \/ q[i].source < q[k].source
    BY <1>2, <2>1 DEF Ascending
  <2> QED  BY <1>4, <1>5, <2>1, <2>2, <2>3
<1>7. /\ Len(r) = n + 1 /\ r[k + 1] = m
      /\ \A i \in 1 .. n + 1 : /\ i <= k => r[i] = q[i]
                               /\ i > k + 1 => r[i] = q[i - 1]
  <2>1. r = [i \in 1 .. n + 1 |-> IF i <= k THEN q[i] ELSE IF i = k + 1 THEN m ELSE q[i - 1]]
    BY <1>1, <1>2 DEF Inserted
  <2>2. k + 1 \in 1 .. n + 1 /\ ~(k + 1 <= k)
    BY <1>3
  <2>3. Len(r) = n + 1
    BY <2>1
  <2> QED  BY <1>3, <2>1, <2>2, <2>3
<1>8. Ascending(r)
  <2> SUFFICES ASSUME NEW i \in 1 .. n + 1, NEW j \in 1 .. n + 1, i < j
               PROVE  r[i].source < r[j].source
    BY <1>7 DEF Ascending
  <2>1. CASE j <= k
    <3>1. r[i] = q[i] /\ r[j] = q[j] /\ i \in 1 .. n /\ j \in 1 .. n
      BY <1>3, <1>7, <2>1
    <3> QED  BY <1>2, <3>1 DEF Ascending
  <2>2. CASE j = k + 1
    <3>1. r[i] = q[i] /\ r[j] = m /\ i \in 1 .. k
      BY <1>3, <1>7, <2>2
    <3> QED  BY <1>6, <3>1
  <2>3. CASE j > k + 1
    <3>1. r[j] = q[j - 1] /\ j - 1 \in k + 1 .. n /\ j - 1 \in 1 .. n
      BY <1>3, <1>7, <2>3
    <3>2. CASE i <= k
      <4>1. r[i] = q[i] /\ i \in 1 .. n /\ i < j - 1
        BY <1>3, <1>7, <2>3, <3>2
      <4> QED  BY <1>2, <3>1, <4>1 DEF Ascending
    <3>3. CASE i = k + 1
      BY <1>3, <1>7, <3>1, <3>3
    <3>4. CASE i > k + 1
      <4>1. r[i] = q[i - 1] /\ i - 1 \in 1 .. n /\ i - 1 < j - 1
        BY <1>3, <1>7, <3>4
      <4> QED  BY <1>2, <3>1, <4>1 DEF Ascending
    <3> QED  BY <1>3, <3>2, <3>3, <3>4
  <2> QED  BY <1>3, <2>1, <2>2, <2>3
<1>9. \A x \in Elements(r) : x \in Elements(q) \/ x = m
  <2> SUFFICES ASSUME NEW i \in 1 .. n + 1
               PROVE  r[i] \in Elements(q) \/ r[i] = m
    BY <1>7 DEF Elements
  <2>1. CASE i <= k
    <3>1. r[i] = q[i] /\ i \in 1 .. Len(q)
      BY <1>2, <1>3, <1>7, <2>1
    <3> QED  BY <3>1 DEF Elements
  <2>2. CASE i = k + 1
    BY <1>7, <2>2
  <2>3. CASE i > k + 1
    <3>1. r[i] = q[i - 1] /\ i - 1 \in 1 .. Len(q)
      BY <1>2, <1>3, <1>7, <2>3
    <3> QED  BY <3>1 DEF Elements
  <2> QED  BY <1>3, <2>1, <2>2, <2>3
<1> QED  BY <1>1, <1>8, <1>9

LEMMA ErasedAscending ==
  ASSUME NEW q \in Seq(AnyMod), Ascending(q), NEW k \in 1 .. Len(q)
  PROVE  Ascending(Erased(q, k)) /\ Elements(Erased(q, k)) \subseteq Elements(q)
<1>1. PICK r : r = Erased(q, k)
  OBVIOUS
<1>2. /\ Len(r) = Len(q) - 1
      /\ \A i \in 1 .. Len(q) - 1 : r[i] = IF i < k THEN q[i] ELSE q[i + 1]
  <2>1. r = [j \in 1 .. Len(q) - 1 |-> IF j < k THEN q[j] ELSE q[j + 1]]
    BY <1>1 DEF Erased
  <2>2. Len(q) - 1 \in Nat
    OBVIOUS
  <2>3. Len(r) = Len(q) - 1
    BY <2>1, <2>2
  <2> QED  BY <2>1, <2>3
<1>3. Ascending(r)
  <2> SUFFICES ASSUME NEW i \in 1 .. Len(q) - 1, NEW j \in 1 .. Len(q) - 1, i < j
               PROVE  r[i].source < r[j].source
    BY <1>2 DEF Ascending
  <2>1. i \in 1 .. Len(q) /\ j \in 1 .. Len(q) /\ i + 1 \in 1 .. Len(q) /\ j + 1 \in 1 .. Len(q)
    OBVIOUS
  <2>2. CASE i < k
    BY <1>2, <2>1, <2>2 DEF Ascending
  <2>3. CASE ~(i < k)
    <3>1. r[i] = q[i + 1] /\ r[j] = q[j + 1] /\ i + 1 < j + 1
      BY <1>2, <2>3
    <3> QED  BY <2>1, <3>1 DEF Ascending
  <2> QED  BY <2>2, <2>3
<1>4. Elements(r) \subseteq Elements(q)
  <2> SUFFICES ASSUME NEW i \in 1 .. Len(q) - 1
               PROVE  r[i] \in Elements(q)
    BY <1>2 DEF Elements
  <2>1. i \in 1 .. Len(q) /\ i + 1 \in 1 .. Len(q)
    OBVIOUS
  <2> QED  BY <1>2, <2>1 DEF Elements
<1> QED  BY <1>1, <1>3, <1>4

LEMMA TidySourced ==
  ASSUME NEW s \in Stat, NEW e \in Entry, Tidy(s, e), NEW field \in {"mults", "overrides"},
         NEW q, Ascending(q),
         \A x \in Elements(q) : x \in Elements(e[field]) \/ ~Has(e.conditionals, x.source)
  PROVE  Tidy(s, [e EXCEPT ![field] = q])
<1>1. Apart(q, e.conditionals)
  <2> SUFFICES ASSUME NEW x \in Elements(q), NEW y \in Elements(e.conditionals)
               PROVE  x.source # y.source
    BY DEF Apart
  <2>1. CASE x \in Elements(e[field])
    BY <2>1 DEF Tidy, Apart
  <2>2. CASE ~Has(e.conditionals, x.source)
    BY <2>2 DEF Has, Elements
  <2> QED  BY <2>1, <2>2
<1>2. PICK f : f = [e EXCEPT ![field] = q]
  OBVIOUS
<1>3. CASE field = "mults"
  <2>1. f.mults = q /\ f.overrides = e.overrides /\ f.conditionals = e.conditionals
    BY <1>2, <1>3 DEF Entry
  <2> QED  BY <1>1, <1>2, <2>1 DEF Tidy
<1>4. CASE field = "overrides"
  <2>1. f.overrides = q /\ f.mults = e.mults /\ f.conditionals = e.conditionals
    BY <1>2, <1>4 DEF Entry
  <2> QED  BY <1>1, <1>2, <2>1 DEF Tidy
<1> QED  BY <1>3, <1>4

LEMMA TidyConditionals ==
  ASSUME NEW s \in Stat, NEW e \in Entry, Tidy(s, e), NEW q, Ascending(q),
         \A x \in Elements(q) :
           /\ Allowed(x.cond, s)
           /\ \/ \E y \in Elements(e.conditionals) : y.source = x.source
              \/ ~Has(e.mults, x.source) /\ ~Has(e.overrides, x.source)
  PROVE  Tidy(s, [e EXCEPT !.conditionals = q])
<1>1. PICK f : f = [e EXCEPT !.conditionals = q]
  OBVIOUS
<1>2. f.overrides = e.overrides /\ f.mults = e.mults /\ f.conditionals = q
  BY <1>1 DEF Entry
<1>3. Apart(e.mults, q) /\ Apart(e.overrides, q)
  <2>1. ASSUME NEW y \in Elements(q)
        PROVE  /\ \A x \in Elements(e.mults) : x.source # y.source
               /\ \A x \in Elements(e.overrides) : x.source # y.source
    <3>1. CASE \E z \in Elements(e.conditionals) : z.source = y.source
      BY <3>1 DEF Tidy, Apart
    <3>2. CASE ~Has(e.mults, y.source) /\ ~Has(e.overrides, y.source)
      BY <3>2 DEF Has, Elements
    <3> QED  BY <3>1, <3>2
  <2> QED  BY <2>1 DEF Apart
<1>4. \A i \in 1 .. Len(q) : Allowed(q[i].cond, s)
  BY DEF Elements
<1> QED  BY <1>1, <1>2, <1>3, <1>4 DEF Tidy

LEMMA OneEntryTidy ==
  ASSUME StatInv, TidyInv, NEW s \in Stat, NEW e, entries' = [entries EXCEPT ![s] = e], Tidy(s, e)
  PROVE  TidyInv'
<1>1. entries \in [Stat -> Entry]
  BY DEF StatInv, TypeInv
<1>2. \A x \in Stat : Tidy(x, entries'[x])
  <2> SUFFICES ASSUME NEW x \in Stat
               PROVE  Tidy(x, entries'[x])
    OBVIOUS
  <2>1. CASE x = s
    <3>1. entries'[x] = e
      BY <1>1, <2>1
    <3> QED  BY <2>1, <3>1
  <2>2. CASE x # s
    <3>1. entries'[x] = entries[x]
      BY <1>1, <2>2
    <3> QED  BY <3>1 DEF TidyInv
  <2> QED  BY <2>1, <2>2
<1> QED  BY <1>2 DEF TidyInv

LEMMA AccumulateTidy ==
  ASSUME StatInv, TidyInv, NEW s \in Stat, NEW a \in Additions, Accumulate(s, a[1], a[2])
  PROVE  TidyInv'
<1>1. a[1] \in {"accumFlat", "accumPctAdd"}
  BY StatAssumption DEF StatAssumption
<1>2. PICK e : e = [entries[s] EXCEPT ![a[1]] = @ + a[2]]
  OBVIOUS
<1>3. entries[s] \in Entry /\ Tidy(s, entries[s])
  BY DEF StatInv, TypeInv, TidyInv
<1>4. /\ e.mults = entries[s].mults /\ e.overrides = entries[s].overrides
      /\ e.conditionals = entries[s].conditionals
  BY <1>1, <1>2, <1>3 DEF Entry
<1>5. Tidy(s, e)
  BY <1>3, <1>4 DEF Tidy
<1>6. entries' = [entries EXCEPT ![s] = e]
  BY <1>2 DEF Accumulate, Change
<1> QED  BY <1>5, <1>6, OneEntryTidy

LEMMA AddSourcedTidy ==
  ASSUME StatInv, TidyInv, NEW s \in Stat, NEW field \in {"mults", "overrides"}, NEW i \in Source,
         AddSourced(s, field, i)
  PROVE  TidyInv'
<1>1. PICK e \in Entry : e = entries[s]
  BY DEF StatInv, TypeInv
<1>2. Tidy(s, e)
  BY <1>1 DEF TidyInv
<1>3. PICK m : m = [source |-> i, value |-> Amount[i]]
  OBVIOUS
<1>4. m \in AnyMod /\ m.source = i
  BY <1>3, StatAssumption DEF StatAssumption, SourcedMod, AnyMod
<1>5. e[field] \in Seq(AnyMod) /\ Ascending(e[field])
  BY <1>2, VectorTypes DEF Tidy
<1>6. ~Has(e[field], i) /\ ~Has(e.conditionals, i)
  BY <1>1 DEF AddSourced, Fresh
<1>7. PICK k \in Places(e[field], i) :
        entries' = [entries EXCEPT ![s] = [e EXCEPT ![field] = Inserted(e[field], k, m)]]
  BY <1>1, <1>3 DEF AddSourced, Change
<1>8. PICK q : q = Inserted(e[field], k, m)
  OBVIOUS
<1>9. Ascending(q) /\ \A x \in Elements(q) : x \in Elements(e[field]) \/ x = m
  BY <1>4, <1>5, <1>6, <1>7, <1>8, InsertedAscending
<1>10. Tidy(s, [e EXCEPT ![field] = q])
  <2>1. \A x \in Elements(q) : x \in Elements(e[field]) \/ ~Has(e.conditionals, x.source)
    BY <1>4, <1>6, <1>9
  <2> QED  BY <1>2, <1>9, <2>1, TidySourced
<1> QED  BY <1>7, <1>8, <1>10, OneEntryTidy

LEMMA RemoveSourcedTidy ==
  ASSUME StatInv, TidyInv, NEW s \in Stat, NEW field \in {"mults", "overrides"}, NEW i,
         RemoveSourced(s, field, i)
  PROVE  TidyInv'
<1>1. PICK e \in Entry : e = entries[s]
  BY DEF StatInv, TypeInv
<1>2. Tidy(s, e)
  BY <1>1 DEF TidyInv
<1>3. e[field] \in Seq(AnyMod) /\ Ascending(e[field])
  BY <1>2, VectorTypes DEF Tidy
<1>4. i \in 1 .. Len(e[field])
  BY <1>1 DEF RemoveSourced
<1>5. PICK q : q = Erased(e[field], i)
  OBVIOUS
<1>6. entries' = [entries EXCEPT ![s] = [e EXCEPT ![field] = q]]
  BY <1>1, <1>5 DEF RemoveSourced, Change
<1>7. Ascending(q) /\ Elements(q) \subseteq Elements(e[field])
  BY <1>3, <1>4, <1>5, ErasedAscending
<1>8. Tidy(s, [e EXCEPT ![field] = q])
  <2>1. \A x \in Elements(q) : x \in Elements(e[field]) \/ ~Has(e.conditionals, x.source)
    BY <1>7
  <2> QED  BY <1>2, <1>7, <2>1, TidySourced
<1> QED  BY <1>6, <1>8, OneEntryTidy

LEMMA AddConditionalTidy ==
  ASSUME StatInv, TidyInv, NEW s \in Stat, NEW i \in Source, NEW op \in Ops, NEW c \in Conditions,
         AddConditional(s, i, op, c)
  PROVE  TidyInv'
<1>1. PICK e \in Entry : e = entries[s]
  BY DEF StatInv, TypeInv
<1>2. Tidy(s, e)
  BY <1>1 DEF TidyInv
<1>3. PICK h : h = Holds(c, tick, Permille(corruption), target, FALSE)
  OBVIOUS
<1>4. h \in BOOLEAN
  <2>1. tick \in Int
    BY DEF StatInv, TypeInv
  <2> QED  BY <1>3, <2>1, HoldsIsBoolean
<1>5. PICK m : m = [source |-> i, value |-> Amount[i], cond |-> c, op |-> op, active |-> h]
  OBVIOUS
<1>6. m \in AnyMod /\ m.source = i /\ m.cond = c
  <2>1. Amount[i] \in Int
    BY StatAssumption DEF StatAssumption
  <2> QED  BY <1>4, <1>5, <2>1 DEF ConditionalMod, AnyMod
<1>7. e.conditionals \in Seq(AnyMod) /\ Ascending(e.conditionals)
  BY <1>2, VectorTypes DEF Tidy
<1>8. /\ ~Has(e.mults, i) /\ ~Has(e.overrides, i) /\ ~Has(e.conditionals, i)
      /\ Allowed(c, s)
  BY <1>1 DEF AddConditional, Fresh
<1>9. PICK k \in Places(e.conditionals, i) :
        entries' = [entries EXCEPT ![s] = [e EXCEPT !.conditionals = Inserted(e.conditionals, k, m)]]
  BY <1>1, <1>3, <1>5 DEF AddConditional
<1>10. PICK q : q = Inserted(e.conditionals, k, m)
  OBVIOUS
<1>11. Ascending(q) /\ \A x \in Elements(q) : x \in Elements(e.conditionals) \/ x = m
  BY <1>6, <1>7, <1>8, <1>9, <1>10, InsertedAscending
<1>12. \A x \in Elements(e.conditionals) : Allowed(x.cond, s)
  BY <1>2 DEF Tidy, Elements
<1>13. Tidy(s, [e EXCEPT !.conditionals = q])
  <2>1. ASSUME NEW x \in Elements(q)
        PROVE  /\ Allowed(x.cond, s)
               /\ \/ \E y \in Elements(e.conditionals) : y.source = x.source
                  \/ ~Has(e.mults, x.source) /\ ~Has(e.overrides, x.source)
    <3>1. CASE x = m
      BY <1>6, <1>8, <3>1
    <3>2. CASE x \in Elements(e.conditionals)
      BY <1>12, <3>2
    <3> QED  BY <1>11, <3>1, <3>2
  <2> QED  BY <1>2, <1>11, <2>1, TidyConditionals
<1> QED  BY <1>9, <1>10, <1>13, OneEntryTidy

LEMMA RemoveConditionalTidy ==
  ASSUME StatInv, TidyInv, NEW s \in Stat, NEW i, RemoveConditional(s, i)
  PROVE  TidyInv'
<1>1. PICK e \in Entry : e = entries[s]
  BY DEF StatInv, TypeInv
<1>2. Tidy(s, e)
  BY <1>1 DEF TidyInv
<1>3. e.conditionals \in Seq(AnyMod) /\ Ascending(e.conditionals)
  BY <1>2, VectorTypes DEF Tidy
<1>4. i \in 1 .. Len(e.conditionals)
  BY <1>1 DEF RemoveConditional
<1>5. PICK q : q = Erased(e.conditionals, i)
  OBVIOUS
<1>6. entries' = [entries EXCEPT ![s] = [e EXCEPT !.conditionals = q]]
  BY <1>1, <1>5 DEF RemoveConditional, Change
<1>7. Ascending(q) /\ Elements(q) \subseteq Elements(e.conditionals)
  BY <1>3, <1>4, <1>5, ErasedAscending
<1>8. \A x \in Elements(q) : Allowed(x.cond, s) /\ \E y \in Elements(e.conditionals) : y.source = x.source
  BY <1>2, <1>7 DEF Tidy, Elements
<1>9. Tidy(s, [e EXCEPT !.conditionals = q])
  BY <1>2, <1>7, <1>8, TidyConditionals
<1> QED  BY <1>6, <1>9, OneEntryTidy

(* A refresh switches modifiers, and moves none.                           *)
LEMMA RefreshedAlike ==
  ASSUME NEW q \in Seq(ConditionalMod), NEW kinds, NEW t, NEW permille, NEW arch
  PROVE  LET r == Refreshed(q, kinds, t, permille, arch)
         IN  /\ Len(r) = Len(q)
             /\ \A i \in 1 .. Len(q) : r[i].source = q[i].source /\ r[i].cond = q[i].cond
<1>1. PICK r : r = Refreshed(q, kinds, t, permille, arch)
  OBVIOUS
<1>2. Len(r) = Len(q) /\ \A i \in 1 .. Len(q) :
         r[i] = IF q[i].cond.kind \in kinds
                THEN [q[i] EXCEPT !.active = Holds(q[i].cond, t, permille, arch, q[i].active)]
                ELSE q[i]
  BY <1>1 DEF Refreshed
<1>3. \A i \in 1 .. Len(q) : r[i].source = q[i].source /\ r[i].cond = q[i].cond
  <2> SUFFICES ASSUME NEW i \in 1 .. Len(q)
               PROVE  r[i].source = q[i].source /\ r[i].cond = q[i].cond
    OBVIOUS
  <2>1. q[i] \in ConditionalMod
    OBVIOUS
  <2>2. PICK h : h = Holds(q[i].cond, t, permille, arch, q[i].active)
    OBVIOUS
  <2>3. [q[i] EXCEPT !.active = h].source = q[i].source /\ [q[i] EXCEPT !.active = h].cond = q[i].cond
    BY <2>1 DEF ConditionalMod
  <2>4. r[i] = [q[i] EXCEPT !.active = h] \/ r[i] = q[i]
    BY <1>2, <2>2
  <2> QED  BY <2>3, <2>4
<1> QED  BY <1>1, <1>2, <1>3

LEMMA RefreshTidy ==
  ASSUME StatInv, TidyInv, NEW kinds, NEW t, NEW permille, NEW arch, Refresh(kinds, t, permille, arch)
  PROVE  TidyInv'
<1> SUFFICES ASSUME NEW s \in Stat
             PROVE  Tidy(s, entries'[s])
  BY DEF TidyInv
<1>1. PICK e \in Entry : e = entries[s]
  BY DEF StatInv, TypeInv
<1>2. Tidy(s, e)
  BY <1>1 DEF TidyInv
<1>3. PICK q : q = Refreshed(e.conditionals, kinds, t, permille, arch)
  OBVIOUS
<1>4. entries'[s] \in {e, [e EXCEPT !.conditionals = q]}
  BY <1>1, <1>3 DEF Refresh
<1>5. /\ Len(q) = Len(e.conditionals)
      /\ \A i \in 1 .. Len(q) : q[i].source = e.conditionals[i].source /\ q[i].cond = e.conditionals[i].cond
  BY <1>3, VectorTypes, RefreshedAlike
<1>6. Ascending(q)
  BY <1>2, <1>5 DEF Tidy, Ascending
<1>7. \A x \in Elements(q) : Allowed(x.cond, s) /\ \E y \in Elements(e.conditionals) : y.source = x.source
  BY <1>2, <1>5 DEF Tidy, Elements
<1>8. Tidy(s, [e EXCEPT !.conditionals = q])
  BY <1>2, <1>6, <1>7, TidyConditionals
<1> QED  BY <1>2, <1>4, <1>8

LEMMA TidyStep ==
  ASSUME StatInv, TidyInv, [Next]_vars
  PROVE  TidyInv'
<1>1. CASE entries' = entries
  BY <1>1 DEF TidyInv
<1>2. CASE BeginTick
  <2>1. CASE tick' < nextExpiry
    BY <1>1, <1>2, <2>1 DEF BeginTick
  <2>2. CASE ~(tick' < nextExpiry)
    BY <1>2, <2>2, RefreshTidy DEF BeginTick
  <2> QED  BY <2>1, <2>2
<1>3. CASE RefreshAll
  BY <1>3, RefreshTidy DEF RefreshAll
<1>4. CASE TargetGone
  BY <1>1, <1>4 DEF TargetGone
<1>5. ASSUME NEW g \in Gauges, MoveGauge(g)
      PROVE  TidyInv'
  BY <1>5, RefreshTidy DEF MoveGauge
<1>6. ASSUME NEW a \in Targets, ChangeTarget(a)
      PROVE  TidyInv'
  BY <1>6, RefreshTidy DEF ChangeTarget
<1>7. ASSUME NEW s \in Stat, Read(s)
      PROVE  TidyInv'
  BY <1>1, <1>7 DEF Read
<1>8. ASSUME NEW s \in Stat, NEW a \in Additions, Accumulate(s, a[1], a[2])
      PROVE  TidyInv'
  BY <1>8, AccumulateTidy
<1>9. ASSUME NEW s \in Stat, NEW field \in {"mults", "overrides"}, NEW i \in Source,
             AddSourced(s, field, i)
      PROVE  TidyInv'
  BY <1>9, AddSourcedTidy
<1>10. ASSUME NEW s \in Stat, NEW field \in {"mults", "overrides"}, NEW i, RemoveSourced(s, field, i)
       PROVE  TidyInv'
  BY <1>10, RemoveSourcedTidy
<1>11. ASSUME NEW s \in Stat, NEW i \in Source, NEW op \in Ops, NEW c \in Conditions,
              AddConditional(s, i, op, c)
       PROVE  TidyInv'
  BY <1>11, AddConditionalTidy
<1>12. ASSUME NEW s \in Stat, NEW i, RemoveConditional(s, i)
       PROVE  TidyInv'
  BY <1>12, RemoveConditionalTidy
<1>13. CASE UNCHANGED vars
  BY <1>1, <1>13 DEF vars
<1> QED  BY <1>2, <1>3, <1>4, <1>5, <1>6, <1>7, <1>8, <1>9, <1>10, <1>11, <1>12, <1>13 DEF Next

THEOREM StatTidy == Spec => []TidyInv
<1>1. Init => TidyInv
  <2> SUFFICES ASSUME Init, NEW s \in Stat
               PROVE  Tidy(s, entries[s])
    BY DEF TidyInv
  <2>1. entries[s] = Empty(Base[s])
    BY DEF Init
  <2>2. /\ entries[s].mults = <<>> /\ entries[s].overrides = <<>> /\ entries[s].conditionals = <<>>
    BY <2>1 DEF Empty
  <2>3. Len(<<>>) = 0 /\ 1 .. 0 = {}
    OBVIOUS
  <2>4. Ascending(<<>>) /\ Elements(<<>>) = {}
    BY <2>3 DEF Ascending, Elements
  <2>5. Apart(<<>>, <<>>)
    BY <2>4 DEF Apart
  <2> QED  BY <2>2, <2>3, <2>4, <2>5 DEF Tidy
<1>2. StatInv /\ TidyInv /\ [Next]_vars => TidyInv'
  BY TidyStep
<1> QED  BY <1>1, <1>2, StatInvariant, PTL DEF Spec

(* What a read returns is a function of the modifiers in force: neither    *)
(* the order of the operations, nor the merge of the two vectors, nor the  *)
(* cache shows (stat_block.h:302-342).                                     *)
THEOREM StatValueOfModifiers == Spec => []ValueOfModifiers
<1>1. CacheHonest /\ StatInv /\ TidyInv => ValueOfModifiers
  BY TidyGivesValues
<1> QED  BY <1>1, StatCacheHonest, StatInvariant, StatTidy, PTL

----------------------------------------------------------------------------
(* The gauge moves the thresholds, and no threshold moves the stat that    *)
(* the gauge is divided by.                                                *)

LEMMA RefreshedThreshold ==
  ASSUME NEW q \in Seq(ConditionalMod), NEW i \in 1 .. Len(q), NEW t, NEW permille \in Int, NEW arch,
         q[i].cond.kind = "CorruptionThreshold", q[i].cond.paramB <= q[i].cond.paramA
  PROVE  LET m == Refreshed(q, {"CorruptionThreshold"}, t, permille, arch)[i]
         IN  IF m.active THEN permille >= m.cond.paramB ELSE permille < m.cond.paramA
<1>1. PICK n \in ConditionalMod : n = q[i]
  OBVIOUS
<1>2. /\ n.cond \in Conditions /\ n.active \in BOOLEAN
      /\ n.cond.paramA \in Int /\ n.cond.paramB \in Int
  BY <1>1, StatAssumption DEF ConditionalMod, StatAssumption
<1>3. PICK h \in BOOLEAN : h <=> permille >= n.cond.paramA \/ (permille >= n.cond.paramB /\ n.active)
  OBVIOUS
<1>4. h = Holds(n.cond, t, permille, arch, n.active)
  BY <1>1, <1>3 DEF Holds
<1>5. PICK m : m = [n EXCEPT !.active = h]
  OBVIOUS
<1>6. m.active = h /\ m.cond = n.cond
  BY <1>5 DEF ConditionalMod
<1>7. Refreshed(q, {"CorruptionThreshold"}, t, permille, arch)[i] = m
  BY <1>1, <1>4, <1>5 DEF Refreshed
<1>8. n.cond.paramB <= n.cond.paramA
  BY <1>1
<1>9. CASE h
  <2>1. permille >= n.cond.paramB
    BY <1>2, <1>3, <1>9, <1>8
  <2> QED  BY <1>6, <1>7, <1>9, <2>1
<1>10. CASE ~h
  <2>1. permille < n.cond.paramA
    BY <1>2, <1>3, <1>10
  <2> QED  BY <1>6, <1>7, <1>10, <2>1
<1> QED  BY <1>9, <1>10

LEMMA GaugeStep ==
  ASSUME CacheInv, CacheInv', StatInv, TidyInv, NEW g \in Gauges, MoveGauge(g),
         NEW s \in Stat, NEW i \in 1 .. Len(entries'[s].conditionals),
         entries'[s].conditionals[i].cond.kind = "CorruptionThreshold"
  PROVE  LET m == entries'[s].conditionals[i]
         IN  IF m.active THEN Permille(corruption)' >= m.cond.paramB
                         ELSE Permille(corruption)' < m.cond.paramA
<1> DEFINE kinds == {"CorruptionThreshold"}
<1>1. PICK permille : permille = Permille(g)
  OBVIOUS
<1>2. PICK e \in Entry : e = entries[s]
  BY DEF StatInv, TypeInv
<1>3. e.conditionals \in Seq(ConditionalMod) /\ Tidy(s, e)
  BY <1>2, VectorTypes DEF TidyInv
<1>4. PICK q : q = Refreshed(e.conditionals, kinds, tick, permille, target)
  OBVIOUS
<1>5. /\ entries'[s] = IF s \in usingKind["CorruptionThreshold"]
                       THEN [e EXCEPT !.conditionals = q] ELSE e
      /\ corruption' = g
  BY <1>1, <1>2, <1>4 DEF MoveGauge, Refresh
<1>6. /\ Len(q) = Len(e.conditionals)
      /\ \A j \in 1 .. Len(q) : q[j].cond = e.conditionals[j].cond
  BY <1>3, <1>4, RefreshedAlike
<1>7. [e EXCEPT !.conditionals = q].conditionals = q
  BY DEF Entry
<1>8. /\ i \in 1 .. Len(e.conditionals)
      /\ e.conditionals[i].cond.kind = "CorruptionThreshold"
  BY <1>5, <1>6, <1>7
<1>9. s \in usingKind["CorruptionThreshold"]
  BY <1>2, <1>8 DEF StatInv, Watched, Found
<1>10. entries'[s].conditionals = q
  BY <1>5, <1>7, <1>9
<1>11. e.conditionals[i].cond.paramB <= e.conditionals[i].cond.paramA
  BY <1>3, <1>8 DEF Tidy, Allowed
<1>12. Value(CorruptionMax)' = Value(CorruptionMax) /\ Value(CorruptionMax) \in Int
  <2>1. CorruptionMax \in Stat
    BY StatAssumption DEF StatAssumption
  <2>2. PICK f \in Entry : f = entries[CorruptionMax]
    BY <2>1 DEF StatInv, TypeInv
  <2>3. Tidy(CorruptionMax, f)
    BY <2>1, <2>2 DEF TidyInv
  <2>4. \A j \in 1 .. Len(f.conditionals) : f.conditionals[j].cond.kind # "CorruptionThreshold"
    BY <2>3 DEF Tidy, Allowed
  <2>5. PICK r : r = Refreshed(f.conditionals, kinds, tick, permille, target)
    OBVIOUS
  <2>6. r = f.conditionals
    <3>1. r = [j \in 1 .. Len(f.conditionals) |-> f.conditionals[j]]
      BY <2>4, <2>5 DEF Refreshed
    <3>2. f.conditionals \in Seq(ConditionalMod)
      BY VectorTypes
    <3> QED  BY <3>1, <3>2
  <2>7. [f EXCEPT !.conditionals = r] = f
    BY <2>6 DEF Entry
  <2>8. entries'[CorruptionMax] = f
    <3>1. entries'[CorruptionMax] \in {f, [f EXCEPT !.conditionals = r]}
      BY <1>1, <2>1, <2>2, <2>5 DEF MoveGauge, Refresh
    <3> QED  BY <2>7, <3>1
  <2>9. Value(CorruptionMax) = Compute(CorruptionMax, f)
    BY <2>1, <2>2, ValueIsComputed DEF CacheInv
  <2>10. CorruptionMax \in Stat => Value(CorruptionMax)' = Compute(CorruptionMax, entries'[CorruptionMax])
    <3>1. cache'[CorruptionMax] # <<>> => cache'[CorruptionMax] = <<Compute(CorruptionMax, entries'[CorruptionMax])>>
      BY <2>1 DEF CacheInv, CacheHonest
    <3>2. \A x : <<x>>[1] = x
      OBVIOUS
    <3> QED  BY <3>1, <3>2 DEF Value
  <2>11. Compute(CorruptionMax, f) \in Int
    BY <2>1, <2>3, ComputeOfMarks
  <2> QED  BY <2>1, <2>8, <2>9, <2>10, <2>11
<1>13. Permille(corruption)' = permille /\ permille \in Int
  <2>1. PICK max \in Int : max = Value(CorruptionMax)
    BY <1>12
  <2>2. permille = IF max <= 0 THEN 1000 ELSE (g * 1000) \div max
    BY <1>1, <2>1 DEF Permille
  <2>3. Permille(corruption)' = IF max <= 0 THEN 1000 ELSE (g * 1000) \div max
    BY <1>5, <1>12, <2>1 DEF Permille
  <2>4. permille \in Int
    <3>1. g * 1000 \in Int
      BY StatAssumption DEF StatAssumption
    <3>2. max > 0 => (g * 1000) \div max \in Int
      BY <3>1
    <3> QED  BY <2>2, <3>2
  <2> QED  BY <2>2, <2>3, <2>4
<1>14. PICK m : m = q[i]
  OBVIOUS
<1>15. IF m.active THEN permille >= m.cond.paramB ELSE permille < m.cond.paramA
  BY <1>3, <1>4, <1>8, <1>11, <1>13, <1>14, RefreshedThreshold
<1> QED  BY <1>10, <1>13, <1>14, <1>15

(* A threshold is on only at or above its lower line and off only below    *)
(* its upper one, after every move of the gauge (condition.h, the two      *)
(* lines of CorruptionThreshold), whatever the stat it is on.              *)
THEOREM StatThresholdsFollow == Spec => ThresholdsFollowGauge
<1> DEFINE A == corruption' # corruption =>
                  \A s \in Stat : \A i \in 1 .. Len(entries'[s].conditionals) :
                    LET m == entries'[s].conditionals[i]
                    IN  m.cond.kind = "CorruptionThreshold" =>
                          IF m.active THEN Permille(corruption)' >= m.cond.paramB
                                      ELSE Permille(corruption)' < m.cond.paramA
<1>1. ASSUME Next, corruption' # corruption PROVE \E g \in Gauges : MoveGauge(g)
  <2>1. ASSUME BeginTick \/ RefreshAll \/ TargetGone PROVE corruption' = corruption
    BY <2>1 DEF BeginTick, RefreshAll, TargetGone, worldVars
  <2>2. ASSUME NEW a, ChangeTarget(a) PROVE corruption' = corruption
    BY <2>2 DEF ChangeTarget
  <2>3. ASSUME NEW s, NEW b, NEW v, Read(s) \/ Accumulate(s, b, v) PROVE corruption' = corruption
    BY <2>3 DEF Read, Accumulate, worldVars
  <2>4. ASSUME NEW s, NEW f, NEW i, AddSourced(s, f, i) \/ RemoveSourced(s, f, i)
        PROVE  corruption' = corruption
    BY <2>4 DEF AddSourced, RemoveSourced, worldVars
  <2>5. ASSUME NEW s, NEW i, NEW op, NEW c, AddConditional(s, i, op, c) \/ RemoveConditional(s, i)
        PROVE  corruption' = corruption
    BY <2>5 DEF AddConditional, RemoveConditional, worldVars
  <2> QED  BY <1>1, <2>1, <2>2, <2>3, <2>4, <2>5 DEF Next
<1>2. CacheInv /\ CacheInv' /\ StatInv /\ TidyInv /\ [Next]_vars => [A]_vars
  <2> SUFFICES ASSUME CacheInv, CacheInv', StatInv, TidyInv, Next, corruption' # corruption,
                      NEW s \in Stat, NEW i \in 1 .. Len(entries'[s].conditionals),
                      entries'[s].conditionals[i].cond.kind = "CorruptionThreshold"
               PROVE  LET m == entries'[s].conditionals[i]
                      IN  IF m.active THEN Permille(corruption)' >= m.cond.paramB
                                      ELSE Permille(corruption)' < m.cond.paramA
    BY DEF vars, worldVars
  <2>1. PICK g \in Gauges : MoveGauge(g)
    BY <1>1
  <2> QED  BY <2>1, GaugeStep
<1>3. Spec => []CacheInv
  BY StatCacheInvariant
<1>4. ThresholdsFollowGauge <=> [][A]_vars
  BY DEF ThresholdsFollowGauge
<1> QED  BY <1>2, <1>3, <1>4, StatInvariant, StatTidy, PTL DEF Spec
=============================================================================
