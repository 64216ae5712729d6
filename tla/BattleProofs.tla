----------------------------- MODULE BattleProofs -------------------------
(* What is proved of the battle: of the grid and the choice of the target  *)
(* (Field), of the streaks (Prd), of what a strike does to a row and what  *)
(* the calls of a system do one after the other (Strikes), and of the      *)
(* order in which the systems run (Battle).  The order of the module:      *)
(*   1. arithmetic, enumerations, sums;                                    *)
(*   2. targeting and separation;                                          *)
(*   3. the types of the battle, call by call and system by system;        *)
(*   4. kills, dots, leech and the rings of the centrifuge.                *)
EXTENDS Battle, FiniteSetTheorems, SequenceTheorems, WellFoundedInduction, TLAPS

(* Every set of numbers that is not empty has a least one.                 *)
LEMMA LeastNatural ==
  ASSUME NEW T \in SUBSET Nat, T # {}
  PROVE  \E x \in T : \A y \in T : x <= y
<1>1. PICK x \in T : \A y \in T : ~ (<<y, x>> \in OpToRel(<, Nat))
  BY WFMin, NatLessThanWellFounded, Zenon
<1>2. ASSUME NEW y \in T PROVE x <= y
  <2>1. <<y, x>> \in Nat \X Nat /\ ~(<<y, x>> \in {ss \in Nat \X Nat : ss[1] < ss[2]})
    BY <1>1 DEF OpToRel
  <2> QED  BY <2>1
<1> QED  BY <1>2

(* Induction over a set of numbers.                                        *)
LEMMA SetInduction ==
  ASSUME NEW T, NEW n \in Nat, 0 \in T, \A k \in 0 .. n - 1 : k \in T => k + 1 \in T
  PROVE  \A k \in 0 .. n : k \in T
<1> DEFINE out == {k \in 0 .. n : k \notin T}
<1> SUFFICES ASSUME out # {} PROVE FALSE
  OBVIOUS
<1>0. out \in SUBSET Nat
  OBVIOUS
<1>1. PICK x \in out : \A y \in out : x <= y
  <2> HIDE DEF out
  <2> QED  BY <1>0, LeastNatural
<1>2. x # 0 /\ x \in Nat /\ x <= n
  BY <1>1
<1>3. x - 1 \in 0 .. n - 1 /\ x - 1 \in T
  BY <1>1, <1>2
<1> QED  BY <1>1, <1>2, <1>3

(* Dividing rounds down.                                                   *)
LEMMA DivBounds ==
  ASSUME NEW a \in Nat, NEW b \in Nat \ {0}
  PROVE  a \div b \in Nat /\ (a \div b) * b <= a /\ a < (a \div b) * b + b
  OBVIOUS

(* The truncated quotient of two integers is one.                          *)
LEMMA QuotInt ==
  ASSUME NEW a \in Int, NEW b \in Int, b # 0
  PROVE  Quot(a, b) \in Int
<1>1. Abs(a) \in Nat /\ Abs(b) \in Nat \ {0}
  BY DEF Abs
<1>2. Abs(a) \div Abs(b) \in Nat
  BY <1>1, DivBounds
<1> QED  BY <1>2 DEF Quot

(* Squares are in the order of what they are the squares of.               *)
LEMMA SquareMonotone ==
  ASSUME NEW a \in Nat, NEW b \in Nat
  PROVE  (a <= b) <=> (a * a <= b * b)
  OBVIOUS

(* The root that dist takes is the greatest whose square is not above its  *)
(* argument.                                                               *)
LEMMA IsqrtFloor ==
  ASSUME NEW n \in Nat
  PROVE  /\ Isqrt(n) \in Nat
         /\ Isqrt(n) * Isqrt(n) <= n
         /\ (Isqrt(n) + 1) * (Isqrt(n) + 1) > n
<1> DEFINE T == {r \in Nat : (r + 1) * (r + 1) > n}
<1>1. n \in T
  OBVIOUS
<1>2. PICK r \in T : \A y \in T : r <= y
  BY <1>1, LeastNatural
<1>3. r \in 0 .. n
  BY <1>1, <1>2
<1>4. r * r <= n
  <2>1. CASE r = 0
    BY <2>1
  <2>2. CASE r # 0
    <3>1. r - 1 \in Nat /\ r - 1 \notin T
      BY <2>2, <1>2
    <3> QED  BY <3>1, <1>3
  <2> QED  BY <2>1, <2>2
<1>5. \E s \in 0 .. n : s * s <= n /\ (s + 1) * (s + 1) > n
  BY <1>2, <1>3, <1>4
<1>6. Isqrt(n) \in 0 .. n /\ Isqrt(n) * Isqrt(n) <= n /\ (Isqrt(n) + 1) * (Isqrt(n) + 1) > n
  BY <1>5, Zenon DEF Isqrt
<1> QED  BY <1>6

(* Rows that are ranked by keys that tell them apart come each once, the   *)
(* smaller key first.                                                      *)
LEMMA RankedEnumerates ==
  ASSUME NEW S, IsFiniteSet(S), NEW key \in [S -> Int],
         \A e, f \in S : key[e] = key[f] => e = f
  PROVE  /\ Cardinality(S) \in Nat
         /\ Ranked(S, key) \in [1 .. Cardinality(S) -> S]
         /\ \A e \in S : \E k \in 1 .. Cardinality(S) : Ranked(S, key)[k] = e
         /\ \A j, k \in 1 .. Cardinality(S) :
              j < k => key[Ranked(S, key)[j]] < key[Ranked(S, key)[k]]
<1> DEFINE n == Cardinality(S)
           below(e) == {f \in S : key[f] < key[e]}
           pos == [e \in S |-> Cardinality(below(e)) + 1]
<1>1. n \in Nat
  BY FS_CardinalityType
<1>2. ASSUME NEW e \in S PROVE IsFiniteSet(below(e)) /\ Cardinality(below(e)) \in 0 .. n - 1
  <2>1. IsFiniteSet(S \ {e}) /\ Cardinality(S \ {e}) = n - 1
    BY FS_RemoveElement
  <2>2. below(e) \in SUBSET (S \ {e})
    OBVIOUS
  <2>3. IsFiniteSet(below(e)) /\ Cardinality(below(e)) <= n - 1
    BY <2>1, <2>2, FS_Subset
  <2>4. Cardinality(below(e)) \in Nat
    BY <2>3, FS_CardinalityType
  <2> QED  BY <2>3, <2>4, <1>1
<1>3. pos \in [S -> 1 .. n]
  <2>1. \A e \in S : Cardinality(below(e)) + 1 \in 1 .. n
    <3> HIDE DEF below, n
    <3> QED  BY <1>1, <1>2
  <2> QED  BY <2>1
<1>4. ASSUME NEW a \in S, NEW b \in S, key[a] < key[b] PROVE pos[a] < pos[b]
  <2>1. below(a) \cup {a} \in SUBSET below(b)
    BY <1>4
  <2>2. Cardinality(below(a) \cup {a}) = Cardinality(below(a)) + 1
    <3>1. a \notin below(a) /\ IsFiniteSet(below(a))
      BY <1>2
    <3> HIDE DEF below
    <3> QED  BY <3>1, FS_AddElement
  <2>3. Cardinality(below(a) \cup {a}) <= Cardinality(below(b))
    BY <2>1, <1>2, FS_Subset
  <2> HIDE DEF below
  <2> QED  BY <2>2, <2>3, <1>2
<1>5. \A a, b \in S : pos[a] = pos[b] => a = b
  <2> SUFFICES ASSUME NEW a \in S, NEW b \in S, pos[a] = pos[b], a # b PROVE FALSE
    OBVIOUS
  <2>1. key[a] < key[b] \/ key[b] < key[a]
    OBVIOUS
  <2> HIDE DEF pos
  <2> QED  BY <2>1, <1>4, <1>3
<1>6. \A k \in 1 .. n : \E e \in S : pos[e] = k
  <2>1. IsFiniteSet(1 .. n) /\ Cardinality(1 .. n) = n
    BY <1>1, FS_Interval
  <2>2. pos \in Injection(S, 1 .. n)
    BY <1>3, <1>5 DEF Injection, IsInjective
  <2>3. pos \in Surjection(S, 1 .. n)
    BY <2>1, <2>2, FS_Injection
  <2> QED  BY <2>3 DEF Surjection
<1>7. ASSUME NEW k \in 1 .. n
      PROVE  Ranked(S, key)[k] \in S /\ pos[Ranked(S, key)[k]] = k
  <2>1. \A e \in S : pos[e] = k <=> Cardinality(below(e)) = k - 1
    <3>1. \A e \in S : pos[e] = Cardinality(below(e)) + 1
      OBVIOUS
    <3> HIDE DEF below, pos, n
    <3> QED  BY <3>1, <1>1, <1>2
  <2>2. \E e \in S : Cardinality(below(e)) = k - 1
    BY <1>6, <2>1
  <2>3. Ranked(S, key)[k] = CHOOSE e \in S : Cardinality(below(e)) = k - 1
    BY DEF Ranked
  <2> HIDE DEF below, pos
  <2> QED  BY <2>1, <2>2, <2>3
<1>8. Ranked(S, key) \in [1 .. n -> S]
  BY <1>7 DEF Ranked
<1> HIDE DEF pos, n
<1>9. \A e \in S : \E k \in 1 .. n : Ranked(S, key)[k] = e
  <2> TAKE e \in S
  <2>1. pos[e] \in 1 .. n
    BY <1>3
  <2> WITNESS pos[e] \in 1 .. n
  <2> QED  BY <2>1, <1>5, <1>7
<1>10. ASSUME NEW j \in 1 .. n, NEW k \in 1 .. n, j < k
       PROVE  key[Ranked(S, key)[j]] < key[Ranked(S, key)[k]]
  <2> DEFINE a == Ranked(S, key)[j]
             b == Ranked(S, key)[k]
  <2>1. a \in S /\ b \in S /\ pos[a] = j /\ pos[b] = k
    BY <1>7
  <2> HIDE DEF a, b
  <2>2. key[a] < key[b] \/ key[b] < key[a] \/ key[a] = key[b]
    BY <2>1
  <2>3. ~(key[b] < key[a]) /\ key[a] # key[b]
    BY <2>1, <1>10, <1>4, <1>1
  <2> QED  BY <2>2, <2>3 DEF a, b
<1> QED  BY <1>1, <1>8, <1>9, <1>10 DEF n

---------------------------------------------------------------------------
(* Greatest elements, folds and sums.                                      *)

(* A finite set of numbers has its greatest.                               *)
LEMMA MaxIsLast ==
  ASSUME NEW n \in Nat, NEW s \in SUBSET (1 .. n), s # {}
  PROVE  Max(s) \in s /\ \A x \in s : x <= Max(s)
<1> DEFINE back == {k \in Nat : n - k \in s}
<1>1. PICK x \in s : TRUE
  OBVIOUS
<1>2. x \in 1 .. n
  BY <1>1
<1>3. n - x \in Nat /\ n - (n - x) = x
  BY <1>2
<1>4. n - x \in back
  BY <1>1, <1>3
<1>5. PICK b \in back : \A y \in back : b <= y
  BY <1>4, LeastNatural
<1>6. n - b \in s /\ b \in Nat
  BY <1>5
<1>7. ASSUME NEW y \in s PROVE y <= n - b
  <2>1. n - y \in Nat /\ n - (n - y) = y
    OBVIOUS
  <2>2. n - y \in back
    BY <2>1
  <2>3. b <= n - y
    BY <2>2, <1>5
  <2> QED  BY <2>1, <2>3, <1>6
<1>8. \E z \in s : \A y \in s : z >= y
  <2>1. \A y \in s : n - b >= y
    BY <1>6, <1>7
  <2> QED  BY <1>6, <2>1
<1>9. Max(s) \in s /\ \A y \in s : Max(s) >= y
  BY <1>8, Zenon DEF Max
<1>10. \A y \in s : y \in Int
  OBVIOUS
<1> QED  BY <1>9, <1>10

(* The numbers from 1 up to k, the greatest taken away.                    *)
LEMMA MaxOfPrefix ==
  ASSUME NEW k \in Nat, k # 0
  PROVE  1 .. k # {} /\ Max(1 .. k) = k /\ (1 .. k) \ {k} = 1 .. k - 1
<1>1. 1 .. k # {} /\ k \in 1 .. k
  OBVIOUS
<1>2. Max(1 .. k) \in 1 .. k /\ k <= Max(1 .. k)
  BY <1>1, MaxIsLast
<1> QED  BY <1>1, <1>2

(* g tells of every set of places what folding those places gives, where   *)
(* the step is a function of the value so far and the place.               *)
Folds(g, b, n, H) ==
  \A s \in SUBSET (1 .. n) : g[s] = IF s = {} THEN b ELSE H[<<g[s \ {Max(s)}], Max(s)>>]

(* Folding over the places of a loop is defined for every prefix of it:    *)
(* this is what the recursive definition of a fold means.                  *)
LEMMA FoldExists ==
  ASSUME NEW V, NEW b \in V, NEW n \in Nat, NEW H, H \in [V \X (1 .. n) -> V]
  PROVE  \E g \in [SUBSET (1 .. n) -> V] : Folds(g, b, n, H)
<1> DEFINE All == SUBSET (1 .. n)
           step(g, s) == IF s = {} THEN b ELSE H[<<g[s \ {Max(s)}], Max(s)>>]
           T == {m \in 0 .. n : \E g \in [All -> V] : \A s \in SUBSET (1 .. m) : g[s] = step(g, s)}
<1>1. 0 \in T
  <2>1. [s \in All |-> b] \in [All -> V] /\ \A s \in SUBSET (1 .. 0) : s = {}
    OBVIOUS
  <2>2. {} \in All
    OBVIOUS
  <2>3. \A s \in SUBSET (1 .. 0) : [t \in All |-> b][s] = step([t \in All |-> b], s)
    BY <2>1, <2>2
  <2> HIDE DEF All, step
  <2> QED  BY <2>1, <2>3
<1>2. ASSUME NEW m \in 0 .. n - 1, m \in T PROVE m + 1 \in T
  <2>1. PICK g \in [All -> V] : \A s \in SUBSET (1 .. m) : g[s] = step(g, s)
    BY <1>2
  <2> DEFINE h == [s \in All |-> IF s \in SUBSET (1 .. m) THEN g[s]
                                 ELSE IF s \in SUBSET (1 .. m + 1) THEN H[<<g[s \ {m + 1}], m + 1>>]
                                 ELSE b]
  <2>2. h \in [All -> V]
    <3>1. ASSUME NEW s \in All, s \in SUBSET (1 .. m + 1) PROVE H[<<g[s \ {m + 1}], m + 1>>] \in V
      <4>1. s \ {m + 1} \in All /\ m + 1 \in 1 .. n
        OBVIOUS
      <4>2. g[s \ {m + 1}] \in V
        BY <4>1
      <4> QED  BY <4>1, <4>2
    <3> QED  BY <3>1
  <2>3. ASSUME NEW s \in SUBSET (1 .. m + 1) PROVE h[s] = step(h, s)
    <3>0. s \in All
      OBVIOUS
    <3>1. CASE s \in SUBSET (1 .. m)
      <4>1. h[s] = g[s] /\ g[s] = step(g, s)
        BY <3>1, <3>0, <2>1
      <4>2. CASE s = {}
        BY <4>1, <4>2
      <4>3. CASE s # {}
        <5>1. Max(s) \in s
          BY <4>3, <3>0, MaxIsLast
        <5>2. s \ {Max(s)} \in All /\ s \ {Max(s)} \in SUBSET (1 .. m)
          BY <3>1, <3>0
        <5>3. h[s \ {Max(s)}] = g[s \ {Max(s)}]
          BY <5>2
        <5> QED  BY <4>1, <4>3, <5>3
      <4> QED  BY <4>2, <4>3
    <3>2. CASE s \notin SUBSET (1 .. m)
      <4>1. m + 1 \in s
        BY <3>2
      <4>2. s # {} /\ Max(s) \in s /\ \A x \in s : x <= Max(s)
        BY <4>1, <3>0, MaxIsLast
      <4>3. Max(s) = m + 1
        <5>1. Max(s) \in 1 .. m + 1 /\ m + 1 <= Max(s)
          BY <4>1, <4>2
        <5> QED  BY <5>1
      <4>4. s \ {m + 1} \in All /\ s \ {m + 1} \in SUBSET (1 .. m)
        BY <3>0
      <4>5. h[s] = H[<<g[s \ {m + 1}], m + 1>>]
        BY <3>2, <3>0
      <4>6. h[s \ {m + 1}] = g[s \ {m + 1}]
        BY <4>4
      <4> QED  BY <4>2, <4>3, <4>5, <4>6
    <3> QED  BY <3>1, <3>2
  <2> HIDE DEF h, step, All
  <2>4. m + 1 \in 0 .. n
    OBVIOUS
  <2> QED  BY <2>2, <2>3, <2>4
<1>3. n \in T
  <2> HIDE DEF T
  <2> QED  BY <1>1, <1>2, SetInduction
<1>4. PICK g \in [All -> V] : \A s \in All : g[s] = step(g, s)
  BY <1>3
<1> QED  BY <1>4 DEF Folds

(* The sum of a function's values, and the function of sets it is made by. *)
SumIter(f, S) ==
  CHOOSE g : g = [s \in SUBSET S |-> IF s = {} THEN 0
                                     ELSE f[CHOOSE x \in s : TRUE] + g[s \ {CHOOSE x \in s : TRUE}]]

(* A sum is what SumIter gives for the whole domain.                       *)
LEMMA SumUnfold ==
  ASSUME NEW S, NEW f, DOMAIN f = S
  PROVE  FoldFunction(+, 0, f) = SumIter(f, S)[S]
<1>1. FoldFunctionOnSet(+, 0, f, S) = SumIter(f, S)[S]
  BY Zenon DEF FoldFunctionOnSet, MapThenFoldSet, SumIter
<1> QED  BY <1>1, Zenon DEF FoldFunction

(* The recursive definition of the sum has the values it says.             *)
Summed(F, f, S) ==
  /\ F \in [SUBSET S -> Int]
  /\ \A s \in SUBSET S :
       F[s] = IF s = {} THEN 0 ELSE f[CHOOSE x \in s : TRUE] + F[s \ {CHOOSE x \in s : TRUE}]

LEMMA SumExists ==
  ASSUME NEW S, IsFiniteSet(S), NEW f \in [S -> Int]
  PROVE  Summed(SumIter(f, S), f, S)
<1> DEFINE All == SUBSET S
           some(s) == CHOOSE x \in s : TRUE
           step(g, s) == IF s = {} THEN 0 ELSE f[some(s)] + g[s \ {some(s)}]
           n == Cardinality(S)
           T == {m \in 0 .. n : \E g \in [All -> Int] :
                                  \A s \in All : Cardinality(s) <= m => g[s] = step(g, s)}
<1>0. n \in Nat /\ \A s \in All : IsFiniteSet(s) /\ Cardinality(s) \in 0 .. n
  BY FS_CardinalityType, FS_Subset
<1>1. \A s \in All : s # {} => /\ some(s) \in s /\ some(s) \in S /\ s \ {some(s)} \in All
                              /\ Cardinality(s \ {some(s)}) = Cardinality(s) - 1
  BY <1>0, FS_RemoveElement
<1>2. 0 \in T
  <2>1. [s \in All |-> 0] \in [All -> Int]
    OBVIOUS
  <2>2. \A s \in All : Cardinality(s) <= 0 => s = {}
    BY <1>0, FS_EmptySet
  <2>3. \A s \in All : Cardinality(s) <= 0 => [t \in All |-> 0][s] = step([t \in All |-> 0], s)
    BY <2>2
  <2> HIDE DEF All, step, n
  <2> QED  BY <2>1, <2>3, <1>0
<1> HIDE DEF some
<1>3. ASSUME NEW m \in 0 .. n - 1, m \in T PROVE m + 1 \in T
  <2>1. PICK g \in [All -> Int] : \A s \in All : Cardinality(s) <= m => g[s] = step(g, s)
    BY <1>3
  <2> DEFINE h == [s \in All |-> IF Cardinality(s) <= m THEN g[s] ELSE f[some(s)] + g[s \ {some(s)}]]
  <2>2. h \in [All -> Int]
    <3>1. ASSUME NEW s \in All, ~(Cardinality(s) <= m) PROVE f[some(s)] + g[s \ {some(s)}] \in Int
      <4>1. s # {}
        BY <3>1, <1>0, FS_EmptySet
      <4>2. some(s) \in S /\ s \ {some(s)} \in All
        BY <4>1, <1>1
      <4>3. f[some(s)] \in Int /\ g[s \ {some(s)}] \in Int
        BY <4>2
      <4> QED  BY <4>3
    <3> QED  BY <3>1
  <2>3. ASSUME NEW s \in All, Cardinality(s) <= m + 1 PROVE h[s] = step(h, s)
    <3>1. CASE s = {}
      <4>1. Cardinality(s) <= m /\ h[s] = g[s] /\ g[s] = 0
        BY <3>1, <2>1, FS_EmptySet
      <4> QED  BY <4>1, <3>1
    <3>2. CASE s # {}
      <4>0. Cardinality(s \ {some(s)}) = Cardinality(s) - 1 /\ Cardinality(s) \in Nat
        BY <3>2, <1>0, <1>1
      <4>1. s \ {some(s)} \in All /\ Cardinality(s \ {some(s)}) <= m
        BY <3>2, <1>1, <4>0, <2>3, <1>0
      <4>2. h[s \ {some(s)}] = g[s \ {some(s)}]
        BY <4>1
      <4>3. h[s] = f[some(s)] + g[s \ {some(s)}]
        BY <2>1, <3>2
      <4> QED  BY <3>2, <4>2, <4>3
    <3> QED  BY <3>1, <3>2
  <2> HIDE DEF h, step, All
  <2>4. m + 1 \in 0 .. n
    BY <1>0
  <2> QED  BY <2>2, <2>3, <2>4
<1>4. n \in T
  <2> HIDE DEF T
  <2> QED  BY <1>0, <1>2, <1>3, SetInduction
<1>5. PICK g \in [All -> Int] : \A s \in All : g[s] = step(g, s)
  <2>1. PICK g \in [All -> Int] : \A s \in All : Cardinality(s) <= n => g[s] = step(g, s)
    BY <1>4
  <2> HIDE DEF step, All
  <2> QED  BY <2>1, <1>0
<1>6. g = [s \in All |-> step(g, s)]
  BY <1>5
<1>7. SumIter(f, S) = [s \in All |-> step(SumIter(f, S), s)]
  BY <1>6, Zenon DEF SumIter, some
<1> DEFINE G == SumIter(f, S)
<1>8. \A s \in All : G[s] = step(G, s)
  BY <1>7
<1>9. ASSUME NEW s \in All PROVE G[s] \in Int
  <2> DEFINE U == {m \in 0 .. n : \A t \in All : Cardinality(t) <= m => G[t] \in Int}
  <2>1. 0 \in U
    <3>1. \A t \in All : Cardinality(t) <= 0 => t = {}
      BY <1>0, FS_EmptySet
    <3>2. \A t \in All : t = {} => G[t] = 0
      BY <1>8
    <3> HIDE DEF G, All
    <3> QED  BY <3>1, <3>2, <1>0
  <2>2. ASSUME NEW m \in 0 .. n - 1, m \in U PROVE m + 1 \in U
    <3>1. ASSUME NEW t \in All, Cardinality(t) <= m + 1 PROVE G[t] \in Int
      <4>0. G[t] = step(G, t)
        BY <1>8
      <4> HIDE DEF G
      <4>1. CASE t = {}
        BY <4>1, <4>0
      <4>2. CASE t # {}
        <5>1. t \ {some(t)} \in All /\ Cardinality(t \ {some(t)}) <= m /\ some(t) \in S
          BY <4>2, <1>0, <1>1, <3>1
        <5>2. G[t \ {some(t)}] \in Int
          BY <5>1, <2>2
        <5>3. G[t] = f[some(t)] + G[t \ {some(t)}]
          BY <4>2, <4>0
        <5>4. f[some(t)] \in Int
          BY <5>1
        <5> QED  BY <5>2, <5>3, <5>4
      <4> QED  BY <4>1, <4>2
    <3> HIDE DEF G, All
    <3> QED  BY <3>1, <1>0
  <2>3. n \in U
    <3> HIDE DEF U
    <3> QED  BY <2>1, <2>2, <1>0, SetInduction
  <2> QED  BY <2>3, <1>0
<1>10. G \in [All -> Int]
  <2> HIDE DEF G, step
  <2>1. G = [s \in All |-> step(G, s)]
    BY <1>7 DEF G
  <2>2. \A s \in All : step(G, s) \in Int
    BY <1>8, <1>9
  <2> HIDE DEF All
  <2> QED  BY <2>1, <2>2
<1> HIDE DEF G
<1>11. Summed(G, f, S)
  BY <1>10, <1>8, Zenon DEF Summed, some
<1> QED  BY <1>11 DEF G

(* A sum of integers is one.                                               *)
LEMMA SumInt ==
  ASSUME NEW S, IsFiniteSet(S), NEW f \in [S -> Int]
  PROVE  FoldFunction(+, 0, f) \in Int
<1>1. S \in SUBSET S /\ FoldFunction(+, 0, f) = SumIter(f, S)[S]
  BY SumUnfold
<1>2. SumIter(f, S) \in [SUBSET S -> Int]
  BY SumExists, Zenon DEF Summed
<1> QED  BY <1>1, <1>2

(* One value changes, and the sum by as much.                              *)
LEMMA SumChanges ==
  ASSUME NEW S, IsFiniteSet(S), NEW f \in [S -> Int], NEW g \in [S -> Int], NEW e \in S,
         \A x \in S \ {e} : g[x] = f[x]
  PROVE  FoldFunction(+, 0, g) = FoldFunction(+, 0, f) + (g[e] - f[e])
<1> DEFINE All == SUBSET S
           F == SumIter(f, S)
           G == SumIter(g, S)
           some(s) == CHOOSE x \in s : TRUE
           n == Cardinality(S)
           U == {m \in 0 .. n : \A s \in All : Cardinality(s) <= m =>
                                  G[s] = F[s] + (IF e \in s THEN g[e] - f[e] ELSE 0)}
<1>0. n \in Nat /\ \A s \in All : IsFiniteSet(s) /\ Cardinality(s) \in 0 .. n
  BY FS_CardinalityType, FS_Subset
<1>1. \A s \in All : s # {} => /\ some(s) \in s /\ some(s) \in S /\ s \ {some(s)} \in All
                              /\ Cardinality(s \ {some(s)}) = Cardinality(s) - 1
  BY <1>0, FS_RemoveElement
<1>2. /\ F \in [All -> Int] /\ G \in [All -> Int]
      /\ \A s \in All : /\ F[s] = IF s = {} THEN 0 ELSE f[some(s)] + F[s \ {some(s)}]
                        /\ G[s] = IF s = {} THEN 0 ELSE g[some(s)] + G[s \ {some(s)}]
  <2>1. /\ F \in [All -> Int]
        /\ \A s \in All : F[s] = IF s = {} THEN 0 ELSE f[some(s)] + F[s \ {some(s)}]
    <3>1. Summed(F, f, S)
      BY SumExists
    <3> HIDE DEF F
    <3> QED  BY <3>1, Zenon DEF Summed
  <2>2. /\ G \in [All -> Int]
        /\ \A s \in All : G[s] = IF s = {} THEN 0 ELSE g[some(s)] + G[s \ {some(s)}]
    <3>1. Summed(G, g, S)
      BY SumExists
    <3> HIDE DEF G
    <3> QED  BY <3>1, Zenon DEF Summed
  <2> QED  BY <2>1, <2>2
<1> HIDE DEF F, G, some
<1>3. 0 \in U
  <2>1. \A s \in All : Cardinality(s) <= 0 => s = {}
    BY <1>0, FS_EmptySet
  <2>2. \A s \in All : s = {} => F[s] = 0 /\ G[s] = 0
    BY <1>2
  <2> QED  BY <2>1, <2>2, <1>0
<1>4. ASSUME NEW m \in 0 .. n - 1, m \in U PROVE m + 1 \in U
  <2>1. ASSUME NEW s \in All, Cardinality(s) <= m + 1
        PROVE  G[s] = F[s] + (IF e \in s THEN g[e] - f[e] ELSE 0)
    <3>1. CASE s = {}
      <4>1. F[s] = 0 /\ G[s] = 0
        BY <3>1, <1>2
      <4> QED  BY <3>1, <4>1
    <3>2. CASE s # {}
      <4>1. /\ s \ {some(s)} \in All /\ Cardinality(s \ {some(s)}) <= m
            /\ some(s) \in S /\ some(s) \in s
        BY <3>2, <1>0, <1>1, <2>1
      <4>2. G[s \ {some(s)}] = F[s \ {some(s)}] + (IF e \in s \ {some(s)} THEN g[e] - f[e] ELSE 0)
        BY <4>1, <1>4
      <4>3. /\ F[s] = f[some(s)] + F[s \ {some(s)}] /\ G[s] = g[some(s)] + G[s \ {some(s)}]
            /\ F[s \ {some(s)}] \in Int
        BY <3>2, <4>1, <1>2
      <4>4. CASE some(s) = e
        BY <4>1, <4>2, <4>3, <4>4
      <4>5. CASE some(s) # e
        BY <4>1, <4>2, <4>3, <4>5
      <4> QED  BY <4>4, <4>5
    <3> QED  BY <3>1, <3>2
  <2> HIDE DEF All
  <2> QED  BY <2>1, <1>0
<1>5. n \in U
  <2> HIDE DEF U
  <2> QED  BY <1>0, <1>3, <1>4, SetInduction
<1>6. G[S] = F[S] + (g[e] - f[e])
  BY <1>5, <1>0
<1> QED  BY <1>6, SumUnfold DEF F, G

(* A sum of nothing but zeros.                                             *)
LEMMA SumOfZeros ==
  ASSUME NEW S, IsFiniteSet(S), NEW f \in [S -> Int], \A x \in S : f[x] = 0
  PROVE  FoldFunction(+, 0, f) = 0
<1> DEFINE All == SUBSET S
           F == SumIter(f, S)
           some(s) == CHOOSE x \in s : TRUE
           n == Cardinality(S)
           U == {m \in 0 .. n : \A s \in All : Cardinality(s) <= m => F[s] = 0}
<1>0. n \in Nat /\ \A s \in All : IsFiniteSet(s) /\ Cardinality(s) \in 0 .. n
  BY FS_CardinalityType, FS_Subset
<1>1. \A s \in All : s # {} => /\ some(s) \in s /\ some(s) \in S /\ s \ {some(s)} \in All
                              /\ Cardinality(s \ {some(s)}) = Cardinality(s) - 1
  BY <1>0, FS_RemoveElement
<1>2. /\ F \in [All -> Int]
      /\ \A s \in All : F[s] = IF s = {} THEN 0 ELSE f[some(s)] + F[s \ {some(s)}]
  <2>1. Summed(F, f, S)
    BY SumExists
  <2> HIDE DEF F
  <2> QED  BY <2>1, Zenon DEF Summed
<1> HIDE DEF F, some
<1>3. 0 \in U
  <2>1. \A s \in All : Cardinality(s) <= 0 => s = {}
    BY <1>0, FS_EmptySet
  <2>2. \A s \in All : s = {} => F[s] = 0
    BY <1>2
  <2> QED  BY <2>1, <2>2, <1>0
<1>4. ASSUME NEW m \in 0 .. n - 1, m \in U PROVE m + 1 \in U
  <2>1. ASSUME NEW s \in All, Cardinality(s) <= m + 1 PROVE F[s] = 0
    <3>1. CASE s = {}
      BY <3>1, <1>2
    <3>2. CASE s # {}
      <4>1. s \ {some(s)} \in All /\ some(s) \in S /\ Cardinality(s \ {some(s)}) = Cardinality(s) - 1
        BY <3>2, <1>1
      <4>2. Cardinality(s) \in Nat /\ m \in Nat
        BY <1>0
      <4>3. Cardinality(s \ {some(s)}) <= m
        BY <2>1, <4>1, <4>2
      <4> QED  BY <3>2, <4>1, <4>3, <1>2, <1>4
    <3> QED  BY <3>1, <3>2
  <2> HIDE DEF All
  <2> QED  BY <2>1, <1>0
<1>5. n \in U
  <2> HIDE DEF U
  <2> QED  BY <1>0, <1>3, <1>4, SetInduction
<1>6. F[S] = 0
  BY <1>5, <1>0
<1> QED  BY <1>6, SumUnfold DEF F

(* Raw coordinates.                                                        *)
Point == [x : Int, y : Int]

(* What FieldAssumption says, part by part.                                *)
LEMMA FieldConstants ==
  /\ IsFiniteSet(Enemies) /\ Cardinality(Enemies) \in Nat /\ Enemies = 1 .. Cardinality(Enemies)
  /\ Enemies \subseteq Nat \ {0} /\ NOBODY \notin Enemies /\ NOBODY = 0
  /\ Id \in [Enemies -> Nat \ {0}] /\ \A i, j \in Enemies : Id[i] = Id[j] => i = j
  /\ targetPriority \in [Enemies -> Int] /\ approachSpeed \in [Enemies -> Int]
  /\ attackRange \in [Enemies -> Int]
  /\ ONE \in Nat \ {0} /\ DIM \in Nat \ {0} /\ minSep \in Nat \ {0} /\ heroSep \in Nat
  /\ HeroRange \in Int /\ HeroStep \in Int /\ ApproachMargin \in Int /\ FalloffPerTile \in Int
  /\ FrostAura \in Int /\ FrostRadius \in Int
<1>1. Cardinality(Enemies) \in Nat
  BY FieldAssumption, FS_CardinalityType DEF FieldAssumption
<1> DEFINE n == Cardinality(Enemies)
<1>2. Enemies = 1 .. n
  BY FieldAssumption DEF FieldAssumption
<1> HIDE DEF n
<1>3. Enemies \subseteq Nat \ {0} /\ NOBODY \notin Enemies
  BY <1>2 DEF NOBODY
<1> QED  BY <1>1, <1>2, <1>3, FieldAssumption DEF FieldAssumption, NOBODY, n

(* Distances are natural numbers.                                          *)
LEMMA DistanceTypes ==
  ASSUME NEW p \in Point, NEW q \in Point
  PROVE  DistanceSq(p, q) \in Nat /\ Distance(p, q) \in Nat
<1>1. p.x \in Int /\ p.y \in Int /\ q.x \in Int /\ q.y \in Int
  BY DEF Point
<1>2. \A a \in Int : a * a \in Nat
  OBVIOUS
<1>3. (p.x - q.x) \in Int /\ (p.y - q.y) \in Int
  BY <1>1
<1>4. DistanceSq(p, q) \in Nat
  BY <1>2, <1>3 DEF DistanceSq
<1> QED  BY <1>4, IsqrtFloor DEF Distance

(* Numbers in their order.                                                 *)
LEMMA NumbersInOrder ==
  ASSUME NEW rows \in SUBSET Nat, IsFiniteSet(rows)
  PROVE  /\ Cardinality(rows) \in Nat
         /\ InArrayOrder(rows) \in [1 .. Cardinality(rows) -> rows]
         /\ \A e \in rows : \E k \in 1 .. Cardinality(rows) : InArrayOrder(rows)[k] = e
         /\ \A j, k \in 1 .. Cardinality(rows) :
              j < k => InArrayOrder(rows)[j] < InArrayOrder(rows)[k]
<1> DEFINE key == [e \in rows |-> e]
<1>1. key \in [rows -> Int] /\ \A e, f \in rows : key[e] = key[f] => e = f
  OBVIOUS
<1>2. InArrayOrder(rows) = Ranked(rows, key)
  BY DEF InArrayOrder
<1> HIDE DEF key
<1>3. /\ Cardinality(rows) \in Nat
      /\ Ranked(rows, key) \in [1 .. Cardinality(rows) -> rows]
      /\ \A e \in rows : \E k \in 1 .. Cardinality(rows) : Ranked(rows, key)[k] = e
      /\ \A j, k \in 1 .. Cardinality(rows) : j < k => key[Ranked(rows, key)[j]] < key[Ranked(rows, key)[k]]
  BY <1>1, RankedEnumerates
<1>4. \A k \in 1 .. Cardinality(rows) : key[Ranked(rows, key)[k]] = Ranked(rows, key)[k]
  BY <1>3 DEF key
<1> QED  BY <1>2, <1>3, <1>4

(* Rows in array order.                                                    *)
LEMMA ArrayOrder ==
  ASSUME NEW rows \in SUBSET Enemies
  PROVE  /\ IsFiniteSet(rows) /\ Cardinality(rows) \in Nat
         /\ InArrayOrder(rows) \in [1 .. Cardinality(rows) -> rows]
         /\ \A e \in rows : \E k \in 1 .. Cardinality(rows) : InArrayOrder(rows)[k] = e
         /\ \A j, k \in 1 .. Cardinality(rows) :
              j < k => InArrayOrder(rows)[j] < InArrayOrder(rows)[k]
<1>1. IsFiniteSet(rows)
  BY FieldConstants, FS_Subset
<1>2. rows \in SUBSET Nat
  BY FieldConstants
<1> QED  BY <1>1, <1>2, NumbersInOrder

(* Who lives is a row.                                                     *)
LEMMA LivingRows == Living \in SUBSET Enemies
  BY DEF Living

----------------------------------------------------------------------------
(* A priority is a number, below zero where the distance takes more off    *)
(* than the archetype gives.                                               *)
LEMMA PriorityType ==
  ASSUME hero \in Point, at \in [Enemies -> Point], NEW e \in Enemies
  PROVE  EffectivePriority(e) \in Int
<1>1. Distance(at[e], hero) \in Nat
  BY DistanceTypes
<1> DEFINE beyond == Distance(at[e], hero) - HeroRange
<1>2. beyond \in Int /\ beyond * FalloffPerTile \in Int
  BY <1>1, FieldConstants
<1>3. Quot(beyond * FalloffPerTile, ONE) \in Int
  <2> HIDE DEF beyond
  <2> QED  BY <1>2, FieldConstants, QuotInt
<1> QED  BY <1>3, FieldConstants DEF EffectivePriority

(* The order in which rows are preferred is a total one.                   *)
LEMMA PreferredIsTotalOrder ==
  ASSUME hero \in Point, at \in [Enemies -> Point]
  PROVE  /\ \A a, b \in Enemies : a # b => Preferred(a, b) \/ Preferred(b, a)
         /\ \A a, b, c \in Enemies : Preferred(a, b) /\ Preferred(b, c) => Preferred(a, c)
<1>1. \A e \in Enemies : EffectivePriority(e) \in Int /\ DistanceSq(at[e], hero) \in Int /\ Id[e] \in Int
  BY PriorityType, DistanceTypes, FieldConstants
<1>2. \A i, j \in Enemies : Id[i] = Id[j] => i = j
  BY FieldConstants
<1> QED  BY <1>1, <1>2 DEF Preferred

(* What the loop of selectAutoTarget has found after each row.             *)
LEMMA AimFold ==
  ASSUME hero \in Point, at \in [Enemies -> Point]
  PROVE  LET n == Cardinality(Living)
             order == InArrayOrder(Living)
         IN  \E p \in [0 .. n -> Enemies \cup {NOBODY}] :
               /\ p[0] = NOBODY /\ SelectAutoTarget = p[n]
               /\ \A k \in 1 .. n : p[k] = IF p[k - 1] = NOBODY \/ Preferred(order[k], p[k - 1])
                                           THEN order[k] ELSE p[k - 1]
<1> DEFINE n == Cardinality(Living)
           q == InArrayOrder(Living)
           V == Enemies \cup {NOBODY}
           step(b, e) == IF b = NOBODY \/ Preferred(e, b) THEN e ELSE b
           H == [w \in V \X (1 .. n) |-> step(w[1], q[w[2]])]
           G == CHOOSE g : g = [s \in SUBSET DOMAIN q |->
                    IF s = {} THEN NOBODY ELSE step(g[s \ {Max(s)}], q[Max(s)])]
<1>1. n \in Nat /\ q \in [1 .. n -> Living] /\ Living \subseteq Enemies
  BY ArrayOrder, LivingRows
<1>2. DOMAIN q = 1 .. n /\ \A k \in 1 .. n : q[k] \in Enemies
  BY <1>1
<1>3. SelectAutoTarget = G[DOMAIN q]
  BY Zenon DEF SelectAutoTarget, FoldLeft, MapThenFoldSet
<1> HIDE DEF q, n
<1>4. H \in [V \X (1 .. n) -> V]
  BY <1>2
<1>5. PICK g \in [SUBSET (1 .. n) -> V] : Folds(g, NOBODY, n, H)
  <2>1. NOBODY \in V
    OBVIOUS
  <2>2. n \in Nat
    BY <1>1
  <2> HIDE DEF H, V
  <2> QED  BY <2>2, <1>4, <2>1, FoldExists
<1>6. ASSUME NEW s \in SUBSET (1 .. n), s # {}
      PROVE  H[<<g[s \ {Max(s)}], Max(s)>>] = step(g[s \ {Max(s)}], q[Max(s)])
  <2>1. Max(s) \in 1 .. n
    BY <1>1, <1>6, MaxIsLast
  <2>2. g[s \ {Max(s)}] \in V
    BY <1>5
  <2> QED  BY <2>1, <2>2
<1>7. g = [s \in SUBSET DOMAIN q |-> IF s = {} THEN NOBODY ELSE step(g[s \ {Max(s)}], q[Max(s)])]
  <2>1. \A s \in SUBSET (1 .. n) :
          g[s] = IF s = {} THEN NOBODY ELSE H[<<g[s \ {Max(s)}], Max(s)>>]
    BY <1>5 DEF Folds
  <2> HIDE DEF H, step, V
  <2> QED  BY <1>2, <1>5, <1>6, <2>1
<1>8. G = [s \in SUBSET DOMAIN q |-> IF s = {} THEN NOBODY ELSE step(G[s \ {Max(s)}], q[Max(s)])]
  BY <1>7, Zenon
<1> HIDE DEF G, step
<1>9. G[{}] = NOBODY
  BY <1>8
<1>10. ASSUME NEW k \in 1 .. n PROVE G[1 .. k] = step(G[1 .. k - 1], q[k])
  <2>1. 1 .. k \in SUBSET DOMAIN q /\ k \in Nat /\ k # 0
    BY <1>1, <1>2
  <2>2. 1 .. k # {} /\ Max(1 .. k) = k /\ (1 .. k) \ {k} = 1 .. k - 1
    BY <2>1, MaxOfPrefix
  <2>3. G[1 .. k] = step(G[(1 .. k) \ {Max(1 .. k)}], q[Max(1 .. k)])
    BY <1>8, <2>1, <2>2
  <2> QED  BY <2>2, <2>3
<1> DEFINE p == [k \in 0 .. n |-> G[1 .. k]]
           T == {k \in 0 .. n : p[k] \in V}
<1>11. p[0] = NOBODY
  <2>1. 1 .. 0 = {} /\ 0 \in 0 .. n
    BY <1>1
  <2> QED  BY <2>1, <1>9
<1>12. \A k \in 1 .. n : p[k] = step(p[k - 1], q[k])
  BY <1>1, <1>10
<1>13. ASSUME NEW k \in 0 .. n PROVE p[k] \in V
  <2>1. 0 \in T
    BY <1>11, <1>1
  <2>2. ASSUME NEW j \in 0 .. n - 1, j \in T PROVE j + 1 \in T
    <3>1. j + 1 \in 1 .. n /\ (j + 1) - 1 = j
      BY <1>1
    <3>2. p[j + 1] = step(p[j], q[j + 1])
      BY <3>1, <1>12
    <3> HIDE DEF p
    <3>3. p[j] \in V /\ q[j + 1] \in V
      BY <2>2, <1>2, <3>1
    <3>4. p[j + 1] \in V
      BY <3>2, <3>3 DEF step
    <3> QED  BY <3>1, <3>4
  <2> HIDE DEF T
  <2>3. n \in Nat
    BY <1>1
  <2>4. \A i \in 0 .. n : i \in T
    BY <2>1, <2>2, <2>3, SetInduction
  <2> QED  BY <2>4 DEF T
<1>14. p \in [0 .. n -> V]
  <2>1. \A k \in 0 .. n : G[1 .. k] \in V
    BY <1>13
  <2> QED  BY <2>1
<1>15. SelectAutoTarget = p[n]
  BY <1>1, <1>2, <1>3
<1> HIDE DEF p
<1> QED  BY <1>11, <1>12, <1>14, <1>15 DEF n, q, step

(* selectAutoTarget returns a living enemy if there is one, and no living  *)
(* enemy is preferred to him.                                              *)
LEMMA AutoTargetIsBest ==
  ASSUME hero \in Point, at \in [Enemies -> Point]
  PROVE  /\ SelectAutoTarget \in Living \cup {NOBODY}
         /\ Living # {} => SelectAutoTarget \in Living
         /\ \A e \in Living \ {SelectAutoTarget} : Preferred(SelectAutoTarget, e)
<1> DEFINE n == Cardinality(Living)
           q == InArrayOrder(Living)
<1>1. n \in Nat /\ q \in [1 .. n -> Living] /\ Living \subseteq Enemies
      /\ \A e \in Living : \E k \in 1 .. n : q[k] = e
  BY ArrayOrder, LivingRows
<1>2. PICK p \in [0 .. n -> Enemies \cup {NOBODY}] :
        /\ p[0] = NOBODY /\ SelectAutoTarget = p[n]
        /\ \A k \in 1 .. n : p[k] = IF p[k - 1] = NOBODY \/ Preferred(q[k], p[k - 1])
                                    THEN q[k] ELSE p[k - 1]
  BY AimFold
<1> HIDE DEF n, q
<1> DEFINE T == {k \in 0 .. n : /\ p[k] \in Living \cup {NOBODY} /\ (p[k] = NOBODY <=> k = 0)
                                /\ \A j \in 1 .. k : q[j] = p[k] \/ Preferred(p[k], q[j])}
<1>3. 0 \in T
  BY <1>1, <1>2
<1>4. ASSUME NEW j \in 0 .. n - 1, j \in T PROVE j + 1 \in T
  <2>1. j + 1 \in 1 .. n /\ (j + 1) - 1 = j /\ j + 1 # 0 /\ j \in Nat
    BY <1>1
  <2>2. p[j + 1] = IF p[j] = NOBODY \/ Preferred(q[j + 1], p[j]) THEN q[j + 1] ELSE p[j]
    BY <2>1, <1>2
  <2>3. q[j + 1] \in Living /\ q[j + 1] # NOBODY
    BY <2>1, <1>1, FieldConstants
  <2>4. p[j] \in Living \cup {NOBODY} /\ \A i \in 1 .. j : q[i] = p[j] \/ Preferred(p[j], q[i])
    BY <1>4
  <2>5. p[j] = NOBODY => j = 0
    BY <1>4
  <2>6. p[j + 1] \in Living /\ p[j + 1] # NOBODY
    BY <2>2, <2>3, <2>4, <1>1, FieldConstants
  <2>7. ASSUME NEW i \in 1 .. j + 1 PROVE q[i] = p[j + 1] \/ Preferred(p[j + 1], q[i])
    <3>1. q[i] \in Enemies /\ q[j + 1] \in Enemies
      BY <2>1, <1>1
    <3>2. CASE i = j + 1
      BY <3>1, <3>2, <2>2, <2>3, <2>4, <1>1, PreferredIsTotalOrder
    <3>3. CASE i # j + 1
      <4>1. i \in 1 .. j /\ j # 0
        BY <3>3, <2>1
      <4>2. p[j] \in Enemies /\ p[j] # NOBODY
        BY <4>1, <2>4, <2>5, <1>1
      <4> QED  BY <4>1, <4>2, <3>1, <2>2, <2>4, PreferredIsTotalOrder
    <3> QED  BY <3>2, <3>3
  <2> QED  BY <2>1, <2>6, <2>7
<1>5. n \in T
  <2> HIDE DEF T
  <2>1. n \in Nat
    BY <1>1
  <2>2. \A i \in 0 .. n : i \in T
    BY <2>1, <1>3, <1>4, SetInduction
  <2> QED  BY <2>1, <2>2
<1>6. p[n] \in Living \cup {NOBODY} /\ (p[n] = NOBODY <=> n = 0)
      /\ \A j \in 1 .. n : q[j] = p[n] \/ Preferred(p[n], q[j])
  BY <1>5
<1>7. Living # {} => n # 0
  BY <1>1, FieldConstants, FS_Subset, FS_EmptySet DEF n
<1> QED  BY <1>1, <1>2, <1>6, <1>7

(* The order that AimsAtBest speaks of.                                    *)
AimRank(e) == <<-EffectivePriority(e), DistanceSq(at[e], hero), Id[e]>>
Earlier(a, b) == \E k \in 1 .. 3 : a[k] < b[k] /\ \A l \in 1 .. k - 1 : a[l] = b[l]

(* Preferred compares the priority, then the distance, then the id, as     *)
(* AimRank lists them.                                                     *)
LEMMA PreferredIsEarlier ==
  ASSUME hero \in Point, at \in [Enemies -> Point],
         NEW a \in Enemies, NEW b \in Enemies, Preferred(a, b)
  PROVE  Earlier(AimRank(a), AimRank(b))
<1> DEFINE pa == EffectivePriority(a)   pb == EffectivePriority(b)
           da == DistanceSq(at[a], hero)   db == DistanceSq(at[b], hero)
           u == AimRank(a)   v == AimRank(b)
<1>1. pa \in Int /\ pb \in Int /\ da \in Int /\ db \in Int /\ Id[a] \in Int /\ Id[b] \in Int
  <2>1. at[a] \in Point /\ at[b] \in Point
    OBVIOUS
  <2>2. da \in Nat /\ db \in Nat
    BY <2>1, DistanceTypes
  <2>3. pa \in Int /\ pb \in Int
    BY PriorityType
  <2> QED  BY <2>2, <2>3, FieldConstants
<1>2. pa > pb \/ (pa = pb /\ (da < db \/ (da = db /\ Id[a] < Id[b])))
  BY DEF Preferred
<1>3. u[1] = -pa /\ u[2] = da /\ u[3] = Id[a] /\ v[1] = -pb /\ v[2] = db /\ v[3] = Id[b]
  BY DEF AimRank
<1> HIDE DEF pa, pb, da, db, u, v
<1>4. CASE pa > pb
  <2>1. u[1] < v[1]
    BY <1>1, <1>3, <1>4
  <2> QED  BY <2>1 DEF Earlier, u, v
<1>5. CASE pa = pb /\ da < db
  <2>1. u[2] < v[2] /\ \A l \in 1 .. 2 - 1 : u[l] = v[l]
    BY <1>1, <1>3, <1>5
  <2> QED  BY <2>1 DEF Earlier, u, v
<1>6. CASE pa = pb /\ da = db /\ Id[a] < Id[b]
  <2>1. u[3] < v[3] /\ \A l \in 1 .. 3 - 1 : l = 1 \/ l = 2
    BY <1>1, <1>3, <1>6
  <2>2. \A l \in 1 .. 3 - 1 : u[l] = v[l]
    BY <2>1, <1>3, <1>6
  <2> QED  BY <2>1, <2>2 DEF Earlier, u, v
<1> QED  BY <1>2, <1>4, <1>5, <1>6

(* The choice of a target is the best one.                                 *)
LEMMA SelectTargetAims ==
  ASSUME hero \in Point, at \in [Enemies -> Point], SelectTarget
  PROVE  AimsAtBest' /\ target' \in Enemies \cup {NOBODY}
<1>1. UNCHANGED <<hero, at, manual, foe>> /\ Living' = Living
  BY DEF SelectTarget, Living
<1>2. target' = IF manual \in Living THEN manual ELSE SelectAutoTarget
  BY DEF SelectTarget
<1> DEFINE t == SelectAutoTarget
<1>3. t \in Living \cup {NOBODY} /\ (Living # {} => t \in Living /\ \A e \in Living \ {t} : Preferred(t, e))
  BY AutoTargetIsBest
<1> HIDE DEF t
<1>4. target' \in Enemies \cup {NOBODY}
  BY <1>2, <1>3, LivingRows DEF t
<1>5. AimsAtBest' <=> IF manual \in Living THEN target' = manual
                      ELSE Living # {} =>
                        /\ target' \in Living
                        /\ \A e \in Living \ {target'} : Earlier(AimRank(target'), AimRank(e))
  BY <1>1 DEF AimsAtBest, EffectivePriority, Earlier, AimRank
<1>6. Living # {} => t \in Living /\ \A e \in Living \ {t} : Earlier(AimRank(t), AimRank(e))
  BY <1>3, LivingRows, PreferredIsEarlier
<1>7. CASE manual \in Living
  BY <1>2, <1>4, <1>5, <1>7
<1>8. CASE manual \notin Living
  <2>1. target' = t
    BY <1>2, <1>8 DEF t
  <2> QED  BY <1>4, <1>5, <1>6, <1>8, <2>1
<1> QED  BY <1>7, <1>8

---------------------------------------------------------------------------
(* The grid of separationRun: cells of points that are near each other.    *)

(* Truncated quotients of two numbers less than a divisor apart.           *)
LEMMA DivNear ==
  ASSUME NEW a \in Nat, NEW b \in Nat, NEW m \in Nat \ {0}, a - b < m, b - a < m
  PROVE  a \div m - b \div m \in -1 .. 1
<1> DEFINE k == a \div m   l == b \div m
<1>1. /\ k \in Nat /\ k * m <= a /\ a < k * m + m
      /\ l \in Nat /\ l * m <= b /\ b < l * m + m
  BY DivBounds
<1> HIDE DEF k, l
<1>2. (k - l) * m < 2 * m /\ (l - k) * m < 2 * m
  BY <1>1
<1>3. k - l < 2 /\ l - k < 2
  BY <1>1, <1>2
<1> QED  BY <1>1, <1>3 DEF k, l

(* Less than the divisor divides to zero.                                  *)
LEMMA DivSmall ==
  ASSUME NEW a \in Nat, NEW m \in Nat \ {0}, a < m
  PROVE  a \div m = 0
  OBVIOUS

(* Truncating two numbers less than a divisor apart gives the same cell or *)
(* neighbours.                                                             *)
LEMMA QuotNear ==
  ASSUME NEW a \in Int, NEW b \in Int, NEW m \in Nat \ {0}, a - b < m, b - a < m
  PROVE  Quot(a, m) - Quot(b, m) \in -1 .. 1
<1>1. Abs(m) = m /\ ~(m < 0)
  BY DEF Abs
<1>2. CASE a >= 0 /\ b >= 0
  <2>1. Quot(a, m) = a \div m /\ Quot(b, m) = b \div m
    BY <1>1, <1>2 DEF Quot, Abs
  <2> QED  BY <2>1, <1>2, DivNear
<1>3. CASE a < 0 /\ b < 0
  <2>1. Quot(a, m) = -((-a) \div m) /\ Quot(b, m) = -((-b) \div m)
    BY <1>1, <1>3 DEF Quot, Abs
  <2>2. -a \in Nat /\ -b \in Nat /\ (-a) - (-b) < m /\ (-b) - (-a) < m
    BY <1>3
  <2>3. (-a) \div m - (-b) \div m \in -1 .. 1 /\ (-a) \div m \in Nat /\ (-b) \div m \in Nat
    BY <2>2, DivNear, DivBounds
  <2> QED  BY <2>1, <2>3
<1>4. CASE a >= 0 /\ b < 0
  <2>1. Quot(a, m) = a \div m /\ Quot(b, m) = -((-b) \div m)
    BY <1>1, <1>4 DEF Quot, Abs
  <2>2. a \in Nat /\ -b \in Nat /\ a < m /\ -b < m
    BY <1>4
  <2>3. a \div m = 0 /\ (-b) \div m = 0
    BY <2>2, DivSmall
  <2> QED  BY <2>1, <2>3
<1>5. CASE a < 0 /\ b >= 0
  <2>1. Quot(b, m) = b \div m /\ Quot(a, m) = -((-a) \div m)
    BY <1>1, <1>5 DEF Quot, Abs
  <2>2. b \in Nat /\ -a \in Nat /\ b < m /\ -a < m
    BY <1>5
  <2>3. b \div m = 0 /\ (-a) \div m = 0
    BY <2>2, DivSmall
  <2> QED  BY <2>1, <2>3
<1> QED  BY <1>2, <1>3, <1>4, <1>5

(* Clamping to the grid does not part neighbours.                          *)
LEMMA ClampedNear ==
  ASSUME NEW a \in Int, NEW b \in Int, a - b \in -1 .. 1, NEW h \in Nat
  PROVE  /\ Clamped(a, 0, h) - Clamped(b, 0, h) \in -1 .. 1
         /\ Clamped(a, 0, h) \in 0 .. h
  BY DEF Clamped

(* Every point has a cell of the grid.                                     *)
LEMMA CellType ==
  ASSUME hero \in Point, NEW p \in Point
  PROVE  Cell(p).x \in 0 .. DIM - 1 /\ Cell(p).y \in 0 .. DIM - 1
<1> DEFINE half == (minSep * DIM) \div 2
<1>1. half \in Int
  BY FieldConstants
<1> HIDE DEF half
<1>2. p.x - (hero.x - half) \in Int /\ p.y - (hero.y - half) \in Int
  BY <1>1 DEF Point
<1>3. Quot(p.x - (hero.x - half), minSep) \in Int /\ Quot(p.y - (hero.y - half), minSep) \in Int
  <2> DEFINE ax == p.x - (hero.x - half)   ay == p.y - (hero.y - half)
  <2>1. ax \in Int /\ ay \in Int /\ minSep \in Int /\ minSep # 0
    BY <1>2, FieldConstants
  <2> HIDE DEF ax, ay
  <2>2. Quot(ax, minSep) \in Int /\ Quot(ay, minSep) \in Int
    BY <2>1, QuotInt
  <2> QED  BY <2>2 DEF ax, ay
<1>4. DIM - 1 \in Nat
  BY FieldConstants
<1>5. /\ Cell(p).x = Clamped(Quot(p.x - (hero.x - half), minSep), 0, DIM - 1)
      /\ Cell(p).y = Clamped(Quot(p.y - (hero.y - half), minSep), 0, DIM - 1)
  BY DEF Cell, half
<1> QED  BY <1>3, <1>4, <1>5 DEF Clamped

(* Two points that overlap lie in the same cell or in neighbouring ones.   *)
LEMMA OverlapIsNear ==
  ASSUME hero \in Point, NEW p \in Point, NEW q \in Point, Distance(p, q) < minSep
  PROVE  Neighbours(Cell(p), Cell(q))
<1>0. p.x \in Int /\ p.y \in Int /\ q.x \in Int /\ q.y \in Int /\ hero.x \in Int /\ hero.y \in Int
  BY DEF Point
<1>1. DistanceSq(p, q) < minSep * minSep
  <2> DEFINE n == DistanceSq(p, q)
             r == Isqrt(n)
  <2>1. n \in Nat /\ r \in Nat /\ (r + 1) * (r + 1) > n
    BY DistanceTypes, IsqrtFloor
  <2>2. r < minSep /\ minSep \in Nat
    BY FieldConstants DEF Distance
  <2> HIDE DEF n, r
  <2>3. r + 1 <= minSep
    BY <2>1, <2>2
  <2>4. (r + 1) * (r + 1) <= minSep * minSep
    BY <2>1, <2>2, <2>3, SquareMonotone
  <2>5. minSep * minSep \in Int /\ (r + 1) * (r + 1) \in Int
    BY <2>1, <2>2
  <2> QED  BY <2>1, <2>4, <2>5 DEF n
<1>2. ASSUME NEW a \in Int, NEW b \in Int, a * a + b * b < minSep * minSep PROVE a < minSep /\ -a < minSep
  <2>1. b * b >= 0 /\ a * a \in Int /\ b * b \in Int /\ minSep \in Nat /\ minSep * minSep \in Int
    BY FieldConstants
  <2>2. a * a < minSep * minSep
    BY <1>2, <2>1
  <2>3. CASE a >= minSep
    <3>1. a \in Nat /\ minSep * minSep <= a * a
      BY <2>1, <2>3, SquareMonotone
    <3> QED  BY <3>1, <2>1, <2>2
  <2>4. CASE -a >= minSep
    <3>1. -a \in Nat /\ minSep * minSep <= (-a) * (-a) /\ (-a) * (-a) = a * a
      BY <2>1, <2>4, SquareMonotone
    <3> QED  BY <3>1, <2>1, <2>2
  <2> QED  BY <2>1, <2>3, <2>4
<1> DEFINE dx == p.x - q.x   dy == p.y - q.y
<1>3. dx * dx + dy * dy < minSep * minSep /\ dx \in Int /\ dy \in Int
  BY <1>0, <1>1 DEF DistanceSq
<1> HIDE DEF dx, dy
<1>4. dx * dx \in Int /\ dy * dy \in Int /\ dy * dy + dx * dx = dx * dx + dy * dy
  BY <1>3
<1>5. dx < minSep /\ -dx < minSep /\ dy < minSep /\ -dy < minSep
  BY <1>2, <1>3, <1>4
<1> DEFINE half == (minSep * DIM) \div 2
           ax == p.x - (hero.x - half)   bx == q.x - (hero.x - half)
           ay == p.y - (hero.y - half)   by == q.y - (hero.y - half)
<1>6. half \in Int
  BY FieldConstants
<1> HIDE DEF half
<1>7. /\ ax \in Int /\ bx \in Int /\ ay \in Int /\ by \in Int
      /\ bx - ax = -dx /\ ax - bx = dx /\ by - ay = -dy /\ ay - by = dy
  BY <1>0, <1>6 DEF dx, dy
<1>8. /\ Cell(p).x = Clamped(Quot(ax, minSep), 0, DIM - 1)
      /\ Cell(p).y = Clamped(Quot(ay, minSep), 0, DIM - 1)
      /\ Cell(q).x = Clamped(Quot(bx, minSep), 0, DIM - 1)
      /\ Cell(q).y = Clamped(Quot(by, minSep), 0, DIM - 1)
  BY DEF Cell, half
<1> HIDE DEF ax, bx, ay, by
<1>9. minSep \in Nat \ {0} /\ DIM - 1 \in Nat /\ minSep \in Int /\ minSep # 0
  BY FieldConstants
<1>10. /\ Quot(bx, minSep) - Quot(ax, minSep) \in -1 .. 1
       /\ Quot(by, minSep) - Quot(ay, minSep) \in -1 .. 1
  <2>1. bx - ax < minSep /\ ax - bx < minSep /\ by - ay < minSep /\ ay - by < minSep
    BY <1>5, <1>7
  <2> QED  BY <2>1, <1>7, <1>9, QuotNear
<1>11. Quot(ax, minSep) \in Int /\ Quot(bx, minSep) \in Int /\ Quot(ay, minSep) \in Int /\ Quot(by, minSep) \in Int
  BY <1>7, <1>9, QuotInt
<1>12. Cell(q).x - Cell(p).x \in -1 .. 1 /\ Cell(q).y - Cell(p).y \in -1 .. 1
  BY <1>8, <1>9, <1>10, <1>11, ClampedNear
<1> QED  BY <1>12 DEF Neighbours

(* The pairs whose cells are searched, and their place in the loops.       *)
Met == {p \in Living \X Living : p[1] < p[2] /\ Neighbours(Cell(at[p[1]]), Cell(at[p[2]]))}
PlaceOf(p) == ((p[1] * DIM + Cell(at[p[2]]).y) * DIM + Cell(at[p[2]]).x) * Cardinality(Enemies) + p[2]

(* The loops over cells, rows and neighbours visit the pairs in the order  *)
(* of PlaceOf.                                                             *)
LEMMA PairsAreRanked == Pairs = Ranked(Met, [p \in Met |-> PlaceOf(p)])
  BY DEF Pairs, Met, PlaceOf

(* Two numbers written in the same base are equal digit by digit.          *)
LEMMA DigitsDecide ==
  ASSUME NEW m \in Nat \ {0}, NEW a \in Int, NEW b \in Int, NEW c \in 0 .. m - 1, NEW d \in 0 .. m - 1,
         a * m + c = b * m + d
  PROVE  a = b /\ c = d
<1>1. (a - b) * m = d - c
  OBVIOUS
<1>2. (a - b) * m < m /\ (b - a) * m < m
  BY <1>1
<1>3. a - b < 1 /\ b - a < 1
  BY <1>2
<1> QED  BY <1>3

(* The pairs that the loops meet have places of their own.                 *)
LEMMA MetHasPlaces ==
  ASSUME hero \in Point, at \in [Enemies -> Point]
  PROVE  /\ IsFiniteSet(Met) /\ Met \subseteq Enemies \X Enemies
         /\ [p \in Met |-> PlaceOf(p)] \in [Met -> Int]
         /\ \A p, q \in Met : PlaceOf(p) = PlaceOf(q) => p = q
<1> DEFINE n == Cardinality(Enemies)
<1>0. n \in Nat /\ Enemies = 1 .. n /\ DIM \in Nat \ {0}
  BY FieldConstants
<1> HIDE DEF n
<1>1. Met \subseteq Enemies \X Enemies
  BY LivingRows DEF Met
<1>2. IsFiniteSet(Met)
  <2>1. IsFiniteSet(Enemies \X Enemies)
    BY FieldConstants, FS_Product
  <2> QED  BY <1>1, <2>1, FS_Subset
<1>3. \A p \in Met : /\ p[1] \in 1 .. n /\ p[2] \in 1 .. n /\ p = <<p[1], p[2]>>
                     /\ Cell(at[p[2]]).x \in 0 .. DIM - 1 /\ Cell(at[p[2]]).y \in 0 .. DIM - 1
  <2> TAKE p \in Met
  <2>1. p[1] \in Enemies /\ p[2] \in Enemies /\ p = <<p[1], p[2]>>
    BY <1>1
  <2>2. at[p[2]] \in Point
    BY <2>1
  <2> QED  BY <2>1, <2>2, <1>0, CellType
<1>4. \A p \in Met : PlaceOf(p) \in Int
  <2> TAKE p \in Met
  <2> DEFINE cx == Cell(at[p[2]]).x   cy == Cell(at[p[2]]).y
  <2>1. cx \in Int /\ cy \in Int /\ p[1] \in Int /\ p[2] \in Int /\ DIM \in Int /\ n \in Int
    BY <1>0, <1>3
  <2>2. PlaceOf(p) = ((p[1] * DIM + cy) * DIM + cx) * n + p[2]
    BY DEF PlaceOf, n
  <2> HIDE DEF cx, cy
  <2>3. (p[1] * DIM + cy) * DIM + cx \in Int
    BY <2>1
  <2>4. ((p[1] * DIM + cy) * DIM + cx) * n \in Int
    BY <2>1, <2>3
  <2> QED  BY <2>1, <2>2, <2>4
<1>5. ASSUME NEW p \in Met, NEW q \in Met, PlaceOf(p) = PlaceOf(q) PROVE p = q
  <2> DEFINE cx == Cell(at[p[2]]).x   cy == Cell(at[p[2]]).y
             dx == Cell(at[q[2]]).x   dy == Cell(at[q[2]]).y
             u == p[1] * DIM + cy   v == q[1] * DIM + dy
             s == u * DIM + cx      t == v * DIM + dx
  <2>1. /\ cx \in 0 .. DIM - 1 /\ cy \in 0 .. DIM - 1 /\ dx \in 0 .. DIM - 1 /\ dy \in 0 .. DIM - 1
        /\ p[1] \in 1 .. n /\ q[1] \in 1 .. n /\ p[2] \in 1 .. n /\ q[2] \in 1 .. n
    BY <1>3
  <2>2. s * n + p[2] = t * n + q[2]
    BY <1>5 DEF PlaceOf, n
  <2>3. p[2] = q[2] => cx = dx /\ cy = dy
    OBVIOUS
  <2> HIDE DEF cx, cy, dx, dy
  <2>10. p[1] \in Int /\ q[1] \in Int /\ cy \in Int /\ dy \in Int /\ DIM \in Int
    BY <1>0, <2>1
  <2>4. u \in Int /\ v \in Int
    BY <2>10
  <2> HIDE DEF u, v
  <2>5. s \in Int /\ t \in Int
    BY <1>0, <2>1, <2>4
  <2> HIDE DEF s, t
  <2>6. p[2] = q[2] /\ s = t
    <3>1. n \in Nat \ {0} /\ p[2] - 1 \in 0 .. n - 1 /\ q[2] - 1 \in 0 .. n - 1 /\ p[2] \in Int /\ q[2] \in Int
      BY <1>0, <2>1
    <3>2. s * n \in Int /\ t * n \in Int
      BY <2>5, <3>1
    <3>3. s * n + (p[2] - 1) = t * n + (q[2] - 1)
      BY <2>2, <3>1, <3>2
    <3>4. s = t /\ p[2] - 1 = q[2] - 1
      BY <3>1, <3>3, <2>5, DigitsDecide
    <3> QED  BY <3>1, <3>4
  <2>7. u = v
    BY <2>6, <2>4, <2>1, <1>0, DigitsDecide DEF s, t
  <2>8. p[1] = q[1]
    <3>1. p[1] \in Int /\ q[1] \in Int /\ p[1] * DIM + cy = q[1] * DIM + dy
      BY <2>1, <2>7 DEF u, v
    <3> QED  BY <3>1, <2>1, <1>0, DigitsDecide
  <2> QED  BY <2>6, <2>8, <1>3
<1> QED  BY <1>1, <1>2, <1>4, <1>5

(* Pairs lists the pairs that the loops meet, all of them.                 *)
LEMMA PairsEnumerate ==
  ASSUME hero \in Point, at \in [Enemies -> Point]
  PROVE  LET n == Cardinality(Met)
         IN  /\ n \in Nat /\ Pairs \in [1 .. n -> Met]
             /\ \A p \in Met : \E k \in 1 .. n : Pairs[k] = p
<1> DEFINE key == [p \in Met |-> PlaceOf(p)]
<1>1. IsFiniteSet(Met) /\ key \in [Met -> Int] /\ \A p, q \in Met : key[p] = key[q] => p = q
  BY MetHasPlaces
<1>2. Pairs = Ranked(Met, key)
  BY PairsAreRanked
<1> HIDE DEF key
<1>3. /\ Cardinality(Met) \in Nat
      /\ Ranked(Met, key) \in [1 .. Cardinality(Met) -> Met]
      /\ \A e \in Met : \E k \in 1 .. Cardinality(Met) : Ranked(Met, key)[k] = e
  BY <1>1, RankedEnumerates
<1> QED  BY <1>2, <1>3

(* The grid misses no pair that overlaps and meets none twice, wherever    *)
(* the enemies stand.                                                      *)
LEMMA GridMeetsEveryOverlap ==
  ASSUME hero \in Point, at \in [Enemies -> Point]
  PROVE  MeetsEveryOverlap
<1> DEFINE n == Cardinality(Met)
<1>1. n \in Nat /\ Pairs \in [1 .. n -> Met] /\ \A p \in Met : \E k \in 1 .. n : Pairs[k] = p
  BY PairsEnumerate
<1> HIDE DEF n
<1>2. Pairs \in Seq(Met) /\ Len(Pairs) = n
  BY <1>1, SeqDef
<1>3. ToSet(Pairs) = Met
  BY <1>1 DEF ToSet
<1>4. ASSUME NEW i \in Living, NEW j \in Living, i < j, Distance(at[i], at[j]) < minSep
      PROVE  \E k \in 1 .. Len(Pairs) : Pairs[k] = <<i, j>>
  <2>1. at[i] \in Point /\ at[j] \in Point
    BY LivingRows
  <2>2. Neighbours(Cell(at[i]), Cell(at[j]))
    BY <2>1, <1>4, OverlapIsNear
  <2>3. <<i, j>> \in Met
    BY <2>2, <1>4 DEF Met
  <2> QED  BY <2>3, <1>1, <1>2
<1> QED  BY <1>2, <1>3, <1>4 DEF MeetsEveryOverlap, n

(* A point moves to a point.                                               *)
LEMMA MovedType ==
  ASSUME NEW p \in Point, NEW dx \in Int, NEW dy \in Int
  PROVE  Moved(p, dx, dy) \in Point
  BY DEF Moved, Point

(* Two rows are pushed along a vector whose length is not zero.            *)
LEMMA ApartType ==
  ASSUME NEW p \in [Enemies -> Point], NEW i \in Enemies, NEW j \in Enemies
  PROVE  LET v == Apart(i, j, p) IN v.x \in Int /\ v.y \in Int /\ v.d \in Nat \ {0}
<1> DEFINE d == Distance(p[i], p[j])
           dx == Apart(i, j, p).x   dy == Apart(i, j, p).y
<1>0. p[i] \in Point /\ p[j] \in Point /\ minSep \in Nat \ {0}
  BY FieldConstants
<1>1. d \in Nat /\ p[i].x \in Int /\ p[i].y \in Int /\ p[j].x \in Int /\ p[j].y \in Int
  BY <1>0, DistanceTypes DEF Point
<1>2. CASE d = 0
  <2>1. dx \in {minSep, -minSep} /\ dy \in {minSep, -minSep}
    BY <1>2 DEF Apart
  <2>2. dx \in Int /\ dy \in Int /\ dx * dx = minSep * minSep /\ dy * dy = minSep * minSep
    BY <1>0, <2>1
  <2> DEFINE m == dx * dx + dy * dy
  <2>3. m \in Nat /\ m >= 2
    BY <1>0, <2>2
  <2>4. Apart(i, j, p).d = Isqrt(m)
    BY DEF Apart
  <2> HIDE DEF m, dx, dy
  <2>5. Isqrt(m) \in Nat /\ (Isqrt(m) + 1) * (Isqrt(m) + 1) > m
    BY <2>3, IsqrtFloor
  <2>6. Isqrt(m) # 0
    BY <2>3, <2>5
  <2> QED  BY <2>2, <2>4, <2>5, <2>6 DEF dx, dy
<1>3. CASE d # 0
  <2>1. Apart(i, j, p).x = p[i].x - p[j].x /\ Apart(i, j, p).y = p[i].y - p[j].y
    BY <1>3 DEF Apart
  <2>2. Apart(i, j, p).d = d
    BY <1>3, <2>1 DEF Apart, Distance, DistanceSq
  <2> QED  BY <1>1, <1>3, <2>1, <2>2
<1> QED  BY <1>2, <1>3

(* Pushing a pair apart moves two rows.                                    *)
LEMMA PushedType ==
  ASSUME NEW p \in [Enemies -> Point], NEW pair \in Enemies \X Enemies
  PROVE  Pushed(p, pair) \in [Enemies -> Point]
<1> DEFINE i == pair[1]   j == pair[2]   v == Apart(i, j, p)
           push == Quot(minSep - v.d, 2)
           dx == Quot(v.x * push, v.d)   dy == Quot(v.y * push, v.d)
<1>1. i \in Enemies /\ j \in Enemies
  OBVIOUS
<1>2. v.x \in Int /\ v.y \in Int /\ v.d \in Nat \ {0} /\ v.d \in Int /\ v.d # 0
  BY <1>1, ApartType
<1> HIDE DEF v
<1>3. push \in Int
  <2>1. minSep - v.d \in Int /\ 2 \in Int /\ 2 # 0
    BY <1>2, FieldConstants
  <2> QED  BY <2>1, QuotInt
<1> HIDE DEF push
<1>4. v.x * push \in Int /\ v.y * push \in Int
  BY <1>2, <1>3
<1>5. dx \in Int /\ dy \in Int
  BY <1>2, <1>4, QuotInt
<1>6. Pushed(p, pair) = IF ~v.close THEN p
                        ELSE [p EXCEPT ![i] = Moved(@, dx, dy), ![j] = Moved(@, -dx, -dy)]
  BY DEF Pushed, v, push
<1> HIDE DEF i, j, dx, dy
<1>7. Moved(p[i], dx, dy) \in Point /\ -dx \in Int /\ -dy \in Int
  BY <1>1, <1>5, MovedType
<1>8. Moved(p[j], -dx, -dy) \in Point
  BY <1>1, <1>7, MovedType
<1>9. [p EXCEPT ![i] = Moved(@, dx, dy), ![j] = Moved(@, -dx, -dy)] \in [Enemies -> Point]
  BY <1>7, <1>8
<1> QED  BY <1>6, <1>9

(* Pushing all pairs apart, one after the other, leaves every row at a     *)
(* point.                                                                  *)
LEMMA PartedType ==
  ASSUME hero \in Point, at \in [Enemies -> Point]
  PROVE  PairsParted \in [Enemies -> Point]
<1> DEFINE n == Cardinality(Met)
           q == Pairs
           V == [Enemies -> Point]
           H == [w \in V \X (1 .. n) |-> Pushed(w[1], q[w[2]])]
           G == CHOOSE g : g = [s \in SUBSET DOMAIN q |->
                    IF s = {} THEN at ELSE Pushed(g[s \ {Max(s)}], q[Max(s)])]
<1>1. n \in Nat /\ q \in [1 .. n -> Met] /\ Met \subseteq Enemies \X Enemies
  BY PairsEnumerate, MetHasPlaces
<1>2. DOMAIN q = 1 .. n /\ \A k \in 1 .. n : q[k] \in Enemies \X Enemies
  BY <1>1
<1>3. PairsParted = G[DOMAIN q]
  BY Zenon DEF PairsParted, FoldLeft, MapThenFoldSet
<1> HIDE DEF q, n
<1>4. H \in [V \X (1 .. n) -> V]
  <2>1. \A w \in V \X (1 .. n) : Pushed(w[1], q[w[2]]) \in V
    <3> TAKE w \in V \X (1 .. n)
    <3>1. w[1] \in V /\ q[w[2]] \in Enemies \X Enemies
      BY <1>2
    <3> QED  BY <3>1, PushedType
  <2> HIDE DEF V
  <2> QED  BY <2>1
<1>5. PICK g \in [SUBSET (1 .. n) -> V] : Folds(g, at, n, H)
  <2>1. at \in V
    OBVIOUS
  <2>2. n \in Nat
    BY <1>1
  <2> HIDE DEF H, V
  <2> QED  BY <2>2, <1>4, <2>1, FoldExists
<1> HIDE DEF V
<1>6. ASSUME NEW s \in SUBSET (1 .. n), s # {}
      PROVE  H[<<g[s \ {Max(s)}], Max(s)>>] = Pushed(g[s \ {Max(s)}], q[Max(s)])
  <2>1. Max(s) \in 1 .. n
    BY <1>1, <1>6, MaxIsLast
  <2>2. g[s \ {Max(s)}] \in V
    BY <1>5
  <2> QED  BY <2>1, <2>2
<1>7. g = [s \in SUBSET DOMAIN q |-> IF s = {} THEN at ELSE Pushed(g[s \ {Max(s)}], q[Max(s)])]
  <2>1. \A s \in SUBSET (1 .. n) :
          g[s] = IF s = {} THEN at ELSE H[<<g[s \ {Max(s)}], Max(s)>>]
    BY <1>5 DEF Folds
  <2> HIDE DEF H
  <2> QED  BY <1>2, <1>5, <1>6, <2>1
<1>8. G = [s \in SUBSET DOMAIN q |-> IF s = {} THEN at ELSE Pushed(G[s \ {Max(s)}], q[Max(s)])]
  BY <1>7, Zenon
<1> HIDE DEF G
<1>9. G[{}] = at
  BY <1>8
<1>10. ASSUME NEW k \in 1 .. n PROVE G[1 .. k] = Pushed(G[1 .. k - 1], q[k])
  <2>1. 1 .. k \in SUBSET DOMAIN q /\ k \in Nat /\ k # 0
    BY <1>1, <1>2
  <2>2. 1 .. k # {} /\ Max(1 .. k) = k /\ (1 .. k) \ {k} = 1 .. k - 1
    BY <2>1, MaxOfPrefix
  <2>3. G[1 .. k] = Pushed(G[(1 .. k) \ {Max(1 .. k)}], q[Max(1 .. k)])
    BY <1>8, <2>1, <2>2
  <2> QED  BY <2>2, <2>3
<1> DEFINE T == {k \in 0 .. n : G[1 .. k] \in V}
<1>11. 0 \in T
  <2>1. 1 .. 0 = {} /\ 0 \in 0 .. n
    BY <1>1
  <2> QED  BY <2>1, <1>9 DEF V
<1>12. ASSUME NEW j \in 0 .. n - 1, j \in T PROVE j + 1 \in T
  <2>1. j + 1 \in 1 .. n /\ (j + 1) - 1 = j
    BY <1>1
  <2>2. G[1 .. j + 1] = Pushed(G[1 .. j], q[j + 1])
    BY <2>1, <1>10
  <2>3. G[1 .. j + 1] \in V
    BY <2>1, <2>2, <1>2, <1>12, PushedType DEF V
  <2> QED  BY <2>1, <2>3
<1>13. n \in T
  <2> HIDE DEF T
  <2>1. n \in Nat
    BY <1>1
  <2>2. \A i \in 0 .. n : i \in T
    BY <2>1, <1>11, <1>12, SetInduction
  <2> QED  BY <2>1, <2>2
<1> QED  BY <1>2, <1>3, <1>13 DEF V

(* A row is pushed out of the hero to a point.                             *)
LEMMA OutOfHeroType ==
  ASSUME hero \in Point, NEW p \in Point
  PROVE  OutOfHero(p) \in Point
<1> DEFINE d == Distance(p, hero)
           ux == (p.x - hero.x) * (heroSep - d)   uy == (p.y - hero.y) * (heroSep - d)
<1>1. d \in Int /\ ux \in Int /\ uy \in Int
  <2>1. PICK e \in Int : e = d
    BY DistanceTypes
  <2>2. p.x - hero.x \in Int /\ p.y - hero.y \in Int
    BY DEF Point
  <2>3. heroSep - e \in Int
    BY FieldConstants
  <2>4. \A x \in Int, y \in Int : x * y \in Int
    OBVIOUS
  <2> HIDE DEF d
  <2> QED  BY <2>1, <2>2, <2>3, <2>4
<1>2. OutOfHero(p) = IF d >= heroSep \/ d = 0 THEN p ELSE Moved(p, Quot(ux, d), Quot(uy, d))
  BY DEF OutOfHero
<1> HIDE DEF d, ux, uy
<1> QED  BY <1>1, <1>2, QuotInt, MovedType

(* separationRun leaves every row at a point.                              *)
LEMMA SeparationTypes ==
  ASSUME hero \in Point, at \in [Enemies -> Point], SeparationRun
  PROVE  at' \in [Enemies -> Point]
<1>1. \A e \in Enemies : OutOfHero(PairsParted[e]) \in Point /\ at[e] \in Point
  BY PartedType, OutOfHeroType
<1> QED  BY <1>1 DEF SeparationRun

(* A step of movementRun ends at a point.                                  *)
LEMMA StepTowardType ==
  ASSUME NEW p \in Point, NEW to \in Point, NEW step \in Int, NEW stopAt \in Int
  PROVE  StepToward(p, to, step, stopAt) \in Point
<1> DEFINE d == Distance(p, to)
           travel == IF step > d - stopAt THEN d - stopAt ELSE step
           ux == (to.x - p.x) * travel   uy == (to.y - p.y) * travel
<1>1. d \in Int /\ travel \in Int
  BY DistanceTypes
<1> HIDE DEF travel, d
<1>2. ux \in Int /\ uy \in Int
  BY <1>1 DEF Point
<1>3. StepToward(p, to, step, stopAt) = IF d <= stopAt \/ d = 0 THEN p ELSE Moved(p, Quot(ux, d), Quot(uy, d))
  BY DEF StepToward, travel, d
<1> HIDE DEF ux, uy
<1> QED  BY <1>1, <1>2, <1>3, QuotInt, MovedType

(* A row of the arrays of the store, as far as strikes write it, and a     *)
(* zone.                                                                   *)
Row == [taken : Int, dead : BOOLEAN, left : Int, dot : Int, gauge : Int, triggers : Int, groggy : Int]
ZoneType == [kind : ZoneKinds, at : Point, radius : Int, value : Int, left : Int]

(* The calls on work, with their arguments.                                *)
Strikers == {"skill", "shock", "wide", "ring", "zone", "pierce", "attack", "bolt", "storm"}
HitType  == [do : {"hit"}, who : Enemies, power : Int, hooks : BOOLEAN, by : Strikers]
CcType   == [do : {"cc"}, who : Enemies, gain : Int]
LineType == [do : {"pierce", "shock", "wide", "echo"}, power : Int]
RingType == [do : {"ring"}, center : Point, base : Nat, power : Int, gain : Int, grows : BOOLEAN,
             stacks : 0 .. centrifugeMaxStacks, struck : SUBSET Enemies]
BareType == [do : {"leech", "sweep"}]
LayType  == [do : {"lay"}, zones : Seq(ZoneType)]
ZoneCallType == [do : {"zone"}, zone : ZoneType]
DotType  == [do : {"dot"}, who : Enemies]
Calls == HitType \cup CcType \cup LineType \cup RingType \cup BareType \cup LayType \cup ZoneCallType

(* A call whose hits leech is paid for, or that pierces; the others are    *)
(* the strikes of the attack, its echo, the bolt and the storm.            *)
Seen(c) == c.do # "echo" /\ (c.do = "hit" => c.by \in Counted \cup {"pierce"})
AllSeen(q) == \A i \in 1 .. Len(q) : Seen(q[i])

(* Calls that are neither a ring nor leech, rings that begin, and what a   *)
(* cast and the zones begin with.                                          *)
Simple == HitType \cup CcType \cup LineType \cup LayType \cup ZoneCallType
FirstRing == [do : {"ring"}, center : Point, base : Nat, power : Int, gain : Int, grows : BOOLEAN,
              stacks : {0}, struck : {{}}]
Starting == {c \in Simple \cup FirstRing : Seen(c)}

(* What the other variables hold.                                          *)
SystemNames == {"beginTick", "selectTarget", "separationRun", "movementRun", "decayRun", "boltRun",
                "stormRun", "zoneRun", "ccDecayRun", "qteRun", "heroTurn", "enemiesTurn"}

ScoreType == [trash : Int, elites : Int, points : Int, exp : Int, rolls : Int,
              outcome : {"Running", "Cleared"}]

RingsType == [struck : SUBSET Enemies, among : SUBSET Enemies, radius : Nat, base : Nat, center : Point,
              grows : BOOLEAN, over : BOOLEAN, passes : Nat]

(* The types, part by part.                                                *)
FieldOK == /\ hero \in Point /\ at \in [Enemies -> Point] /\ target \in Enemies \cup {NOBODY}
           /\ manual \in Pointed
           /\ foe \in [Enemies -> Row] /\ zones \in Seq(ZoneType)

WindowOK == /\ window \in [skill : Skills \cup {NO_SKILL}, left : Int]
            /\ cooldown \in Int /\ qteCooldown \in Int /\ boltIn \in Int

(* The systems that put no calls on work; the dots are the only calls of   *)
(* theirs, and of no other system.                                         *)
Quiet == {"beginTick", "selectTarget", "separationRun", "movementRun", "ccDecayRun", "enemiesTurn"}

(* Calls are made in the systems that strike, dots in decayRun.            *)
WorkOK == /\ system \in Quiet => work = <<>>
          /\ system = "decayRun" => work \in Seq(DotType)
          /\ system # "decayRun" => work \in Seq(Calls)

(* Every variable of the battle has its type.                              *)
TypeOK == /\ FieldOK /\ build \in Builds /\ score \in ScoreType /\ WorkOK
          /\ dealt \in Int /\ WindowOK /\ system \in SystemNames
          /\ cast \in [before : [Enemies -> Int], pierced : Int]
          /\ unhurt \in [Enemies -> Int] /\ ring \in RingsType

----------------------------------------------------------------------------
(* What StrikesAssumption says, part by part.                              *)
LEMMA StrikesConstants ==
  /\ Archetype \in [Enemies -> {"Trash", "Elite", "Boss"}]
  /\ maxHp \in [Enemies -> Int] /\ armor \in [Enemies -> Int] /\ ccGaugeMax \in [Enemies -> Int]
  /\ exp \in [Enemies -> Int] /\ mult \in [Skills -> Int] /\ ccGain \in [Skills -> Int]
  /\ NO_SKILL \notin Skills /\ zoneTicks \in [ZoneLegends -> Int] /\ Grades \subseteq Int
  /\ tickHz \in Nat \ {0} /\ decayTicks \in Nat /\ centrifugeStep \in Nat \ {0}
  /\ centrifugeMaxStacks \in Nat \ {0} /\ armorK \in Int /\ AttackPower \in Int /\ AoeRadius \in Nat
  /\ groggyTicks \in Int /\ bossCcResistStep \in Int /\ ccDecayPerTick \in Int /\ executeWeakBonus \in Int
  /\ stormPower \in Int /\ vortexPower \in Int /\ aftershockPower \in Int /\ fissureSlow \in Int
  /\ FissureRadius \in Int /\ fissurePower \in Int /\ trashPoints \in Int /\ elitePoints \in Int
  /\ QteLength \in Int /\ qteCooldownTicks \in Int /\ boltIntervalTicks \in Int /\ attackInterval \in Int
  BY StrikesAssumption DEF StrikesAssumption

(* The values of the cards that a build holds.                             *)
LEMMA BuildTypes ==
  ASSUME build \in Builds
  PROVE  /\ build.chain \in Nat /\ build.pierce \in Nat /\ build.decay \in Nat /\ build.wide \in Nat
         /\ build.rend \in Nat /\ build.beacon \in Nat /\ build.bolt \in Nat
         /\ build.skills \subseteq Skills
  BY StrikesAssumption DEF StrikesAssumption

(* A fixed point product of integers is one.                               *)
LEMMA MulInt ==
  ASSUME NEW a \in Int, NEW b \in Int
  PROVE  Mul(a, b) \in Int
<1>1. a * b \in Int /\ ONE \in Int /\ ONE # 0
  BY FieldConstants
<1> QED  BY <1>1, QuotInt DEF Mul

(* Truncating and flooring agree where nothing is negative.                *)
LEMMA QuotNat ==
  ASSUME NEW a \in Nat, NEW b \in Nat \ {0}
  PROVE  Quot(a, b) \in Nat /\ Quot(a, b) = a \div b
<1>1. Quot(a, b) = a \div b
  BY DEF Quot, Abs
<1> QED  BY <1>1, DivBounds

(* A fixed point product of natural numbers is one.                        *)
LEMMA MulNat ==
  ASSUME NEW a \in Nat, NEW b \in Nat
  PROVE  Mul(a, b) \in Nat
<1>1. a * b \in Nat
  OBVIOUS
<1> QED  BY <1>1, FieldConstants, QuotNat DEF Mul

(* AtLeast is the greater of the two.                                      *)
LEMMA AtLeastInt ==
  ASSUME NEW a \in Int, NEW b \in Int
  PROVE  AtLeast(a, b) \in Int /\ AtLeast(a, b) >= b /\ AtLeast(a, b) >= a
  BY DEF AtLeast

(* Damage after armor is a number.                                         *)
LEMMA MitigateInt ==
  ASSUME NEW d \in Int, NEW a \in Int
  PROVE  Mitigate(d, a) \in Int
<1>1. CASE armorK <= 0
  BY <1>1 DEF Mitigate
<1>2. CASE ~(armorK <= 0)
  <2> DEFINE u == d * armorK * ONE   v == armorK * ONE + AtLeast(a, 0)
  <2>1. armorK \in Nat \ {0} /\ ONE \in Nat \ {0}
    BY <1>2, StrikesConstants, FieldConstants
  <2>2. armorK * ONE > 0 /\ armorK * ONE \in Int
    BY <2>1
  <2>3. AtLeast(a, 0) \in Int /\ AtLeast(a, 0) >= 0
    BY AtLeastInt
  <2>4. u \in Int /\ v \in Int /\ v # 0
    BY <2>1, <2>2, <2>3
  <2>5. Mitigate(d, a) = Quot(u, v)
    BY <1>2 DEF Mitigate
  <2> HIDE DEF u, v
  <2> QED  BY <2>4, <2>5, QuotInt
<1> QED  BY <1>1, <1>2

(* The damage of a strike is a number.                                     *)
LEMMA DamageInt ==
  ASSUME build \in Builds, NEW f, NEW e \in Enemies, NEW power \in Int, NEW hooks
  PROVE  DamageOf(f, e, power, hooks) \in Int
<1>1. ONE \in Int /\ build.beacon \in Int /\ build.rend \in Int /\ executeWeakBonus \in Int /\ armor[e] \in Int
  BY BuildTypes, StrikesConstants, FieldConstants
<1>2. BeaconMult(e) \in Int
  BY <1>1 DEF BeaconMult
<1> DEFINE weaken == IF hooks THEN ExecuteWeakenMult(f, e) ELSE ONE
<1>3. weaken \in Int
  BY <1>1 DEF ExecuteWeakenMult
<1>4. RendArmor(armor[e]) \in Int
  <2>1. ONE - build.rend \in Int
    BY <1>1
  <2>2. AtLeast(ONE - build.rend, 0) \in Int
    BY <2>1 DEF AtLeast
  <2> QED  BY <1>1, <2>2, MulInt DEF RendArmor
<1>5. Mul(Mul(power, BeaconMult(e)), weaken) \in Int
  <2> HIDE DEF weaken
  <2>1. Mul(power, BeaconMult(e)) \in Int
    BY <1>2, MulInt
  <2> QED  BY <1>3, <2>1, MulInt
<1>6. DamageOf(f, e, power, hooks) = Mitigate(Mul(Mul(power, BeaconMult(e)), weaken), RendArmor(armor[e]))
  BY DEF DamageOf
<1> HIDE DEF weaken
<1> QED  BY <1>4, <1>5, <1>6, MitigateInt

(* What execute adds is a number.                                          *)
LEMMA ExecutedInt ==
  ASSUME NEW f, NEW e \in Enemies, f.taken \in Int
  PROVE  Executed(f, e) \in Int
  BY StrikesConstants DEF Executed

(* What a dot takes in a tick is a number.                                 *)
LEMMA DotPerTickInt ==
  ASSUME build \in Builds
  PROVE  DotPerTick \in Int
<1>1. AttackPower \in Int /\ build.decay \in Int /\ tickHz \in Int /\ tickHz # 0
  BY BuildTypes, StrikesConstants
<1>2. Mul(AttackPower, build.decay) \in Int
  BY <1>1, MulInt
<1> QED  BY <1>1, <1>2, QuotInt DEF DotPerTick

(* applyDecay touches nothing of a row but its dot.                        *)
LEMMA DecayedType ==
  ASSUME build \in Builds, NEW f \in Row
  PROVE  /\ Decayed(f) \in Row /\ Decayed(f).dead = f.dead /\ Decayed(f).taken = f.taken
         /\ Decayed(f).groggy = f.groggy
<1>1. DotPerTick \in Int /\ f.dot \in Int /\ decayTicks \in Int
  BY DotPerTickInt, StrikesConstants DEF Row
<1>2. AtLeast(f.dot, DotPerTick) \in Int
  BY <1>1, AtLeastInt
<1> QED  BY <1>1, <1>2 DEF Decayed, Row

(* What a hit does to the row: the damage that it returns is what the row  *)
(* takes, and who is dead stays as he is.                                  *)
LEMMA StruckType ==
  ASSUME build \in Builds, NEW f \in Row, NEW e \in Enemies, NEW power \in Int, NEW hooks \in BOOLEAN
  PROVE  /\ Struck(f, e, power, hooks) \in Row
         /\ Returned(f, e, power, hooks) \in Int
         /\ Struck(f, e, power, hooks).taken = f.taken + Returned(f, e, power, hooks)
         /\ f.dead => Struck(f, e, power, hooks) = f
         /\ ~hooks => Struck(f, e, power, hooks).left = f.left /\ Struck(f, e, power, hooks).dot = f.dot
<1> DEFINE d == DamageOf(f, e, power, hooks)
           f1 == [f EXCEPT !.taken = @ + d]
           x == Executed(f1, e)
           f2 == IF hooks THEN [f1 EXCEPT !.taken = @ + x] ELSE f1
<1>1. d \in Int
  BY DamageInt
<1>2. Struck(f, e, power, hooks) = IF f.dead THEN f
                                   ELSE IF f2.taken >= maxHp[e] THEN [f2 EXCEPT !.dead = TRUE]
                                   ELSE IF hooks THEN Decayed(f2) ELSE f2
  BY DEF Struck
<1>3. Returned(f, e, power, hooks) = IF f.dead THEN 0 ELSE d + (IF hooks THEN x ELSE 0)
  BY DEF Returned
<1> HIDE DEF d
<1>4. f1 \in Row /\ f1.taken = f.taken + d /\ f1.left = f.left /\ f1.dot = f.dot
  BY <1>1 DEF Row
<1> HIDE DEF f1
<1>5. x \in Int
  BY <1>4, ExecutedInt DEF Row
<1> HIDE DEF x
<1>6. /\ f2 \in Row /\ f2.taken = f.taken + (d + (IF hooks THEN x ELSE 0))
      /\ f2.left = f.left /\ f2.dot = f.dot
  BY <1>1, <1>4, <1>5 DEF Row
<1> HIDE DEF f2
<1>7. [f2 EXCEPT !.dead = TRUE] \in Row
      /\ [f2 EXCEPT !.dead = TRUE].taken = f2.taken
      /\ [f2 EXCEPT !.dead = TRUE].left = f2.left /\ [f2 EXCEPT !.dead = TRUE].dot = f2.dot
  BY <1>6 DEF Row
<1>8. Decayed(f2) \in Row /\ Decayed(f2).taken = f2.taken
  BY <1>6, DecayedType
<1>9. f.taken \in Int
  BY DEF Row
<1> QED  BY <1>1, <1>2, <1>3, <1>5, <1>6, <1>7, <1>8, <1>9

(* A function applied again and again.                                     *)
Iterates(g, b, n, H) == g[0] = b /\ \A k \in 1 .. n : g[k] = H[g[k - 1]]

(* Applying a function n times is defined for every n: what the recursive  *)
(* definition of the growing radius means.                                 *)
LEMMA IterationExists ==
  ASSUME NEW V, NEW b \in V, NEW n \in Nat, NEW H, H \in [V -> V]
  PROVE  \E g \in [0 .. n -> V] : Iterates(g, b, n, H)
<1> DEFINE upto(g, m) == g[0] = b /\ \A k \in 1 .. m : g[k] = H[g[k - 1]]
           T == {m \in 0 .. n : \E g \in [0 .. n -> V] : upto(g, m)}
<1>1. 0 \in T
  <2>1. [k \in 0 .. n |-> b] \in [0 .. n -> V] /\ upto([k \in 0 .. n |-> b], 0)
    OBVIOUS
  <2> HIDE DEF upto
  <2> QED  BY <2>1
<1>2. ASSUME NEW m \in 0 .. n - 1, m \in T PROVE m + 1 \in T
  <2>1. PICK g \in [0 .. n -> V] : upto(g, m)
    BY <1>2
  <2> DEFINE h == [g EXCEPT ![m + 1] = H[g[m]]]
  <2>2. m \in 0 .. n /\ m + 1 \in 0 .. n /\ g[m] \in V
    OBVIOUS
  <2>3. h \in [0 .. n -> V]
    BY <2>2
  <2>4. upto(h, m + 1)
    <3>1. h[0] = b
      BY <2>1
    <3>2. ASSUME NEW k \in 1 .. m + 1 PROVE h[k] = H[h[k - 1]]
      <4>1. CASE k = m + 1
        BY <4>1, <2>2
      <4>2. CASE k # m + 1
        <5>1. k \in 1 .. m /\ k - 1 \in 0 .. n /\ k \in 0 .. n /\ k - 1 # m + 1
          BY <4>2
        <5> QED  BY <5>1, <2>1
      <4> QED  BY <4>1, <4>2
    <3> QED  BY <3>1, <3>2
  <2> HIDE DEF h, upto
  <2> QED  BY <2>2, <2>3, <2>4
<1>3. n \in T
  <2> HIDE DEF T
  <2>1. \A i \in 0 .. n : i \in T
    BY <1>1, <1>2, SetInduction
  <2> QED  BY <2>1
<1> QED  BY <1>3 DEF Iterates

(* The smaller of two numbers.                                             *)
LEMMA MinOfTwo ==
  ASSUME NEW a \in Int, NEW b \in Int
  PROVE  Min({a, b}) = IF a <= b THEN a ELSE b
<1> DEFINE m == IF a <= b THEN a ELSE b
<1>1. m \in {a, b} /\ \A y \in {a, b} : m <= y
  OBVIOUS
<1>2. Min({a, b}) \in {a, b} /\ \A y \in {a, b} : Min({a, b}) <= y
  <2> HIDE DEF m
  <2> QED  BY <1>1, Zenon DEF Min
<1> QED  BY <1>2

(* The stacks stop at centrifugeMaxStacks.                                 *)
LEMMA StackedType ==
  ASSUME NEW s \in 0 .. centrifugeMaxStacks, NEW k \in Nat
  PROVE  /\ Stacked(s, k) \in 0 .. centrifugeMaxStacks
         /\ Stacked(s, k) = IF s + k <= centrifugeMaxStacks THEN s + k ELSE centrifugeMaxStacks
<1>1. s + k \in Int /\ centrifugeMaxStacks \in Int /\ s + k >= 0
  BY StrikesConstants
<1>2. Stacked(s, k) = IF s + k <= centrifugeMaxStacks THEN s + k ELSE centrifugeMaxStacks
  BY <1>1, MinOfTwo DEF Stacked
<1> QED  BY <1>1, <1>2

(* A ring has a radius.                                                    *)
LEMMA RingRadiusNat ==
  ASSUME NEW base \in Nat, NEW s \in Nat
  PROVE  RingRadius(base, s) \in Nat
<1>0. ONE \in Nat /\ centrifugeStep \in Nat
  BY FieldConstants, StrikesConstants
<1>1. ONE + centrifugeStep * s \in Nat
  BY <1>0
<1> QED  BY <1>1, MulNat DEF RingRadius

----------------------------------------------------------------------------
(* centrifugeRadius, pass after pass.                                      *)
GrowType == [r : Nat, stacks : 0 .. centrifugeMaxStacks, reached : Nat]
Reach(pos, center, rows, r) == Cardinality({e \in rows : Within(pos[e], center, r)})
GrowStep(pos, g, center, base, rows) ==
  LET fresh == Reach(pos, center, rows, g.r) - g.reached
  IN  IF fresh <= 0 \/ g.stacks >= centrifugeMaxStacks THEN g
      ELSE [r |-> RingRadius(base, Stacked(g.stacks, fresh)),
            stacks |-> Stacked(g.stacks, fresh), reached |-> Reach(pos, center, rows, g.r)]

(* A circle holds a number of rows.                                        *)
LEMMA ReachNat ==
  ASSUME NEW pos, NEW rows \in SUBSET Enemies, NEW center, NEW r
  PROVE  Reach(pos, center, rows, r) \in Nat
<1>1. {e \in rows : Within(pos[e], center, r)} \in SUBSET Enemies
  OBVIOUS
<1> HIDE DEF Within
<1> QED  BY <1>1, FieldConstants, FS_Subset, FS_CardinalityType DEF Reach

(* A step of centrifugeRadius keeps its loop's variables what they are.    *)
LEMMA GrowStepType ==
  ASSUME NEW pos, NEW rows \in SUBSET Enemies, NEW center, NEW base \in Nat, NEW g \in GrowType
  PROVE  GrowStep(pos, g, center, base, rows) \in GrowType
<1> DEFINE n == Reach(pos, center, rows, g.r)
           fresh == n - g.reached
           s == Stacked(g.stacks, fresh)
<1>1. n \in Nat /\ g.reached \in Nat /\ g.stacks \in 0 .. centrifugeMaxStacks /\ g.r \in Nat
  BY ReachNat DEF GrowType
<1>2. ASSUME ~(fresh <= 0) PROVE s \in 0 .. centrifugeMaxStacks /\ RingRadius(base, s) \in Nat
  <2>1. fresh \in Nat
    BY <1>1, <1>2
  <2> HIDE DEF fresh
  <2>2. s \in 0 .. centrifugeMaxStacks
    BY <1>1, <2>1, StackedType
  <2>3. s \in Nat
    BY <2>2
  <2> HIDE DEF s
  <2> QED  BY <2>2, <2>3, RingRadiusNat
<1>3. GrowStep(pos, g, center, base, rows) =
        IF fresh <= 0 \/ g.stacks >= centrifugeMaxStacks THEN g
        ELSE [r |-> RingRadius(base, s), stacks |-> s, reached |-> n]
  BY DEF GrowStep
<1> HIDE DEF s, n, fresh
<1>4. CASE fresh <= 0 \/ g.stacks >= centrifugeMaxStacks
  BY <1>3, <1>4
<1>5. CASE ~(fresh <= 0 \/ g.stacks >= centrifugeMaxStacks)
  <2>1. s \in 0 .. centrifugeMaxStacks /\ RingRadius(base, s) \in Nat
    BY <1>2, <1>5
  <2> QED  BY <1>1, <1>3, <1>5, <2>1 DEF GrowType
<1> QED  BY <1>4, <1>5

(* The passes of a centrifuge among these rows, who stand there.           *)
Grew(g, pos, center, base, rows) ==
  /\ g \in [0 .. centrifugeMaxStacks + 1 -> GrowType]
  /\ g[0] = [r |-> base, stacks |-> 0, reached |-> 0]
  /\ \A k \in 1 .. centrifugeMaxStacks + 1 : g[k] = GrowStep(pos, g[k - 1], center, base, rows)

(* centrifugeRadius returns the radius after as many steps as there can be *)
(* stacks, and one.                                                        *)
LEMMA GrowthIterates ==
  ASSUME NEW rows \in SUBSET Enemies, NEW center, NEW base \in Nat
  PROVE  \E g : /\ Grew(g, at, center, base, rows)
               /\ CentrifugeRadius(center, base, rows) = g[centrifugeMaxStacks + 1].r
<1> DEFINE N == centrifugeMaxStacks + 1
           b == [r |-> base, stacks |-> 0, reached |-> 0]
           H == [g \in GrowType |-> GrowStep(at, g, center, base, rows)]
           G == CHOOSE g : g = [k \in 0 .. centrifugeMaxStacks + 1 |->
                    IF k = 0 THEN b ELSE GrowStep(at, g[k - 1], center, base, rows)]
<1>1. CentrifugeRadius(center, base, rows) = G[centrifugeMaxStacks + 1].r
  BY Zenon DEF CentrifugeRadius, GrowStep, Reach
<1>2. N \in Nat /\ b \in GrowType
  BY StrikesConstants DEF GrowType
<1>3. H \in [GrowType -> GrowType]
  BY GrowStepType
<1>4. PICK g \in [0 .. N -> GrowType] : Iterates(g, b, N, H)
  <2> HIDE DEF N, b, H
  <2> QED  BY <1>2, <1>3, IterationExists
<1> HIDE DEF b
<1>5. \A k \in 1 .. N : g[k - 1] \in GrowType /\ k \in 0 .. N /\ k # 0
  BY <1>2
<1>6. g[0] = b /\ \A k \in 1 .. N : g[k] = GrowStep(at, g[k - 1], center, base, rows)
  <2>1. g[0] = b /\ \A k \in 1 .. N : g[k] = H[g[k - 1]]
    BY <1>4 DEF Iterates
  <2> HIDE DEF N
  <2> QED  BY <1>5, <2>1
<1>7. g = [k \in 0 .. centrifugeMaxStacks + 1 |-> IF k = 0 THEN b ELSE GrowStep(at, g[k - 1], center, base, rows)]
  <2>1. \A k \in 0 .. N : k = 0 \/ k \in 1 .. N
    BY <1>2
  <2>2. g = [k \in 0 .. N |-> g[k]]
    BY <1>4
  <2>3. \A k \in 0 .. N : g[k] = IF k = 0 THEN b ELSE GrowStep(at, g[k - 1], center, base, rows)
    <3> HIDE DEF N
    <3> QED  BY <1>5, <1>6, <2>1
  <2> QED  BY <2>2, <2>3
<1>8. G = [k \in 0 .. N |-> IF k = 0 THEN b ELSE GrowStep(at, G[k - 1], center, base, rows)]
  BY <1>7, Zenon
<1> HIDE DEF G
<1> DEFINE T == {k \in 0 .. N : G[k] \in GrowType}
<1>9. G[0] = b /\ \A k \in 1 .. N : G[k] = GrowStep(at, G[k - 1], center, base, rows)
  BY <1>2, <1>5, <1>8
<1>10. \A k \in 0 .. N : k \in T
  <2>1. 0 \in T
    BY <1>2, <1>9
  <2>2. ASSUME NEW j \in 0 .. N - 1, j \in T PROVE j + 1 \in T
    <3>1. j + 1 \in 1 .. N /\ (j + 1) - 1 = j /\ j + 1 \in 0 .. N
      BY <1>2
    <3>2. G[j + 1] = GrowStep(at, G[j], center, base, rows)
      BY <3>1, <1>9
    <3> QED  BY <3>1, <3>2, <2>2, GrowStepType
  <2>3. N \in Nat
    BY <1>2
  <2> HIDE DEF T, N
  <2> QED  BY <2>1, <2>2, <2>3, SetInduction
<1>11. G \in [0 .. N -> GrowType]
  BY <1>8, <1>10
<1> QED  BY <1>1, <1>9, <1>11 DEF b, Grew

(* centrifugeRadius returns a radius.                                      *)
LEMMA CentrifugeRadiusNat ==
  ASSUME NEW rows \in SUBSET Enemies, NEW center, NEW base \in Nat
  PROVE  CentrifugeRadius(center, base, rows) \in Nat
<1>1. PICK g : /\ g \in [0 .. centrifugeMaxStacks + 1 -> GrowType]
               /\ CentrifugeRadius(center, base, rows) = g[centrifugeMaxStacks + 1].r
  <2>1. PICK g : /\ Grew(g, at, center, base, rows)
                 /\ CentrifugeRadius(center, base, rows) = g[centrifugeMaxStacks + 1].r
    BY GrowthIterates
  <2>2. g \in [0 .. centrifugeMaxStacks + 1 -> GrowType]
    BY <2>1, Zenon DEF Grew
  <2> QED  BY <2>1, <2>2
<1>2. centrifugeMaxStacks + 1 \in 0 .. centrifugeMaxStacks + 1
  BY StrikesConstants
<1>3. g[centrifugeMaxStacks + 1] \in GrowType
  BY <1>1, <1>2
<1> QED  BY <1>1, <1>3 DEF GrowType

---------------------------------------------------------------------------
(* The calls of a cast and of the systems.                                 *)

(* The name of a call says what its arguments are.                         *)
LEMMA CallKinds ==
  ASSUME NEW c \in Calls
  PROVE  /\ c.do = "hit" => c \in HitType
         /\ c.do = "cc" => c \in CcType
         /\ c.do \in {"pierce", "shock", "wide", "echo"} => c \in LineType
         /\ c.do = "ring" => c \in RingType
         /\ c.do = "lay" => c \in LayType
         /\ c.do = "zone" => c \in ZoneCallType
         /\ c.do # "dot"
  BY DEF Calls, HitType, CcType, LineType, RingType, BareType, LayType, ZoneCallType

(* The call at the head of work belongs to the system that runs.           *)
LEMMA HeadOfWork ==
  ASSUME WorkOK, work # <<>>
  PROVE  /\ system \notin Quiet
         /\ \/ system # "decayRun" /\ Head(work) \in Calls /\ Tail(work) \in Seq(Calls)
            \/ system = "decayRun" /\ Head(work) \in DotType /\ Tail(work) \in Seq(DotType)
<1>1. system # "decayRun" => Head(work) \in Calls /\ Tail(work) \in Seq(Calls)
  BY HeadTailProperties DEF WorkOK
<1>2. system = "decayRun" => Head(work) \in DotType /\ Tail(work) \in Seq(DotType)
  BY HeadTailProperties DEF WorkOK
<1> QED  BY <1>1, <1>2 DEF WorkOK

(* A call that is not a dot is made outside decayRun.                      *)
LEMMA CallAtHead ==
  ASSUME WorkOK, NEW k, Doing(k), k # "dot"
  PROVE  /\ work # <<>> /\ Head(work) \in Calls /\ Head(work).do = k /\ Tail(work) \in Seq(Calls)
         /\ system \notin Quiet /\ system # "decayRun"
<1>1. work # <<>> /\ Head(work).do # "dot" /\ Head(work).do = k
  BY DEF Doing
<1>2. Head(work) \in DotType => Head(work).do = "dot"
  BY DEF DotType
<1> QED  BY <1>1, <1>2, HeadOfWork

(* An array of n entries is a sequence as long.                            *)
LEMMA ArrayAsSeq ==
  ASSUME NEW S, NEW n \in Nat, NEW q \in [1 .. n -> S]
  PROVE  q \in Seq(S) /\ Len(q) = n
  BY SeqDef

(* Striking a set of rows is a call for each, in array order.              *)
LEMMA HitCallsType ==
  ASSUME NEW rows \in SUBSET Enemies, NEW power \in Int, NEW hooks \in BOOLEAN, NEW by \in Strikers
  PROVE  /\ HitCalls(rows, power, hooks, by) \in Seq(Calls)
         /\ Len(HitCalls(rows, power, hooks, by)) = Cardinality(rows)
         /\ \A i \in 1 .. Cardinality(rows) :
              HitCalls(rows, power, hooks, by)[i] = HitCall(InArrayOrder(rows)[i], power, hooks, by)
         /\ HitCalls(rows, power, hooks, by) \in Seq(HitType)
<1> DEFINE n == Cardinality(rows)
<1>1. n \in Nat /\ InArrayOrder(rows) \in [1 .. n -> rows]
  BY ArrayOrder
<1> HIDE DEF n
<1>2. \A i \in 1 .. n : HitCall(InArrayOrder(rows)[i], power, hooks, by) \in HitType
  <2> TAKE i \in 1 .. n
  <2>1. InArrayOrder(rows)[i] \in Enemies
    BY <1>1
  <2> QED  BY <2>1 DEF HitCall, HitType
<1>3. HitCalls(rows, power, hooks, by) = [i \in 1 .. n |-> HitCall(InArrayOrder(rows)[i], power, hooks, by)]
  BY DEF HitCalls, n
<1>4. HitCalls(rows, power, hooks, by) \in [1 .. n -> HitType]
  BY <1>2, <1>3
<1>5. HitCalls(rows, power, hooks, by) \in [1 .. n -> Calls]
  BY <1>4 DEF Calls
<1>6. \A i \in 1 .. n : HitCalls(rows, power, hooks, by)[i] = HitCall(InArrayOrder(rows)[i], power, hooks, by)
  BY <1>3
<1> QED  BY <1>1, <1>4, <1>5, <1>6, ArrayAsSeq DEF n

(* What each constructor of a call gives.                                  *)
LEMMA SinglesAreCalls ==
  /\ \A e \in Enemies, p \in Int, h \in BOOLEAN, b \in Strikers : HitCall(e, p, h, b) \in Simple
  /\ \A e \in Enemies, g \in Int : CcCall(e, g) \in Simple
  /\ \A k \in {"pierce", "shock", "wide", "echo"}, p \in Int : LineCall(k, p) \in Simple
  /\ \A k \in {"leech", "sweep"} : Call(k) \in Calls
  /\ \A z \in Seq(ZoneType) : [do |-> "lay", zones |-> z] \in Simple
  /\ \A z \in ZoneType : [do |-> "zone", zone |-> z] \in ZoneCallType
  /\ \A p \in Point, b \in Nat, w, g \in Int, grows \in BOOLEAN :
        RingCall(p, b, w, g, grows, 0, {}) \in FirstRing
  /\ \A p \in Point, b \in Nat, w, g \in Int, grows \in BOOLEAN, s \in 0 .. centrifugeMaxStacks,
        str \in SUBSET Enemies : RingCall(p, b, w, g, grows, s, str) \in Calls
<1>1. \A e \in Enemies, p \in Int, h \in BOOLEAN, b \in Strikers : HitCall(e, p, h, b) \in HitType
  BY DEF HitCall, HitType
<1>2. \A e \in Enemies, g \in Int : CcCall(e, g) \in CcType
  BY DEF CcCall, CcType
<1>3. \A k \in {"pierce", "shock", "wide", "echo"}, p \in Int : LineCall(k, p) \in LineType
  BY DEF LineCall, LineType
<1>4. \A k \in {"leech", "sweep"} : Call(k) \in BareType
  BY DEF Call, BareType
<1>5. \A z \in Seq(ZoneType) : [do |-> "lay", zones |-> z] \in LayType
  BY DEF LayType
<1>6. \A z \in ZoneType : [do |-> "zone", zone |-> z] \in ZoneCallType
  BY DEF ZoneCallType
<1>7. \A p \in Point, b \in Nat, w, g \in Int, grows \in BOOLEAN :
        RingCall(p, b, w, g, grows, 0, {}) \in FirstRing
  BY DEF RingCall, FirstRing
<1>8. \A p \in Point, b \in Nat, w, g \in Int, grows \in BOOLEAN, s \in 0 .. centrifugeMaxStacks,
        str \in SUBSET Enemies : RingCall(p, b, w, g, grows, s, str) \in RingType
  BY DEF RingCall, RingType
<1> QED  BY <1>1, <1>2, <1>3, <1>4, <1>5, <1>6, <1>7, <1>8 DEF Calls, Simple

(* Which of these calls are seen by leech.                                 *)
LEMMA SinglesAreSeen ==
  /\ \A e, p, h : \A b \in Counted \cup {"pierce"} : Seen(HitCall(e, p, h, b))
  /\ \A e, g : Seen(CcCall(e, g))
  /\ \A k \in {"pierce", "shock", "wide"} : \A p : Seen(LineCall(k, p))
  /\ \A c \in FirstRing \cup RingType \cup ZoneCallType : Seen(c)
<1>1. \A e, p, h : \A b \in Counted \cup {"pierce"} : Seen(HitCall(e, p, h, b))
  BY DEF HitCall, Seen
<1>2. \A e, g : Seen(CcCall(e, g))
  BY DEF CcCall, Seen
<1>3. \A k \in {"pierce", "shock", "wide"} : \A p : Seen(LineCall(k, p))
  BY DEF LineCall, Seen
<1>4. \A c \in FirstRing \cup RingType \cup ZoneCallType : Seen(c)
  <2>1. \A c \in FirstRing \cup RingType \cup ZoneCallType : c.do \in {"ring", "zone"}
    BY DEF FirstRing, RingType, ZoneCallType
  <2> QED  BY <2>1 DEF Seen
<1> QED  BY <1>1, <1>2, <1>3, <1>4

(* Simple calls, calls that a cast starts with, and all calls.             *)
LEMMA CallSets ==
  /\ ZoneCallType \subseteq Starting /\ Starting \subseteq Calls /\ Simple \subseteq Calls
  /\ HitType \subseteq Simple /\ CcType \subseteq Simple /\ LineType \subseteq Simple
  /\ LayType \subseteq Simple /\ ZoneCallType \subseteq Simple
<1>1. FirstRing \subseteq RingType
  <2>1. 0 \in 0 .. centrifugeMaxStacks /\ {} \in SUBSET Enemies
    BY StrikesConstants
  <2> QED  BY <2>1 DEF FirstRing, RingType
<1>2. Simple \subseteq Calls /\ ZoneCallType \subseteq Simple
  BY DEF Simple, Calls
<1>3. Starting \subseteq Calls
  BY <1>1, <1>2 DEF Starting, Calls
<1>4. ZoneCallType \subseteq Starting
  BY <1>2, SinglesAreSeen DEF Starting
<1> QED  BY <1>2, <1>3, <1>4 DEF Simple

(* A sequence over a set is one over every larger set.                     *)
LEMMA SeqOfMore ==
  ASSUME NEW S, NEW T, S \subseteq T, NEW q \in Seq(S)
  PROVE  q \in Seq(T)
  OBVIOUS

(* A single entry is a sequence.                                           *)
LEMMA OneIsASeq ==
  ASSUME NEW S, NEW x \in S
  PROVE  <<x>> \in Seq(S)
  OBVIOUS

(* The circle of wide has a radius.                                        *)
LEMMA WideRadiusNat ==
  ASSUME build \in Builds
  PROVE  WideRadius \in Nat
<1>1. AoeRadius \in Nat /\ ONE \in Nat /\ build.wide \in Nat
  BY BuildTypes, StrikesConstants, FieldConstants
<1>2. ONE + build.wide \in Nat
  BY <1>1
<1> QED  BY <1>1, <1>2, MulNat DEF WideRadius

(* A circle skill is centred on a point, with or without a target.         *)
LEMMA AoeCenterType ==
  ASSUME FieldOK, build \in Builds, NEW s
  PROVE  AoeCenter(s) \in Point
<1>1. CASE s \notin forward \/ target = NOBODY \/ Distance(at[target], hero) = 0
  BY <1>1 DEF AoeCenter, FieldOK
<1>2. CASE ~(s \notin forward \/ target = NOBODY \/ Distance(at[target], hero) = 0)
  <2> DEFINE d == Distance(at[target], hero)
             ux == (at[target].x - hero.x) * WideRadius   uy == (at[target].y - hero.y) * WideRadius
  <2>1. at[target] \in Point /\ hero \in Point
    BY <1>2 DEF FieldOK
  <2>2. d \in Int /\ d # 0
    BY <1>2, <2>1, DistanceTypes
  <2>3. at[target].x \in Int /\ at[target].y \in Int /\ hero.x \in Int /\ hero.y \in Int /\ WideRadius \in Int
    BY <2>1, WideRadiusNat DEF Point
  <2>4. ux \in Int /\ uy \in Int
    BY <2>3
  <2>5. AoeCenter(s) = [x |-> hero.x + Quot(ux, d), y |-> hero.y + Quot(uy, d)]
    BY <1>2 DEF AoeCenter
  <2> HIDE DEF d, ux, uy
  <2>6. Quot(ux, d) \in Int /\ Quot(uy, d) \in Int
    BY <2>2, <2>4, QuotInt
  <2> QED  BY <2>3, <2>5, <2>6 DEF Point
<1> QED  BY <1>1, <1>2

(* A zone that is laid.                                                    *)
LEMMA ZoneIsTyped ==
  ASSUME NEW k \in ZoneKinds, NEW l \in ZoneLegends, NEW c \in Point, NEW r \in Int, NEW v \in Int
  PROVE  Zone(k, l, c, r, v) \in ZoneType
  BY StrikesConstants DEF Zone, ZoneType

(* What a skill lays on the ground.                                        *)
LEMMA LaidType ==
  ASSUME FieldOK, build \in Builds, NEW s, NEW grade \in Int
  PROVE  Laid(s, grade) \in Seq(ZoneType)
<1>1. AoeCenter(s) \in Point /\ WideRadius \in Int
  BY AoeCenterType, WideRadiusNat
<1>2. Mul(aftershockPower, grade) \in Int /\ Mul(fissurePower, grade) \in Int
  BY MulInt, StrikesConstants
<1> DEFINE a == Zone("Aftershock", "Aftershock", AoeCenter(s), WideRadius, Mul(aftershockPower, grade))
           b == Zone("Fissure", "Fissure", AoeCenter(s), FissureRadius, fissureSlow)
           c == Zone("Burn", "Fissure", AoeCenter(s), WideRadius, Mul(fissurePower, grade))
<1>3. a \in ZoneType /\ b \in ZoneType /\ c \in ZoneType
  BY <1>1, <1>2, ZoneIsTyped, StrikesConstants DEF ZoneKinds, ZoneLegends
<1> HIDE DEF a, b, c
<1> DEFINE p == IF OnSkill("Aftershock", s) /\ aftershockPower > 0 THEN <<a>> ELSE <<>>
           q == IF OnSkill("Fissure", s) /\ fissureSlow > 0 THEN <<b>> ELSE <<>>
           r == IF OnSkill("Fissure", s) /\ fissurePower > 0 THEN <<c>> ELSE <<>>
<1>4. p \in Seq(ZoneType) /\ q \in Seq(ZoneType) /\ r \in Seq(ZoneType)
  BY <1>3
<1>5. Laid(s, grade) = p \o q \o r
  BY DEF Laid, a, b, c
<1> HIDE DEF p, q, r
<1> QED  BY <1>4, <1>5, ConcatProperties

(* The vortex that a skill leaves.                                         *)
LEMMA VortexType ==
  ASSUME FieldOK, build \in Builds, NEW s, NEW grade \in Int
  PROVE  Vortex(s, grade) \in Seq(ZoneType)
<1>1. AoeCenter(s) \in Point /\ WideRadius \in Nat /\ Mul(vortexPower, grade) \in Int
  BY AoeCenterType, WideRadiusNat, MulInt, StrikesConstants
<1>2. CentrifugeRadius(AoeCenter(s), WideRadius, Living) \in Int
  BY <1>1, LivingRows, CentrifugeRadiusNat
<1> DEFINE r == IF OnSkill("Centrifuge", s) THEN CentrifugeRadius(AoeCenter(s), WideRadius, Living) ELSE WideRadius
<1>3. r \in Int
  BY <1>1, <1>2
<1>4. Vortex(s, grade) = <<Zone("Burn", "Vortex", AoeCenter(s), r, Mul(vortexPower, grade))>>
  BY DEF Vortex
<1> HIDE DEF r
<1>5. Zone("Burn", "Vortex", AoeCenter(s), r, Mul(vortexPower, grade)) \in ZoneType
  BY <1>1, <1>3, ZoneIsTyped DEF ZoneKinds, ZoneLegends
<1> QED  BY <1>4, <1>5

(* One pass of a skill: its strikes, or the first ring.                    *)
LEMMA PassType ==
  ASSUME FieldOK, build \in Builds, NEW s \in Skills, NEW power \in Int, NEW pass
  PROVE  Pass(s, power, pass) \in Seq(Starting)
<1>1. GainOf(s, pass) \in Int
  BY StrikesConstants DEF GainOf
<1>2. CASE s \in aoe
  <2>1. AoeCenter(s) \in Point /\ WideRadius \in Nat /\ 0 \in 0 .. centrifugeMaxStacks
    BY AoeCenterType, WideRadiusNat, StrikesConstants
  <2>2. OnSkill("Centrifuge", s) \in BOOLEAN
    BY DEF OnSkill, Has
  <2>3. RingCall(AoeCenter(s), WideRadius, power, GainOf(s, pass), OnSkill("Centrifuge", s), 0, {}) \in FirstRing
    BY <1>1, <2>1, <2>2, SinglesAreCalls
  <2>4. RingCall(AoeCenter(s), WideRadius, power, GainOf(s, pass), OnSkill("Centrifuge", s), 0, {}) \in Starting
    BY <2>3, SinglesAreSeen DEF Starting
  <2> QED  BY <1>2, <2>4 DEF Pass
<1>3. CASE s \notin aoe /\ target = NOBODY
  BY <1>3 DEF Pass
<1>4. CASE s \notin aoe /\ target # NOBODY
  <2>1. target \in Enemies
    BY <1>4 DEF FieldOK
  <2>2. /\ HitCall(target, power, TRUE, "skill") \in Starting /\ CcCall(target, GainOf(s, pass)) \in Starting
        /\ LineCall("pierce", power) \in Starting /\ LineCall("shock", power) \in Starting
        /\ LineCall("wide", power) \in Starting
    <3>1. HitCall(target, power, TRUE, "skill") \in Simple /\ Seen(HitCall(target, power, TRUE, "skill"))
      BY <2>1, SinglesAreCalls, SinglesAreSeen DEF Strikers, Counted
    <3>2. CcCall(target, GainOf(s, pass)) \in Simple /\ Seen(CcCall(target, GainOf(s, pass)))
      BY <1>1, <2>1, SinglesAreCalls, SinglesAreSeen
    <3>3. \A k \in {"pierce", "shock", "wide"} : LineCall(k, power) \in Simple /\ Seen(LineCall(k, power))
      BY SinglesAreCalls, SinglesAreSeen
    <3> QED  BY <3>1, <3>2, <3>3 DEF Starting
  <2> DEFINE h == HitCall(target, power, TRUE, "skill")   c == CcCall(target, GainOf(s, pass))
             l == LineCall("pierce", power)
             p == <<h, c, l>>
             q == IF OnSkill("Shockwave", s) THEN <<LineCall("shock", power)>> ELSE <<>>
             r == <<LineCall("wide", power)>>
  <2>3. p \in Seq(Starting)
    <3> HIDE DEF h, c, l
    <3>1. h \in Starting /\ c \in Starting /\ l \in Starting
      BY <2>2 DEF h, c, l
    <3> QED  BY <3>1
  <2>5. q \in Seq(Starting) /\ r \in Seq(Starting)
    BY <2>2, OneIsASeq
  <2>4. Pass(s, power, pass) = p \o q \o r
    BY <1>4 DEF Pass
  <2> HIDE DEF p, q, r
  <2> QED  BY <2>3, <2>4, <2>5, ConcatProperties
<1> QED  BY <1>2, <1>3, <1>4

(* The power of a cast, and that of its second pass.                       *)
LEMMA CastPowers ==
  ASSUME build \in Builds, NEW s \in Skills, NEW grade \in Int
  PROVE  LET power == Mul(Mul(AttackPower, mult[s]), grade)
         IN  power \in Int /\ Quot(Mul(power, ONE + build.chain), 2) \in Int
<1> DEFINE power == Mul(Mul(AttackPower, mult[s]), grade)
<1>1. Mul(AttackPower, mult[s]) \in Int
  BY StrikesConstants, MulInt
<1>2. power \in Int
  BY <1>1, MulInt
<1> HIDE DEF power
<1>3. ONE + build.chain \in Int
  BY BuildTypes, FieldConstants
<1>4. Mul(power, ONE + build.chain) \in Int
  BY <1>2, <1>3, MulInt
<1>5. Quot(Mul(power, ONE + build.chain), 2) \in Int
  BY <1>4, QuotInt
<1> QED  BY <1>2, <1>5 DEF power

(* A cast is simple calls, or passes followed by leech and one more simple *)
(* call.                                                                   *)
LEMMA CastCallsType ==
  ASSUME FieldOK, build \in Builds, NEW s \in Skills, NEW grade \in Int
  PROVE  \/ CastCalls(s, grade) \in Seq(Simple)
         \/ \E p \in Seq(Starting), q \in Simple :
              CastCalls(s, grade) = p \o <<Call("leech"), q>>
<1> DEFINE power == Mul(Mul(AttackPower, mult[s]), grade)
           share == Quot(Mul(power, ONE + build.chain), 2)
           p == IF build.chain > 0 THEN Pass(s, share, 1) \o Pass(s, share, 2) ELSE Pass(s, power, 1)
           q == <<Call("leech"), [do |-> "lay", zones |-> Laid(s, grade)]>>
           v == <<[do |-> "lay", zones |-> Vortex(s, grade)]>>
<1>1. power \in Int /\ share \in Int
  BY CastPowers
<1>2. CastCalls(s, grade) = IF OnSkill("Vortex", s) THEN v ELSE p \o q
  BY DEF CastCalls
<1> HIDE DEF power, share
<1>3. Pass(s, share, 1) \in Seq(Starting) /\ Pass(s, share, 2) \in Seq(Starting) /\ Pass(s, power, 1) \in Seq(Starting)
  BY <1>1, PassType
<1>4. p \in Seq(Starting)
  BY <1>3, ConcatProperties
<1>5. /\ [do |-> "lay", zones |-> Laid(s, grade)] \in Simple
      /\ [do |-> "lay", zones |-> Vortex(s, grade)] \in Simple
  BY LaidType, VortexType, SinglesAreCalls
<1>6. v \in Seq(Simple)
  BY <1>5, OneIsASeq
<1>7. CASE OnSkill("Vortex", s)
  BY <1>2, <1>6, <1>7
<1>8. CASE ~OnSkill("Vortex", s)
  <2>1. CastCalls(s, grade) = p \o <<Call("leech"), [do |-> "lay", zones |-> Laid(s, grade)]>>
    BY <1>2, <1>8
  <2> HIDE DEF p
  <2> QED  BY <1>4, <1>5, <2>1
<1> QED  BY <1>7, <1>8

(* Entries picked from a sequence keep their type.                         *)
LEMMA EntriesType ==
  ASSUME NEW S, NEW q \in Seq(S), NEW indices \in SUBSET DOMAIN q
  PROVE  Entries(q, indices) \in Seq(S)
<1>1. Len(q) \in Nat /\ DOMAIN q = 1 .. Len(q) /\ \A i \in 1 .. Len(q) : q[i] \in S
  OBVIOUS
<1>2. IsFiniteSet(indices) /\ indices \in SUBSET Nat
  <2>1. 1 \in Int /\ Len(q) \in Int /\ indices \in SUBSET (1 .. Len(q))
    BY <1>1
  <2>2. IsFiniteSet(1 .. Len(q))
    BY <2>1, FS_Interval
  <2>3. IsFiniteSet(indices)
    BY <2>1, <2>2, FS_Subset
  <2> QED  BY <2>1, <2>3
<1> DEFINE n == Cardinality(indices)
<1>3. n \in Nat /\ InArrayOrder(indices) \in [1 .. n -> indices]
  BY <1>2, NumbersInOrder
<1> HIDE DEF n
<1>4. \A k \in 1 .. n : q[InArrayOrder(indices)[k]] \in S
  BY <1>1, <1>3
<1>5. Entries(q, indices) = [k \in 1 .. n |-> q[InArrayOrder(indices)[k]]]
  BY DEF Entries, n
<1>6. Entries(q, indices) \in [1 .. n -> S]
  BY <1>4, <1>5
<1> QED  BY <1>3, <1>6, ArrayAsSeq

---------------------------------------------------------------------------
(* What each call keeps.                                                   *)

(* Paying for a death leaves the score one.                                *)
LEMMA PaidType ==
  ASSUME NEW s \in ScoreType, NEW e \in Enemies
  PROVE  Paid(s, e) \in ScoreType
<1>1. exp[e] \in Int /\ trashPoints \in Int /\ elitePoints \in Int
  BY StrikesConstants
<1> DEFINE p == [s EXCEPT !.exp = @ + exp[e]]
<1>2. p \in ScoreType
  BY <1>1 DEF ScoreType
<1> HIDE DEF p
<1>3. p.trash + 1 \in Int /\ p.points + trashPoints \in Int /\ p.rolls + 1 \in Int
      /\ p.elites + 1 \in Int /\ p.points + elitePoints \in Int
  BY <1>1, <1>2 DEF ScoreType
<1>5. [p EXCEPT !.trash = @ + 1, !.points = @ + trashPoints, !.rolls = @ + 1] \in ScoreType
  BY <1>2, <1>3 DEF ScoreType
<1>6. [p EXCEPT !.outcome = "Cleared"] \in ScoreType
  BY <1>2 DEF ScoreType
<1>7. [p EXCEPT !.elites = @ + 1, !.points = @ + elitePoints] \in ScoreType
  BY <1>2, <1>3 DEF ScoreType
<1>4. Archetype[e] = "Trash" \/ Archetype[e] = "Boss" \/ (Archetype[e] # "Trash" /\ Archetype[e] # "Boss")
  OBVIOUS
<1> QED  BY <1>4, <1>5, <1>6, <1>7 DEF Paid, p

(* A gauge that fills touches neither the damage taken nor the dot.        *)
LEMMA StunnedType ==
  ASSUME NEW f \in Row, NEW e \in Enemies, NEW gain \in Int
  PROVE  /\ Stunned(f, e, gain) \in Row /\ Stunned(f, e, gain).taken = f.taken
         /\ Stunned(f, e, gain).dead = f.dead /\ Stunned(f, e, gain).left = f.left
         /\ Stunned(f, e, gain).dot = f.dot
<1> DEFINE filled == f.gauge + Mul(ccGaugeMax[e], gain)
<1>1. Mul(ccGaugeMax[e], gain) \in Int /\ groggyTicks \in Int
  BY StrikesConstants, MulInt
<1>2. filled \in Int /\ f.triggers + 1 \in Int
  BY <1>1 DEF Row
<1>3. Stunned(f, e, gain) =
        IF gain <= 0 \/ f.dead \/ groggyTicks <= 0 THEN f
        ELSE IF ccGaugeMax[e] <= 0 THEN [f EXCEPT !.groggy = groggyTicks]
        ELSE IF CcThreshold(f, e) <= 0 \/ filled < CcThreshold(f, e) THEN [f EXCEPT !.gauge = filled]
        ELSE [f EXCEPT !.gauge = 0, !.triggers = @ + 1, !.groggy = groggyTicks]
  BY DEF Stunned
<1> HIDE DEF filled
<1> DEFINE a == [f EXCEPT !.groggy = groggyTicks]   b == [f EXCEPT !.gauge = filled]
           c == [f EXCEPT !.gauge = 0, !.triggers = @ + 1, !.groggy = groggyTicks]
           same(g) == g \in Row /\ g.taken = f.taken /\ g.dead = f.dead /\ g.left = f.left /\ g.dot = f.dot
<1>4. same(f) /\ same(a) /\ same(b)
  BY <1>1, <1>2 DEF Row
<1>5. same(c)
  <2>1. c = [f EXCEPT !.gauge = 0, !.triggers = f.triggers + 1, !.groggy = groggyTicks]
    BY DEF Row
  <2>2. c \in Row
    <3> DEFINE t == f.triggers + 1
               p == [f EXCEPT !.gauge = 0]
               q == [p EXCEPT !.triggers = t]
    <3>1. t \in Int
      BY <1>2
    <3>2. c = [q EXCEPT !.groggy = groggyTicks]
      BY <2>1 DEF Row
    <3> HIDE DEF t, c
    <3>3. p \in Row
      BY DEF Row
    <3> HIDE DEF p
    <3>4. q \in Row
      BY <3>1, <3>3 DEF Row
    <3> HIDE DEF q
    <3> QED  BY <1>1, <3>2, <3>4 DEF Row
  <2>3. c.taken = f.taken /\ c.dead = f.dead /\ c.left = f.left /\ c.dot = f.dot
    BY <2>1 DEF Row
  <2> QED  BY <2>2, <2>3
<1>6. Stunned(f, e, gain) \in {f, a, b, c}
  BY <1>3
<1> HIDE DEF a, b, c
<1> QED  BY <1>4, <1>5, <1>6

(* A gauge that runs down touches neither the damage taken nor the dot.    *)
LEMMA CcLessType ==
  ASSUME NEW f \in Row, NEW e \in Enemies
  PROVE  /\ CcLess(f, e) \in Row /\ CcLess(f, e).taken = f.taken /\ CcLess(f, e).dead = f.dead
         /\ CcLess(f, e).left = f.left /\ CcLess(f, e).dot = f.dot
<1>1. Mul(ccGaugeMax[e], ccDecayPerTick) \in Int
  BY StrikesConstants, MulInt
<1>2. f.gauge - Mul(ccGaugeMax[e], ccDecayPerTick) \in Int
  BY <1>1 DEF Row
<1>3. AtLeast(f.gauge - Mul(ccGaugeMax[e], ccDecayPerTick), 0) \in Int
  BY <1>2 DEF AtLeast
<1> QED  BY <1>3 DEF CcLess, Row

(* Rows on a line.                                                         *)
LEMMA InLineRows ==
  ASSUME NEW w, NEW l, NEW h
  PROVE  InLine(w, l, h) \in SUBSET Enemies
  BY LivingRows DEF InLine

(* Rows in a circle, all of them alive.                                    *)
LEMMA InRadiusRows ==
  ASSUME NEW p, NEW r
  PROVE  InRadius(p, r) \in SUBSET Living /\ InRadius(p, r) \in SUBSET Enemies
  BY LivingRows DEF InRadius

(* Strikes at a set of rows are simple calls, and seen if their code is.   *)
LEMMA HitsAreSimple ==
  ASSUME NEW rows \in SUBSET Enemies, NEW power \in Int, NEW hooks \in BOOLEAN, NEW by \in Strikers
  PROVE  /\ HitCalls(rows, power, hooks, by) \in Seq(Simple)
         /\ by \in Counted \cup {"pierce"} => AllSeen(HitCalls(rows, power, hooks, by))
<1> DEFINE n == Cardinality(rows)
           h == HitCalls(rows, power, hooks, by)
<1>1. /\ h \in Seq(HitType) /\ Len(h) = n
      /\ \A i \in 1 .. n : h[i] = HitCall(InArrayOrder(rows)[i], power, hooks, by)
  BY HitCallsType
<1> HIDE DEF h, n
<1>2. h \in Seq(Simple)
  BY <1>1, CallSets, SeqOfMore
<1>3. ASSUME by \in Counted \cup {"pierce"} PROVE AllSeen(h)
  <2>1. ASSUME NEW i \in 1 .. Len(h) PROVE Seen(h[i])
    <3>1. h[i] = HitCall(InArrayOrder(rows)[i], power, hooks, by)
      BY <1>1
    <3> QED  BY <1>3, <3>1, SinglesAreSeen
  <2> QED  BY <2>1 DEF AllSeen
<1> QED  BY <1>2, <1>3 DEF h

(* What is noted when strikes begin.                                       *)
LEMMA FreshType ==
  ASSUME FieldOK
  PROVE  Fresh \in [before : [Enemies -> Int], pierced : Int]
<1>1. \A e \in Enemies : foe[e].taken \in Int
  BY DEF FieldOK, Row
<1> QED  BY <1>1 DEF Fresh

----------------------------------------------------------------------------
(* One call.                                                               *)
LEMMA HitKeepsTypes ==
  ASSUME TypeOK, Hit, system' = system
  PROVE  TypeOK'
<1> DEFINE c == Head(work)
           f == foe[c.who]
           g == Struck(f, c.who, c.power, c.hooks)
           got == Returned(f, c.who, c.power, c.hooks)
<1>1. c \in HitType /\ Tail(work) \in Seq(Calls)
      /\ system # "decayRun" /\ system \notin Quiet
  BY CallAtHead, CallKinds DEF TypeOK, Hit
<1>2. c.who \in Enemies /\ c.power \in Int /\ c.hooks \in BOOLEAN
  BY <1>1 DEF HitType
<1>3. f \in Row /\ build \in Builds
  BY <1>2 DEF TypeOK, FieldOK
<1>4. g \in Row /\ got \in Int /\ g.taken = f.taken + got
  BY <1>2, <1>3, StruckType
<1>5. /\ foe' = [foe EXCEPT ![c.who] = g]
      /\ score' = ScoreAfter(foe'[c.who], c.who)
      /\ dealt' = IF c.by \in Counted THEN dealt + got ELSE dealt
      /\ cast' = IF c.by # "pierce" THEN cast ELSE [cast EXCEPT !.pierced = @ + foe'[c.who].taken - f.taken]
      /\ unhurt' = IF c.hooks THEN [unhurt EXCEPT ![c.who] = 0] ELSE unhurt
      /\ work' = Tail(work)
      /\ UNCHANGED <<places, zones, build, trials, cooldown, window, qteCooldown, boltIn, ring>>
  BY DEF Hit
<1> HIDE DEF c, f, g, got
<1>6. foe' \in [Enemies -> Row] /\ foe'[c.who] = g
  BY <1>2, <1>4, <1>5 DEF TypeOK, FieldOK
<1>7. score' \in ScoreType
  BY <1>2, <1>5, PaidType DEF ScoreAfter, TypeOK
<1>8. cast' \in [before : [Enemies -> Int], pierced : Int]
  <2>1. g.taken \in Int /\ f.taken \in Int /\ cast.pierced \in Int
    BY <1>3, <1>4 DEF Row, TypeOK
  <2>2. cast.pierced + g.taken - f.taken \in Int
    BY <2>1
  <2> QED  BY <1>5, <1>6, <2>2 DEF TypeOK
<1>9. dealt' \in Int /\ unhurt' \in [Enemies -> Int]
  BY <1>2, <1>4, <1>5 DEF TypeOK
<1> QED  BY <1>1, <1>5, <1>6, <1>7, <1>8, <1>9 DEF TypeOK, FieldOK, WorkOK, WindowOK, places

(* Filling a gauge keeps the types.                                        *)
LEMMA CcKeepsTypes ==
  ASSUME TypeOK, Cc, system' = system
  PROVE  TypeOK'
<1> DEFINE c == Head(work)
<1>1. c \in CcType /\ Tail(work) \in Seq(Calls)
      /\ system # "decayRun" /\ system \notin Quiet
  BY CallAtHead, CallKinds DEF TypeOK, Cc
<1>2. c.who \in Enemies /\ c.gain \in Int /\ foe[c.who] \in Row
  BY <1>1 DEF CcType, TypeOK, FieldOK
<1>3. Stunned(foe[c.who], c.who, c.gain) \in Row
  BY <1>2, StunnedType
<1>4. foe' = [foe EXCEPT ![c.who] = Stunned(foe[c.who], c.who, c.gain)] /\ work' = Tail(work)
      /\ UNCHANGED <<places, zones, build, trials, score, dealt, cooldown, window, qteCooldown, boltIn, history>>
  BY DEF Cc
<1> HIDE DEF c
<1>5. foe' \in [Enemies -> Row]
  BY <1>2, <1>3, <1>4 DEF TypeOK, FieldOK
<1> QED  BY <1>1, <1>4, <1>5 DEF TypeOK, FieldOK, WorkOK, WindowOK, places, history

(* A call that puts others in its place changes nothing else that is typed.*)
LEMMA ExpandType ==
  ASSUME TypeOK, work # <<>>, system # "decayRun", system \notin Quiet, ring' \in RingsType,
         NEW calls \in Seq(Calls), Expand(calls), system' = system
  PROVE  TypeOK'
<1>1. Tail(work) \in Seq(Calls)
  BY HeadTailProperties DEF TypeOK, WorkOK
<1>2. work' \in Seq(Calls)
  BY <1>1, ConcatProperties DEF Expand
<1> QED  BY <1>2 DEF Expand, TypeOK, FieldOK, WorkOK, WindowOK, places

(* The calls that collect rows carry a power and are made outside          *)
(* decayRun.                                                               *)
LEMMA LineCallType ==
  ASSUME TypeOK, NEW k \in {"pierce", "shock", "wide", "echo"}, Doing(k)
  PROVE  work # <<>> /\ Head(work).power \in Int /\ system # "decayRun" /\ system \notin Quiet
<1>1. Head(work) \in LineType /\ work # <<>>
      /\ system # "decayRun" /\ system \notin Quiet
  BY CallAtHead, CallKinds DEF TypeOK
<1> QED  BY <1>1 DEF LineType

(* What the lines, circles and zones collect are strikes, seen if the call *)
(* that collects them is.                                                  *)
LEMMA CollectedAreSimple ==
  ASSUME TypeOK, Pierce \/ Shockwave \/ Wide \/ Echo \/ ZoneStrikes
  PROVE  /\ work # <<>> /\ system # "decayRun" /\ system \notin Quiet
         /\ Head(work).do \notin {"leech", "ring"} /\ ring' = ring
         /\ \E calls \in Seq(Simple) : Expand(calls) /\ (Seen(Head(work)) => AllSeen(calls))
<1>0. <<>> \in Seq(Simple) /\ AllSeen(<<>>)
  BY DEF AllSeen
<1>1. CASE Pierce
  <2>1. work # <<>> /\ Head(work).power \in Int /\ system # "decayRun" /\ system \notin Quiet
    BY <1>1, LineCallType DEF Pierce
  <2>2. Mul(Head(work).power, build.pierce) \in Int
    <3>1. build.pierce \in Int
      BY BuildTypes DEF TypeOK
    <3> QED  BY <2>1, <3>1, MulInt
  <2> DEFINE hc == HitCalls(InLine(PierceWidth, PierceLength, FALSE),
                            Mul(Head(work).power, build.pierce), TRUE, "pierce")
             calls == IF build.pierce <= 0 \/ PierceWidth <= 0 THEN <<>> ELSE hc
  <2>3. calls \in Seq(Simple) /\ AllSeen(calls)
    <3>1. hc \in Seq(Simple) /\ AllSeen(hc)
      BY <2>2, InLineRows, HitsAreSimple DEF Strikers, Counted
    <3> HIDE DEF hc
    <3> QED  BY <1>0, <3>1
  <2>4. Expand(calls) /\ ring' = ring /\ Head(work).do \notin {"leech", "ring"}
    BY <1>1 DEF Pierce, Doing
  <2> HIDE DEF calls
  <2> QED  BY <2>1, <2>3, <2>4
<1>2. CASE Shockwave
  <2>1. work # <<>> /\ Head(work).power \in Int /\ system # "decayRun" /\ system \notin Quiet
    BY <1>2, LineCallType DEF Shockwave
  <2> DEFINE hc == HitCalls(InLine(ShockwaveWidth, PierceLength, TRUE), Head(work).power, TRUE, "shock")
             calls == IF ShockwaveWidth <= 0 THEN <<>> ELSE hc
  <2>3. calls \in Seq(Simple) /\ AllSeen(calls)
    <3>1. hc \in Seq(Simple) /\ AllSeen(hc)
      BY <2>1, InLineRows, HitsAreSimple DEF Strikers, Counted
    <3> HIDE DEF hc
    <3> QED  BY <1>0, <3>1
  <2>4. Expand(calls) /\ ring' = ring /\ Head(work).do \notin {"leech", "ring"}
    BY <1>2 DEF Shockwave, Doing
  <2> HIDE DEF calls
  <2> QED  BY <2>1, <2>3, <2>4
<1>3. CASE Wide
  <2>1. work # <<>> /\ Head(work).power \in Int /\ system # "decayRun" /\ system \notin Quiet
    BY <1>3, LineCallType DEF Wide
  <2>2. Mul(Head(work).power, build.wide) \in Int /\ InRadius(at[target], WideRadius) \ {target} \in SUBSET Enemies
    <3>1. build.wide \in Int
      BY BuildTypes DEF TypeOK
    <3>2. InRadius(at[target], WideRadius) \in SUBSET Enemies
      BY InRadiusRows
    <3> QED  BY <2>1, <3>1, <3>2, MulInt
  <2> DEFINE hc == HitCalls(InRadius(at[target], WideRadius) \ {target},
                            Mul(Head(work).power, build.wide), TRUE, "wide")
             calls == IF build.wide <= 0 THEN <<>> ELSE hc
  <2>3. calls \in Seq(Simple) /\ AllSeen(calls)
    <3>1. hc \in Seq(Simple) /\ AllSeen(hc)
      BY <2>2, HitsAreSimple DEF Strikers, Counted
    <3> HIDE DEF hc
    <3> QED  BY <1>0, <3>1
  <2>4. Expand(calls) /\ ring' = ring /\ Head(work).do \notin {"leech", "ring"}
    BY <1>3 DEF Wide, Doing
  <2> HIDE DEF calls
  <2> QED  BY <2>1, <2>3, <2>4
<1>4. CASE Echo
  <2>1. work # <<>> /\ Head(work).power \in Int /\ system # "decayRun" /\ system \notin Quiet
    BY <1>4, LineCallType DEF Echo
  <2> DEFINE h == HitCall(target, Head(work).power, TRUE, "attack")   l == LineCall("pierce", Head(work).power)
             calls == IF Has("Echo") /\ target \in Living THEN <<h, l>> ELSE <<>>
  <2>2. target \in Living => h \in Simple /\ l \in Simple
    BY <2>1, LivingRows, SinglesAreCalls DEF Strikers
  <2>5. ~Seen(Head(work))
    BY <1>4 DEF Echo, Doing, Seen
  <2>4. Expand(calls) /\ ring' = ring /\ Head(work).do \notin {"leech", "ring"}
    BY <1>4 DEF Echo, Doing
  <2> HIDE DEF h, l
  <2>3. calls \in Seq(Simple)
    BY <2>2
  <2> HIDE DEF calls
  <2> QED  BY <2>1, <2>3, <2>4, <2>5
<1>5. CASE ZoneStrikes
  <2> DEFINE z == Head(work).zone
             calls == HitCalls(InRadius(z.at, z.radius), z.value, FALSE, "zone")
  <2>1. work # <<>> /\ Head(work) \in ZoneCallType /\ system # "decayRun" /\ system \notin Quiet
    BY <1>5, CallAtHead, CallKinds DEF TypeOK, ZoneStrikes
  <2>2. z.value \in Int
    BY <2>1 DEF ZoneCallType, ZoneType
  <2>3. calls \in Seq(Simple) /\ AllSeen(calls)
    BY <2>2, InRadiusRows, HitsAreSimple DEF Strikers, Counted
  <2>4. Expand(calls) /\ ring' = ring /\ Head(work).do \notin {"leech", "ring"}
    BY <1>5 DEF ZoneStrikes, Doing
  <2> HIDE DEF calls
  <2> QED  BY <2>1, <2>3, <2>4
<1> QED  BY <1>1, <1>2, <1>3, <1>4, <1>5

(* The calls that collect rows put simple calls on work and touch nothing  *)
(* else.                                                                   *)
LEMMA CollectedKeepTypes ==
  ASSUME TypeOK, Pierce \/ Shockwave \/ Wide \/ Echo \/ ZoneStrikes, system' = system
  PROVE  TypeOK'
<1>1. PICK calls \in Seq(Simple) : Expand(calls)
  BY CollectedAreSimple
<1>2. calls \in Seq(Calls)
  BY CallSets, SeqOfMore
<1>3. work # <<>> /\ system # "decayRun" /\ system \notin Quiet /\ ring' \in RingsType
  BY CollectedAreSimple DEF TypeOK
<1> QED  BY <1>1, <1>2, <1>3, ExpandType

(* The strikes of one pass: each row is hit and then stunned.              *)
RingStrikes(rows, power, gain) ==
  [i \in 1 .. 2 * Cardinality(rows) |->
     IF i % 2 = 1 THEN HitCall(InArrayOrder(rows)[(i + 1) \div 2], power, TRUE, "ring")
                  ELSE CcCall(InArrayOrder(rows)[i \div 2], gain)]

(* The strikes of a ring.                                                  *)
LEMMA RingStrikesType ==
  ASSUME NEW rows \in SUBSET Enemies, NEW power \in Int, NEW gain \in Int
  PROVE  RingStrikes(rows, power, gain) \in Seq(HitType \cup CcType)
<1> DEFINE n == Cardinality(rows)
           order == InArrayOrder(rows)
<1>1. n \in Nat /\ order \in [1 .. n -> rows]
  BY ArrayOrder
<1>2. RingStrikes(rows, power, gain) =
        [i \in 1 .. 2 * n |-> IF i % 2 = 1 THEN HitCall(order[(i + 1) \div 2], power, TRUE, "ring")
                              ELSE CcCall(order[i \div 2], gain)]
  BY DEF RingStrikes
<1> HIDE DEF n, order
<1>3. ASSUME NEW i \in 1 .. 2 * n
      PROVE  (IF i % 2 = 1 THEN HitCall(order[(i + 1) \div 2], power, TRUE, "ring")
              ELSE CcCall(order[i \div 2], gain)) \in HitType \cup CcType
  <2>1. CASE i % 2 = 1
    <3>1. (i + 1) \div 2 \in 1 .. n
      BY <1>1, <2>1
    <3>2. order[(i + 1) \div 2] \in Enemies
      BY <1>1, <3>1
    <3> QED  BY <2>1, <3>2 DEF HitCall, HitType, Strikers
  <2>2. CASE i % 2 # 1
    <3>1. i \div 2 \in 1 .. n
      BY <1>1, <2>2
    <3>2. order[i \div 2] \in Enemies
      BY <1>1, <3>1
    <3> QED  BY <2>2, <3>2 DEF CcCall, CcType
  <2> QED  BY <2>1, <2>2
<1>4. 2 * n \in Nat
  BY <1>1
<1> DEFINE m == 2 * n
<1>5. RingStrikes(rows, power, gain) \in [1 .. m -> HitType \cup CcType] /\ m \in Nat
  BY <1>2, <1>3, <1>4
<1> HIDE DEF m
<1> QED  BY <1>5, ArrayAsSeq

(* Leech sees them all.                                                    *)
LEMMA RingStrikesSeen ==
  ASSUME NEW rows \in SUBSET Enemies, NEW power, NEW gain
  PROVE  AllSeen(RingStrikes(rows, power, gain))
<1> DEFINE m == 2 * Cardinality(rows)
           s == RingStrikes(rows, power, gain)
<1>1. m \in Nat
  BY ArrayOrder
<1>2. s = [i \in 1 .. m |-> IF i % 2 = 1 THEN HitCall(InArrayOrder(rows)[(i + 1) \div 2], power, TRUE, "ring")
                             ELSE CcCall(InArrayOrder(rows)[i \div 2], gain)]
  BY DEF RingStrikes
<1> HIDE DEF m, s
<1>3. Len(s) = m
  BY <1>1, <1>2
<1>4. ASSUME NEW i \in 1 .. Len(s) PROVE Seen(s[i])
  <2>1. \/ s[i] = HitCall(InArrayOrder(rows)[(i + 1) \div 2], power, TRUE, "ring")
        \/ s[i] = CcCall(InArrayOrder(rows)[i \div 2], gain)
    BY <1>2, <1>3
  <2> QED  BY <2>1, SinglesAreSeen DEF Counted
<1> QED  BY <1>4 DEF AllSeen, s

(* One pass: who is in the circle and not struck yet, the strikes, and the *)
(* next pass if there is one.                                              *)
RingRadiusNow == RingRadius(Head(work).base, Head(work).stacks)
RingFresh == InRadius(Head(work).center, RingRadiusNow) \ Head(work).struck
RingGrows == Head(work).grows /\ RingFresh # {} /\ Head(work).stacks < centrifugeMaxStacks
RingNext ==
  RingCall(Head(work).center, Head(work).base, Head(work).power, Head(work).gain, TRUE,
           Stacked(Head(work).stacks, Cardinality(RingFresh)), Head(work).struck \cup RingFresh)

(* A pass of the rings, its parts named.                                   *)
LEMMA RingStep ==
  ASSUME Ring
  PROVE  /\ Expand(RingStrikes(RingFresh, Head(work).power, Head(work).gain)
                   \o (IF RingGrows THEN <<RingNext>> ELSE <<>>))
         /\ ring' = [struck |-> Head(work).struck \cup RingFresh, radius |-> RingRadiusNow,
                     center |-> Head(work).center, base |-> Head(work).base,
                     grows |-> Head(work).grows, over |-> ~RingGrows,
                     among  |-> IF Head(work).struck = {} /\ Head(work).stacks = 0
                                THEN Living ELSE ring.among,
                     passes |-> IF Head(work).stacks = 0 THEN 1 ELSE ring.passes + 1]
  BY DEF Ring, RingStrikes, RingFresh, RingRadiusNow, RingGrows, RingNext

(* A pass of the rings keeps the types.                                    *)
LEMMA RingKeepsTypes ==
  ASSUME TypeOK, Ring, system' = system
  PROVE  TypeOK'
<1> DEFINE c == Head(work)
<1>1. c \in RingType /\ work # <<>>
      /\ system # "decayRun" /\ system \notin Quiet
  BY CallAtHead, CallKinds DEF TypeOK, Ring
<1>2. /\ c.center \in Point /\ c.base \in Nat /\ c.power \in Int /\ c.gain \in Int
      /\ c.stacks \in 0 .. centrifugeMaxStacks /\ c.struck \in SUBSET Enemies
  BY <1>1 DEF RingType
<1>3. RingFresh \in SUBSET Enemies
  BY InRadiusRows DEF RingFresh
<1>4. Cardinality(RingFresh) \in Nat
  BY <1>3, ArrayOrder
<1>5. RingNext \in Calls
  <2>1. Stacked(c.stacks, Cardinality(RingFresh)) \in 0 .. centrifugeMaxStacks
    BY <1>2, <1>4, StackedType
  <2>2. c.struck \cup RingFresh \in SUBSET Enemies
    BY <1>2, <1>3
  <2> QED  BY <1>2, <2>1, <2>2, SinglesAreCalls DEF RingNext
<1>10. ring' \in RingsType
  <2> DEFINE a == IF c.struck = {} /\ c.stacks = 0 THEN Living ELSE ring.among
             n == IF c.stacks = 0 THEN 1 ELSE ring.passes + 1
             w == c.struck \cup RingFresh
  <2>1. ring \in RingsType
    BY DEF TypeOK
  <2>2. /\ a \in SUBSET Enemies /\ n \in Nat /\ w \in SUBSET Enemies
        /\ RingRadiusNow \in Nat /\ c.grows \in BOOLEAN /\ (~RingGrows) \in BOOLEAN
    <3>1. c.stacks \in Nat /\ c.grows \in BOOLEAN
      BY <1>1 DEF RingType
    <3>2. RingRadiusNow \in Nat
      BY <1>2, <3>1, RingRadiusNat DEF RingRadiusNow
    <3>3. a \in SUBSET Enemies
      BY <2>1, LivingRows DEF RingsType
    <3>4. ring.passes \in Nat
      BY <2>1 DEF RingsType
    <3>5. n \in Nat
      BY <3>4
    <3>6. w \in SUBSET Enemies
      BY <1>2, <1>3
    <3>7. (~RingGrows) \in BOOLEAN
      OBVIOUS
    <3> QED  BY <3>1, <3>2, <3>3, <3>5, <3>6, <3>7
  <2>4. ring' = [struck |-> w, radius |-> RingRadiusNow, center |-> c.center, base |-> c.base,
                 grows |-> c.grows, over |-> ~RingGrows, among |-> a, passes |-> n]
    BY RingStep
  <2> HIDE DEF w, a, n, c
  <2> QED  BY <1>2, <2>2, <2>4 DEF RingsType
<1> DEFINE s == RingStrikes(RingFresh, c.power, c.gain)
           t == IF RingGrows THEN <<RingNext>> ELSE <<>>
<1>6. s \in Seq(Calls)
  <2>1. s \in Seq(HitType \cup CcType)
    BY <1>2, <1>3, RingStrikesType
  <2> HIDE DEF s
  <2> QED  BY <2>1, SeqOfMore DEF Calls
<1>7. t \in Seq(Calls)
  BY <1>5
<1>8. Expand(s \o t)
  BY RingStep
<1> HIDE DEF s, t, c
<1>9. s \o t \in Seq(Calls)
  BY <1>6, <1>7, ConcatProperties
<1> QED  BY <1>1, <1>8, <1>9, <1>10, ExpandType

----------------------------------------------------------------------------
(* Leech keeps the types.                                                  *)
LEMMA LeechKeepsTypes ==
  ASSUME TypeOK, Leech, system' = system
  PROVE  TypeOK'
<1>1. Tail(work) \in Seq(Calls)
      /\ system # "decayRun" /\ system \notin Quiet
  BY CallAtHead DEF TypeOK, Leech
<1>2. NoRing \in RingsType
  BY DEF NoRing, RingsType, Point
<1> QED  BY <1>1, <1>2 DEF Leech, TypeOK, FieldOK, WorkOK, WindowOK, places

(* Laying zones keeps the types.                                           *)
LEMMA LayKeepsTypes ==
  ASSUME TypeOK, Lay, system' = system
  PROVE  TypeOK'
<1>1. Tail(work) \in Seq(Calls) /\ Head(work) \in LayType
      /\ system # "decayRun" /\ system \notin Quiet
  BY CallAtHead, CallKinds DEF TypeOK, Lay
<1>2. Head(work).zones \in Seq(ZoneType)
  BY <1>1 DEF LayType
<1>3. zones' \in Seq(ZoneType)
  BY <1>2, ConcatProperties DEF Lay, TypeOK, FieldOK
<1> QED  BY <1>1, <1>3 DEF Lay, TypeOK, FieldOK, WorkOK, WindowOK, places, history

(* Sweeping the field keeps the types.                                     *)
LEMMA SweepKeepsTypes ==
  ASSUME TypeOK, Sweep, system' = system
  PROVE  TypeOK'
<1>1. Tail(work) \in Seq(Calls)
      /\ system # "decayRun" /\ system \notin Quiet
  BY CallAtHead DEF TypeOK, Sweep
<1>2. zones' \in Seq(ZoneType)
  <2> DEFINE q == {i \in DOMAIN zones : zones[i].left > 0}
  <2>1. zones' = Entries(zones, q) /\ q \in SUBSET DOMAIN zones /\ zones \in Seq(ZoneType)
    BY DEF Sweep, TypeOK, FieldOK
  <2> HIDE DEF q
  <2> QED  BY <2>1, EntriesType
<1> QED  BY <1>1, <1>2 DEF Sweep, TypeOK, FieldOK, WorkOK, WindowOK, places, history

(* What the dot does to a row: it is one tick shorter, and if that was the *)
(* last one, nothing is left of it.                                        *)
Dotted(f, e) ==
  LET g == Struck([f EXCEPT !.left = @ - 1], e, f.dot, FALSE)
  IN  IF g.left <= 0 THEN [g EXCEPT !.dot = 0] ELSE g

(* A dot counts down by one, and the last tick takes it off the row.       *)
LEMMA DottedType ==
  ASSUME build \in Builds, NEW f \in Row, NEW e \in Enemies
  PROVE  /\ Dotted(f, e) \in Row /\ Dotted(f, e).left = f.left - 1
         /\ Dotted(f, e).dot = IF f.left - 1 <= 0 THEN 0 ELSE f.dot
         /\ f.dead => Dotted(f, e).dead
<1> DEFINE h == [f EXCEPT !.left = @ - 1]
           g == Struck(h, e, f.dot, FALSE)
<1>1. f.left \in Int /\ f.dot \in Int /\ f.left - 1 \in Int
  BY DEF Row
<1>2. h \in Row /\ h.left = f.left - 1 /\ h.dot = f.dot /\ h.dead = f.dead
  BY <1>1 DEF Row
<1>3. Dotted(f, e) = IF g.left <= 0 THEN [g EXCEPT !.dot = 0] ELSE g
  BY DEF Dotted
<1> HIDE DEF h
<1>4. g \in Row /\ g.left = h.left /\ g.dot = h.dot /\ (h.dead => g = h)
  BY <1>1, <1>2, StruckType
<1> HIDE DEF g
<1>5. [g EXCEPT !.dot = 0] \in Row /\ [g EXCEPT !.dot = 0].left = g.left
      /\ [g EXCEPT !.dot = 0].dead = g.dead /\ [g EXCEPT !.dot = 0].dot = 0
  BY <1>4 DEF Row
<1> QED  BY <1>2, <1>3, <1>4, <1>5

(* A dot keeps the types.                                                  *)
LEMMA DotKeepsTypes ==
  ASSUME TypeOK, Dot, system' = system
  PROVE  TypeOK'
<1> DEFINE e == Head(work).who
<1>1. /\ Tail(work) \in Seq(DotType) /\ Head(work) \in DotType
      /\ system = "decayRun" /\ system \notin Quiet
  <2>1. work # <<>> /\ Head(work).do = "dot"
    BY DEF Dot, Doing
  <2> QED  BY <2>1, HeadOfWork, CallKinds DEF TypeOK
<1>2. e \in Enemies /\ foe[e] \in Row /\ build \in Builds
  BY <1>1 DEF DotType, TypeOK, FieldOK
<1>3. /\ foe' = [foe EXCEPT ![e] = Dotted(foe[e], e)]
      /\ score' = ScoreAfter(foe'[e], e) /\ work' = Tail(work)
      /\ UNCHANGED <<places, zones, build, trials, dealt, cooldown, window, qteCooldown, boltIn, history>>
  BY <1>2 DEF Dot, Dotted, Row
<1> HIDE DEF e
<1>4. Dotted(foe[e], e) \in Row
  BY <1>2, DottedType
<1>5. foe' \in [Enemies -> Row]
  BY <1>2, <1>3, <1>4 DEF TypeOK, FieldOK
<1>6. score' \in ScoreType
  BY <1>2, <1>3, PaidType DEF ScoreAfter, TypeOK
<1> QED  BY <1>1, <1>3, <1>5, <1>6 DEF TypeOK, FieldOK, WorkOK, WindowOK, places, history

---------------------------------------------------------------------------
(* What each system keeps.                                                 *)

(* The order of the systems.                                               *)
LEMMA SystemPlaces ==
  ASSUME NEW i \in 1 .. 12
  PROVE  After(Systems[i]) = Systems[(i % 12) + 1]
<1>1. Len(Systems) = 12
  BY DEF Systems
<1>2. \A j, k \in 1 .. 12 : Systems[j] = Systems[k] => j = k
  <2>1. Systems[1] = "beginTick" /\ Systems[2] = "selectTarget" /\ Systems[3] = "separationRun"
        /\ Systems[4] = "movementRun" /\ Systems[5] = "decayRun" /\ Systems[6] = "boltRun"
        /\ Systems[7] = "stormRun" /\ Systems[8] = "zoneRun" /\ Systems[9] = "ccDecayRun"
        /\ Systems[10] = "qteRun" /\ Systems[11] = "heroTurn" /\ Systems[12] = "enemiesTurn"
    BY DEF Systems
  <2>2. \A j \in 1 .. 12 : j = 1 \/ j = 2 \/ j = 3 \/ j = 4 \/ j = 5 \/ j = 6
                         \/ j = 7 \/ j = 8 \/ j = 9 \/ j = 10 \/ j = 11 \/ j = 12
    OBVIOUS
  <2> QED  BY <2>1, <2>2
<1> DEFINE c == CHOOSE k \in 1 .. Len(Systems) : Systems[k] = Systems[i]
<1>3. c = i
  <2>1. c \in 1 .. 12 /\ Systems[c] = Systems[i]
    BY <1>1
  <2> QED  BY <1>2, <2>1
<1> HIDE DEF Systems
<1> QED  BY <1>1, <1>3 DEF After

(* The order of the systems in a tick.                                     *)
LEMMA SystemOrder ==
  /\ After("beginTick") = "selectTarget"
  /\ After("selectTarget") = "separationRun"
  /\ After("separationRun") = "movementRun"
  /\ After("movementRun") = "decayRun"
  /\ After("decayRun") = "boltRun"
  /\ After("boltRun") = "stormRun"
  /\ After("stormRun") = "zoneRun"
  /\ After("zoneRun") = "ccDecayRun"
  /\ After("ccDecayRun") = "qteRun"
  /\ After("qteRun") = "heroTurn"
  /\ After("heroTurn") = "enemiesTurn"
  /\ After("enemiesTurn") = "beginTick"
<1>1. After("beginTick") = "selectTarget"
  <2>1. Systems[1] = "beginTick" /\ Systems[(1 % 12) + 1] = "selectTarget" /\ 1 \in 1 .. 12
    BY DEF Systems
  <2> QED  BY <2>1, SystemPlaces
<1>2. After("selectTarget") = "separationRun"
  <2>1. Systems[2] = "selectTarget" /\ Systems[(2 % 12) + 1] = "separationRun" /\ 2 \in 1 .. 12
    BY DEF Systems
  <2> QED  BY <2>1, SystemPlaces
<1>3. After("separationRun") = "movementRun"
  <2>1. Systems[3] = "separationRun" /\ Systems[(3 % 12) + 1] = "movementRun" /\ 3 \in 1 .. 12
    BY DEF Systems
  <2> QED  BY <2>1, SystemPlaces
<1>4. After("movementRun") = "decayRun"
  <2>1. Systems[4] = "movementRun" /\ Systems[(4 % 12) + 1] = "decayRun" /\ 4 \in 1 .. 12
    BY DEF Systems
  <2> QED  BY <2>1, SystemPlaces
<1>5. After("decayRun") = "boltRun"
  <2>1. Systems[5] = "decayRun" /\ Systems[(5 % 12) + 1] = "boltRun" /\ 5 \in 1 .. 12
    BY DEF Systems
  <2> QED  BY <2>1, SystemPlaces
<1>6. After("boltRun") = "stormRun"
  <2>1. Systems[6] = "boltRun" /\ Systems[(6 % 12) + 1] = "stormRun" /\ 6 \in 1 .. 12
    BY DEF Systems
  <2> QED  BY <2>1, SystemPlaces
<1>7. After("stormRun") = "zoneRun"
  <2>1. Systems[7] = "stormRun" /\ Systems[(7 % 12) + 1] = "zoneRun" /\ 7 \in 1 .. 12
    BY DEF Systems
  <2> QED  BY <2>1, SystemPlaces
<1>8. After("zoneRun") = "ccDecayRun"
  <2>1. Systems[8] = "zoneRun" /\ Systems[(8 % 12) + 1] = "ccDecayRun" /\ 8 \in 1 .. 12
    BY DEF Systems
  <2> QED  BY <2>1, SystemPlaces
<1>9. After("ccDecayRun") = "qteRun"
  <2>1. Systems[9] = "ccDecayRun" /\ Systems[(9 % 12) + 1] = "qteRun" /\ 9 \in 1 .. 12
    BY DEF Systems
  <2> QED  BY <2>1, SystemPlaces
<1>10. After("qteRun") = "heroTurn"
  <2>1. Systems[10] = "qteRun" /\ Systems[(10 % 12) + 1] = "heroTurn" /\ 10 \in 1 .. 12
    BY DEF Systems
  <2> QED  BY <2>1, SystemPlaces
<1>11. After("heroTurn") = "enemiesTurn"
  <2>1. Systems[11] = "heroTurn" /\ Systems[(11 % 12) + 1] = "enemiesTurn" /\ 11 \in 1 .. 12
    BY DEF Systems
  <2> QED  BY <2>1, SystemPlaces
<1>12. After("enemiesTurn") = "beginTick"
  <2>1. Systems[12] = "enemiesTurn" /\ Systems[(12 % 12) + 1] = "beginTick" /\ 12 \in 1 .. 12
    BY DEF Systems
  <2> QED  BY <2>1, SystemPlaces
<1> QED  BY <1>1, <1>2, <1>3, <1>4, <1>5, <1>6, <1>7, <1>8, <1>9, <1>10, <1>11, <1>12

(* Which system ran before the one that begins.                            *)
LEMMA EnteredFrom ==
  ASSUME system \in SystemNames, NEW s, Enter(s)
  PROVE  /\ work = <<>> /\ system' = s
         /\ s = "selectTarget" => system = "beginTick"
         /\ s = "separationRun" => system = "selectTarget"
         /\ s = "movementRun" => system = "separationRun"
         /\ s = "decayRun" => system = "movementRun"
         /\ s = "boltRun" => system = "decayRun"
         /\ s = "stormRun" => system = "boltRun"
         /\ s = "zoneRun" => system = "stormRun"
         /\ s = "ccDecayRun" => system = "zoneRun"
         /\ s = "qteRun" => system = "ccDecayRun"
         /\ s = "heroTurn" => system = "qteRun"
         /\ s = "enemiesTurn" => system = "heroTurn"
         /\ s = "beginTick" => system = "enemiesTurn"
<1>1. work = <<>> /\ system' = s /\ After(system) = s
  BY DEF Enter
<1> QED  BY <1>1, SystemOrder DEF SystemNames

----------------------------------------------------------------------------
(* The strongest of some zones is a number.                                *)
LEMMA GreatestValue ==
  ASSUME NEW n \in Nat, NEW v \in [1 .. n -> Int], NEW Z \in SUBSET (1 .. n)
  PROVE  Max({v[z] : z \in Z} \cup {0}) \in Int
<1> DEFINE S == {v[z] : z \in Z} \cup {0}
           best(x, m) == x \in S /\ x >= 0 /\ \A z \in Z : z <= m => x >= v[z]
           T == {m \in 0 .. n : \E x \in Int : best(x, m)}
<1>1. 0 \in T
  <2>1. best(0, 0) /\ 0 \in Int /\ 0 \in 0 .. n
    OBVIOUS
  <2> HIDE DEF best
  <2> QED  BY <2>1
<1>2. ASSUME NEW m \in 0 .. n - 1, m \in T PROVE m + 1 \in T
  <2>1. PICK x \in Int : best(x, m)
    BY <1>2
  <2>2. m + 1 \in 1 .. n /\ v[m + 1] \in Int /\ \A z \in Z : z <= m + 1 => z <= m \/ z = m + 1
    OBVIOUS
  <2>3. CASE m + 1 \in Z /\ v[m + 1] > x
    <3>1. best(v[m + 1], m + 1)
      BY <2>1, <2>2, <2>3
    <3> HIDE DEF best
    <3> QED  BY <2>2, <3>1
  <2>4. CASE ~(m + 1 \in Z /\ v[m + 1] > x)
    <3>1. best(x, m + 1)
      BY <2>1, <2>2, <2>4
    <3> HIDE DEF best
    <3> QED  BY <2>2, <3>1
  <2> QED  BY <2>3, <2>4
<1>3. n \in T
  <2> HIDE DEF T
  <2>1. \A i \in 0 .. n : i \in T
    BY <1>1, <1>2, SetInduction
  <2> QED  BY <2>1
<1>4. PICK x \in Int : best(x, n)
  BY <1>3
<1>5. x \in S /\ \A y \in S : x >= y
  BY <1>4
<1>6. Max(S) \in S
  <2> HIDE DEF S
  <2> QED  BY <1>5, Zenon DEF Max
<1>7. S \subseteq Int
  OBVIOUS
<1> HIDE DEF S
<1> QED  BY <1>6, <1>7 DEF S

(* What slows an enemy is a number.                                        *)
LEMMA SlowMultType ==
  ASSUME FieldOK, NEW e \in Enemies
  PROVE  SlowMult(e) \in Int
<1> DEFINE n == Len(zones)
           v == [z \in 1 .. n |-> zones[z].value]
           Z == {y \in 1 .. n : zones[y].kind = "Fissure" /\ Within(at[e], zones[y].at, zones[y].radius)}
           under == {zones[z].value : z \in Z}
           aura == IF FrostAura > 0 /\ Within(at[e], hero', FrostRadius) THEN FrostAura ELSE 0
           m == Max(under \cup {0})
<1>1. n \in Nat /\ \A z \in 1 .. n : zones[z] \in ZoneType
  BY DEF FieldOK
<1>2. v \in [1 .. n -> Int]
  BY <1>1 DEF ZoneType
<1>3. Z \in SUBSET (1 .. n)
  OBVIOUS
<1>4. under = {v[z] : z \in Z}
  OBVIOUS
<1>5. SlowMult(e) = AtLeast(ONE - (aura + m), 0)
  BY DEF SlowMult
<1>6. aura \in Int
  BY FieldConstants
<1> HIDE DEF n, v, Z, under, aura
<1>7. m \in Int
  BY <1>1, <1>2, <1>3, <1>4, GreatestValue
<1> HIDE DEF m
<1>8. ONE - (aura + m) \in Int
  BY <1>6, <1>7, FieldConstants
<1> QED  BY <1>5, <1>8, AtLeastInt

(* movementRun moves everybody to a point.                                 *)
LEMMA MovementTypes ==
  ASSUME FieldOK, MovementRun
  PROVE  hero' \in Point /\ at' \in [Enemies -> Point]
<1>0. \A r \in Int : ApproachStop(r) \in Int
  BY FieldConstants DEF ApproachStop, AtLeast
<1>1. hero' \in Point
  <2>1. CASE target \in Living /\ HeroStep > 0
    <3>1. at[target] \in Point /\ ApproachStop(HeroRange) \in Int /\ HeroStep \in Int /\ hero \in Point
      BY <1>0, <2>1, LivingRows, FieldConstants DEF FieldOK
    <3> QED  BY <2>1, <3>1, StepTowardType DEF MovementRun
  <2>2. CASE ~(target \in Living /\ HeroStep > 0)
    BY <2>2 DEF MovementRun, FieldOK
  <2> QED  BY <2>1, <2>2
<1>2. ASSUME NEW e \in Enemies
      PROVE  StepToward(at[e], hero', Quot(approachSpeed[e] * SlowMult(e), ONE),
                        ApproachStop(attackRange[e])) \in Point
  <2> DEFINE w == approachSpeed[e] * SlowMult(e)
  <2>1. w \in Int /\ ONE \in Int /\ ONE # 0
    <3>1. SlowMult(e) \in Int /\ approachSpeed[e] \in Int
      BY SlowMultType, FieldConstants
    <3> QED  BY <3>1, FieldConstants
  <2> HIDE DEF w
  <2>2. Quot(w, ONE) \in Int
    BY <2>1, QuotInt
  <2>3. ApproachStop(attackRange[e]) \in Int /\ at[e] \in Point
    BY <1>0, FieldConstants DEF FieldOK
  <2>4. StepToward(at[e], hero', Quot(w, ONE), ApproachStop(attackRange[e])) \in Point
    BY <1>1, <2>2, <2>3, StepTowardType
  <2> QED  BY <2>4 DEF w
<1>3. \A e \in Enemies : at[e] \in Point
  BY DEF FieldOK
<1>4. at' \in [Enemies -> Point]
  BY <1>2, <1>3 DEF MovementRun
<1> QED  BY <1>1, <1>4

(* The systems, each from a state in which the one before it is done.      *)
LEMMA PlacesKeepTypes ==
  ASSUME TypeOK, \/ Enter("selectTarget") /\ Aim
                 \/ Enter("separationRun") /\ Part
                 \/ Enter("movementRun") /\ Walk
  PROVE  TypeOK'
<1>0. FieldOK /\ system \in SystemNames
  BY DEF TypeOK
<1>1. CASE Enter("selectTarget") /\ Aim
  <2>1. work = <<>> /\ system' = "selectTarget"
    BY <1>0, <1>1, EnteredFrom
  <2>2. SelectTarget /\ UNCHANGED <<build, trials, score, work, dealt, cooldown, window, qteCooldown, boltIn, history>>
    BY <1>1 DEF Aim
  <2>3. target' \in Enemies \cup {NOBODY}
    BY <1>0, <2>2, SelectTargetAims DEF FieldOK
  <2> QED  BY <2>1, <2>2, <2>3 DEF TypeOK, FieldOK, WorkOK, WindowOK, history, Quiet, SystemNames, SelectTarget
<1>2. CASE Enter("separationRun") /\ Part
  <2>1. work = <<>> /\ system' = "separationRun"
    BY <1>0, <1>2, EnteredFrom
  <2>2. SeparationRun /\ UNCHANGED <<build, trials, score, work, dealt, cooldown, window, qteCooldown, boltIn, history>>
    BY <1>2 DEF Part
  <2>3. at' \in [Enemies -> Point]
    BY <1>0, <2>2, SeparationTypes DEF FieldOK
  <2> QED  BY <2>1, <2>2, <2>3 DEF TypeOK, FieldOK, WorkOK, WindowOK, history, Quiet, SystemNames, SeparationRun
<1>3. CASE Enter("movementRun") /\ Walk
  <2>1. work = <<>> /\ system' = "movementRun"
    BY <1>0, <1>3, EnteredFrom
  <2>2. MovementRun /\ UNCHANGED <<build, trials, score, work, dealt, cooldown, window, qteCooldown, boltIn, history>>
    BY <1>3 DEF Walk
  <2>3. hero' \in Point /\ at' \in [Enemies -> Point]
    BY <1>0, <2>2, MovementTypes
  <2> QED  BY <2>1, <2>2, <2>3 DEF TypeOK, FieldOK, WorkOK, WindowOK, history, Quiet, SystemNames, MovementRun
<1> QED  BY <1>1, <1>2, <1>3

(* beginTick counts its counters down.                                     *)
LEMMA BeginTickTypes ==
  ASSUME TypeOK, BeginTick
  PROVE  /\ zones' \in Seq(ZoneType) /\ unhurt' \in [Enemies -> Int]
         /\ window' \in [skill : Skills \cup {NO_SKILL}, left : Int] /\ boltIn' \in Int
<1>1. zones' \in Seq(ZoneType)
  <2> DEFINE n == Len(zones)
             q == [z \in 1 .. n |-> [zones[z] EXCEPT !.left = @ - 1]]
  <2>1. n \in Nat /\ \A z \in 1 .. n : zones[z] \in ZoneType
    BY DEF TypeOK, FieldOK
  <2>2. zones' = q
    BY DEF BeginTick
  <2> HIDE DEF n
  <2>3. \A z \in 1 .. n : [zones[z] EXCEPT !.left = @ - 1] \in ZoneType
    BY <2>1 DEF ZoneType
  <2>4. q \in [1 .. n -> ZoneType]
    BY <2>3
  <2> HIDE DEF q
  <2> QED  BY <2>1, <2>2, <2>4, ArrayAsSeq
<1>2. unhurt' \in [Enemies -> Int]
  <2>1. ASSUME NEW e \in Enemies PROVE Min({unhurt[e] + 1, decayTicks}) \in Int
    <3>1. unhurt[e] + 1 \in Int /\ decayTicks \in Int
      BY StrikesConstants DEF TypeOK
    <3> QED  BY <3>1, MinOfTwo
  <2> QED  BY <2>1 DEF BeginTick
<1>3. window' \in [skill : Skills \cup {NO_SKILL}, left : Int]
  <2>1. window \in [skill : Skills \cup {NO_SKILL}, left : Int]
    BY DEF TypeOK, WindowOK
  <2>2. window.left - 1 \in Int
    BY <2>1
  <2>3. AtLeast(window.left - 1, 0) \in Int
    BY <2>2 DEF AtLeast
  <2> QED  BY <2>1, <2>3 DEF BeginTick
<1>4. boltIn' \in Int
  <2>1. boltIn - 1 \in Int
    BY DEF TypeOK, WindowOK
  <2> QED  BY <2>1, AtLeastInt DEF BeginTick
<1> QED  BY <1>1, <1>2, <1>3, <1>4

(* The systems that call nothing keep the types.                           *)
LEMMA QuietKeepTypes ==
  ASSUME TypeOK, \/ Enter("beginTick") /\ BeginTick
                 \/ Enter("ccDecayRun") /\ CcDecayRun
                 \/ Enter("enemiesTurn") /\ EnemiesTurn
  PROVE  TypeOK'
<1>0. system \in SystemNames
  BY DEF TypeOK
<1>1. CASE Enter("beginTick") /\ BeginTick
  <2>1. work = <<>> /\ system' = "beginTick"
    BY <1>0, <1>1, EnteredFrom
  <2>2. /\ zones' \in Seq(ZoneType) /\ unhurt' \in [Enemies -> Int]
        /\ window' \in [skill : Skills \cup {NO_SKILL}, left : Int] /\ boltIn' \in Int
    BY <1>1, BeginTickTypes
  <2>3. UNCHANGED <<places, foe, build, trials, score, work, dealt, cooldown, qteCooldown, cast, ring>>
    BY <1>1 DEF BeginTick
  <2> QED  BY <2>1, <2>2, <2>3 DEF TypeOK, FieldOK, WorkOK, WindowOK, places, Quiet, SystemNames
<1>2. CASE Enter("ccDecayRun") /\ CcDecayRun
  <2>1. work = <<>> /\ system' = "ccDecayRun"
    BY <1>0, <1>2, EnteredFrom
  <2>2. \A e \in Enemies : CcLess(foe[e], e) \in Row
    BY CcLessType DEF TypeOK, FieldOK
  <2>3. foe' \in [Enemies -> Row]
    BY <1>2, <2>2 DEF CcDecayRun
  <2> QED  BY <1>2, <2>1, <2>3 DEF TypeOK, FieldOK, WorkOK, WindowOK, places, history, Quiet, SystemNames, CcDecayRun
<1>3. CASE Enter("enemiesTurn") /\ EnemiesTurn
  <2>1. work = <<>> /\ system' = "enemiesTurn"
    BY <1>0, <1>3, EnteredFrom
  <2>2. ASSUME NEW e \in Enemies PROVE [foe[e] EXCEPT !.groggy = AtLeast(@ - 1, 0)] \in Row /\ foe[e] \in Row
    <3>1. foe[e] \in Row /\ foe[e].groggy - 1 \in Int
      BY DEF TypeOK, FieldOK, Row
    <3>2. AtLeast(foe[e].groggy - 1, 0) \in Int
      BY <3>1 DEF AtLeast
    <3> QED  BY <3>1, <3>2 DEF Row
  <2>3. foe' \in [Enemies -> Row]
    BY <1>3, <2>2 DEF EnemiesTurn
  <2> QED  BY <1>3, <2>1, <2>3 DEF TypeOK, FieldOK, WorkOK, WindowOK, places, history, Quiet, SystemNames, EnemiesTurn
<1> QED  BY <1>1, <1>2, <1>3

----------------------------------------------------------------------------
(* What all the systems that strike have in common.                        *)
LEMMA BeginKeepsTypes ==
  ASSUME TypeOK, NEW calls, Begin(calls),
         system' \in SystemNames \ Quiet,
         system' = "decayRun" => calls \in Seq(DotType),
         system' # "decayRun" => calls \in Seq(Calls),
         UNCHANGED <<places, foe, zones, build, score, ring, unhurt>>, WindowOK'
  PROVE  TypeOK'
<1>1. cast' \in [before : [Enemies -> Int], pierced : Int] /\ dealt' = 0 /\ work' = calls
  BY FreshType DEF Begin, TypeOK
<1>2. WorkOK'
  BY <1>1 DEF WorkOK
<1>3. FieldOK'
  BY DEF TypeOK, FieldOK, places
<1>4. UNCHANGED <<build, score, ring, unhurt>>
  OBVIOUS
<1> QED  BY <1>1, <1>2, <1>3, <1>4 DEF TypeOK

(* Nothing to call is a sequence of calls.                                 *)
LEMMA EmptyWork == <<>> \in Seq(Calls)
  OBVIOUS

(* The dots of decayRun: a call for each row that has one, each row once.  *)
DecayDue == {e \in Living : foe[e].left > 0}
DotCalls == [i \in 1 .. Cardinality(DecayDue) |-> [do |-> "dot", who |-> InArrayOrder(DecayDue)[i]]]

(* decayRun puts a dot on work for each row that has one.                  *)
LEMMA DecayRunCalls ==
  ASSUME DecayRun
  PROVE  Begin(DotCalls) /\ DotCalls \in Seq(DotType) /\ DecayDue \in SUBSET Enemies
<1> DEFINE due == InArrayOrder(DecayDue)
           n == Cardinality(DecayDue)
<1>1. DecayDue \in SUBSET Enemies
  BY LivingRows DEF DecayDue
<1>2. n \in Nat /\ due \in [1 .. n -> DecayDue]
  BY <1>1, ArrayOrder
<1>3. Begin([i \in 1 .. Len(due) |-> [do |-> "dot", who |-> due[i]]])
  BY DEF DecayRun, DecayDue
<1>4. DotCalls = [i \in 1 .. n |-> [do |-> "dot", who |-> due[i]]]
  BY DEF DotCalls
<1> HIDE DEF due, n
<1>5. Len(due) = n
  BY <1>2, ArrayAsSeq
<1>6. \A i \in 1 .. n : [do |-> "dot", who |-> due[i]] \in DotType
  BY <1>1, <1>2 DEF DotType
<1>7. DotCalls \in [1 .. n -> DotType]
  BY <1>4, <1>6
<1> QED  BY <1>1, <1>2, <1>3, <1>4, <1>5, <1>7, ArrayAsSeq

(* decayRun keeps the types.                                               *)
LEMMA DecayRunKeepsTypes ==
  ASSUME TypeOK, Enter("decayRun"), DecayRun
  PROVE  TypeOK'
<1>1. system' = "decayRun"
  BY DEF Enter
<1>2. Begin(DotCalls) /\ DotCalls \in Seq(DotType)
  BY DecayRunCalls
<1>3. UNCHANGED <<places, foe, zones, build, trials, score, cooldown, window, qteCooldown, boltIn, ring, unhurt>>
  BY DEF DecayRun
<1>4. WindowOK'
  BY <1>3 DEF TypeOK, WindowOK
<1> QED  BY <1>1, <1>2, <1>3, <1>4, BeginKeepsTypes DEF SystemNames, Quiet

(* The relics: each puts calls on work that are strikes.                   *)
LEMMA BoltRunCalls ==
  ASSUME TypeOK, BoltRun
  PROVE  boltIn' \in Int /\ \E calls \in Seq(Simple) : Begin(calls)
<1>0. <<>> \in Seq(Simple) /\ boltIn \in Int /\ boltIntervalTicks \in Int
  BY StrikesConstants DEF TypeOK, WindowOK
<1>1. CASE build.bolt <= 0 \/ boltIntervalTicks <= 0 \/ boltIn > 0
  <2>1. boltIn' = boltIn /\ Begin(<<>>)
    BY <1>1 DEF BoltRun
  <2> QED  BY <1>0, <2>1
<1>2. CASE ~(build.bolt <= 0 \/ boltIntervalTicks <= 0 \/ boltIn > 0)
  <2> DEFINE p == Mul(AttackPower, build.bolt)
  <2>1. p \in Int
    <3>1. AttackPower \in Int /\ build.bolt \in Int
      BY StrikesConstants, BuildTypes DEF TypeOK
    <3> QED  BY <3>1, MulInt
  <2>2. boltIn' = boltIntervalTicks
    BY <1>2 DEF BoltRun
  <2>3. CASE Living = {}
    <3>1. Begin(<<>>)
      BY <1>2, <2>3 DEF BoltRun
    <3> QED  BY <1>0, <2>2, <3>1
  <2>4. CASE Living # {}
    <3>1. PICK e \in Living : Begin(<<HitCall(e, p, TRUE, "bolt")>>)
      BY <1>2, <2>4 DEF BoltRun
    <3> HIDE DEF p
    <3>2. e \in Enemies
      BY LivingRows
    <3>3. HitCall(e, p, TRUE, "bolt") \in Simple
      BY <2>1, <3>2, SinglesAreCalls DEF Strikers
    <3> DEFINE calls == <<HitCall(e, p, TRUE, "bolt")>>
    <3>4. calls \in Seq(Simple)
      BY <3>3, OneIsASeq
    <3>5. Begin(calls)
      BY <3>1
    <3> HIDE DEF calls
    <3> QED  BY <1>0, <2>1, <2>2, <3>2, <3>4, <3>5
  <2> QED  BY <2>3, <2>4
<1> QED  BY <1>1, <1>2

---------------------------------------------------------------------------
(* The order of the calls on work: leech comes once, behind the rings.     *)

(* What the calls on work have to do with leech: it is paid once, after    *)
(* the last ring.                                                          *)
LeechIn(q) == \E i \in 1 .. Len(q) : q[i].do = "leech"
RingIn(q)  == \E i \in 1 .. Len(q) : q[i].do = "ring"
Shape(q) == /\ \A i, j \in 1 .. Len(q) : q[i].do = "leech" /\ q[j].do \in {"leech", "ring"} => j <= i
            /\ RingIn(q) => LeechIn(q)

(* The tail of a sequence, place by place.                                 *)
LEMMA TailAt ==
  ASSUME NEW S, NEW q \in Seq(S), q # <<>>
  PROVE  /\ Len(Tail(q)) = Len(q) - 1 /\ Len(q) \in Nat \ {0} /\ 1 \in 1 .. Len(q) /\ q[1] = Head(q)
         /\ \A i \in 1 .. Len(Tail(q)) : i + 1 \in 1 .. Len(q) /\ Tail(q)[i] = q[i + 1]
         /\ \A i \in 1 .. Len(q) : i # 1 => i - 1 \in 1 .. Len(Tail(q)) /\ Tail(q)[i - 1] = q[i]
  OBVIOUS

(* Two sequences one behind the other, place by place.                     *)
LEMMA ConcatAt ==
  ASSUME NEW S, NEW q \in Seq(S), NEW t \in Seq(S)
  PROVE  /\ q \o t \in Seq(S) /\ Len(q \o t) = Len(q) + Len(t) /\ Len(q) \in Nat /\ Len(t) \in Nat
         /\ \A i \in 1 .. Len(q) : i \in 1 .. Len(q \o t) /\ (q \o t)[i] = q[i]
         /\ \A i \in 1 .. Len(t) : Len(q) + i \in 1 .. Len(q \o t) /\ (q \o t)[Len(q) + i] = t[i]
         /\ \A i \in 1 .. Len(q \o t) : i \notin 1 .. Len(q) =>
              i - Len(q) \in 1 .. Len(t) /\ (q \o t)[i] = t[i - Len(q)]
  OBVIOUS

(* Making the call at the head keeps the order of the others.              *)
LEMMA ShapeOfTail ==
  ASSUME NEW S, NEW q \in Seq(S), q # <<>>
  PROVE  /\ Shape(q) => Shape(Tail(q))
         /\ LeechIn(Tail(q)) => LeechIn(q)
         /\ LeechIn(q) /\ Head(q).do # "leech" => LeechIn(Tail(q))
         /\ Shape(q) /\ Head(q).do = "leech" => ~LeechIn(Tail(q))
         /\ Shape(q) /\ Head(q).do = "ring" => LeechIn(Tail(q))
<1> DEFINE t == Tail(q)
<1>1. /\ Len(t) = Len(q) - 1 /\ Len(q) \in Nat \ {0} /\ 1 \in 1 .. Len(q) /\ q[1] = Head(q)
      /\ \A i \in 1 .. Len(t) : i + 1 \in 1 .. Len(q) /\ t[i] = q[i + 1]
      /\ \A i \in 1 .. Len(q) : i # 1 => i - 1 \in 1 .. Len(t) /\ t[i - 1] = q[i]
  BY TailAt
<1> HIDE DEF t
<1>2. LeechIn(t) => LeechIn(q)
  BY <1>1 DEF LeechIn
<1>3. LeechIn(q) /\ Head(q).do # "leech" => LeechIn(t)
  BY <1>1 DEF LeechIn
<1>4. ASSUME Shape(q) PROVE Shape(t)
  <2>1. \A i, j \in 1 .. Len(t) : t[i].do = "leech" /\ t[j].do \in {"leech", "ring"} => j <= i
    BY <1>1, <1>4 DEF Shape
  <2>2. ASSUME RingIn(t) PROVE LeechIn(t)
    <3>1. PICK j \in 1 .. Len(t) : t[j].do = "ring"
      BY <2>2 DEF RingIn
    <3>2. j + 1 \in 1 .. Len(q) /\ q[j + 1].do = "ring"
      BY <1>1, <3>1
    <3>3. PICK i \in 1 .. Len(q) : q[i].do = "leech"
      BY <1>4, <3>2 DEF Shape, RingIn, LeechIn
    <3>4. j + 1 <= i
      BY <1>4, <3>2, <3>3 DEF Shape
    <3>5. i - 1 \in 1 .. Len(t) /\ t[i - 1].do = "leech"
      BY <1>1, <3>1, <3>3, <3>4
    <3> QED  BY <3>5 DEF LeechIn
  <2> QED  BY <2>1, <2>2 DEF Shape
<1>5. ASSUME Shape(q), Head(q).do = "leech", LeechIn(t) PROVE FALSE
  <2>1. PICK i \in 1 .. Len(t) : t[i].do = "leech"
    BY <1>5 DEF LeechIn
  <2>2. i + 1 \in 1 .. Len(q) /\ q[i + 1].do = "leech" /\ i \in Nat /\ i >= 1
    BY <1>1, <2>1
  <2>3. i + 1 <= 1
    BY <1>1, <1>5, <2>2 DEF Shape
  <2> QED  BY <2>2, <2>3
<1>6. ASSUME Shape(q), Head(q).do = "ring" PROVE LeechIn(t)
  <2>1. RingIn(q)
    BY <1>1, <1>6 DEF RingIn
  <2> QED  BY <1>3, <1>6, <2>1 DEF Shape
<1> QED  BY <1>2, <1>3, <1>4, <1>5, <1>6 DEF t

(* When calls that are put before others keep the order.                   *)
LEMMA ShapeOfConcat ==
  ASSUME NEW S, NEW q \in Seq(S), NEW t \in Seq(S)
  PROVE  /\ LeechIn(q \o t) <=> LeechIn(q) \/ LeechIn(t)
         /\ RingIn(q \o t) <=> RingIn(q) \/ RingIn(t)
         /\ ~LeechIn(q) /\ Shape(t) /\ (RingIn(q) => LeechIn(t)) => Shape(q \o t)
         /\ Shape(q) /\ ~LeechIn(t) /\ ~RingIn(t) => Shape(q \o t)
<1> DEFINE c == q \o t
<1>1. /\ Len(c) = Len(q) + Len(t) /\ Len(q) \in Nat /\ Len(t) \in Nat
      /\ \A i \in 1 .. Len(q) : i \in 1 .. Len(c) /\ c[i] = q[i]
      /\ \A i \in 1 .. Len(t) : Len(q) + i \in 1 .. Len(c) /\ c[Len(q) + i] = t[i]
      /\ \A i \in 1 .. Len(c) : i \notin 1 .. Len(q) => i - Len(q) \in 1 .. Len(t) /\ c[i] = t[i - Len(q)]
  BY ConcatAt
<1> HIDE DEF c
<1>2. LeechIn(c) <=> LeechIn(q) \/ LeechIn(t)
  <2>1. ASSUME LeechIn(c) PROVE LeechIn(q) \/ LeechIn(t)
    <3>1. PICK i \in 1 .. Len(c) : c[i].do = "leech"
      BY <2>1 DEF LeechIn
    <3>2. CASE i \in 1 .. Len(q)
      <4>1. q[i].do = "leech"
        BY <1>1, <3>1, <3>2
      <4> QED  BY <3>2, <4>1 DEF LeechIn
    <3>3. CASE i \notin 1 .. Len(q)
      <4>1. i - Len(q) \in 1 .. Len(t) /\ t[i - Len(q)].do = "leech"
        BY <1>1, <3>1, <3>3
      <4> QED  BY <4>1 DEF LeechIn
    <3> QED  BY <3>2, <3>3
  <2>2. ASSUME LeechIn(q) PROVE LeechIn(c)
    BY <1>1, <2>2 DEF LeechIn
  <2>3. ASSUME LeechIn(t) PROVE LeechIn(c)
    <3>1. PICK i \in 1 .. Len(t) : t[i].do = "leech"
      BY <2>3 DEF LeechIn
    <3>2. Len(q) + i \in 1 .. Len(c) /\ c[Len(q) + i].do = "leech"
      BY <1>1, <3>1
    <3> QED  BY <3>2 DEF LeechIn
  <2> QED  BY <2>1, <2>2, <2>3
<1>3. RingIn(c) <=> RingIn(q) \/ RingIn(t)
  <2>1. ASSUME RingIn(c) PROVE RingIn(q) \/ RingIn(t)
    <3>1. PICK i \in 1 .. Len(c) : c[i].do = "ring"
      BY <2>1 DEF RingIn
    <3>2. CASE i \in 1 .. Len(q)
      <4>1. q[i].do = "ring"
        BY <1>1, <3>1, <3>2
      <4> QED  BY <3>2, <4>1 DEF RingIn
    <3>3. CASE i \notin 1 .. Len(q)
      <4>1. i - Len(q) \in 1 .. Len(t) /\ t[i - Len(q)].do = "ring"
        BY <1>1, <3>1, <3>3
      <4> QED  BY <4>1 DEF RingIn
    <3> QED  BY <3>2, <3>3
  <2>2. ASSUME RingIn(q) PROVE RingIn(c)
    BY <1>1, <2>2 DEF RingIn
  <2>3. ASSUME RingIn(t) PROVE RingIn(c)
    <3>1. PICK i \in 1 .. Len(t) : t[i].do = "ring"
      BY <2>3 DEF RingIn
    <3>2. Len(q) + i \in 1 .. Len(c) /\ c[Len(q) + i].do = "ring"
      BY <1>1, <3>1
    <3> QED  BY <3>2 DEF RingIn
  <2> QED  BY <2>1, <2>2, <2>3
<1>4. ASSUME ~LeechIn(q), Shape(t), RingIn(q) => LeechIn(t) PROVE Shape(c)
  <2>1. ASSUME NEW i \in 1 .. Len(c), NEW j \in 1 .. Len(c), c[i].do = "leech", c[j].do \in {"leech", "ring"}
        PROVE  j <= i
    <3>1. i \notin 1 .. Len(q)
      BY <1>1, <1>4, <2>1 DEF LeechIn
    <3>2. i - Len(q) \in 1 .. Len(t) /\ t[i - Len(q)].do = "leech"
      BY <1>1, <2>1, <3>1
    <3>3. CASE j \in 1 .. Len(q)
      BY <1>1, <3>2, <3>3
    <3>4. CASE j \notin 1 .. Len(q)
      <4>1. j - Len(q) \in 1 .. Len(t) /\ t[j - Len(q)].do \in {"leech", "ring"}
        BY <1>1, <2>1, <3>4
      <4>2. j - Len(q) <= i - Len(q)
        BY <1>4, <3>2, <4>1 DEF Shape
      <4> QED  BY <1>1, <4>2
    <3> QED  BY <3>3, <3>4
  <2>2. RingIn(c) => LeechIn(c)
    BY <1>2, <1>3, <1>4 DEF Shape
  <2> QED  BY <2>1, <2>2 DEF Shape
<1>5. ASSUME Shape(q), ~LeechIn(t), ~RingIn(t) PROVE Shape(c)
  <2>1. ASSUME NEW i \in 1 .. Len(c), NEW j \in 1 .. Len(c), c[i].do = "leech", c[j].do \in {"leech", "ring"}
        PROVE  j <= i
    <3>1. i \in 1 .. Len(q)
      BY <1>1, <1>5, <2>1 DEF LeechIn
    <3>2. j \in 1 .. Len(q)
      BY <1>1, <1>5, <2>1 DEF LeechIn, RingIn
    <3>3. c[i] = q[i] /\ c[j] = q[j]
      BY <1>1, <3>1, <3>2
    <3> QED  BY <1>5, <2>1, <3>1, <3>2, <3>3 DEF Shape
  <2>2. RingIn(c) => LeechIn(c)
    BY <1>2, <1>3, <1>5 DEF Shape
  <2> QED  BY <2>1, <2>2 DEF Shape
<1> QED  BY <1>2, <1>3, <1>4, <1>5 DEF c

(* Nothing that leech does not see is called before leech is paid.         *)
Owing(q) == \A i, j \in 1 .. Len(q) : q[i].do = "leech" /\ j < i => Seen(q[j])

(* Making the call at the head leaves that so, and the head was seen.      *)
LEMMA OwingOfTail ==
  ASSUME NEW S, NEW q \in Seq(S), q # <<>>, Owing(q)
  PROVE  Owing(Tail(q)) /\ (LeechIn(Tail(q)) => Seen(Head(q)))
<1> DEFINE t == Tail(q)
<1>1. /\ Len(t) = Len(q) - 1 /\ Len(q) \in Nat \ {0} /\ 1 \in 1 .. Len(q) /\ q[1] = Head(q)
      /\ \A i \in 1 .. Len(t) : i + 1 \in 1 .. Len(q) /\ t[i] = q[i + 1]
  BY TailAt
<1> HIDE DEF t
<1>2. ASSUME NEW i \in 1 .. Len(t), NEW j \in 1 .. Len(t), t[i].do = "leech", j < i PROVE Seen(t[j])
  <2>1. i + 1 \in 1 .. Len(q) /\ j + 1 \in 1 .. Len(q) /\ j + 1 < i + 1
    BY <1>1, <1>2
  <2>2. q[i + 1].do = "leech" /\ t[j] = q[j + 1]
    BY <1>1, <1>2
  <2>3. Seen(q[j + 1])
    BY <2>1, <2>2 DEF Owing
  <2> QED  BY <2>2, <2>3
<1>3. ASSUME LeechIn(t) PROVE Seen(Head(q))
  <2>1. PICK i \in 1 .. Len(t) : t[i].do = "leech"
    BY <1>3 DEF LeechIn
  <2>2. i + 1 \in 1 .. Len(q) /\ q[i + 1].do = "leech" /\ 1 < i + 1
    BY <1>1, <2>1
  <2>3. Seen(q[1])
    BY <1>1, <2>2 DEF Owing
  <2> QED  BY <1>1, <2>3
<1> QED  BY <1>2, <1>3 DEF Owing, t

(* Calls put before others that owe to leech must be seen by it.           *)
LEMMA OwingOfConcat ==
  ASSUME NEW S, NEW q \in Seq(S), NEW t \in Seq(S)
  PROVE  /\ ~LeechIn(q) /\ Owing(t) /\ (LeechIn(t) => AllSeen(q)) => Owing(q \o t)
         /\ Owing(q) /\ ~LeechIn(t) => Owing(q \o t)
         /\ AllSeen(q) /\ AllSeen(t) => AllSeen(q \o t)
<1> DEFINE c == q \o t
<1>1. /\ Len(c) = Len(q) + Len(t) /\ Len(q) \in Nat /\ Len(t) \in Nat
      /\ \A i \in 1 .. Len(q) : i \in 1 .. Len(c) /\ c[i] = q[i]
      /\ \A i \in 1 .. Len(c) : i \notin 1 .. Len(q) => i - Len(q) \in 1 .. Len(t) /\ c[i] = t[i - Len(q)]
  BY ConcatAt
<1> HIDE DEF c
<1>2. ASSUME ~LeechIn(q), Owing(t), LeechIn(t) => AllSeen(q),
             NEW i \in 1 .. Len(c), NEW j \in 1 .. Len(c), c[i].do = "leech", j < i
      PROVE  Seen(c[j])
  <2>1. i \notin 1 .. Len(q)
    BY <1>1, <1>2 DEF LeechIn
  <2>2. i - Len(q) \in 1 .. Len(t) /\ t[i - Len(q)].do = "leech"
    BY <1>1, <1>2, <2>1
  <2>3. CASE j \in 1 .. Len(q)
    <3>1. AllSeen(q)
      BY <1>2, <2>2 DEF LeechIn
    <3>2. Seen(q[j])
      BY <2>3, <3>1 DEF AllSeen
    <3> QED  BY <1>1, <2>3, <3>2
  <2>4. CASE j \notin 1 .. Len(q)
    <3>1. j - Len(q) \in 1 .. Len(t) /\ c[j] = t[j - Len(q)]
      BY <1>1, <1>2, <2>4
    <3>2. j - Len(q) < i - Len(q)
      BY <1>1, <1>2
    <3>3. Seen(t[j - Len(q)])
      BY <1>2, <2>2, <3>1, <3>2 DEF Owing
    <3> QED  BY <3>1, <3>3
  <2> QED  BY <2>3, <2>4
<1>3. ASSUME Owing(q), ~LeechIn(t), NEW i \in 1 .. Len(c), NEW j \in 1 .. Len(c), c[i].do = "leech", j < i
      PROVE  Seen(c[j])
  <2>1. i \in 1 .. Len(q)
    BY <1>1, <1>3 DEF LeechIn
  <2>2. j \in 1 .. Len(q)
    BY <1>1, <1>3, <2>1
  <2>3. c[i] = q[i] /\ c[j] = q[j]
    BY <1>1, <2>1, <2>2
  <2>4. Seen(q[j])
    BY <1>3, <2>1, <2>2, <2>3 DEF Owing
  <2> QED  BY <2>3, <2>4
<1>4. ASSUME AllSeen(q), AllSeen(t), NEW i \in 1 .. Len(c) PROVE Seen(c[i])
  <2>1. CASE i \in 1 .. Len(q)
    <3>1. Seen(q[i])
      BY <1>4, <2>1 DEF AllSeen
    <3> QED  BY <1>1, <2>1, <3>1
  <2>2. CASE i \notin 1 .. Len(q)
    <3>1. PICK k \in 1 .. Len(t) : c[i] = t[k]
      BY <1>1, <2>2
    <3>2. Seen(t[k])
      BY <1>4 DEF AllSeen
    <3> QED  BY <3>1, <3>2
  <2> QED  BY <2>1, <2>2
<1>5. ~LeechIn(q) /\ Owing(t) /\ (LeechIn(t) => AllSeen(q)) => Owing(c)
  BY <1>2 DEF Owing
<1>6. Owing(q) /\ ~LeechIn(t) => Owing(c)
  BY <1>3 DEF Owing
<1>7. AllSeen(q) /\ AllSeen(t) => AllSeen(c)
  BY <1>4 DEF AllSeen
<1> QED  BY <1>5, <1>6, <1>7 DEF c

(* Simple calls hold neither leech nor a ring.                             *)
LEMMA SimpleShape ==
  ASSUME NEW q \in Seq(Simple)
  PROVE  ~LeechIn(q) /\ ~RingIn(q) /\ Shape(q) /\ q \in Seq(Calls)
<1>1. \A i \in 1 .. Len(q) : q[i].do # "leech" /\ q[i].do # "ring"
  <2> TAKE i \in 1 .. Len(q)
  <2>1. q[i] \in Simple
    OBVIOUS
  <2> QED  BY <2>1 DEF Simple, HitType, CcType, LineType, LayType, ZoneCallType
<1>2. Simple \subseteq Calls
  BY CallSets
<1> QED  BY <1>1, <1>2, SeqOfMore DEF LeechIn, RingIn, Shape

(* Calls that a system may begin with: in order, seen by leech where it is *)
(* still to be paid, and no ring under way.                                *)
RingsFresh(q) == \A i \in 1 .. Len(q) : q[i].do = "ring" => q[i].stacks = 0 /\ q[i].struck = {}
Opening(q) == q \in Seq(Calls) /\ Shape(q) /\ Owing(q) /\ RingsFresh(q)

(* The passes of a cast hold no leech, nothing that leech does not see, and*)
(* rings that have not begun.                                              *)
LEMMA StartingShape ==
  ASSUME NEW q \in Seq(Starting)
  PROVE  ~LeechIn(q) /\ AllSeen(q) /\ RingsFresh(q) /\ q \in Seq(Calls)
<1>0. \A i \in 1 .. Len(q) : q[i] \in Starting
  OBVIOUS
<1>1. \A i \in 1 .. Len(q) : q[i].do # "leech" /\ (q[i].do = "ring" => q[i].stacks = 0 /\ q[i].struck = {})
  <2> TAKE i \in 1 .. Len(q)
  <2>1. q[i] \in Simple \cup FirstRing
    BY <1>0 DEF Starting
  <2> QED  BY <2>1 DEF FirstRing, Simple, HitType, CcType, LineType, LayType, ZoneCallType
<1>2. AllSeen(q)
  BY <1>0 DEF Starting, AllSeen
<1> QED  BY <1>1, <1>2, CallSets, SeqOfMore DEF LeechIn, RingsFresh

(* A system may begin with simple calls.                                   *)
LEMMA SimpleOpening ==
  ASSUME NEW q \in Seq(Simple)
  PROVE  Opening(q) /\ ~LeechIn(q) /\ ~RingIn(q)
<1>1. ~LeechIn(q) /\ ~RingIn(q) /\ Shape(q) /\ q \in Seq(Calls)
  BY SimpleShape
<1>2. Owing(q)
  BY <1>1 DEF LeechIn, Owing
<1>3. RingsFresh(q)
  BY <1>1 DEF RingIn, RingsFresh
<1> QED  BY <1>1, <1>2, <1>3 DEF Opening

(* Rings that have not begun, one sequence behind the other.               *)
LEMMA FreshOfConcat ==
  ASSUME NEW S, NEW q \in Seq(S), NEW t \in Seq(S), RingsFresh(q), RingsFresh(t)
  PROVE  RingsFresh(q \o t)
<1> DEFINE c == q \o t
<1>1. /\ \A i \in 1 .. Len(q) : i \in 1 .. Len(c) /\ c[i] = q[i]
      /\ \A i \in 1 .. Len(c) : i \notin 1 .. Len(q) => i - Len(q) \in 1 .. Len(t) /\ c[i] = t[i - Len(q)]
  BY ConcatAt
<1> HIDE DEF c
<1>2. ASSUME NEW i \in 1 .. Len(c), c[i].do = "ring" PROVE c[i].stacks = 0 /\ c[i].struck = {}
  <2>1. CASE i \in 1 .. Len(q)
    BY <1>1, <1>2, <2>1 DEF RingsFresh
  <2>2. CASE i \notin 1 .. Len(q)
    <3>1. PICK k \in 1 .. Len(t) : c[i] = t[k]
      BY <1>1, <2>2
    <3>2. t[k].do = "ring"
      BY <1>2, <3>1
    <3>3. t[k].stacks = 0 /\ t[k].struck = {}
      BY <3>2, Zenon DEF RingsFresh
    <3> QED  BY <3>1, <3>3
  <2> QED  BY <2>1, <2>2
<1> QED  BY <1>2 DEF RingsFresh, c

(* Leech behind strikes that begin, and a call behind leech.               *)
LEMMA PaidOpening ==
  ASSUME NEW p \in Seq(Starting), NEW x \in Calls, x.do \notin {"leech", "ring"}
  PROVE  Opening(p \o <<Call("leech"), x>>)
<1> DEFINE l == Call("leech")
           t == <<l, x>>
<1>0. l \in Calls /\ l.do = "leech"
  BY SinglesAreCalls DEF Call
<1> HIDE DEF l
<1>1. t \in Seq(Calls) /\ Len(t) = 2 /\ t[1] = l /\ t[2] = x /\ \A i \in 1 .. Len(t) : i = 1 \/ i = 2
  BY <1>0
<1> HIDE DEF t
<1>2. \A i \in 1 .. Len(t) : (t[i].do = "leech" => i = 1) /\ t[i].do # "ring"
  BY <1>0, <1>1
<1>3. 1 \in 1 .. Len(t) /\ t[1].do = "leech"
  BY <1>0, <1>1
<1>4. LeechIn(t) /\ ~RingIn(t) /\ RingsFresh(t)
  BY <1>2, <1>3 DEF LeechIn, RingIn, RingsFresh
<1>5. Shape(t)
  <2>1. ASSUME NEW i \in 1 .. Len(t), NEW j \in 1 .. Len(t), t[i].do = "leech", t[j].do \in {"leech", "ring"}
        PROVE  j <= i
    <3>1. i = 1 /\ j = 1
      BY <1>2, <2>1
    <3> QED  BY <3>1
  <2> QED  BY <1>4, <2>1 DEF Shape
<1>6. p \in Seq(Calls) /\ ~LeechIn(p) /\ AllSeen(p) /\ RingsFresh(p)
  BY StartingShape
<1>7. p \o t \in Seq(Calls)
  BY <1>1, <1>6, ConcatProperties
<1>8. Shape(p \o t)
  BY <1>1, <1>4, <1>5, <1>6, ShapeOfConcat
<1>9. RingsFresh(p \o t)
  BY <1>1, <1>4, <1>6, FreshOfConcat
<1>10. Owing(t)
  <2>1. ASSUME NEW i \in 1 .. Len(t), NEW j \in 1 .. Len(t), t[i].do = "leech", j < i PROVE FALSE
    BY <1>2, <2>1
  <2> QED  BY <2>1 DEF Owing
<1>11. Owing(p \o t)
  BY <1>1, <1>6, <1>10, OwingOfConcat
<1> QED  BY <1>7, <1>8, <1>9, <1>11 DEF Opening, t, l

(* A system may begin with a cast.                                         *)
LEMMA CastOpening ==
  ASSUME FieldOK, build \in Builds, NEW s \in Skills, NEW grade \in Int
  PROVE  Opening(CastCalls(s, grade))
<1>1. CASE CastCalls(s, grade) \in Seq(Simple)
  BY <1>1, SimpleOpening
<1>2. CASE CastCalls(s, grade) \notin Seq(Simple)
  <2>1. PICK p \in Seq(Starting), q \in Simple : CastCalls(s, grade) = p \o <<Call("leech"), q>>
    BY <1>2, CastCallsType
  <2>2. q \in Calls /\ q.do \notin {"leech", "ring"}
    BY CallSets DEF Simple, HitType, CcType, LineType, LayType, ZoneCallType
  <2> QED  BY <2>1, <2>2, PaidOpening
<1> QED  BY <1>1, <1>2

(* Simple calls may follow.                                                *)
LEMMA ThenSimple ==
  ASSUME NEW q, Opening(q), NEW t \in Seq(Simple)
  PROVE  Opening(q \o t)
<1>1. q \in Seq(Calls) /\ t \in Seq(Calls) /\ Shape(q) /\ Owing(q) /\ RingsFresh(q)
      /\ ~LeechIn(t) /\ ~RingIn(t) /\ RingsFresh(t)
  BY SimpleOpening DEF Opening
<1>2. q \o t \in Seq(Calls)
  BY <1>1, ConcatProperties
<1>3. Shape(q \o t)
  BY <1>1, ShapeOfConcat
<1>4. RingsFresh(q \o t)
  BY <1>1, FreshOfConcat
<1>5. Owing(q \o t)
  BY <1>1, OwingOfConcat
<1> QED  BY <1>2, <1>3, <1>4, <1>5 DEF Opening

----------------------------------------------------------------------------
(* What the systems put on work.                                           *)
LEMMA StormRunCalls ==
  ASSUME StormRun
  PROVE  \E calls : Begin(calls) /\ Opening(calls)
<1> DEFINE h == HitCalls(InRadius(hero, StormRadius), stormPower, FALSE, "storm")
           calls == IF Has("Storm") /\ stormPower > 0 THEN h ELSE <<>>
<1>1. h \in Seq(HitType)
  BY InRadiusRows, StrikesConstants, HitCallsType DEF Strikers
<1>2. Begin(calls)
  BY DEF StormRun
<1> HIDE DEF h
<1>3. h \in Seq(Simple) /\ <<>> \in Seq(Simple)
  BY <1>1, CallSets, SeqOfMore
<1>4. calls \in Seq(Simple)
  BY <1>3
<1> HIDE DEF calls
<1> QED  BY <1>2, <1>4, SimpleOpening

(* zoneRun begins with calls in order.                                     *)
LEMMA ZoneRunCalls ==
  ASSUME TypeOK, ZoneRun
  PROVE  \E calls : Begin(calls) /\ Opening(calls)
<1> DEFINE strikes(z) == /\ z.kind # "Fissure" /\ z.value > 0
                         /\ z.kind = "Aftershock" => z.left <= 0
           indices == {i \in DOMAIN zones : strikes(zones[i])}
           active == Entries(zones, indices)
           n == Len(active)
           p == [i \in 1 .. n |-> [do |-> "zone", zone |-> active[i]]]
<1>1. Begin(p \o <<Call("leech"), Call("sweep")>>)
  BY DEF ZoneRun
<1>2. active \in Seq(ZoneType)
  <2>1. zones \in Seq(ZoneType) /\ indices \in SUBSET DOMAIN zones
    BY DEF TypeOK, FieldOK
  <2> HIDE DEF indices
  <2> QED  BY <2>1, EntriesType
<1> HIDE DEF active
<1>3. n \in Nat /\ \A i \in 1 .. n : [do |-> "zone", zone |-> active[i]] \in ZoneCallType
  BY <1>2, SinglesAreCalls
<1> HIDE DEF n
<1>4. p \in [1 .. n -> ZoneCallType]
  BY <1>3
<1> HIDE DEF p
<1>5. p \in Seq(ZoneCallType)
  BY <1>3, <1>4, ArrayAsSeq
<1>6. p \in Seq(Starting)
  BY <1>5, CallSets, SeqOfMore
<1>7. Call("sweep") \in Calls /\ Call("sweep").do \notin {"leech", "ring"}
  BY SinglesAreCalls DEF Call
<1> QED  BY <1>1, <1>6, <1>7, PaidOpening

(* qteRun begins with calls in order.                                      *)
LEMMA QteRunCalls ==
  ASSUME TypeOK, QteRun
  PROVE  WindowOK' /\ \E calls : Begin(calls) /\ Opening(calls)
<1>0. /\ window \in [skill : Skills \cup {NO_SKILL}, left : Int] /\ qteCooldown \in Int
      /\ cooldown' = cooldown /\ boltIn' = boltIn /\ cooldown \in Int /\ boltIn \in Int
  BY DEF TypeOK, WindowOK, QteRun
<1>1. qteCooldown' \in Int
  <2>1. qteCooldown - 1 \in Int
    BY <1>0
  <2> QED  BY <2>1 DEF QteRun, AtLeast
<1>2. CASE window.skill = NO_SKILL \/ window.left > 0
  <2>1. Begin(<<>>) /\ window' = window
    BY <1>2 DEF QteRun
  <2>2. <<>> \in Seq(Simple)
    OBVIOUS
  <2> QED  BY <1>0, <1>1, <2>1, <2>2, SimpleOpening DEF WindowOK
<1>3. CASE ~(window.skill = NO_SKILL \/ window.left > 0)
  <2>1. window' = Closed /\ \E g \in Grades : Begin(CastCalls(window.skill, g))
    BY <1>3 DEF QteRun
  <2>2. PICK g \in Grades : Begin(CastCalls(window.skill, g))
    BY <2>1
  <2>3. g \in Int /\ window.skill \in Skills /\ FieldOK /\ build \in Builds
    BY <1>0, <1>3, StrikesConstants DEF TypeOK
  <2>4. Opening(CastCalls(window.skill, g))
    BY <2>3, CastOpening
  <2>5. Closed \in [skill : Skills \cup {NO_SKILL}, left : Int]
    BY DEF Closed
  <2> QED  BY <1>0, <1>1, <2>1, <2>2, <2>4, <2>5 DEF WindowOK
<1> QED  BY <1>2, <1>3

(* The hero's turn begins with calls in order.                             *)
LEMMA HeroTurnCalls ==
  ASSUME TypeOK, HeroTurn
  PROVE  WindowOK' /\ \E calls : Begin(calls) /\ Opening(calls)
<1>0. /\ window \in [skill : Skills \cup {NO_SKILL}, left : Int] /\ qteCooldown \in Int
      /\ boltIn' = boltIn /\ cooldown \in Int /\ boltIn \in Int /\ FieldOK /\ build \in Builds
  BY DEF TypeOK, WindowOK, HeroTurn
<1> DEFINE ready == cooldown <= 1 /\ target \in Living /\ Within(at[target], hero, HeroRange)
<1>1. CASE ~ready
  <2>1. cooldown' = AtLeast(cooldown - 1, 0) /\ Begin(<<>>) /\ UNCHANGED <<window, qteCooldown>>
    BY <1>1 DEF HeroTurn
  <2>2. cooldown - 1 \in Int
    BY <1>0
  <2>3. cooldown' \in Int
    BY <2>1, <2>2 DEF AtLeast
  <2>4. <<>> \in Seq(Simple)
    OBVIOUS
  <2> QED  BY <1>0, <2>1, <2>3, <2>4, SimpleOpening DEF WindowOK
<1>2. CASE ready
  <2>1. PICK skill \in build.skills \cup {NO_SKILL} : HeroAttacks(skill)
    BY <1>2 DEF HeroTurn
  <2> DEFINE waits == skill # NO_SKILL /\ MayOpen
             now == IF skill = NO_SKILL \/ waits THEN <<>> ELSE CastCalls(skill, ONE)
             h == HitCall(target, AttackPower, TRUE, "attack")
             p == LineCall("pierce", AttackPower)
             x == LineCall("echo", AttackPower)
             t == <<h, p, x>>
  <2>2. /\ window' = IF waits THEN [skill |-> skill, left |-> QteLength] ELSE window
        /\ qteCooldown' = IF waits THEN qteCooldownTicks ELSE qteCooldown
        /\ Begin(now \o t) /\ cooldown' = attackInterval
    BY <2>1 DEF HeroAttacks
  <2>3. skill # NO_SKILL => skill \in Skills
    BY <1>0, <2>1, BuildTypes
  <2>4. WindowOK'
    BY <1>0, <2>2, <2>3, StrikesConstants DEF WindowOK
  <2>5. h \in Simple /\ p \in Simple /\ x \in Simple
    <3>1. target \in Enemies /\ AttackPower \in Int
      BY <1>2, LivingRows, StrikesConstants
    <3> QED  BY <3>1, SinglesAreCalls DEF Strikers
  <2> HIDE DEF h, p, x
  <2>6. t \in Seq(Simple)
    BY <2>5
  <2>7. Opening(now)
    <3>1. CASE skill = NO_SKILL \/ waits
      <4>1. now = <<>> /\ <<>> \in Seq(Simple)
        BY <3>1
      <4> HIDE DEF now
      <4> QED  BY <4>1, SimpleOpening
    <3>2. CASE ~(skill = NO_SKILL \/ waits)
      <4>1. now = CastCalls(skill, ONE) /\ skill \in Skills /\ ONE \in Int
        BY <2>3, <3>2, FieldConstants
      <4> HIDE DEF now
      <4> QED  BY <1>0, <4>1, CastOpening
    <3> QED  BY <3>1, <3>2
  <2> HIDE DEF now, t
  <2>8. Opening(now \o t)
    BY <2>6, <2>7, ThenSimple
  <2> QED  BY <2>2, <2>4, <2>8
<1> QED  BY <1>1, <1>2

(* All the systems that strike but the first.                              *)
StrikingSystem == \/ Enter("boltRun") /\ BoltRun
                  \/ Enter("stormRun") /\ StormRun
                  \/ Enter("zoneRun") /\ ZoneRun
                  \/ Enter("qteRun") /\ QteRun
                  \/ Enter("heroTurn") /\ HeroTurn

(* Every system that strikes begins with calls in order, and has changed   *)
(* nothing else yet that the calls are about.                              *)
LEMMA StrikesBegin ==
  ASSUME TypeOK, StrikingSystem
  PROVE  /\ WindowOK' /\ \E calls : Begin(calls) /\ Opening(calls)
         /\ UNCHANGED <<places, foe, zones, build, score, ring, unhurt>>
         /\ work = <<>> /\ system \in {"decayRun", "boltRun", "stormRun", "ccDecayRun", "qteRun"}
         /\ system' \in {"boltRun", "stormRun", "zoneRun", "qteRun", "heroTurn"}
<1>0. system \in SystemNames
  BY DEF TypeOK
<1>1. CASE Enter("boltRun") /\ BoltRun
  <2>1. work = <<>> /\ system' = "boltRun" /\ system = "decayRun"
    BY <1>0, <1>1, EnteredFrom
  <2>2. boltIn' \in Int /\ \E calls : Begin(calls) /\ Opening(calls)
    BY <1>1, BoltRunCalls, SimpleOpening
  <2>3. UNCHANGED <<places, foe, zones, build, score, cooldown, window, qteCooldown, ring, unhurt>>
    BY <1>1 DEF BoltRun
  <2> QED  BY <2>1, <2>2, <2>3 DEF TypeOK, WindowOK
<1>2. CASE Enter("stormRun") /\ StormRun
  <2>1. work = <<>> /\ system' = "stormRun" /\ system = "boltRun"
    BY <1>0, <1>2, EnteredFrom
  <2>2. \E calls : Begin(calls) /\ Opening(calls)
    BY <1>2, StormRunCalls
  <2>3. UNCHANGED <<places, foe, zones, build, score, cooldown, window, qteCooldown, boltIn, ring, unhurt>>
    BY <1>2 DEF StormRun
  <2> QED  BY <2>1, <2>2, <2>3 DEF TypeOK, WindowOK
<1>3. CASE Enter("zoneRun") /\ ZoneRun
  <2>1. work = <<>> /\ system' = "zoneRun" /\ system = "stormRun"
    BY <1>0, <1>3, EnteredFrom
  <2>2. \E calls : Begin(calls) /\ Opening(calls)
    BY <1>3, ZoneRunCalls
  <2>3. UNCHANGED <<places, foe, zones, build, score, cooldown, window, qteCooldown, boltIn, ring, unhurt>>
    BY <1>3 DEF ZoneRun
  <2> QED  BY <2>1, <2>2, <2>3 DEF TypeOK, WindowOK
<1>4. CASE Enter("qteRun") /\ QteRun
  <2>1. work = <<>> /\ system' = "qteRun" /\ system = "ccDecayRun"
    BY <1>0, <1>4, EnteredFrom
  <2>2. WindowOK' /\ \E calls : Begin(calls) /\ Opening(calls)
    BY <1>4, QteRunCalls
  <2>3. UNCHANGED <<places, foe, zones, build, score, ring, unhurt>>
    BY <1>4 DEF QteRun
  <2> QED  BY <2>1, <2>2, <2>3
<1>5. CASE Enter("heroTurn") /\ HeroTurn
  <2>1. work = <<>> /\ system' = "heroTurn" /\ system = "qteRun"
    BY <1>0, <1>5, EnteredFrom
  <2>2. WindowOK' /\ \E calls : Begin(calls) /\ Opening(calls)
    BY <1>5, HeroTurnCalls
  <2>3. UNCHANGED <<places, foe, zones, build, score, ring, unhurt>>
    BY <1>5 DEF HeroTurn
  <2> QED  BY <2>1, <2>2, <2>3
<1> QED  BY <1>1, <1>2, <1>3, <1>4, <1>5 DEF StrikingSystem

(* The systems that strike keep the types.                                 *)
LEMMA StrikesKeepTypes ==
  ASSUME TypeOK, StrikingSystem
  PROVE  TypeOK'
<1>1. /\ WindowOK' /\ UNCHANGED <<places, foe, zones, build, score, ring, unhurt>>
      /\ system' \in SystemNames \ Quiet /\ system' # "decayRun"
  BY StrikesBegin DEF SystemNames, Quiet
<1>2. PICK calls : Begin(calls) /\ Opening(calls)
  BY StrikesBegin
<1>3. calls \in Seq(Calls)
  BY <1>2 DEF Opening
<1> QED  BY <1>1, <1>2, <1>3, BeginKeepsTypes

(* Steps that move the hero and the enemies, and steps that call nothing.  *)
PlacesStep == \/ Enter("selectTarget") /\ Aim
              \/ Enter("separationRun") /\ Part
              \/ Enter("movementRun") /\ Walk
QuietStep == \/ Enter("beginTick") /\ BeginTick
             \/ Enter("ccDecayRun") /\ CcDecayRun
             \/ Enter("enemiesTurn") /\ EnemiesTurn

(* A step is one of these: a system moves, runs quietly, or puts its calls *)
(* on work, or the call at the head is made.                               *)
LEMMA StepKinds ==
  ASSUME [Next]_vars
  PROVE  \/ UNCHANGED vars
         \/ PlacesStep \/ QuietStep \/ StrikingSystem
         \/ Enter("decayRun") /\ DecayRun
         \/ CallStep /\ system' = system
  BY DEF Next, RunSystem, PlacesStep, QuietStep, StrikingSystem

(* Making a call keeps the types.                                          *)
LEMMA CallKeepsTypes ==
  ASSUME TypeOK, CallStep, system' = system
  PROVE  TypeOK'
  BY HitKeepsTypes, CcKeepsTypes, CollectedKeepTypes, RingKeepsTypes, LeechKeepsTypes, LayKeepsTypes,
     SweepKeepsTypes, DotKeepsTypes DEF CallStep

(* So does a step that changes nothing.                                    *)
LEMMA StutterKeepsTypes ==
  ASSUME TypeOK, UNCHANGED vars
  PROVE  TypeOK'
<1>1. UNCHANGED <<hero, at, target, manual, foe, zones, build, trials, score, work, dealt, cooldown,
                  window, qteCooldown, boltIn, cast, ring, unhurt, system>>
  BY DEF vars, strikeVars
<1> QED  BY <1>1 DEF TypeOK, FieldOK, WorkOK, WindowOK

(* The battle begins with the types.                                       *)
LEMMA InitTypes ==
  ASSUME Init
  PROVE  TypeOK
<1> DEFINE row == [taken |-> 0, dead |-> FALSE, left |-> 0, dot |-> 0, gauge |-> 0, triggers |-> 0, groggy |-> 0]
<1>1. row \in Row
  BY DEF Row
<1>2. foe = [e \in Enemies |-> row]
  BY DEF Init, StrikesInit
<1>3. foe \in [Enemies -> Row] /\ \A e \in Enemies : foe[e].taken = 0
  BY <1>1, <1>2
<1>4. hero \in Point /\ at \in [Enemies -> Point] /\ target = NOBODY /\ manual \in Pointed
  BY BattleAssumption DEF Init, BattleAssumption, Point
<1>5. FieldOK
  BY <1>3, <1>4 DEF FieldOK, Init, StrikesInit
<1>6. score \in ScoreType
  BY DEF Init, StrikesInit, ScoreType
<1>7. WorkOK /\ system \in SystemNames
  BY DEF WorkOK, Init, StrikesInit, SystemNames
<1>8. WindowOK
  BY DEF WindowOK, Closed, Init, StrikesInit
<1>9. cast \in [before : [Enemies -> Int], pierced : Int]
  BY <1>5, FreshType DEF Init, StrikesInit
<1>10. ring \in RingsType
  BY DEF Init, StrikesInit, NoRing, RingsType, Point
<1>11. build \in Builds /\ dealt \in Int /\ unhurt \in [Enemies -> Int]
  BY StrikesConstants DEF Init, StrikesInit
<1> QED  BY <1>5, <1>6, <1>7, <1>8, <1>9, <1>10, <1>11 DEF TypeOK

(* Every step keeps them.                                                  *)
LEMMA StepTypes ==
  ASSUME TypeOK, [Next]_vars
  PROVE  TypeOK'
<1>1. CASE UNCHANGED vars
  BY <1>1, StutterKeepsTypes
<1>2. CASE PlacesStep
  BY <1>2, PlacesKeepTypes DEF PlacesStep
<1>3. CASE QuietStep
  BY <1>3, QuietKeepTypes DEF QuietStep
<1>4. CASE Enter("decayRun") /\ DecayRun
  BY <1>4, DecayRunKeepsTypes
<1>5. CASE StrikingSystem
  BY <1>5, StrikesKeepTypes
<1>6. CASE CallStep /\ system' = system
  BY <1>6, CallKeepsTypes
<1> QED  BY <1>1, <1>2, <1>3, <1>4, <1>5, <1>6, StepKinds

(* Every variable of the battle keeps its type, the calls on work          *)
(* included: whatever the cards, the zones and the places, no call is made *)
(* with arguments that the function does not take, and decayRun is the     *)
(* only system whose calls are dots.                                       *)
THEOREM BattleTypes == Spec => []TypeOK
<1>1. Init => TypeOK
  BY InitTypes
<1>2. TypeOK /\ [Next]_vars => TypeOK'
  BY StepTypes
<1> QED  BY <1>1, <1>2, PTL DEF Spec

----------------------------------------------------------------------------
(* Nothing is called in a quiet system.                                    *)
LEMMA CallsAreLoud ==
  ASSUME TypeOK, CallStep
  PROVE  system \notin Quiet
<1>1. work # <<>>
  BY DEF CallStep, Hit, Cc, Pierce, Shockwave, Wide, Echo, Ring, Leech, Lay, ZoneStrikes, Sweep, Dot, Doing
<1> QED  BY <1>1 DEF TypeOK, WorkOK

(* However the enemies stand, in the cells of the grid or clamped to its   *)
(* border, the loops of separationRun meet every pair that overlaps, and   *)
(* none twice.                                                             *)
THEOREM EveryPairIsParted == Spec => []PartsEveryPair
<1>1. TypeOK => PartsEveryPair
  BY GridMeetsEveryOverlap DEF TypeOK, FieldOK, PartsEveryPair
<1> QED  BY <1>1, BattleTypes, PTL

(* The target stays the best as long as nobody moves or dies.              *)
LEMMA AimUnchanged ==
  ASSUME AimsAtBest, UNCHANGED <<hero, at, target, manual, foe>>
  PROVE  AimsAtBest'
<1>1. AimsAtBest' <=> AimsAtBest
  BY DEF AimsAtBest, EffectivePriority, Living
<1> QED  BY <1>1

(* After selectTarget the hero aims at the best enemy by priority,         *)
(* distance and id, in every position and for every table of priorities;   *)
(* the choice made by hand is the exception.                               *)
THEOREM TheTargetIsBest == Spec => []TargetIsBest
<1>1. Init => TargetIsBest
  BY DEF Init, TargetIsBest
<1>2. TypeOK /\ TargetIsBest /\ [Next]_vars => TargetIsBest'
  <2> SUFFICES ASSUME TypeOK, TargetIsBest, [Next]_vars, system' = "selectTarget" PROVE AimsAtBest'
    BY DEF TargetIsBest
  <2>0. system \in SystemNames
    BY DEF TypeOK
  <2>1. CASE UNCHANGED vars
    BY <2>1, AimUnchanged DEF vars, strikeVars, TargetIsBest
  <2>2. CASE PlacesStep
    <3>1. Enter("selectTarget") /\ Aim
      BY <2>2 DEF PlacesStep, Enter
    <3> QED  BY <3>1, SelectTargetAims DEF Aim, TypeOK, FieldOK
  <2>3. CASE QuietStep \/ (Enter("decayRun") /\ DecayRun) \/ StrikingSystem
    BY <2>3 DEF QuietStep, StrikingSystem, Enter
  <2>4. CASE CallStep /\ system' = system
    BY <2>4, CallsAreLoud DEF Quiet
  <2> QED  BY <2>1, <2>2, <2>3, <2>4, StepKinds
<1> QED  BY <1>1, <1>2, BattleTypes, PTL DEF Spec

---------------------------------------------------------------------------
(* Streaks: what each channel of the generator remembers.                  *)

(* Multiples compare as what they are multiples of.                        *)
LEMMA ProductsCompare ==
  ASSUME NEW n \in Nat, NEW q \in Nat, NEW c \in Nat \ {0}, n * c < (q + 1) * c
  PROVE  n <= q
<1>1. ASSUME n >= q + 1 PROVE FALSE
  <2>1. n * c >= (q + 1) * c
    BY <1>1
  <2>2. n * c \in Int /\ (q + 1) * c \in Int
    OBVIOUS
  <2> QED  BY <2>1, <2>2
<1> QED  BY <1>1

(* A roll keeps the streak bounded.                                        *)
LEMMA RollKeepsStreak ==
  ASSUME StreakBounded, NEW success \in BOOLEAN, Roll(success)
  PROVE  StreakBounded'
<1> DEFINE m == Q16_ONE + C - 1
           q == m \div C
<1>1. Q16_ONE \in Nat \ {0} /\ C \in Nat \ {0} /\ C <= Q16_ONE /\ m \in Nat
  BY PrdAssumption DEF PrdAssumption
<1>2. q \in Nat /\ q * C <= m /\ m < q * C + C
  BY <1>1, DivBounds
<1>3. MaxStreak = q - 1 /\ MaxStreak' = MaxStreak /\ trials \in 0 .. q - 1
  BY DEF MaxStreak, StreakBounded
<1>4. CASE success
  <2>1. trials' = 0
    BY <1>4 DEF Roll
  <2> QED  BY <1>2, <1>3, <2>1 DEF StreakBounded
<1>5. CASE ~success
  <2>1. Chance(trials) < Q16_ONE /\ trials' = trials + 1
    BY <1>5 DEF Roll, MaySay
  <2>2. C * (trials + 1) < Q16_ONE
    BY <1>1, <1>3, <2>1 DEF Chance
  <2> HIDE DEF q
  <2>3. trials + 2 \in Nat /\ (trials + 2) * C = C * (trials + 1) + C /\ C * (trials + 1) \in Int
    BY <1>1, <1>3
  <2>4. (q + 1) * C = q * C + C /\ q * C \in Int
    BY <1>1, <1>2
  <2>5. (trials + 2) * C < (q + 1) * C
    BY <1>1, <1>2, <2>2, <2>3, <2>4
  <2>6. trials + 2 <= q
    BY <1>1, <1>2, <2>3, <2>5, ProductsCompare
  <2> QED  BY <1>2, <1>3, <2>1, <2>6 DEF StreakBounded
<1> QED  BY <1>4, <1>5

(* Only an attack rolls.                                                   *)
LEMMA TrialsStep ==
  ASSUME [Next]_vars
  PROVE  trials' = trials \/ \E success \in BOOLEAN : Roll(success)
<1>1. CASE UNCHANGED vars
  BY <1>1 DEF vars, strikeVars
<1>2. CASE PlacesStep
  BY <1>2 DEF PlacesStep, Aim, Part, Walk
<1>3. CASE QuietStep
  BY <1>3 DEF QuietStep, BeginTick, CcDecayRun, EnemiesTurn
<1>4. CASE Enter("decayRun") /\ DecayRun
  BY <1>4 DEF DecayRun
<1>5. CASE StrikingSystem
  <2>1. CASE HeroTurn
    <3>1. \A skill : HeroAttacks(skill) => Roll(skill # NO_SKILL)
      BY DEF HeroAttacks
    <3>2. \A skill : (skill # NO_SKILL) \in BOOLEAN
      OBVIOUS
    <3> QED  BY <2>1, <3>1, <3>2 DEF HeroTurn
  <2>2. CASE BoltRun \/ StormRun \/ ZoneRun \/ QteRun
    BY <2>2 DEF BoltRun, StormRun, ZoneRun, QteRun
  <2> QED  BY <1>5, <2>1, <2>2 DEF StrikingSystem
<1>6. CASE CallStep /\ system' = system
  <2>1. CASE Hit \/ Cc \/ Lay \/ Sweep \/ Dot \/ Leech
    BY <2>1 DEF Hit, Cc, Lay, Sweep, Dot, Leech
  <2>2. CASE Pierce \/ Shockwave \/ Wide \/ Echo \/ Ring \/ ZoneStrikes
    BY <2>2 DEF Pierce, Shockwave, Wide, Echo, Ring, ZoneStrikes, Expand
  <2> QED  BY <1>6, <2>1, <2>2 DEF CallStep
<1> QED  BY <1>1, <1>2, <1>3, <1>4, <1>5, <1>6, StepKinds

(* No channel of the generator fails more often in a row than its chance   *)
(* allows, for every table of chances.                                     *)
THEOREM StreakIsBounded == Spec => []StreakBounded
<1>1. Init => StreakBounded
  <2> SUFFICES ASSUME Init PROVE trials \in 0 .. MaxStreak
    BY DEF StreakBounded
  <2>1. trials = 0
    BY DEF Init, StrikesInit, PrdInit
  <2> DEFINE m == Q16_ONE + C - 1
             q == m \div C
  <2>2. C \in Nat \ {0} /\ m \in Nat /\ C <= m
    BY PrdAssumption DEF PrdAssumption
  <2>3. q \in Nat /\ m < q * C + C
    BY <2>2, DivBounds
  <2>4. MaxStreak = q - 1
    BY DEF MaxStreak
  <2> HIDE DEF q, m
  <2>5. q # 0
    BY <2>2, <2>3
  <2> QED  BY <2>1, <2>3, <2>4, <2>5
<1>2. StreakBounded /\ [Next]_vars => StreakBounded'
  <2> SUFFICES ASSUME StreakBounded, [Next]_vars PROVE StreakBounded'
    OBVIOUS
  <2>1. CASE trials' = trials
    BY <2>1 DEF StreakBounded, MaxStreak
  <2> QED  BY <2>1, TrialsStep, RollKeepsStreak
<1> QED  BY <1>1, <1>2, PTL DEF Spec

(* A strike at one row: who was dead stays dead, and his death pays.       *)
StrikesRow(e, g) == /\ foe' = [foe EXCEPT ![e] = g]
                    /\ foe[e].dead => g.dead
                    /\ score' = ScoreAfter(g, e)

(* A hit strikes one row.                                                  *)
LEMMA HitStrikesRow ==
  ASSUME TypeOK, Hit
  PROVE  LET c == Head(work)
             g == Struck(foe[c.who], c.who, c.power, c.hooks)
         IN  c \in HitType /\ foe[c.who] \in Row /\ g \in Row /\ StrikesRow(c.who, g)
<1> DEFINE c == Head(work)
           f == foe[c.who]
           g == Struck(f, c.who, c.power, c.hooks)
<1>1. c \in HitType
  BY CallAtHead, CallKinds DEF TypeOK, Hit
<1>2. c.who \in Enemies /\ c.power \in Int /\ c.hooks \in BOOLEAN
  BY <1>1 DEF HitType
<1>3. f \in Row /\ build \in Builds /\ foe \in [Enemies -> Row]
  BY <1>2 DEF TypeOK, FieldOK
<1>4. g \in Row /\ (f.dead => g = f)
  BY <1>2, <1>3, StruckType
<1>5. foe' = [foe EXCEPT ![c.who] = g] /\ score' = ScoreAfter(foe'[c.who], c.who)
  BY DEF Hit
<1> HIDE DEF g, c
<1>6. foe'[c.who] = g
  BY <1>2, <1>3, <1>5
<1> QED  BY <1>1, <1>3, <1>4, <1>5, <1>6 DEF StrikesRow, g, c

(* A dot strikes one row.                                                  *)
LEMMA DotStrikesRow ==
  ASSUME TypeOK, Dot
  PROVE  LET e == Head(work).who
         IN  /\ Head(work) \in DotType /\ foe[e] \in Row /\ Dotted(foe[e], e) \in Row
             /\ StrikesRow(e, Dotted(foe[e], e))
<1> DEFINE e == Head(work).who
           g == Dotted(foe[e], e)
<1>1. Head(work) \in DotType
  <2>1. work # <<>> /\ Head(work).do = "dot"
    BY DEF Dot, Doing
  <2> QED  BY <2>1, HeadOfWork, CallKinds DEF TypeOK
<1>2. e \in Enemies /\ foe[e] \in Row /\ build \in Builds /\ foe \in [Enemies -> Row]
  BY <1>1 DEF DotType, TypeOK, FieldOK
<1>3. foe' = [foe EXCEPT ![e] = g] /\ score' = ScoreAfter(foe'[e], e)
  BY <1>2 DEF Dot, Dotted, Row
<1>4. g \in Row /\ (foe[e].dead => g.dead)
  BY <1>2, DottedType
<1> HIDE DEF g, e
<1>5. foe'[e] = g
  BY <1>2, <1>3
<1> QED  BY <1>1, <1>2, <1>3, <1>4, <1>5 DEF StrikesRow, g, e

(* Nothing else strikes.                                                   *)
LEMMA NobodyStruck ==
  ASSUME TypeOK, [Next]_vars, ~Hit, ~Dot
  PROVE  /\ score' = score
         /\ \A e \in Enemies : /\ foe'[e].dead = foe[e].dead /\ foe'[e].taken = foe[e].taken
                               /\ foe'[e].left = foe[e].left /\ foe'[e].dot = foe[e].dot
<1> DEFINE kept == /\ score' = score
                   /\ \A e \in Enemies : /\ foe'[e].dead = foe[e].dead /\ foe'[e].taken = foe[e].taken
                                         /\ foe'[e].left = foe[e].left /\ foe'[e].dot = foe[e].dot
<1>0. foe \in [Enemies -> Row]
  BY DEF TypeOK, FieldOK
<1>1. CASE UNCHANGED vars
  BY <1>1 DEF vars, strikeVars
<1>2. CASE PlacesStep
  BY <1>2 DEF PlacesStep, Aim, Part, Walk, SelectTarget, SeparationRun, MovementRun
<1>3. CASE QuietStep
  <2>1. CASE BeginTick
    BY <2>1 DEF BeginTick
  <2>2. CASE CcDecayRun
    <3>1. foe' = [e \in Enemies |-> CcLess(foe[e], e)] /\ score' = score
      BY <2>2 DEF CcDecayRun
    <3> QED  BY <1>0, <3>1, CcLessType
  <2>3. CASE EnemiesTurn
    <3>1. /\ score' = score
          /\ foe' = [e \in Enemies |-> IF foe[e].dead THEN foe[e]
                                       ELSE [foe[e] EXCEPT !.groggy = AtLeast(@ - 1, 0)]]
      BY <2>3 DEF EnemiesTurn
    <3>2. ASSUME NEW e \in Enemies
          PROVE  /\ foe'[e].dead = foe[e].dead /\ foe'[e].taken = foe[e].taken
                 /\ foe'[e].left = foe[e].left /\ foe'[e].dot = foe[e].dot
      <4>1. foe[e] \in Row /\ foe'[e] = IF foe[e].dead THEN foe[e]
                                        ELSE [foe[e] EXCEPT !.groggy = AtLeast(@ - 1, 0)]
        BY <1>0, <3>1
      <4> QED  BY <4>1 DEF Row
    <3> QED  BY <3>1, <3>2
  <2> QED  BY <1>3, <2>1, <2>2, <2>3 DEF QuietStep
<1>4. CASE Enter("decayRun") /\ DecayRun
  BY <1>4 DEF DecayRun
<1>5. CASE StrikingSystem
  BY <1>5, StrikesBegin
<1>6. CASE CallStep /\ system' = system
  <2>1. CASE Cc
    <3> DEFINE c == Head(work)
    <3>1. c \in CcType
      BY <2>1, CallAtHead, CallKinds DEF TypeOK, Cc
    <3>2. c.who \in Enemies /\ c.gain \in Int /\ foe[c.who] \in Row
      BY <1>0, <3>1 DEF CcType
    <3>3. foe' = [foe EXCEPT ![c.who] = Stunned(foe[c.who], c.who, c.gain)] /\ score' = score
      BY <2>1 DEF Cc
    <3> HIDE DEF c
    <3> QED  BY <1>0, <3>2, <3>3, StunnedType
  <2>2. CASE Lay \/ Sweep \/ Leech
    BY <2>2 DEF Lay, Sweep, Leech
  <2>3. CASE Pierce \/ Shockwave \/ Wide \/ Echo \/ Ring \/ ZoneStrikes
    BY <2>3 DEF Pierce, Shockwave, Wide, Echo, Ring, ZoneStrikes, Expand
  <2> QED  BY <1>6, <2>1, <2>2, <2>3 DEF CallStep
<1> QED  BY <1>1, <1>2, <1>3, <1>4, <1>5, <1>6, StepKinds

----------------------------------------------------------------------------
(* The dead can be counted.                                                *)
LEMMA DeadFinite ==
  ASSUME NEW kind
  PROVE  IsFiniteSet(Dead(kind)) /\ Cardinality(Dead(kind)) \in Nat /\ Dead(kind) \subseteq Enemies
<1>1. Dead(kind) \in SUBSET Enemies
  BY DEF Dead
<1> QED  BY <1>1, FieldConstants, FS_Subset, FS_CardinalityType

(* A strike adds to the dead of its kind at most the row it strikes.       *)
LEMMA DeadAfter ==
  ASSUME TypeOK, NEW e \in Enemies, NEW g \in Row, StrikesRow(e, g), NEW kind
  PROVE  Dead(kind)' = IF g.dead /\ Archetype[e] = kind THEN Dead(kind) \cup {e} ELSE Dead(kind)
<1>1. foe \in [Enemies -> Row] /\ foe' = [foe EXCEPT ![e] = g] /\ (foe[e].dead => g.dead)
  BY DEF TypeOK, FieldOK, StrikesRow
<1>2. foe'[e] = g /\ \A x \in Enemies \ {e} : foe'[x] = foe[x]
  BY <1>1
<1>3. Dead(kind)' = {x \in Enemies : foe'[x].dead /\ Archetype[x] = kind}
  BY DEF Dead
<1> QED  BY <1>1, <1>2, <1>3 DEF Dead

(* It counts one more if the row lived and dies.                           *)
LEMMA DeadCounts ==
  ASSUME TypeOK, NEW e \in Enemies, NEW g \in Row, StrikesRow(e, g), NEW kind
  PROVE  Cardinality(Dead(kind)') =
           Cardinality(Dead(kind)) + (IF g.dead /\ ~foe[e].dead /\ Archetype[e] = kind THEN 1 ELSE 0)
<1> DEFINE D == Dead(kind)
<1>1. IsFiniteSet(D) /\ Cardinality(D) \in Nat
  BY DeadFinite
<1>2. Dead(kind)' = IF g.dead /\ Archetype[e] = kind THEN D \cup {e} ELSE D
  BY DeadAfter
<1>3. e \in D <=> foe[e].dead /\ Archetype[e] = kind
  BY DEF Dead
<1>4. foe[e].dead => g.dead
  BY DEF StrikesRow
<1>5. Cardinality(D \cup {e}) = IF e \in D THEN Cardinality(D) ELSE Cardinality(D) + 1
  BY <1>1, FS_AddElement
<1>6. g.dead \in BOOLEAN /\ foe[e].dead \in BOOLEAN
  BY DEF Row, TypeOK, FieldOK
<1> HIDE DEF D
<1>7. CASE g.dead /\ ~foe[e].dead /\ Archetype[e] = kind
  BY <1>1, <1>2, <1>3, <1>5, <1>7 DEF D
<1>8. CASE ~(g.dead /\ ~foe[e].dead /\ Archetype[e] = kind)
  <2>1. Dead(kind)' = D
    <3>1. CASE foe[e].dead /\ Archetype[e] = kind
      BY <1>2, <1>3, <3>1
    <3>2. CASE ~(foe[e].dead /\ Archetype[e] = kind)
      BY <1>2, <1>8, <3>2
    <3> QED  BY <3>1, <3>2
  <2>2. Cardinality(Dead(kind)') = Cardinality(D) + 0
    BY <1>1, <2>1
  <2> QED  BY <1>8, <2>2 DEF D
<1> QED  BY <1>7, <1>8

SumOf(f) == FoldFunction(+, 0, f)

(* The sum over the rows: its type, how it changes with one row, and the   *)
(* sum of zeros.                                                           *)
LEMMA Sums ==
  /\ IsFiniteSet(Enemies) /\ \A f \in [Enemies -> Int] : SumOf(f) \in Int
  /\ \A f, g \in [Enemies -> Int], e \in Enemies :
       (\A x \in Enemies \ {e} : g[x] = f[x]) => SumOf(g) = SumOf(f) + (g[e] - f[e])
  /\ \A f \in [Enemies -> Int] : (\A x \in Enemies : f[x] = 0) => SumOf(f) = 0
<1>1. IsFiniteSet(Enemies)
  BY FieldConstants
<1>2. \A f \in [Enemies -> Int] : SumOf(f) \in Int
  BY <1>1, SumInt DEF SumOf
<1>3. ASSUME NEW f \in [Enemies -> Int], NEW g \in [Enemies -> Int], NEW e \in Enemies,
             \A x \in Enemies \ {e} : g[x] = f[x]
      PROVE  SumOf(g) = SumOf(f) + (g[e] - f[e])
  BY <1>1, <1>3, SumChanges DEF SumOf
<1>4. \A f \in [Enemies -> Int] : (\A x \in Enemies : f[x] = 0) => SumOf(f) = 0
  BY <1>1, SumOfZeros DEF SumOf
<1> QED  BY <1>1, <1>2, <1>3, <1>4

(* The experience of the dead.                                             *)
Earned == [e \in Enemies |-> IF foe[e].dead THEN exp[e] ELSE 0]

(* What deaths pay for, the experience apart from the rest.                *)
CountsPaid ==
  /\ score.trash = Cardinality(Dead("Trash")) /\ score.elites = Cardinality(Dead("Elite"))
  /\ score.points = score.trash * trashPoints + score.elites * elitePoints
  /\ score.rolls = score.trash
  /\ score.outcome = "Cleared" <=> Dead("Boss") # {}
ExpPaid == score.exp = SumOf(Earned)

(* Both together are what is claimed of the deaths.                        *)
LEMMA KillsPaidByParts == CountsPaid /\ ExpPaid => KillsPaidOnce
  BY Zenon DEF KillsPaidOnce, CountsPaid, ExpPaid, SumOf, Earned

(* It grows by that of a row that lived and dies.                          *)
LEMMA EarnedAfter ==
  ASSUME TypeOK, NEW e \in Enemies, NEW g \in Row, StrikesRow(e, g)
  PROVE  /\ SumOf(Earned) \in Int
         /\ SumOf(Earned') = SumOf(Earned) + (IF g.dead /\ ~foe[e].dead THEN exp[e] ELSE 0)
<1> DEFINE u == Earned   v == Earned'
<1>0. /\ foe \in [Enemies -> Row] /\ foe' = [foe EXCEPT ![e] = g] /\ (foe[e].dead => g.dead)
      /\ exp \in [Enemies -> Int]
  BY StrikesConstants DEF TypeOK, FieldOK, StrikesRow
<1>1. foe'[e] = g /\ \A x \in Enemies \ {e} : foe'[x] = foe[x]
  BY <1>0
<1>2. /\ \A x \in Enemies : u[x] = IF foe[x].dead THEN exp[x] ELSE 0
      /\ \A x \in Enemies : v[x] = IF foe'[x].dead THEN exp[x] ELSE 0
      /\ u \in [Enemies -> Int] /\ v \in [Enemies -> Int]
  BY <1>0 DEF Earned
<1> HIDE DEF u, v
<1>3. \A x \in Enemies \ {e} : v[x] = u[x]
  BY <1>1, <1>2
<1>4. u[e] \in Int /\ v[e] \in Int /\ exp[e] \in Int /\ foe[e].dead \in BOOLEAN /\ g.dead \in BOOLEAN
  BY <1>0, <1>2 DEF Row
<1>5. v[e] - u[e] = IF g.dead /\ ~foe[e].dead THEN exp[e] ELSE 0
  <2>1. u[e] = IF foe[e].dead THEN exp[e] ELSE 0
    BY <1>2
  <2>2. v[e] = IF g.dead THEN exp[e] ELSE 0
    BY <1>1, <1>2
  <2> QED  BY <1>0, <1>4, <2>1, <2>2
<1>6. SumOf(v) = SumOf(u) + (v[e] - u[e]) /\ SumOf(u) \in Int
  BY <1>2, <1>3, Sums
<1> QED  BY <1>5, <1>6 DEF u, v

(* A strike pays for the death it brings, and only for that.               *)
LEMMA StrikePays ==
  ASSUME TypeOK, CountsPaid, ExpPaid, NEW e \in Enemies, NEW g \in Row, StrikesRow(e, g)
  PROVE  CountsPaid' /\ ExpPaid'
<1> DEFINE new(kind) == g.dead /\ ~foe[e].dead /\ Archetype[e] = kind
<1>0. score' = IF g.dead /\ ~foe[e].dead THEN Paid(score, e) ELSE score
  BY DEF StrikesRow, ScoreAfter
<1>1. \A kind : Cardinality(Dead(kind)') = Cardinality(Dead(kind)) + (IF new(kind) THEN 1 ELSE 0)
  BY DeadCounts
<1>2. /\ score.trash \in Int /\ score.elites \in Int /\ score.points \in Int /\ score.rolls \in Int
      /\ exp[e] \in Int /\ trashPoints \in Int /\ elitePoints \in Int /\ score \in ScoreType
  BY StrikesConstants DEF TypeOK, ScoreType
<1>3. Archetype[e] \in {"Trash", "Elite", "Boss"} /\ g.dead \in BOOLEAN /\ foe[e].dead \in BOOLEAN
  BY StrikesConstants DEF Row, TypeOK, FieldOK
<1>4. /\ score'.trash = score.trash + (IF new("Trash") THEN 1 ELSE 0)
      /\ score'.elites = score.elites + (IF new("Elite") THEN 1 ELSE 0)
      /\ score'.points = score.points + (IF new("Trash") THEN trashPoints ELSE 0)
                                      + (IF new("Elite") THEN elitePoints ELSE 0)
      /\ score'.rolls = score.rolls + (IF new("Trash") THEN 1 ELSE 0)
      /\ score'.outcome = IF new("Boss") THEN "Cleared" ELSE score.outcome
  <2> DEFINE p == [score EXCEPT !.exp = @ + exp[e]]
  <2>1. /\ p.trash = score.trash /\ p.elites = score.elites /\ p.points = score.points
        /\ p.rolls = score.rolls /\ p.outcome = score.outcome /\ p \in ScoreType
    BY <1>2 DEF ScoreType
  <2>2. /\ Archetype[e] = "Trash" =>
             Paid(score, e) = [p EXCEPT !.trash = @ + 1, !.points = @ + trashPoints, !.rolls = @ + 1]
        /\ Archetype[e] = "Boss" => Paid(score, e) = [p EXCEPT !.outcome = "Cleared"]
        /\ Archetype[e] = "Elite" => Paid(score, e) = [p EXCEPT !.elites = @ + 1, !.points = @ + elitePoints]
    BY DEF Paid
  <2> HIDE DEF p
  <2>3. CASE new("Trash")
    <3>1. score' = [p EXCEPT !.trash = @ + 1, !.points = @ + trashPoints, !.rolls = @ + 1]
      BY <1>0, <2>2, <2>3
    <3> QED  BY <1>2, <2>1, <2>3, <3>1 DEF ScoreType
  <2>4. CASE new("Boss")
    <3>1. score' = [p EXCEPT !.outcome = "Cleared"]
      BY <1>0, <2>2, <2>4
    <3> QED  BY <1>2, <2>1, <2>4, <3>1 DEF ScoreType
  <2>5. CASE new("Elite")
    <3>1. score' = [p EXCEPT !.elites = @ + 1, !.points = @ + elitePoints]
      BY <1>0, <2>2, <2>5
    <3> QED  BY <1>2, <2>1, <2>5, <3>1 DEF ScoreType
  <2>6. CASE ~(g.dead /\ ~foe[e].dead)
    BY <1>0, <1>2, <2>6
  <2> QED  BY <1>3, <2>3, <2>4, <2>5, <2>6
<1>5. Cardinality(Dead("Trash")) \in Nat /\ Cardinality(Dead("Elite")) \in Nat
  BY DeadFinite
<1>6. score'.trash = Cardinality(Dead("Trash")') /\ score'.elites = Cardinality(Dead("Elite")')
      /\ score'.rolls = score'.trash
  BY <1>1, <1>4 DEF CountsPaid
<1>7. score'.points = score'.trash * trashPoints + score'.elites * elitePoints
  <2>1. score.points = score.trash * trashPoints + score.elites * elitePoints
    BY DEF CountsPaid
  <2> DEFINE t == IF new("Trash") THEN 1 ELSE 0   u == IF new("Elite") THEN 1 ELSE 0
  <2>2. (score.trash + t) * trashPoints = score.trash * trashPoints + t * trashPoints
        /\ (score.elites + u) * elitePoints = score.elites * elitePoints + u * elitePoints
        /\ t * trashPoints = (IF new("Trash") THEN trashPoints ELSE 0)
        /\ u * elitePoints = (IF new("Elite") THEN elitePoints ELSE 0)
    <3> HIDE DEF new
    <3> QED  BY <1>2
  <2>3. score'.trash = score.trash + t /\ score'.elites = score.elites + u
        /\ score'.points = score.points + t * trashPoints + u * elitePoints
    <3> HIDE DEF new
    <3> QED  BY <1>2, <1>4, <2>2
  <2>4. score.trash * trashPoints \in Int /\ score.elites * elitePoints \in Int /\ t * trashPoints \in Int
        /\ u * elitePoints \in Int
    BY <1>2
  <2> HIDE DEF t, u, new
  <2> QED  BY <1>2, <2>1, <2>2, <2>3, <2>4
<1>8. score'.outcome = "Cleared" <=> Dead("Boss")' # {}
  <2>1. score.outcome = "Cleared" <=> Dead("Boss") # {}
    BY DEF CountsPaid
  <2>2. Dead("Boss")' = IF g.dead /\ Archetype[e] = "Boss" THEN Dead("Boss") \cup {e} ELSE Dead("Boss")
    BY DeadAfter
  <2>3. foe[e].dead /\ Archetype[e] = "Boss" => Dead("Boss") # {}
    BY DEF Dead
  <2> QED  BY <1>3, <1>4, <2>1, <2>2, <2>3
<1>9. score'.exp = SumOf(Earned')
  <2>1. score.exp = SumOf(Earned)
    BY DEF ExpPaid
  <2>2. score'.exp = score.exp + (IF g.dead /\ ~foe[e].dead THEN exp[e] ELSE 0)
    <3>1. CASE g.dead /\ ~foe[e].dead
      <4>1. Paid(score, e).exp = score.exp + exp[e]
        <5> DEFINE p == [score EXCEPT !.exp = @ + exp[e]]
        <5>1. p.exp = score.exp + exp[e] /\ p \in ScoreType
          BY <1>2 DEF ScoreType
        <5>2. Paid(score, e) \in {[p EXCEPT !.trash = @ + 1, !.points = @ + trashPoints, !.rolls = @ + 1],
                                  [p EXCEPT !.outcome = "Cleared"],
                                  [p EXCEPT !.elites = @ + 1, !.points = @ + elitePoints]}
          BY DEF Paid
        <5> HIDE DEF p
        <5> QED  BY <5>1, <5>2 DEF ScoreType
      <4> QED  BY <1>0, <3>1, <4>1
    <3>2. CASE ~(g.dead /\ ~foe[e].dead)
      <4>1. score'.exp = score.exp /\ score.exp \in Int
        BY <1>0, <1>2, <3>2 DEF ScoreType
      <4> QED  BY <3>2, <4>1
    <3> QED  BY <3>1, <3>2
  <2> QED  BY <2>1, <2>2, EarnedAfter
<1>10. ExpPaid'
  BY <1>9 DEF ExpPaid
<1> QED  BY <1>6, <1>7, <1>8, <1>10 DEF CountsPaid

(* Each death is paid for once: kills, points, experience and the rolls of *)
(* rngItems are what the dead make, although several strikes on work may   *)
(* aim at the same row.                                                    *)
THEOREM KillsArePaidOnce == Spec => []KillsPaidOnce
<1>1. Init => CountsPaid /\ ExpPaid
  <2> SUFFICES ASSUME Init PROVE CountsPaid /\ ExpPaid
    OBVIOUS
  <2>1. \A kind : Dead(kind) = {}
    BY DEF Init, StrikesInit, Dead
  <2>2. Cardinality({}) = 0
    BY FS_EmptySet
  <2>3. 0 = 0 * trashPoints + 0 * elitePoints
    BY StrikesConstants
  <2>4. SumOf(Earned) = 0
    <3> DEFINE u == Earned
    <3>1. u = [e \in Enemies |-> 0]
      BY DEF Earned, Init, StrikesInit
    <3> HIDE DEF u
    <3>2. u \in [Enemies -> Int] /\ \A e \in Enemies : u[e] = 0
      BY <3>1
    <3> QED  BY <3>2, Sums DEF u
  <2> QED  BY <2>1, <2>2, <2>3, <2>4 DEF CountsPaid, ExpPaid, Init, StrikesInit
<1>2. TypeOK /\ CountsPaid /\ ExpPaid /\ [Next]_vars => CountsPaid' /\ ExpPaid'
  <2> SUFFICES ASSUME TypeOK, CountsPaid, ExpPaid, [Next]_vars PROVE CountsPaid' /\ ExpPaid'
    OBVIOUS
  <2>1. CASE Hit
    BY <2>1, HitStrikesRow, StrikePays DEF HitType
  <2>2. CASE Dot
    BY <2>2, DotStrikesRow, StrikePays DEF DotType
  <2>3. CASE ~Hit /\ ~Dot
    <3>1. score' = score /\ \A e \in Enemies : foe'[e].dead = foe[e].dead
      BY <2>3, NobodyStruck
    <3>2. \A kind : Dead(kind)' = Dead(kind)
      BY <3>1 DEF Dead
    <3>3. Earned' = Earned
      BY <3>1 DEF Earned
    <3>4. CountsPaid'
      BY <3>1, <3>2 DEF CountsPaid
    <3>5. ExpPaid'
      BY <3>1, <3>3 DEF ExpPaid
    <3> QED  BY <3>4, <3>5
  <2> QED  BY <2>1, <2>2, <2>3
<1> QED  BY <1>1, <1>2, KillsPaidByParts, BattleTypes, PTL DEF Spec

---------------------------------------------------------------------------
(* Dots.                                                                   *)

(* Only a hit and beginTick touch unhurt, and the cards stay what they are.*)
LEMMA UnhurtStays ==
  ASSUME TypeOK, [Next]_vars
  PROVE  /\ build' = build /\ DotPerTick' = DotPerTick
         /\ ~Hit /\ ~(Enter("beginTick") /\ BeginTick) => unhurt' = unhurt
<1>1. CASE UNCHANGED vars
  BY <1>1 DEF vars, strikeVars, DotPerTick
<1>2. CASE PlacesStep
  BY <1>2 DEF PlacesStep, Aim, Part, Walk, history, DotPerTick
<1>3. CASE QuietStep
  BY <1>3 DEF QuietStep, BeginTick, CcDecayRun, EnemiesTurn, history, DotPerTick
<1>4. CASE Enter("decayRun") /\ DecayRun
  BY <1>4 DEF DecayRun, DotPerTick
<1>5. CASE StrikingSystem
  BY <1>5, StrikesBegin DEF DotPerTick
<1>6. CASE CallStep /\ system' = system
  BY <1>6 DEF CallStep, Hit, Cc, Lay, Sweep, Leech, Dot, Pierce, Shockwave, Wide, Echo, Ring, ZoneStrikes,
              Expand, history, DotPerTick
<1> QED  BY <1>1, <1>2, <1>3, <1>4, <1>5, <1>6, StepKinds

----------------------------------------------------------------------------
(* A dot between two ticks, a dot that the next decayRun will count down,  *)
(* and none.                                                               *)
Settled(e) == /\ foe[e].left = decayTicks - unhurt[e]
              /\ foe[e].dot > 0 <=> foe[e].left > 0
Running(e) == /\ foe[e].left = decayTicks - unhurt[e] + 1
              /\ foe[e].left > 0 /\ foe[e].dot > 0
Spent(e)   == foe[e].left = 0 /\ unhurt[e] = decayTicks /\ foe[e].dot <= 0

(* The systems that run before the dots of a tick are counted down.        *)
Early == {"beginTick", "selectTarget", "separationRun", "movementRun"}
DotFor(e, q) == \E i \in 1 .. Len(q) : q[i].who = e

(* From beginTick to the end of decayRun the rows whose dot is still to be *)
(* counted down are one tick ahead.                                        *)
DotsRun ==
  /\ system \in Early => \A e \in Living : Running(e) \/ Spent(e)
  /\ system = "decayRun" =>
       /\ \A e \in Living : IF DotFor(e, work) THEN Running(e) ELSE Settled(e)
       /\ \A i, j \in 1 .. Len(work) : work[i].who = work[j].who => i = j
  /\ system \notin Early \cup {"decayRun"} => \A e \in Living : Settled(e)

(* The inductive invariant of the dots.                                    *)
DecayInv == unhurt \in [Enemies -> 0 .. decayTicks] /\ (DotPerTick > 0 => DotsRun)

(* A dot that is spent is settled.                                         *)
LEMMA SettledByKind ==
  ASSUME TypeOK, unhurt \in [Enemies -> 0 .. decayTicks], NEW e \in Enemies
  PROVE  /\ foe[e] \in Row /\ foe[e].left \in Int /\ foe[e].dot \in Int
         /\ unhurt[e] \in 0 .. decayTicks /\ decayTicks \in Nat
         /\ Spent(e) => Settled(e)
<1>1. foe[e] \in Row /\ unhurt[e] \in 0 .. decayTicks /\ decayTicks \in Nat
  BY StrikesConstants DEF TypeOK, FieldOK
<1>2. foe[e].left \in Int /\ foe[e].dot \in Int
  BY <1>1 DEF Row
<1> QED  BY <1>1, <1>2 DEF Spent, Settled

(* A hit with hooks starts the dot anew in whoever lives through it.       *)
LEMMA HooksRenew ==
  ASSUME build \in Builds, NEW f \in Row, NEW e \in Enemies, NEW power \in Int,
         ~Struck(f, e, power, TRUE).dead
  PROVE  LET g == Struck(f, e, power, TRUE)
         IN  /\ ~f.dead
             /\ IF DotPerTick <= 0 \/ decayTicks <= 0 THEN g.left = f.left /\ g.dot = f.dot
                ELSE g.left = decayTicks /\ g.dot = AtLeast(f.dot, DotPerTick)
<1> DEFINE d == DamageOf(f, e, power, TRUE)
           f1 == [f EXCEPT !.taken = @ + d]
           x == Executed(f1, e)
           f2 == [f1 EXCEPT !.taken = @ + x]
           g == Struck(f, e, power, TRUE)
<1>1. g = IF f.dead THEN f
          ELSE IF f2.taken >= maxHp[e] THEN [f2 EXCEPT !.dead = TRUE]
          ELSE Decayed(f2)
  BY DEF Struck
<1>2. d \in Int
  BY DamageInt
<1> HIDE DEF d
<1>3. f1 \in Row /\ f1.left = f.left /\ f1.dot = f.dot
  BY <1>2 DEF Row
<1> HIDE DEF f1
<1>4. x \in Int
  BY <1>3, ExecutedInt DEF Row
<1> HIDE DEF x
<1>5. f2 \in Row /\ f2.left = f.left /\ f2.dot = f.dot
  BY <1>3, <1>4 DEF Row
<1> HIDE DEF f2
<1>6. [f2 EXCEPT !.dead = TRUE].dead = TRUE
  BY <1>5 DEF Row
<1>7. ~f.dead /\ g = Decayed(f2)
  BY <1>1, <1>6
<1>8. Decayed(f2) = IF DotPerTick <= 0 \/ decayTicks <= 0 THEN f2
                    ELSE [f2 EXCEPT !.dot = AtLeast(f2.dot, DotPerTick), !.left = decayTicks]
  BY DEF Decayed
<1>9. ~(DotPerTick <= 0 \/ decayTicks <= 0) =>
        Decayed(f2).left = decayTicks /\ Decayed(f2).dot = AtLeast(f2.dot, DotPerTick)
  BY <1>5, <1>8 DEF Row
<1> HIDE DEF g
<1> QED  BY <1>5, <1>7, <1>8, <1>9 DEF g

(* A hit keeps the dots running.                                           *)
LEMMA HitKeepsDots ==
  ASSUME TypeOK, DecayInv, Hit, system' = system, DotPerTick' = DotPerTick
  PROVE  DecayInv'
<1> DEFINE c == Head(work)
           e == c.who
           f == foe[e]
           g == Struck(f, e, c.power, c.hooks)
<1>1. c \in HitType /\ f \in Row /\ g \in Row /\ foe' = [foe EXCEPT ![e] = g]
      /\ (f.dead => g.dead)
  BY HitStrikesRow DEF StrikesRow
<1>2. e \in Enemies /\ c.power \in Int /\ c.hooks \in BOOLEAN
  BY <1>1 DEF HitType
<1>3. system # "decayRun" /\ system \notin Early
  BY CallAtHead DEF TypeOK, Hit, Quiet, Early
<1>4. unhurt' = IF c.hooks THEN [unhurt EXCEPT ![e] = 0] ELSE unhurt
  BY DEF Hit
<1>5. foe \in [Enemies -> Row] /\ build \in Builds /\ decayTicks \in Nat
      /\ unhurt \in [Enemies -> 0 .. decayTicks]
  BY StrikesConstants DEF TypeOK, FieldOK, DecayInv
<1>6. c.hooks /\ ~g.dead =>
        IF DotPerTick <= 0 \/ decayTicks <= 0 THEN g.left = f.left /\ g.dot = f.dot
        ELSE g.left = decayTicks /\ g.dot = AtLeast(f.dot, DotPerTick)
  BY <1>1, <1>2, <1>5, HooksRenew
<1>7. ~c.hooks => g.left = f.left /\ g.dot = f.dot
  BY <1>1, <1>2, <1>5, StruckType
<1> HIDE DEF c, f, g
<1>8. unhurt' \in [Enemies -> 0 .. decayTicks]
  BY <1>2, <1>4, <1>5
<1>9. ASSUME DotPerTick > 0, NEW x \in Living'
      PROVE  Settled(x)'
  <2>1. x \in Enemies /\ ~foe'[x].dead
    BY DEF Living
  <2>2. foe'[e] = g /\ (x # e => foe'[x] = foe[x] /\ unhurt'[x] = unhurt[x])
    BY <1>1, <1>2, <1>4, <1>5, <2>1
  <2>3. ~foe[x].dead
    BY <1>1, <2>1, <2>2 DEF f
  <2>4. Settled(x)
    BY <1>3, <1>9, <2>1, <2>3 DEF DecayInv, DotsRun, Living
  <2>5. CASE x # e
    BY <2>2, <2>4, <2>5 DEF Settled
  <2>6. CASE x = e
    <3>1. foe'[x] = g /\ ~g.dead /\ foe[x] = f
      BY <2>1, <2>2, <2>6 DEF f
    <3>2. f.left = decayTicks - unhurt[x] /\ (f.dot > 0 <=> f.left > 0)
      BY <2>4, <3>1 DEF Settled
    <3>3. f.dot \in Int /\ f.left \in Int /\ DotPerTick \in Int /\ unhurt[x] \in 0 .. decayTicks
      BY <1>1, <1>5, <2>1, DotPerTickInt DEF Row
    <3>4. CASE ~c.hooks
      BY <1>4, <1>7, <3>1, <3>2, <3>4 DEF Settled
    <3>5. CASE c.hooks /\ decayTicks <= 0
      <4>1. unhurt'[x] = 0 /\ unhurt[x] = 0
        BY <1>4, <1>5, <2>1, <2>6, <3>3, <3>5
      <4>2. g.left = f.left /\ g.dot = f.dot
        BY <1>6, <3>1, <3>5
      <4> QED  BY <3>1, <3>2, <4>1, <4>2 DEF Settled
    <3>6. CASE c.hooks /\ ~(decayTicks <= 0)
      <4>1. unhurt'[x] = 0
        BY <1>4, <1>5, <2>1, <2>6, <3>6
      <4>2. g.left = decayTicks /\ g.dot = AtLeast(f.dot, DotPerTick)
        BY <1>6, <1>9, <3>1, <3>3, <3>6
      <4>3. AtLeast(f.dot, DotPerTick) >= DotPerTick /\ AtLeast(f.dot, DotPerTick) \in Int
        BY <3>3, AtLeastInt
      <4>4. g.dot > 0
        BY <1>9, <3>3, <4>2, <4>3
      <4> QED  BY <1>5, <3>1, <3>6, <4>1, <4>2, <4>4 DEF Settled
    <3> QED  BY <1>2, <3>4, <3>5, <3>6
  <2> QED  BY <2>5, <2>6
<1>10. DotPerTick > 0 => DotsRun'
  BY <1>3, <1>9 DEF DotsRun
<1> QED  BY <1>8, <1>10 DEF DecayInv

(* A call is made in the system that runs.                                 *)
LEMMA CallOnly ==
  ASSUME [Next]_vars, work # <<>>
  PROVE  system' = system /\ (UNCHANGED vars \/ CallStep)
  BY DEF Next, RunSystem, Enter, Over, vars

(* A dot's call settles its row and leaves the other calls as they were.   *)
LEMMA DotKeepsDots ==
  ASSUME TypeOK, DecayInv, Dot, system' = system, DotPerTick' = DotPerTick, unhurt' = unhurt
  PROVE  DecayInv'
<1> DEFINE e == Head(work).who
           f == foe[e]
           g == Dotted(f, e)
           t == Tail(work)
<1>1. Head(work) \in DotType /\ f \in Row /\ foe' = [foe EXCEPT ![e] = g] /\ (f.dead => g.dead)
  BY DotStrikesRow DEF StrikesRow
<1>2. system = "decayRun" /\ work \in Seq(DotType) /\ work # <<>>
  <2>1. work # <<>> /\ Head(work).do = "dot"
    BY DEF Dot, Doing
  <2> QED  BY <2>1, HeadOfWork, CallKinds DEF TypeOK
<1>3. e \in Enemies /\ foe \in [Enemies -> Row] /\ build \in Builds
      /\ unhurt \in [Enemies -> 0 .. decayTicks]
  BY <1>1 DEF DotType, TypeOK, FieldOK, DecayInv
<1>4. g.left = f.left - 1 /\ g.dot = IF f.left - 1 <= 0 THEN 0 ELSE f.dot
  BY <1>1, <1>3, DottedType
<1>5. work' = t
  BY DEF Dot
<1>6. /\ Len(t) = Len(work) - 1 /\ Len(work) \in Nat \ {0} /\ 1 \in 1 .. Len(work) /\ work[1].who = e
      /\ \A i \in 1 .. Len(t) : i + 1 \in 1 .. Len(work) /\ t[i] = work[i + 1]
      /\ \A i \in 1 .. Len(work) : i # 1 => i - 1 \in 1 .. Len(t) /\ t[i - 1] = work[i]
  BY <1>2, TailAt
<1> HIDE DEF e, f, g, t
<1>7. ASSUME DotPerTick > 0 PROVE DotsRun'
  <2>1. /\ \A x \in Living : IF DotFor(x, work) THEN Running(x) ELSE Settled(x)
        /\ \A i, j \in 1 .. Len(work) : work[i].who = work[j].who => i = j
    BY <1>2, <1>7 DEF DecayInv, DotsRun
  <2>2. \A i, j \in 1 .. Len(t) : t[i].who = t[j].who => i = j
    <3> TAKE i, j \in 1 .. Len(t)
    <3>1. i + 1 \in 1 .. Len(work) /\ j + 1 \in 1 .. Len(work) /\ t[i] = work[i + 1] /\ t[j] = work[j + 1]
      BY <1>6
    <3>2. t[i].who = t[j].who => i + 1 = j + 1
      BY <2>1, <3>1
    <3> QED  BY <3>2
  <2>3. ~DotFor(e, t)
    <3> SUFFICES ASSUME NEW i \in 1 .. Len(t), t[i].who = e PROVE FALSE
      BY DEF DotFor
    <3>1. i + 1 \in 1 .. Len(work) /\ work[i + 1].who = work[1].who
      BY <1>6
    <3>2. i + 1 = 1
      BY <1>6, <2>1, <3>1
    <3> QED  BY <3>2
  <2>4. \A x : x # e => (DotFor(x, t) <=> DotFor(x, work))
    <3> TAKE x
    <3> HAVE x # e
    <3>1. ASSUME DotFor(x, t) PROVE DotFor(x, work)
      BY <1>6, <3>1 DEF DotFor
    <3>2. ASSUME DotFor(x, work) PROVE DotFor(x, t)
      <4>1. PICK i \in 1 .. Len(work) : work[i].who = x
        BY <3>2 DEF DotFor
      <4>2. i - 1 \in 1 .. Len(t) /\ t[i - 1].who = x
        BY <1>6, <4>1
      <4> QED  BY <4>2 DEF DotFor
    <3> QED  BY <3>1, <3>2
  <2>5. ASSUME NEW x \in Living' PROVE IF DotFor(x, t) THEN Running(x)' ELSE Settled(x)'
    <3>1. x \in Enemies /\ ~foe'[x].dead
      BY DEF Living
    <3>2. foe'[e] = g /\ (x # e => foe'[x] = foe[x])
      BY <1>1, <1>3, <3>1
    <3>3. x \in Living
      BY <1>1, <3>1, <3>2 DEF f, Living
    <3>4. CASE x # e
      <4>1. IF DotFor(x, work) THEN Running(x) ELSE Settled(x)
        BY <2>1, <3>3
      <4> QED  BY <2>4, <3>2, <3>4, <4>1 DEF Running, Settled
    <3>5. CASE x = e
      <4>1. DotFor(x, work)
        BY <1>6, <3>5 DEF DotFor
      <4>2. foe'[x] = g /\ foe[x] = f /\ unhurt'[x] = unhurt[x]
        BY <3>2, <3>5 DEF f
      <4>3. f.left = decayTicks - unhurt[x] + 1 /\ f.left > 0 /\ f.dot > 0
        BY <2>1, <3>3, <4>1, <4>2 DEF Running
      <4>4. f.left \in Int /\ f.dot \in Int /\ unhurt[x] \in Int /\ decayTicks \in Int
        BY <1>1, <1>3, <3>1, StrikesConstants DEF Row
      <4>5. g.left = decayTicks - unhurt[x] /\ (g.dot > 0 <=> g.left > 0)
        BY <1>4, <4>3, <4>4
      <4>6. Settled(x)'
        BY <4>2, <4>5 DEF Settled
      <4> QED  BY <2>3, <3>5, <4>6
    <3> QED  BY <3>4, <3>5
  <2> QED  BY <1>2, <1>5, <2>2, <2>5 DEF DotsRun, Early
<1> QED  BY <1>3, <1>7 DEF DecayInv

(* So does beginTick, which counts the ticks since a row was struck.       *)
LEMMA BeginTickKeepsDots ==
  ASSUME TypeOK, DecayInv, Enter("beginTick"), BeginTick, DotPerTick' = DotPerTick
  PROVE  DecayInv'
<1>1. system = "enemiesTurn" /\ system' = "beginTick"
  BY EnteredFrom DEF TypeOK
<1>2. foe' = foe /\ unhurt' = [e \in Enemies |-> Min({unhurt[e] + 1, decayTicks})]
  BY DEF BeginTick
<1>3. unhurt \in [Enemies -> 0 .. decayTicks] /\ decayTicks \in Nat
  BY StrikesConstants DEF DecayInv
<1>4. ASSUME NEW e \in Enemies
      PROVE  /\ unhurt'[e] \in 0 .. decayTicks
             /\ unhurt'[e] = IF unhurt[e] + 1 <= decayTicks THEN unhurt[e] + 1 ELSE decayTicks
  <2>1. unhurt[e] \in 0 .. decayTicks /\ unhurt[e] + 1 \in Int /\ decayTicks \in Int
    BY <1>3
  <2>2. Min({unhurt[e] + 1, decayTicks}) = IF unhurt[e] + 1 <= decayTicks THEN unhurt[e] + 1 ELSE decayTicks
    BY <2>1, MinOfTwo
  <2> QED  BY <1>2, <1>3, <2>1, <2>2
<1>5. unhurt' \in [Enemies -> 0 .. decayTicks]
  BY <1>2, <1>4
<1>6. ASSUME DotPerTick > 0, NEW e \in Living' PROVE Running(e)' \/ Spent(e)'
  <2>1. e \in Enemies /\ e \in Living
    BY <1>2 DEF Living
  <2>2. Settled(e)
    BY <1>1, <1>6, <2>1 DEF DecayInv, DotsRun, Early
  <2>3. foe[e].left \in Int /\ foe[e].dot \in Int /\ unhurt[e] \in 0 .. decayTicks
    BY <1>3, <2>1, SettledByKind
  <2>4. CASE unhurt[e] = decayTicks
    <3>1. foe[e].left = 0 /\ ~(foe[e].dot > 0) /\ unhurt'[e] = decayTicks
      BY <1>3, <1>4, <2>1, <2>2, <2>3, <2>4 DEF Settled
    <3> QED  BY <1>2, <2>3, <3>1 DEF Spent
  <2>5. CASE unhurt[e] # decayTicks
    <3>1. unhurt'[e] = unhurt[e] + 1
      BY <1>3, <1>4, <2>1, <2>3, <2>5
    <3>2. foe[e].left = decayTicks - (unhurt[e] + 1) + 1 /\ foe[e].left > 0 /\ foe[e].dot > 0
      BY <1>3, <2>2, <2>3, <2>5 DEF Settled
    <3> QED  BY <1>2, <3>1, <3>2 DEF Running
  <2> QED  BY <2>4, <2>5
<1> QED  BY <1>1, <1>5, <1>6 DEF DecayInv, DotsRun, Early

(* So does decayRun, which has the dots counted down.                      *)
LEMMA DecayRunKeepsDots ==
  ASSUME TypeOK, DecayInv, Enter("decayRun"), DecayRun, DotPerTick' = DotPerTick
  PROVE  DecayInv'
<1>1. system = "movementRun" /\ system' = "decayRun"
  BY EnteredFrom DEF TypeOK
<1>2. foe' = foe /\ unhurt' = unhurt
  BY DEF DecayRun
<1>3. work' = DotCalls /\ DecayDue \in SUBSET Enemies
  BY DecayRunCalls DEF Begin
<1> DEFINE n == Cardinality(DecayDue)
           due == InArrayOrder(DecayDue)
<1>4. /\ n \in Nat /\ due \in [1 .. n -> DecayDue]
      /\ \A e \in DecayDue : \E i \in 1 .. n : due[i] = e
      /\ \A i, j \in 1 .. n : due[i] = due[j] => i = j
  <2>1. /\ n \in Nat /\ due \in [1 .. n -> DecayDue]
        /\ \A e \in DecayDue : \E i \in 1 .. n : due[i] = e
        /\ \A i, j \in 1 .. n : i < j => due[i] < due[j]
    BY <1>3, ArrayOrder
  <2>2. DecayDue \in SUBSET Nat
    BY <1>3, FieldConstants
  <2> HIDE DEF n, due
  <2>3. ASSUME NEW i \in 1 .. n, NEW j \in 1 .. n, due[i] = due[j] PROVE i = j
    <3>1. due[i] \in Nat /\ due[j] \in Nat
      BY <2>1, <2>2
    <3>2. ~(i < j) /\ ~(j < i)
      BY <2>1, <2>3, <3>1
    <3> QED  BY <2>1, <3>2
  <2> QED  BY <2>1, <2>3
<1>5. Len(work') = n /\ \A i \in 1 .. n : work'[i].who = due[i]
  <2>1. work' = [i \in 1 .. n |-> [do |-> "dot", who |-> due[i]]]
    BY <1>3 DEF DotCalls
  <2> HIDE DEF n, due
  <2> QED  BY <1>4, <2>1, ArrayAsSeq
<1> HIDE DEF n, due
<1>6. ASSUME DotPerTick > 0, NEW e \in Living'
      PROVE  IF DotFor(e, work') THEN Running(e)' ELSE Settled(e)'
  <2>1. e \in Enemies /\ e \in Living
    BY <1>2 DEF Living
  <2>2. Running(e) \/ Spent(e)
    BY <1>1, <1>6, <2>1 DEF DecayInv, DotsRun, Early
  <2>3. Spent(e) => Settled(e)
    BY <2>1, SettledByKind DEF DecayInv
  <2>4. CASE e \in DecayDue
    <3>1. foe[e].left > 0
      BY <2>4 DEF DecayDue
    <3>2. Running(e)
      <4>1. foe[e].left \in Int
        BY <2>1, SettledByKind DEF DecayInv
      <4> QED  BY <2>2, <3>1, <4>1 DEF Spent
    <3>3. DotFor(e, work')
      BY <1>4, <1>5, <2>4 DEF DotFor
    <3> QED  BY <1>2, <3>2, <3>3 DEF Running
  <2>5. CASE e \notin DecayDue
    <3>1. ~DotFor(e, work')
      BY <1>4, <1>5, <2>5 DEF DotFor
    <3>2. Spent(e)
      BY <2>1, <2>2, <2>5 DEF DecayDue, Running
    <3> QED  BY <1>2, <2>3, <3>1, <3>2 DEF Settled
  <2> QED  BY <2>4, <2>5
<1>7. \A i, j \in 1 .. Len(work') : work'[i].who = work'[j].who => i = j
  BY <1>4, <1>5
<1> QED  BY <1>1, <1>2, <1>6, <1>7 DEF DecayInv, DotsRun, Early

(* Whatever else happens leaves the dots alone.                            *)
LEMMA OthersKeepDots ==
  ASSUME TypeOK, DecayInv, [Next]_vars, ~Hit, ~Dot,
         ~(Enter("beginTick") /\ BeginTick), ~(Enter("decayRun") /\ DecayRun)
  PROVE  DecayInv'
<1>1. unhurt' = unhurt /\ DotPerTick' = DotPerTick
  BY UnhurtStays
<1>2. Living' = Living /\ \A e \in Enemies : foe'[e].left = foe[e].left /\ foe'[e].dot = foe[e].dot
  BY NobodyStruck DEF Living
<1>3. \A e \in Living : (Settled(e)' <=> Settled(e)) /\ (Running(e)' <=> Running(e)) /\ (Spent(e)' <=> Spent(e))
  BY <1>1, <1>2, LivingRows DEF Settled, Running, Spent
<1>4. ASSUME DotPerTick > 0 PROVE DotsRun'
  <2>0. DotsRun
    BY <1>4 DEF DecayInv
  <2>1. CASE UNCHANGED vars
    <3>1. system' = system /\ work' = work
      BY <2>1 DEF vars, strikeVars
    <3> QED  BY <1>2, <1>3, <2>0, <3>1 DEF DotsRun
  <2>2. CASE PlacesStep
    <3>1. system \in Early /\ system' \in Early
      BY <2>2, EnteredFrom DEF PlacesStep, Early, TypeOK
    <3> QED  BY <1>2, <1>3, <2>0, <3>1 DEF DotsRun, Early
  <2>3. CASE QuietStep
    <3>1. system \notin Early \cup {"decayRun"} /\ system' \notin Early \cup {"decayRun"}
      <4>1. \/ Enter("ccDecayRun") /\ CcDecayRun
            \/ Enter("enemiesTurn") /\ EnemiesTurn
        BY <2>3 DEF QuietStep
      <4> QED  BY <4>1, EnteredFrom DEF Early, TypeOK
    <3> QED  BY <1>2, <1>3, <2>0, <3>1 DEF DotsRun
  <2>4. CASE StrikingSystem
    <3>1. work = <<>> /\ system \in {"decayRun", "boltRun", "stormRun", "ccDecayRun", "qteRun"}
          /\ system' \in {"boltRun", "stormRun", "zoneRun", "qteRun", "heroTurn"}
      BY <2>4, StrikesBegin
    <3>2. system' \notin Early \cup {"decayRun"} /\ system \notin Early
      BY <3>1 DEF Early
    <3>3. \A e : ~DotFor(e, work)
      BY <3>1 DEF DotFor
    <3>4. \A e \in Living : Settled(e)
      BY <2>0, <3>2, <3>3 DEF DotsRun
    <3> QED  BY <1>2, <1>3, <3>2, <3>4 DEF DotsRun
  <2>5. CASE CallStep /\ system' = system
    <3>1. system \notin Quiet
      BY <2>5, CallsAreLoud
    <3>2. system # "decayRun"
      <4> SUFFICES ASSUME system = "decayRun" PROVE FALSE
        OBVIOUS
      <4>1. work \in Seq(DotType) /\ work # <<>>
        BY <2>5 DEF TypeOK, WorkOK, CallStep, Hit, Cc, Pierce, Shockwave, Wide, Echo, Ring, Leech, Lay,
                    ZoneStrikes, Sweep, Dot, Doing
      <4>2. Head(work).do = "dot"
        <5>1. Head(work) \in DotType
          BY <4>1
        <5> QED  BY <5>1 DEF DotType
      <4> QED  BY <2>5, <4>2 DEF CallStep, Hit, Cc, Pierce, Shockwave, Wide, Echo, Ring, Leech, Lay,
                    ZoneStrikes, Sweep, Doing
    <3>3. system \notin Early
      BY <3>1 DEF Early, Quiet
    <3> QED  BY <1>2, <1>3, <2>0, <2>5, <3>2, <3>3 DEF DotsRun
  <2> QED  BY <2>1, <2>2, <2>3, <2>4, <2>5, StepKinds
<1> QED  BY <1>1, <1>4 DEF DecayInv

(* A dot that takes anything runs for decayTicks from the hero's last      *)
(* strike, and no tick longer.                                             *)
THEOREM DecayDoesRunOut == Spec => []DecayRunsOut
<1>1. Init => DecayInv
  <2> SUFFICES ASSUME Init PROVE DecayInv
    OBVIOUS
  <2>1. \A e \in Enemies : foe[e].left = 0 /\ foe[e].dot = 0 /\ unhurt[e] = decayTicks
    BY DEF Init, StrikesInit
  <2>2. decayTicks \in Nat /\ unhurt \in [Enemies -> 0 .. decayTicks]
    BY StrikesConstants DEF Init, StrikesInit
  <2>3. \A e \in Living : Settled(e)
    BY <2>1, <2>2, LivingRows DEF Settled
  <2> QED  BY <2>2, <2>3 DEF DecayInv, DotsRun, Init, Early
<1>2. TypeOK /\ DecayInv /\ [Next]_vars => DecayInv'
  <2> SUFFICES ASSUME TypeOK, DecayInv, [Next]_vars PROVE DecayInv'
    OBVIOUS
  <2>1. DotPerTick' = DotPerTick /\ (~Hit /\ ~(Enter("beginTick") /\ BeginTick) => unhurt' = unhurt)
    BY UnhurtStays
  <2>2. CASE Hit
    <3>1. system' = system
      BY <2>2, CallOnly DEF Hit, Doing
    <3> QED  BY <2>1, <2>2, <3>1, HitKeepsDots
  <2>3. CASE Dot
    <3>1. system' = system /\ unhurt' = unhurt
      BY <2>3, CallOnly DEF Dot, Doing, history
    <3> QED  BY <2>1, <2>3, <3>1, DotKeepsDots
  <2>4. CASE Enter("beginTick") /\ BeginTick
    BY <2>1, <2>4, BeginTickKeepsDots
  <2>5. CASE Enter("decayRun") /\ DecayRun
    BY <2>5, UnhurtStays, DecayRunKeepsDots
  <2> QED  BY <2>2, <2>3, <2>4, <2>5, OthersKeepDots
<1>3. DecayInv => DecayRunsOut
  <2> SUFFICES ASSUME DecayInv, system = "enemiesTurn", DotPerTick > 0, NEW e \in Living
               PROVE  foe[e].left = decayTicks - unhurt[e] /\ (foe[e].dot > 0 <=> foe[e].left > 0)
    BY DEF DecayRunsOut
  <2> QED  BY DEF DecayInv, DotsRun, Early, Settled
<1> QED  BY <1>1, <1>2, <1>3, BattleTypes, PTL DEF Spec

---------------------------------------------------------------------------
(* Leech.                                                                  *)

(* The last system begins with nothing left to call.                       *)
LEMMA NothingCalled ==
  /\ ~LeechIn(<<>>) /\ ~RingIn(<<>>) /\ Shape(<<>>) /\ Owing(<<>>)
  BY DEF LeechIn, RingIn, Shape, Owing

(* The calls of decayRun are neither leech nor rings.                      *)
LEMMA DotsAreNoLeech ==
  ASSUME NEW q \in Seq(DotType)
  PROVE  ~LeechIn(q) /\ ~RingIn(q)
<1>1. \A i \in 1 .. Len(q) : q[i] \in DotType
  OBVIOUS
<1> QED  BY <1>1 DEF DotType, LeechIn, RingIn

(* The calls of decayRun are dots.                                         *)
LEMMA OnlyDotsThere ==
  ASSUME TypeOK, CallStep, system = "decayRun"
  PROVE  Dot
<1>1. work \in Seq(DotType) /\ work # <<>>
  BY DEF TypeOK, WorkOK, CallStep, Hit, Cc, Pierce, Shockwave, Wide, Echo, Ring, Leech, Lay, ZoneStrikes,
         Sweep, Dot, Doing
<1>2. Head(work) \in DotType
  BY <1>1
<1> QED  BY <1>2 DEF DotType, CallStep, Hit, Cc, Pierce, Shockwave, Wide, Echo, Ring, Leech, Lay,
         ZoneStrikes, Sweep, Doing

(* Dots are called in decayRun only.                                       *)
LEMMA DotsOnlyThere ==
  ASSUME TypeOK, Dot
  PROVE  system = "decayRun"
<1>1. work # <<>> /\ Head(work).do = "dot"
  BY DEF Dot, Doing
<1> QED  BY <1>1, HeadOfWork, CallKinds DEF TypeOK

(* What a pass of the rings puts on work.                                  *)
LEMMA RingCalls ==
  ASSUME TypeOK, Ring
  PROVE  LET c == Head(work)
             s == RingStrikes(RingFresh, c.power, c.gain)
             t == IF RingGrows THEN <<RingNext>> ELSE <<>>
         IN  /\ work # <<>> /\ work \in Seq(Calls) /\ c \in RingType /\ RingFresh \in SUBSET Enemies
             /\ s \in Seq(HitType \cup CcType) /\ s \in Seq(Simple) /\ s \in Seq(Calls)
             /\ RingNext \in Calls /\ RingNext.do = "ring" /\ t \in Seq(Calls) /\ ~LeechIn(t)
             /\ s \o t \in Seq(Calls) /\ work' = (s \o t) \o Tail(work)
<1> DEFINE c == Head(work)
           s == RingStrikes(RingFresh, c.power, c.gain)
           t == IF RingGrows THEN <<RingNext>> ELSE <<>>
<1>1. c \in RingType /\ work # <<>> /\ system # "decayRun" /\ work \in Seq(Calls)
  BY CallAtHead, CallKinds DEF TypeOK, WorkOK, Ring
<1>2. /\ c.center \in Point /\ c.base \in Nat /\ c.power \in Int /\ c.gain \in Int
      /\ c.stacks \in 0 .. centrifugeMaxStacks /\ c.struck \in SUBSET Enemies
  BY <1>1 DEF RingType
<1>3. RingFresh \in SUBSET Enemies
  BY InRadiusRows DEF RingFresh
<1>4. RingNext \in Calls
  <2>1. Cardinality(RingFresh) \in Nat
    BY <1>3, ArrayOrder
  <2>2. Stacked(c.stacks, Cardinality(RingFresh)) \in 0 .. centrifugeMaxStacks
    BY <1>2, <2>1, StackedType
  <2>3. c.struck \cup RingFresh \in SUBSET Enemies
    BY <1>2, <1>3
  <2> QED  BY <1>2, <2>2, <2>3, SinglesAreCalls DEF RingNext
<1>5. RingNext.do = "ring"
  BY DEF RingNext, RingCall
<1>6. t \in Seq(Calls) /\ ~LeechIn(t)
  <2>1. CASE RingGrows
    <3> DEFINE r == RingNext
    <3>1. t = <<r>> /\ r \in Calls /\ r.do = "ring"
      BY <1>4, <1>5, <2>1
    <3> HIDE DEF r, t
    <3> QED  BY <3>1 DEF LeechIn
  <2>2. CASE ~RingGrows
    BY <2>2, NothingCalled
  <2> QED  BY <2>1, <2>2
<1>7. s \in Seq(HitType \cup CcType)
  BY <1>2, <1>3, RingStrikesType
<1>8. Expand(s \o t)
  BY RingStep
<1> HIDE DEF s, t
<1>9. s \in Seq(Simple) /\ s \in Seq(Calls)
  <2>1. HitType \cup CcType \subseteq Simple /\ Simple \subseteq Calls
    BY CallSets
  <2> QED  BY <1>7, <2>1, SeqOfMore
<1>10. s \o t \in Seq(Calls)
  BY <1>6, <1>9, ConcatProperties
<1>11. work' = (s \o t) \o Tail(work)
  BY <1>8 DEF Expand
<1> QED  BY <1>1, <1>3, <1>4, <1>5, <1>6, <1>7, <1>9, <1>10, <1>11 DEF s, t

(* A call leaves leech behind the last ring, and pays it once.             *)
LEMMA ShapeStays ==
  ASSUME TypeOK, Shape(work), CallStep, ~Dot
  PROVE  /\ Shape(work')
         /\ LeechIn(work') => LeechIn(work) /\ ~Leech
         /\ LeechIn(work) /\ ~Leech => LeechIn(work')
<1>0. work \in Seq(Calls) /\ work # <<>>
  <2>1. system # "decayRun"
    BY OnlyDotsThere
  <2> QED  BY <2>1 DEF TypeOK, WorkOK, CallStep, Hit, Cc, Pierce, Shockwave, Wide, Echo, Ring, Leech, Lay,
              ZoneStrikes, Sweep, Doing
<1> DEFINE t == Tail(work)
<1>1. /\ Shape(t) /\ t \in Seq(Calls)
      /\ LeechIn(t) => LeechIn(work)
      /\ LeechIn(work) /\ Head(work).do # "leech" => LeechIn(t)
      /\ Head(work).do = "leech" => ~LeechIn(t)
      /\ Head(work).do = "ring" => LeechIn(t)
  BY <1>0, ShapeOfTail, HeadTailProperties
<1> HIDE DEF t
<1>2. CASE Hit \/ Cc \/ Lay \/ Sweep \/ Leech
  <2>1. work' = t /\ (Leech <=> Head(work).do = "leech")
    BY <1>2 DEF Hit, Cc, Lay, Sweep, Leech, Doing, t
  <2> QED  BY <1>1, <2>1
<1>3. CASE Pierce \/ Shockwave \/ Wide \/ Echo \/ ZoneStrikes
  <2>1. PICK calls \in Seq(Simple) : Expand(calls)
    BY <1>3, CollectedAreSimple
  <2>2. Head(work).do # "leech" /\ ~Leech
    BY <1>3, CollectedAreSimple DEF Leech, Doing
  <2>3. work' = calls \o t
    BY <2>1 DEF Expand, t
  <2>4. ~LeechIn(calls) /\ ~RingIn(calls) /\ calls \in Seq(Calls)
    BY SimpleShape
  <2>5. (LeechIn(calls \o t) <=> LeechIn(calls) \/ LeechIn(t)) /\ Shape(calls \o t)
    BY <1>1, <2>4, ShapeOfConcat
  <2> QED  BY <1>1, <2>2, <2>3, <2>4, <2>5
<1>4. CASE Ring
  <2> DEFINE s == RingStrikes(RingFresh, Head(work).power, Head(work).gain)
             r == IF RingGrows THEN <<RingNext>> ELSE <<>>
             p == s \o r
  <2>1. /\ s \in Seq(Simple) /\ s \in Seq(Calls) /\ r \in Seq(Calls) /\ ~LeechIn(r)
        /\ p \in Seq(Calls) /\ work' = p \o t
    BY <1>4, RingCalls DEF t
  <2>2. Head(work).do = "ring"
    BY <1>4 DEF Ring, Doing
  <2>3. ~LeechIn(s)
    BY <2>1, SimpleShape
  <2> HIDE DEF s, r
  <2>4. ~LeechIn(p)
    BY <2>1, <2>3, ShapeOfConcat
  <2> HIDE DEF p
  <2>5. (LeechIn(p \o t) <=> LeechIn(p) \/ LeechIn(t)) /\ Shape(p \o t)
    BY <1>1, <2>1, <2>2, <2>4, ShapeOfConcat
  <2> QED  BY <1>1, <2>1, <2>2, <2>5 DEF Leech, Doing
<1> QED  BY <1>2, <1>3, <1>4 DEF CallStep

(* A call leaves nothing before leech that it would not see.               *)
LEMMA OwingStays ==
  ASSUME TypeOK, Shape(work), Owing(work), CallStep, ~Dot
  PROVE  Owing(work') /\ (Hit /\ LeechIn(work') => Seen(Head(work)))
<1>0. work \in Seq(Calls) /\ work # <<>>
  <2>1. system # "decayRun"
    BY OnlyDotsThere
  <2> QED  BY <2>1 DEF TypeOK, WorkOK, CallStep, Hit, Cc, Pierce, Shockwave, Wide, Echo, Ring, Leech, Lay,
              ZoneStrikes, Sweep, Doing
<1> DEFINE t == Tail(work)
<1>1. Owing(t) /\ t \in Seq(Calls) /\ (LeechIn(t) => Seen(Head(work)))
  BY <1>0, OwingOfTail, HeadTailProperties
<1> HIDE DEF t
<1>2. CASE Hit \/ Cc \/ Lay \/ Sweep \/ Leech
  <2>1. work' = t
    BY <1>2 DEF Hit, Cc, Lay, Sweep, Leech, t
  <2> QED  BY <1>1, <2>1
<1>3. CASE Pierce \/ Shockwave \/ Wide \/ Echo \/ ZoneStrikes
  <2>1. PICK calls \in Seq(Simple) : Expand(calls) /\ (Seen(Head(work)) => AllSeen(calls))
    BY <1>3, CollectedAreSimple
  <2>2. work' = calls \o t /\ ~Hit
    BY <1>3, <2>1 DEF Expand, t, Pierce, Shockwave, Wide, Echo, ZoneStrikes, Hit, Doing
  <2>3. ~LeechIn(calls) /\ calls \in Seq(Calls)
    BY SimpleShape
  <2>4. Owing(calls \o t)
    BY <1>1, <2>1, <2>3, OwingOfConcat
  <2> QED  BY <2>2, <2>4
<1>4. CASE Ring
  <2> DEFINE s == RingStrikes(RingFresh, Head(work).power, Head(work).gain)
             r == IF RingGrows THEN <<RingNext>> ELSE <<>>
             p == s \o r
  <2>1. /\ s \in Seq(Simple) /\ s \in Seq(Calls) /\ r \in Seq(Calls) /\ ~LeechIn(r)
        /\ p \in Seq(Calls) /\ work' = p \o t /\ RingNext.do = "ring"
    BY <1>4, RingCalls DEF t
  <2>2. AllSeen(s)
    <3>1. RingFresh \in SUBSET Enemies
      BY <1>4, RingCalls
    <3> QED  BY <3>1, RingStrikesSeen
  <2>3. AllSeen(r)
    <3> DEFINE n == RingNext
    <3>1. Seen(n)
      BY <2>1 DEF Seen
    <3>2. r = <<n>> \/ r = <<>>
      OBVIOUS
    <3> HIDE DEF n, r
    <3> QED  BY <3>1, <3>2 DEF AllSeen
  <2>4. ~LeechIn(s)
    BY <2>1, SimpleShape
  <2>5. ~Hit
    BY <1>4 DEF Ring, Hit, Doing
  <2> HIDE DEF s, r
  <2>6. ~LeechIn(p) /\ AllSeen(p)
    BY <2>1, <2>2, <2>3, <2>4, ShapeOfConcat, OwingOfConcat
  <2> HIDE DEF p
  <2>7. Owing(p \o t)
    BY <1>1, <2>1, <2>6, OwingOfConcat
  <2> QED  BY <2>1, <2>5, <2>7
<1> QED  BY <1>2, <1>3, <1>4 DEF CallStep

----------------------------------------------------------------------------
Taken == SumOf([e \in Enemies |-> foe[e].taken - cast.before[e]])

(* As long as leech is still to be paid, what it will be paid for is what  *)
(* the rows took since the strikes began, less what pierced; and nothing   *)
(* is left to call before it that would strike and not be counted.         *)
LeechInv == /\ system # "decayRun" => Shape(work) /\ Owing(work)
            /\ LeechIn(work) => dealt = Taken - cast.pierced

(* The damage taken since the strikes began is a number.                   *)
LEMMA TakenInt ==
  ASSUME TypeOK
  PROVE  /\ Taken \in Int /\ IsFiniteSet(Enemies)
         /\ [e \in Enemies |-> foe[e].taken - cast.before[e]] \in [Enemies -> Int]
<1>1. \A e \in Enemies : foe[e].taken \in Int /\ cast.before[e] \in Int
  BY DEF TypeOK, FieldOK, Row
<1>2. [e \in Enemies |-> foe[e].taken - cast.before[e]] \in [Enemies -> Int]
  BY <1>1
<1> QED  BY <1>2, Sums DEF Taken

(* It stays if the rows' damage does.                                      *)
LEMMA TakenStays ==
  ASSUME TypeOK, cast'.before = cast.before, \A e \in Enemies : foe'[e].taken = foe[e].taken
  PROVE  Taken' = Taken
<1>1. [e \in Enemies |-> foe'[e].taken - cast'.before[e]] = [e \in Enemies |-> foe[e].taken - cast.before[e]]
  OBVIOUS
<1> QED  BY <1>1 DEF Taken

(* A hit that is seen is counted, or pierces.                              *)
LEMMA HitIsCounted ==
  ASSUME TypeOK, Hit, Seen(Head(work)), dealt = Taken - cast.pierced
  PROVE  dealt' = Taken' - cast'.pierced
<1> DEFINE c == Head(work)
           e == c.who
           f == foe[e]
           g == Struck(f, e, c.power, c.hooks)
           got == Returned(f, e, c.power, c.hooks)
<1>1. c \in HitType /\ f \in Row /\ g \in Row /\ foe' = [foe EXCEPT ![e] = g]
  BY HitStrikesRow DEF StrikesRow
<1>2. e \in Enemies /\ c.power \in Int /\ c.hooks \in BOOLEAN
  BY <1>1 DEF HitType
<1>12. c.by \in Counted \cup {"pierce"} /\ "pierce" \notin Counted
  BY DEF Seen, Hit, Doing, Counted
<1>3. foe \in [Enemies -> Row] /\ build \in Builds /\ dealt \in Int
      /\ cast \in [before : [Enemies -> Int], pierced : Int]
  BY DEF TypeOK, FieldOK
<1>4. got \in Int /\ g.taken = f.taken + got
  BY <1>1, <1>2, <1>3, StruckType
<1>5. /\ dealt' = IF c.by \in Counted THEN dealt + got ELSE dealt
      /\ cast' = IF c.by # "pierce" THEN cast ELSE [cast EXCEPT !.pierced = @ + foe'[e].taken - f.taken]
  BY DEF Hit
<1> HIDE DEF c, e, f, g, got
<1>6. foe'[e] = g /\ \A x \in Enemies \ {e} : foe'[x] = foe[x]
  BY <1>1, <1>2, <1>3
<1>7. f.taken \in Int /\ g.taken \in Int
  BY <1>1 DEF Row
<1>8. /\ cast'.before = cast.before
      /\ cast'.pierced = IF c.by # "pierce" THEN cast.pierced ELSE cast.pierced + g.taken - f.taken
  BY <1>3, <1>5, <1>6
<1>9. Taken' = Taken + got
  <2> DEFINE u == [x \in Enemies |-> foe[x].taken - cast.before[x]]
             v == [x \in Enemies |-> foe'[x].taken - cast.before[x]]
  <2>1. u \in [Enemies -> Int] /\ IsFiniteSet(Enemies)
    BY TakenInt
  <2>2. v \in [Enemies -> Int]
    <3>1. \A x \in Enemies : foe'[x].taken \in Int /\ cast.before[x] \in Int
      BY <1>3, <1>6, <1>7 DEF Row
    <3> QED  BY <3>1
  <2>3. \A x \in Enemies \ {e} : v[x] = u[x]
    BY <1>6
  <2>4. v[e] - u[e] = got
    <3>1. cast.before[e] \in Int
      BY <1>2, <1>3
    <3>2. u[e] = f.taken - cast.before[e] /\ v[e] = g.taken - cast.before[e]
      BY <1>2, <1>6 DEF f
    <3> HIDE DEF u, v
    <3> QED  BY <1>4, <1>7, <3>1, <3>2
  <2>5. Taken = SumOf(u) /\ Taken' = SumOf(v)
    BY <1>8 DEF Taken
  <2> HIDE DEF u, v
  <2> QED  BY <1>2, <2>1, <2>2, <2>3, <2>4, <2>5, Sums
<1>10. Taken \in Int /\ cast.pierced \in Int
  BY <1>3, TakenInt
<1>11. CASE c.by \in Counted
  <2>1. dealt' = dealt + got /\ cast'.pierced = cast.pierced
    BY <1>5, <1>8, <1>11, <1>12
  <2> QED  BY <1>3, <1>4, <1>9, <1>10, <2>1
<1>13. CASE c.by = "pierce"
  <2>1. dealt' = dealt /\ cast'.pierced = cast.pierced + g.taken - f.taken
    BY <1>5, <1>8, <1>12, <1>13
  <2> QED  BY <1>3, <1>4, <1>7, <1>9, <1>10, <2>1
<1> QED  BY <1>11, <1>12, <1>13

(* Every step keeps what leech will be paid for.                           *)
LEMMA LeechStep ==
  ASSUME TypeOK, LeechInv, [Next]_vars
  PROVE  LeechInv'
<1>1. CASE UNCHANGED vars
  <2>1. system' = system /\ work' = work /\ dealt' = dealt /\ cast' = cast /\ foe' = foe
    BY <1>1 DEF vars, strikeVars
  <2>2. Taken' = Taken
    BY <2>1 DEF Taken
  <2> QED  BY <2>1, <2>2 DEF LeechInv
<1>2. CASE PlacesStep \/ QuietStep
  <2>1. work' = <<>>
    BY <1>2 DEF PlacesStep, QuietStep, Enter, Aim, Part, Walk, BeginTick, CcDecayRun, EnemiesTurn
  <2> QED  BY <2>1, NothingCalled DEF LeechInv
<1>3. CASE Enter("decayRun") /\ DecayRun
  <2>1. system' = "decayRun" /\ work' \in Seq(DotType)
    BY <1>3, DecayRunCalls DEF Enter, Begin
  <2> QED  BY <2>1, DotsAreNoLeech DEF LeechInv
<1>4. CASE StrikingSystem
  <2>1. PICK calls : Begin(calls) /\ Opening(calls)
    BY <1>4, StrikesBegin
  <2>2. work' = calls /\ dealt' = 0 /\ cast' = Fresh /\ foe' = foe
    BY <1>4, <2>1, StrikesBegin DEF Begin
  <2>3. Taken' = 0 /\ cast'.pierced = 0
    <3> DEFINE u == [e \in Enemies |-> foe'[e].taken - cast'.before[e]]
    <3>1. \A e \in Enemies : foe[e].taken \in Int
      BY DEF TypeOK, FieldOK, Row
    <3>2. \A e \in Enemies : u[e] = 0
      BY <2>2, <3>1 DEF Fresh
    <3>3. u \in [Enemies -> Int]
      BY <3>2
    <3>4. Taken' = SumOf(u)
      BY DEF Taken
    <3> HIDE DEF u
    <3> QED  BY <2>2, <3>2, <3>3, <3>4, Sums DEF Fresh
  <2> QED  BY <2>1, <2>2, <2>3 DEF LeechInv, Opening
<1>5. CASE CallStep /\ system' = system /\ Dot
  <2>1. system = "decayRun" /\ work # <<>> /\ work' = Tail(work)
    BY <1>5, DotsOnlyThere DEF Dot, Doing
  <2>2. work' \in Seq(DotType)
    BY <2>1, HeadTailProperties DEF TypeOK, WorkOK
  <2> QED  BY <1>5, <2>1, <2>2, DotsAreNoLeech DEF LeechInv
<1>6. CASE CallStep /\ system' = system /\ ~Dot
  <2>1. system # "decayRun" /\ Shape(work) /\ Owing(work)
    BY <1>6, OnlyDotsThere DEF LeechInv
  <2>2. Shape(work') /\ (LeechIn(work') => LeechIn(work) /\ ~Leech)
    BY <1>6, <2>1, ShapeStays
  <2>4. Owing(work') /\ (Hit /\ LeechIn(work') => Seen(Head(work)))
    BY <1>6, <2>1, OwingStays
  <2>3. ASSUME LeechIn(work') PROVE dealt' = Taken' - cast'.pierced
    <3>1. dealt = Taken - cast.pierced /\ ~Leech
      BY <2>2, <2>3 DEF LeechInv
    <3>2. CASE Hit
      BY <2>3, <2>4, <3>1, <3>2, HitIsCounted
    <3>3. CASE ~Hit
      <4>1. dealt' = dealt /\ cast' = cast
        BY <1>6, <3>1, <3>3 DEF CallStep, Cc, Lay, Sweep, Pierce, Shockwave, Wide, Echo, Ring,
                                ZoneStrikes, Expand, history
      <4>2. Taken' = Taken
        BY <1>6, <3>3, <4>1, NobodyStruck, TakenStays
      <4> QED  BY <3>1, <4>1, <4>2
    <3> QED  BY <3>2, <3>3
  <2> QED  BY <2>2, <2>3, <2>4 DEF LeechInv
<1> QED  BY <1>1, <1>2, <1>3, <1>4, <1>5, <1>6, StepKinds

(* Leech is paid for every point of damage that the rows have taken since  *)
(* the cast or the zones began, except what pierced: no call that strikes  *)
(* without being counted stands before leech.                              *)
THEOREM LeechIsPaidInFull == Spec => []LeechSeesEveryHit
<1>1. Init => LeechInv
  BY NothingCalled DEF Init, StrikesInit, LeechInv
<1>2. TypeOK /\ LeechInv /\ [Next]_vars => LeechInv'
  BY LeechStep
<1>3. TypeOK /\ LeechInv => LeechSeesEveryHit
  <2> SUFFICES ASSUME TypeOK, LeechInv, Doing("leech")
               PROVE  dealt = Taken - cast.pierced
    BY DEF LeechSeesEveryHit, Taken, SumOf
  <2>1. work # <<>> /\ Head(work).do = "leech" /\ work \in Seq(Calls)
    BY CallAtHead DEF TypeOK, WorkOK, Doing
  <2>2. 1 \in 1 .. Len(work) /\ work[1].do = "leech"
    BY <2>1, TailAt
  <2> QED  BY <2>2 DEF LeechIn, LeechInv
<1> QED  BY <1>1, <1>2, <1>3, BattleTypes, PTL DEF Spec

---------------------------------------------------------------------------
(* The rings of the centrifuge.                                            *)

(* Products are monotone.                                                  *)
LEMMA SumMonotone ==
  ASSUME NEW a \in Nat, NEW b \in Nat, NEW c \in Nat, a <= b
  PROVE  c * a \in Nat /\ c * b \in Nat /\ c * a <= c * b
<1>1. c * a \in Nat /\ c * b \in Nat
  OBVIOUS
<1>2. c * (b - a) \in Nat
  <2>1. b - a \in Nat
    OBVIOUS
  <2> DEFINE d == b - a
  <2>2. d \in Nat
    BY <2>1
  <2> HIDE DEF d
  <2>3. c * d \in Nat
    BY <2>2
  <2> QED  BY <2>3 DEF d
<1>3. c * (b - a) = c * b - c * a
  OBVIOUS
<1> QED  BY <1>1, <1>2, <1>3

(* Quotients are monotone.                                                 *)
LEMMA DivMonotone ==
  ASSUME NEW a \in Nat, NEW b \in Nat, NEW m \in Nat \ {0}, a <= b
  PROVE  a \div m <= b \div m
  OBVIOUS

(* More stacks, larger rings; the first is the circle itself.              *)
LEMMA RingsGrow ==
  ASSUME NEW base \in Nat, NEW s \in Nat, NEW t \in Nat, s <= t
  PROVE  /\ RingRadius(base, s) \in Nat /\ RingRadius(base, t) \in Nat
         /\ RingRadius(base, s) <= RingRadius(base, t)
<1>0. ONE \in Nat \ {0} /\ centrifugeStep \in Nat
  BY FieldConstants, StrikesConstants
<1> DEFINE u == ONE + centrifugeStep * s   v == ONE + centrifugeStep * t
<1>1. u \in Nat /\ v \in Nat /\ u <= v
  <2>1. centrifugeStep * s \in Nat /\ centrifugeStep * t \in Nat /\ centrifugeStep * s <= centrifugeStep * t
    BY <1>0, SumMonotone
  <2> QED  BY <1>0, <2>1
<1>2. RingRadius(base, s) = Quot(base * u, ONE) /\ RingRadius(base, t) = Quot(base * v, ONE)
  BY DEF RingRadius, Mul
<1> HIDE DEF u, v
<1>3. base * u \in Nat /\ base * v \in Nat /\ base * u <= base * v
  BY <1>1, SumMonotone
<1> DEFINE p == base * u   q == base * v
<1>4. p \in Nat /\ q \in Nat /\ p <= q
  BY <1>3
<1> HIDE DEF p, q
<1>5. Quot(p, ONE) = p \div ONE /\ Quot(q, ONE) = q \div ONE
  BY <1>0, <1>4, QuotNat
<1>6. p \div ONE <= q \div ONE
  BY <1>0, <1>4, DivMonotone
<1> QED  BY <1>2, <1>5, <1>6, RingRadiusNat DEF p, q

(* The first ring is the circle itself.                                    *)
LEMMA FirstRingRadius ==
  ASSUME NEW base \in Nat
  PROVE  RingRadius(base, 0) = base
<1>0. ONE \in Nat \ {0} /\ centrifugeStep \in Nat
  BY FieldConstants, StrikesConstants
<1>1. ONE + centrifugeStep * 0 = ONE
  BY <1>0
<1>2. RingRadius(base, 0) = Quot(base * ONE, ONE)
  BY <1>1 DEF RingRadius, Mul
<1>3. base * ONE \in Nat
  BY <1>0
<1>4. Quot(base * ONE, ONE) = (base * ONE) \div ONE
  BY <1>0, <1>3, QuotNat
<1>5. (base * ONE) \div ONE = base
  BY <1>0
<1> QED  BY <1>2, <1>4, <1>5

(* Who stands in a circle stands in every larger one.                      *)
LEMMA WithinMore ==
  ASSUME NEW p \in Point, NEW q \in Point, NEW r \in Nat, NEW s \in Nat, r <= s, Within(p, q, r)
  PROVE  Within(p, q, s)
<1>1. DistanceSq(p, q) \in Nat
  BY DistanceTypes
<1>2. r * r <= s * s /\ r * r \in Nat /\ s * s \in Nat
  BY SquareMonotone
<1>3. DistanceSq(p, q) <= r * r
  BY DEF Within
<1>4. DistanceSq(p, q) <= s * s
  BY <1>1, <1>2, <1>3
<1> QED  BY <1>4 DEF Within

----------------------------------------------------------------------------
(* The passes are a function of where the rows are.                        *)
LEMMA GrewOnce ==
  ASSUME NEW pos, NEW center, NEW base \in Nat, NEW rows \in SUBSET Enemies,
         NEW g, NEW h, Grew(g, pos, center, base, rows), Grew(h, pos, center, base, rows)
  PROVE  \A k \in 0 .. centrifugeMaxStacks + 1 : g[k] = h[k]
<1> DEFINE N == centrifugeMaxStacks + 1
           T == {k \in 0 .. N : g[k] = h[k]}
<1>1. N \in Nat
  BY StrikesConstants
<1>2. 0 \in T
  BY <1>1 DEF Grew
<1>3. ASSUME NEW k \in 0 .. N - 1, k \in T PROVE k + 1 \in T
  <2>1. k + 1 \in 1 .. N /\ (k + 1) - 1 = k /\ k + 1 \in 0 .. N
    BY <1>1
  <2>2. g[k + 1] = GrowStep(pos, g[k], center, base, rows) /\ h[k + 1] = GrowStep(pos, h[k], center, base, rows)
    BY <2>1 DEF Grew
  <2> QED  BY <1>3, <2>1, <2>2
<1>4. \A k \in 0 .. N : k \in T
  <2> HIDE DEF T, N
  <2> QED  BY <1>1, <1>2, <1>3, SetInduction
<1> QED  BY <1>4

(* A pass that reaches nobody new is the last that matters.                *)
LEMMA GrewOut ==
  ASSUME NEW pos, NEW center, NEW base \in Nat, NEW rows \in SUBSET Enemies,
         NEW g, Grew(g, pos, center, base, rows),
         NEW p \in 1 .. centrifugeMaxStacks + 1, g[p] = g[p - 1]
  PROVE  g[centrifugeMaxStacks + 1] = g[p - 1]
<1> DEFINE N == centrifugeMaxStacks + 1
           T == {k \in 0 .. N : k >= p - 1 => g[k] = g[p - 1]}
<1>1. N \in Nat /\ p \in 1 .. N
  BY StrikesConstants
<1>2. 0 \in T
  <2>1. 0 >= p - 1 => p - 1 = 0
    BY <1>1
  <2> QED  BY <1>1, <2>1
<1>3. ASSUME NEW k \in 0 .. N - 1, k \in T PROVE k + 1 \in T
  <2>1. k + 1 \in 1 .. N /\ (k + 1) - 1 = k /\ k + 1 \in 0 .. N
    BY <1>1
  <2>2. g[k + 1] = GrowStep(pos, g[k], center, base, rows) /\ g[p] = GrowStep(pos, g[p - 1], center, base, rows)
    BY <1>1, <2>1 DEF Grew
  <2>3. CASE k >= p - 1
    BY <1>3, <2>1, <2>2, <2>3
  <2>4. CASE ~(k >= p - 1)
    <3>1. k + 1 >= p - 1 => k + 1 = p - 1
      BY <1>1, <2>4
    <3> QED  BY <2>1, <3>1
  <2> QED  BY <2>3, <2>4
<1>4. \A k \in 0 .. N : k \in T
  <2> HIDE DEF T, N
  <2> QED  BY <1>1, <1>2, <1>3, SetInduction
<1>5. N \in T /\ N >= p - 1
  BY <1>1, <1>4
<1> QED  BY <1>5

----------------------------------------------------------------------------
(* What is recorded of the rings, and what the call for the next pass says.*)
Disc(rg, pos, g) ==
  /\ Grew(g, pos, rg.center, rg.base, rg.among)
  /\ rg.passes \in 1 .. centrifugeMaxStacks + 1
  /\ rg.radius = g[rg.passes - 1].r
  /\ rg.struck = {e \in rg.among : Within(pos[e], rg.center, rg.radius)}
  /\ rg.over => g[rg.passes] = g[rg.passes - 1]
NextPass(c, rg, g) ==
  /\ c.grows /\ ~rg.over /\ c.struck = rg.struck /\ c.center = rg.center /\ c.base = rg.base
  /\ rg.passes <= c.stacks /\ rg.radius <= RingRadius(c.base, c.stacks)
  /\ g[rg.passes] = [r |-> RingRadius(c.base, c.stacks), stacks |-> c.stacks,
                     reached |-> Cardinality(rg.struck)]

(* The strikes of a pass are made before the next one: only whom the rings *)
(* have struck has died since they began.                                  *)
Runs(c) == c.do = "ring" /\ c.stacks > 0
StrikesFirst(q, i, rg, living) ==
  /\ rg.grows /\ living \subseteq rg.among /\ rg.among \ rg.struck \subseteq living
  /\ \A j \in 1 .. Len(q) : j < i => q[j].do \in {"hit", "cc"} /\ q[j].who \in rg.struck

(* What is noted of the rings, what the calls on work say of them, and     *)
(* where the rows stand fit together: the rings so far are the first steps *)
(* of centrifugeRadius among those who lived when they began, and at most  *)
(* one call goes on from the last of them.                                 *)
RingOK(rg, q, pos, living) ==
  /\ rg # NoRing => LeechIn(q)
  /\ \A i \in 1 .. Len(q) : q[i].do = "ring" /\ ~Runs(q[i]) => q[i].struck = {} /\ q[i].stacks = 0
  /\ \A i \in 1 .. Len(q) : Runs(q[i]) => StrikesFirst(q, i, rg, living)
  /\ rg.grows => \E g : /\ Disc(rg, pos, g)
                        /\ \A i \in 1 .. Len(q) : Runs(q[i]) => NextPass(q[i], rg, g)

(* The inductive invariant of the rings.                                   *)
RingInv == RingOK(ring, work, at, Living)

(* What is recorded of the rings says, when they are over, what            *)
(* centrifugeRadius returns.                                               *)
LEMMA RingsSayTheRadius ==
  ASSUME TypeOK, RingInv
  PROVE  RingsFillTheirDisc
<1> SUFFICES ASSUME ring.over, ring.grows
             PROVE  /\ ring.radius = CentrifugeRadius(ring.center, ring.base, ring.among)
                    /\ ring.struck = {e \in ring.among : Within(at[e], ring.center, ring.radius)}
                    /\ ring.passes <= centrifugeMaxStacks + 1
  BY DEF RingsFillTheirDisc
<1>1. PICK g : Disc(ring, at, g)
  BY DEF RingInv, RingOK
<1>2. ring.center \in Point /\ ring.base \in Nat /\ ring.among \in SUBSET Enemies
  BY DEF TypeOK, RingsType
<1>3. /\ Grew(g, at, ring.center, ring.base, ring.among)
      /\ ring.passes \in 1 .. centrifugeMaxStacks + 1 /\ g[ring.passes] = g[ring.passes - 1]
      /\ ring.radius = g[ring.passes - 1].r
  BY <1>1 DEF Disc
<1>4. PICK h : /\ Grew(h, at, ring.center, ring.base, ring.among)
               /\ CentrifugeRadius(ring.center, ring.base, ring.among) = h[centrifugeMaxStacks + 1].r
  BY <1>2, GrowthIterates
<1>5. g[centrifugeMaxStacks + 1] = g[ring.passes - 1]
  <2> DEFINE p == ring.passes   c == ring.center   b == ring.base   rows == ring.among
  <2>1. /\ b \in Nat /\ rows \in SUBSET Enemies /\ Grew(g, at, c, b, rows)
        /\ p \in 1 .. centrifugeMaxStacks + 1 /\ g[p] = g[p - 1]
    BY <1>2, <1>3
  <2> HIDE DEF p, c, b, rows
  <2>2. g[centrifugeMaxStacks + 1] = g[p - 1]
    BY <2>1, GrewOut
  <2> QED  BY <2>2 DEF p
<1>6. centrifugeMaxStacks + 1 \in 0 .. centrifugeMaxStacks + 1
  BY StrikesConstants
<1>7. g[centrifugeMaxStacks + 1] = h[centrifugeMaxStacks + 1]
  BY <1>2, <1>3, <1>4, <1>6, GrewOnce
<1>8. ring.passes <= centrifugeMaxStacks + 1
  BY <1>3
<1> QED  BY <1>1, <1>3, <1>4, <1>5, <1>7, <1>8 DEF Disc

(* A pass strikes each row that it has reached, and no other.              *)
LEMMA RingStrikesWhom ==
  ASSUME NEW rows \in SUBSET Enemies, NEW power \in Int, NEW gain \in Int,
         NEW i \in 1 .. Len(RingStrikes(rows, power, gain))
  PROVE  LET s == RingStrikes(rows, power, gain)
         IN  s[i].do \in {"hit", "cc"} /\ s[i].who \in rows
<1> DEFINE n == Cardinality(rows)
           order == InArrayOrder(rows)
           s == RingStrikes(rows, power, gain)
<1>1. n \in Nat /\ order \in [1 .. n -> rows]
  BY ArrayOrder
<1>2. s = [k \in 1 .. 2 * n |-> IF k % 2 = 1 THEN HitCall(order[(k + 1) \div 2], power, TRUE, "ring")
                              ELSE CcCall(order[k \div 2], gain)]
  BY DEF RingStrikes
<1>3. i \in 1 .. Len(s)
  OBVIOUS
<1> HIDE DEF n, order, s
<1>4. Len(s) = 2 * n /\ 2 * n \in Nat
  BY <1>1, <1>2
<1>5. CASE i % 2 = 1
  <2>1. (i + 1) \div 2 \in 1 .. n
    BY <1>1, <1>3, <1>4, <1>5
  <2>2. s[i] = HitCall(order[(i + 1) \div 2], power, TRUE, "ring")
    BY <1>2, <1>3, <1>4, <1>5
  <2> QED  BY <1>1, <2>1, <2>2 DEF HitCall, s
<1>6. CASE i % 2 # 1
  <2>1. i \div 2 \in 1 .. n
    BY <1>1, <1>3, <1>4, <1>6
  <2>2. s[i] = CcCall(order[i \div 2], gain)
    BY <1>2, <1>3, <1>4, <1>6
  <2> QED  BY <1>1, <2>1, <2>2 DEF CcCall, s
<1> QED  BY <1>5, <1>6

(* With leech at the head no ring is left.                                 *)
LEMMA NoRingAfterLeech ==
  ASSUME NEW S, NEW q \in Seq(S), q # <<>>, Shape(q), Head(q).do = "leech"
  PROVE  ~RingIn(Tail(q))
<1> DEFINE t == Tail(q)
<1>1. /\ 1 \in 1 .. Len(q) /\ q[1] = Head(q) /\ Len(q) \in Nat
      /\ \A i \in 1 .. Len(t) : i + 1 \in 1 .. Len(q) /\ t[i] = q[i + 1]
  BY TailAt
<1> HIDE DEF t
<1>2. ASSUME NEW i \in 1 .. Len(t), t[i].do = "ring" PROVE FALSE
  <2>1. i + 1 \in 1 .. Len(q) /\ q[i + 1].do = "ring"
    BY <1>1, <1>2
  <2>2. i + 1 <= 1
    BY <1>1, <2>1 DEF Shape
  <2> QED  BY <2>2
<1> QED  BY <1>2 DEF RingIn, t

(* As long as no ring has gone on, those on work are untouched.            *)
Untouched(q) == \A i \in 1 .. Len(q) : q[i].do = "ring" => q[i].struck = {} /\ q[i].stacks = 0

(* Rings that have not begun are none that go on.                          *)
LEMMA UntouchedDontRun ==
  ASSUME NEW q, Untouched(q)
  PROVE  \A i \in 1 .. Len(q) : ~Runs(q[i])
  BY DEF Untouched, Runs

(* Putting other calls before them does not begin them.                    *)
LEMMA UntouchedConcat ==
  ASSUME NEW S, NEW q \in Seq(S), NEW t \in Seq(S), Untouched(t), ~RingIn(q)
  PROVE  Untouched(q \o t)
<1> DEFINE c == q \o t
<1>1. /\ \A i \in 1 .. Len(q) : i \in 1 .. Len(c) /\ c[i] = q[i]
      /\ \A i \in 1 .. Len(c) : i \notin 1 .. Len(q) => i - Len(q) \in 1 .. Len(t) /\ c[i] = t[i - Len(q)]
  BY ConcatAt
<1> HIDE DEF c
<1>2. ASSUME NEW i \in 1 .. Len(c), c[i].do = "ring" PROVE c[i].struck = {} /\ c[i].stacks = 0
  <2>1. i \notin 1 .. Len(q)
    BY <1>1, <1>2 DEF RingIn
  <2> QED  BY <1>1, <1>2, <2>1 DEF Untouched
<1> QED  BY <1>2 DEF Untouched, c

(* If the call at the head is neither a strike nor the ring itself, no     *)
(* ring goes on.                                                           *)
LEMMA TailUntouched ==
  ASSUME TypeOK, RingInv, work \in Seq(Calls), work # <<>>, Head(work).do \notin {"hit", "cc"}
  PROVE  Untouched(Tail(work))
<1> DEFINE t == Tail(work)
<1>1. /\ 1 \in 1 .. Len(work) /\ work[1] = Head(work) /\ Len(work) \in Nat
      /\ \A i \in 1 .. Len(t) : i + 1 \in 1 .. Len(work) /\ t[i] = work[i + 1]
  BY TailAt
<1> HIDE DEF t
<1>2. ASSUME NEW i \in 1 .. Len(t), t[i].do = "ring" PROVE t[i].struck = {} /\ t[i].stacks = 0
  <2>1. i + 1 \in 1 .. Len(work) /\ t[i] = work[i + 1] /\ 1 < i + 1
    BY <1>1
  <2>2. ~Runs(work[i + 1])
    <3> SUFFICES ASSUME Runs(work[i + 1]) PROVE FALSE
      OBVIOUS
    <3>1. StrikesFirst(work, i + 1, ring, Living)
      BY <2>1 DEF RingInv, RingOK
    <3>2. work[1].do \in {"hit", "cc"}
      BY <1>1, <2>1, <3>1 DEF StrikesFirst
    <3> QED  BY <1>1, <3>2
  <2> QED  BY <1>2, <2>1, <2>2 DEF RingInv, RingOK
<1> QED  BY <1>2 DEF Untouched, t

(* Where no ring goes on, the rings invariant is about the record alone.   *)
LEMMA UntouchedRings ==
  ASSUME NEW rg, NEW q, NEW pos, NEW living, Untouched(q), rg # NoRing => LeechIn(q),
         rg.grows => \E g : Disc(rg, pos, g)
  PROVE  RingOK(rg, q, pos, living)
<1>1. \A i \in 1 .. Len(q) : ~Runs(q[i])
  BY UntouchedDontRun
<1> QED  BY <1>1 DEF RingOK, Untouched

(* Before the rings begin nothing is recorded.                             *)
LEMMA NoDiscYet ==
  ASSUME NEW q, NEW pos, NEW living, Untouched(q)
  PROVE  RingOK(NoRing, q, pos, living)
<1>1. ~NoRing.grows
  BY DEF NoRing
<1> DEFINE rg == NoRing
<1>2. rg = NoRing /\ ~rg.grows
  BY <1>1
<1> HIDE DEF rg
<1>3. RingOK(rg, q, pos, living)
  BY <1>2, UntouchedRings
<1> QED  BY <1>3 DEF rg

(* A strike before the next pass kills nobody but whom the rings have      *)
(* struck.                                                                 *)
LEMMA StrikesKillWho ==
  ASSUME TypeOK, Hit \/ Cc
  PROVE  /\ Living' \subseteq Living
         /\ \A x \in Living : x # Head(work).who => x \in Living'
<1>1. foe \in [Enemies -> Row]
  BY DEF TypeOK, FieldOK
<1>2. CASE Hit
  <2> DEFINE e == Head(work).who
             g == Struck(foe[e], e, Head(work).power, Head(work).hooks)
  <2>1. e \in Enemies /\ foe' = [foe EXCEPT ![e] = g] /\ (foe[e].dead => g.dead)
    BY <1>2, HitStrikesRow DEF StrikesRow, HitType
  <2> HIDE DEF e, g
  <2>2. foe'[e] = g /\ \A x \in Enemies \ {e} : foe'[x] = foe[x]
    BY <1>1, <2>1
  <2> QED  BY <2>1, <2>2 DEF Living, e
<1>3. CASE Cc
  <2>1. ~Hit /\ ~Dot
    BY <1>3 DEF Cc, Hit, Dot, Doing
  <2> DEFINE c == Head(work)
  <2>2. c \in CcType
    BY <1>3, CallAtHead, CallKinds DEF TypeOK, Cc
  <2>3. c.who \in Enemies /\ c.gain \in Int /\ foe[c.who] \in Row
    BY <1>1, <2>2 DEF CcType
  <2>4. foe' = [foe EXCEPT ![c.who] = Stunned(foe[c.who], c.who, c.gain)]
    BY <1>3 DEF Cc
  <2> HIDE DEF c
  <2>5. \A x \in Enemies : foe'[x].dead = foe[x].dead
    BY <1>1, <2>3, <2>4, StunnedType
  <2> QED  BY <2>5 DEF Living
<1> QED  BY <1>2, <1>3

(* A strike between two passes keeps what is recorded.                     *)
LEMMA StrikeKeepsRings ==
  ASSUME TypeOK, Shape(work), RingInv, Hit \/ Cc
  PROVE  RingInv'
<1> DEFINE t == Tail(work)
<1>1. work \in Seq(Calls) /\ work # <<>> /\ work' = t /\ ring' = ring /\ at' = at
      /\ Head(work).do \in {"hit", "cc"}
  BY CallAtHead DEF TypeOK, WorkOK, Hit, Cc, Doing, places, history
<1>2. /\ 1 \in 1 .. Len(work) /\ work[1] = Head(work) /\ Len(work) \in Nat
      /\ \A i \in 1 .. Len(t) : i + 1 \in 1 .. Len(work) /\ t[i] = work[i + 1]
  BY <1>1, TailAt
<1>3. LeechIn(work) => LeechIn(t)
  BY <1>1, ShapeOfTail
<1> HIDE DEF t
<1>4. /\ ring # NoRing => LeechIn(work)
      /\ \A i \in 1 .. Len(work) : work[i].do = "ring" /\ ~Runs(work[i]) => work[i].struck = {} /\ work[i].stacks = 0
      /\ \A i \in 1 .. Len(work) : Runs(work[i]) => StrikesFirst(work, i, ring, Living)
      /\ ring.grows => \E g : /\ Disc(ring, at, g)
                              /\ \A i \in 1 .. Len(work) : Runs(work[i]) => NextPass(work[i], ring, g)
  BY DEF RingInv, RingOK
<1>5. /\ Living' \subseteq Living
      /\ \A x \in Living : x # Head(work).who => x \in Living'
  BY StrikesKillWho
<1>6. ASSUME NEW i \in 1 .. Len(t), Runs(t[i])
      PROVE  StrikesFirst(t, i, ring, Living')
  <2>1. i + 1 \in 1 .. Len(work) /\ t[i] = work[i + 1] /\ 1 < i + 1
    BY <1>2
  <2>2. StrikesFirst(work, i + 1, ring, Living)
    BY <1>4, <1>6, <2>1
  <2>3. Head(work).who \in ring.struck
    BY <1>2, <2>1, <2>2 DEF StrikesFirst
  <2>4. ASSUME NEW j \in 1 .. Len(t), j < i
        PROVE  t[j].do \in {"hit", "cc"} /\ t[j].who \in ring.struck
    <3>1. j + 1 \in 1 .. Len(work) /\ t[j] = work[j + 1] /\ j + 1 < i + 1
      BY <1>2, <2>4
    <3> QED  BY <2>2, <3>1 DEF StrikesFirst
  <2> QED  BY <1>5, <2>2, <2>3, <2>4 DEF StrikesFirst
<1>7. ring.grows => \E g : /\ Disc(ring, at, g)
                           /\ \A i \in 1 .. Len(t) : Runs(t[i]) => NextPass(t[i], ring, g)
  BY <1>2, <1>4
<1>8. \A i \in 1 .. Len(t) : t[i].do = "ring" /\ ~Runs(t[i]) => t[i].struck = {} /\ t[i].stacks = 0
  BY <1>2, <1>4
<1>9. RingOK(ring, t, at, Living')
  BY <1>3, <1>4, <1>6, <1>7, <1>8 DEF RingOK
<1> QED  BY <1>1, <1>9 DEF RingInv

(* Leech forgets the rings; what lies on the ground or is collected has    *)
(* nothing to do with them.                                                *)
LEMMA OtherCallsKeepRings ==
  ASSUME TypeOK, Shape(work), RingInv,
         Lay \/ Sweep \/ Leech \/ Pierce \/ Shockwave \/ Wide \/ Echo \/ ZoneStrikes
  PROVE  RingInv'
<1> DEFINE t == Tail(work)
<1>1. work \in Seq(Calls) /\ work # <<>> /\ Head(work).do \notin {"hit", "cc", "ring"}
  <2>1. ~Dot /\ CallStep /\ work # <<>> /\ Head(work).do \notin {"hit", "cc", "ring"}
    BY DEF CallStep, Lay, Sweep, Leech, Pierce, Shockwave, Wide, Echo, ZoneStrikes, Dot, Doing
  <2>2. system # "decayRun"
    BY <2>1, OnlyDotsThere
  <2> QED  BY <2>1, <2>2 DEF TypeOK, WorkOK
<1>2. Untouched(t)
  BY <1>1, TailUntouched
<1>3. (ring # NoRing => LeechIn(work)) /\ (ring.grows => \E g : Disc(ring, at, g))
  BY DEF RingInv, RingOK
<1>4. t \in Seq(Calls) /\ (LeechIn(work) /\ Head(work).do # "leech" => LeechIn(t))
  BY <1>1, ShapeOfTail, HeadTailProperties
<1> HIDE DEF t
<1>5. CASE Leech
  <2>1. work' = t /\ ring' = NoRing
    BY <1>5 DEF Leech, t
  <2> QED  BY <1>2, <2>1, NoDiscYet DEF RingInv
<1>6. CASE Lay \/ Sweep
  <2>1. work' = t /\ ring' = ring /\ at' = at /\ Head(work).do # "leech"
    BY <1>6 DEF Lay, Sweep, t, places, history, Doing
  <2>2. RingOK(ring, t, at, Living')
    BY <1>2, <1>3, <1>4, <2>1, UntouchedRings
  <2> QED  BY <2>1, <2>2 DEF RingInv
<1>7. CASE Pierce \/ Shockwave \/ Wide \/ Echo \/ ZoneStrikes
  <2>1. PICK calls \in Seq(Simple) : Expand(calls)
    BY <1>7, CollectedAreSimple
  <2>2. work' = calls \o t /\ at' = at
    BY <2>1 DEF Expand, t, places
  <2>3. ring' = ring /\ Head(work).do # "leech"
    BY <1>7, CollectedAreSimple
  <2>4. ~RingIn(calls) /\ calls \in Seq(Calls)
    BY SimpleShape
  <2>5. Untouched(calls \o t) /\ (LeechIn(t) => LeechIn(calls \o t))
    BY <1>2, <1>4, <2>4, UntouchedConcat, ShapeOfConcat
  <2>6. ring # NoRing => LeechIn(calls \o t)
    BY <1>3, <1>4, <2>3, <2>5
  <2>7. RingOK(ring, calls \o t, at, Living')
    BY <1>3, <2>5, <2>6, UntouchedRings
  <2> QED  BY <2>2, <2>3, <2>7 DEF RingInv
<1> QED  BY <1>5, <1>6, <1>7

(* One pass of the rings is one step of centrifugeRadius.                  *)
OnePass(c, pos, among, g, p, D, fresh) ==
    /\ c \in RingType /\ among \in SUBSET Enemies /\ p \in Nat /\ p <= c.stacks
    /\ Grew(g, pos, c.center, c.base, among)
    /\ g[p] = [r |-> RingRadius(c.base, c.stacks), stacks |-> c.stacks,
               reached |-> Cardinality(c.struck)]
    /\ D = {e \in among : Within(pos[e], c.center, RingRadius(c.base, c.stacks))}
    /\ c.struck \subseteq D /\ fresh = D \ c.struck

(* The radius after a pass is the next in the iteration of                 *)
(* centrifugeRadius.                                                       *)
LEMMA PassIsAStep ==
  ASSUME NEW c, NEW pos, NEW among, NEW g, NEW p, NEW D, NEW fresh,
         OnePass(c, pos, among, g, p, D, fresh)
  PROVE  /\ p + 1 \in 1 .. centrifugeMaxStacks + 1 /\ g[p].r = RingRadius(c.base, c.stacks)
         /\ Cardinality(fresh) \in Nat /\ (Cardinality(fresh) = 0 <=> fresh = {})
         /\ g[p + 1] = IF Cardinality(fresh) <= 0 \/ c.stacks >= centrifugeMaxStacks THEN g[p]
                       ELSE [r |-> RingRadius(c.base, Stacked(c.stacks, Cardinality(fresh))),
                             stacks |-> Stacked(c.stacks, Cardinality(fresh)),
                             reached |-> Cardinality(D)]
<1>0. /\ c \in RingType /\ among \in SUBSET Enemies /\ p \in Nat /\ p <= c.stacks
      /\ Grew(g, pos, c.center, c.base, among)
      /\ g[p] = [r |-> RingRadius(c.base, c.stacks), stacks |-> c.stacks, reached |-> Cardinality(c.struck)]
      /\ D = {e \in among : Within(pos[e], c.center, RingRadius(c.base, c.stacks))}
      /\ c.struck \subseteq D /\ fresh = D \ c.struck
  BY DEF OnePass
<1> DEFINE R == RingRadius(c.base, c.stacks)
           k == Cardinality(fresh)
<1>1. c.base \in Nat /\ c.stacks \in 0 .. centrifugeMaxStacks /\ c.struck \in SUBSET Enemies
      /\ centrifugeMaxStacks \in Nat /\ c.stacks \in Nat
  BY <1>0, StrikesConstants DEF RingType
<1>2. p + 1 \in 1 .. centrifugeMaxStacks + 1 /\ (p + 1) - 1 = p
  BY <1>0, <1>1
<1>3. g[p + 1] = GrowStep(pos, g[p], c.center, c.base, among)
  BY <1>0, <1>2 DEF Grew
<1>4. /\ IsFiniteSet(D) /\ IsFiniteSet(c.struck) /\ IsFiniteSet(fresh) /\ D \in SUBSET Enemies
      /\ k \in Nat /\ (k = 0 <=> fresh = {})
      /\ Cardinality(D) = Cardinality(c.struck) + k /\ Cardinality(c.struck) \in Nat
  <2>1. D \in SUBSET Enemies
    BY <1>0
  <2>2. IsFiniteSet(D) /\ IsFiniteSet(c.struck) /\ IsFiniteSet(fresh)
    BY <1>0, <1>1, <2>1, FieldConstants, FS_Subset
  <2>3. k \in Nat /\ Cardinality(c.struck) \in Nat
    BY <2>2, FS_CardinalityType
  <2>4. c.struck \cup fresh = D /\ c.struck \cap fresh = {}
    BY <1>0
  <2>5. Cardinality(c.struck \cup fresh) = Cardinality(c.struck) + Cardinality(fresh) - Cardinality(c.struck \cap fresh)
    BY <2>2, FS_Union
  <2>6. Cardinality({}) = 0 /\ (Cardinality(fresh) = 0 <=> fresh = {})
    BY <2>2, FS_EmptySet
  <2>7. Cardinality(D) = Cardinality(c.struck) + k - 0
    BY <2>4, <2>5, <2>6
  <2>8. Cardinality(D) = Cardinality(c.struck) + k
    BY <2>3, <2>7
  <2> QED  BY <2>1, <2>2, <2>3, <2>6, <2>8
<1>5. Reach(pos, c.center, among, R) = Cardinality(D)
  BY <1>0 DEF Reach
<1> HIDE DEF R, k
<1>6. g[p].r = R /\ g[p].stacks = c.stacks /\ g[p].reached = Cardinality(c.struck)
  BY <1>0 DEF R
<1>7. Reach(pos, c.center, among, g[p].r) - g[p].reached = k
  BY <1>4, <1>5, <1>6
<1>8. g[p + 1] = IF k <= 0 \/ c.stacks >= centrifugeMaxStacks THEN g[p]
                 ELSE [r |-> RingRadius(c.base, Stacked(c.stacks, k)), stacks |-> Stacked(c.stacks, k),
                       reached |-> Cardinality(D)]
  BY <1>3, <1>5, <1>6, <1>7 DEF GrowStep
<1> QED  BY <1>2, <1>4, <1>6, <1>8 DEF R, k

(* A pass that reaches nobody new, or has all the stacks, leaves the       *)
(* radius.                                                                 *)
LEMMA LastPass ==
  ASSUME NEW c, NEW pos, NEW among, NEW g, NEW p, NEW D, NEW fresh,
         OnePass(c, pos, among, g, p, D, fresh), fresh = {} \/ c.stacks >= centrifugeMaxStacks
  PROVE  /\ p + 1 \in 1 .. centrifugeMaxStacks + 1 /\ g[p].r = RingRadius(c.base, c.stacks)
         /\ g[p + 1] = g[p]
<1> DEFINE k == Cardinality(fresh)
<1>0. p \in Nat /\ centrifugeMaxStacks \in Nat
  BY StrikesConstants DEF OnePass
<1>1. /\ p + 1 \in 1 .. centrifugeMaxStacks + 1 /\ g[p].r = RingRadius(c.base, c.stacks)
      /\ k \in Nat /\ (k = 0 <=> fresh = {})
  <2>1. p + 1 \in 1 .. centrifugeMaxStacks + 1 /\ g[p].r = RingRadius(c.base, c.stacks)
    BY <1>0 DEF OnePass, RingType
  <2>2. fresh \in SUBSET Enemies
    BY DEF OnePass
  <2>3. IsFiniteSet(fresh)
    BY <2>2, FieldConstants, FS_Subset
  <2>4. k \in Nat /\ (k = 0 <=> fresh = {})
    BY <2>3, FS_EmptySet, FS_CardinalityType
  <2> QED  BY <2>1, <2>4
<1>2. g[p + 1] = IF k <= 0 \/ c.stacks >= centrifugeMaxStacks THEN g[p]
                 ELSE [r |-> RingRadius(c.base, Stacked(c.stacks, k)), stacks |-> Stacked(c.stacks, k),
                       reached |-> Cardinality(D)]
  BY PassIsAStep
<1> HIDE DEF k
<1> QED  BY <1>1, <1>2

(* Any other pass grows it, and adds a stack at least.                     *)
LEMMA GrowingPass ==
  ASSUME NEW c, NEW pos, NEW among, NEW g, NEW p, NEW D, NEW fresh,
         OnePass(c, pos, among, g, p, D, fresh), fresh # {}, c.stacks < centrifugeMaxStacks,
         NEW s, s = Stacked(c.stacks, Cardinality(fresh))
  PROVE  /\ p + 1 \in 1 .. centrifugeMaxStacks + 1 /\ g[p].r = RingRadius(c.base, c.stacks)
         /\ g[p + 1] = [r |-> RingRadius(c.base, s), stacks |-> s, reached |-> Cardinality(D)]
         /\ s \in Nat /\ p + 1 <= s /\ RingRadius(c.base, c.stacks) <= RingRadius(c.base, s)
<1> DEFINE k == Cardinality(fresh)
<1>0. p \in Nat /\ centrifugeMaxStacks \in Nat
  BY StrikesConstants DEF OnePass
<1>1. /\ p + 1 \in 1 .. centrifugeMaxStacks + 1 /\ g[p].r = RingRadius(c.base, c.stacks)
      /\ k \in Nat /\ (k = 0 <=> fresh = {})
  <2>1. p + 1 \in 1 .. centrifugeMaxStacks + 1 /\ g[p].r = RingRadius(c.base, c.stacks)
    BY <1>0 DEF OnePass, RingType
  <2>2. fresh \in SUBSET Enemies
    BY DEF OnePass
  <2>3. IsFiniteSet(fresh)
    BY <2>2, FieldConstants, FS_Subset
  <2>4. k \in Nat /\ (k = 0 <=> fresh = {})
    BY <2>3, FS_EmptySet, FS_CardinalityType
  <2> QED  BY <2>1, <2>4
<1>2. g[p + 1] = IF k <= 0 \/ c.stacks >= centrifugeMaxStacks THEN g[p]
                 ELSE [r |-> RingRadius(c.base, Stacked(c.stacks, k)), stacks |-> Stacked(c.stacks, k),
                       reached |-> Cardinality(D)]
  BY PassIsAStep
<1>3. /\ c.base \in Nat /\ c.stacks \in 0 .. centrifugeMaxStacks /\ centrifugeMaxStacks \in Nat
      /\ c.stacks \in Nat /\ p \in Nat /\ p <= c.stacks
  BY StrikesConstants DEF OnePass, RingType
<1> HIDE DEF k
<1>4. ~(k <= 0) /\ ~(c.stacks >= centrifugeMaxStacks)
  BY <1>1, <1>3
<1>5. s = Stacked(c.stacks, k)
  BY DEF k
<1>6. s \in Nat /\ c.stacks + 1 <= s
  <2>1. /\ s \in 0 .. centrifugeMaxStacks
        /\ s = IF c.stacks + k <= centrifugeMaxStacks THEN c.stacks + k ELSE centrifugeMaxStacks
    BY <1>1, <1>3, <1>5, StackedType
  <2> QED  BY <1>1, <1>3, <1>4, <2>1
<1>7. g[p + 1] = [r |-> RingRadius(c.base, s), stacks |-> s, reached |-> Cardinality(D)]
  BY <1>2, <1>4, <1>5
<1>8. p + 1 <= s /\ c.stacks <= s
  BY <1>3, <1>6
<1>9. RingRadius(c.base, c.stacks) <= RingRadius(c.base, s)
  BY <1>3, <1>6, <1>8, RingsGrow
<1> QED  BY <1>1, <1>6, <1>7, <1>8, <1>9

(* Who lived when the rings began that the call at the head goes on with,  *)
(* and how many passes they have made.                                     *)
AmongNow  == IF Head(work).struck = {} /\ Head(work).stacks = 0 THEN Living ELSE ring.among
PassesNow == IF Head(work).stacks = 0 THEN 0 ELSE ring.passes

(* What holds when a pass begins.                                          *)
LEMMA RingBefore ==
  ASSUME TypeOK, RingInv, Ring
  PROVE  LET c == Head(work)
         IN  /\ c.stacks = 0 => c.struck = {}
             /\ AmongNow \in SUBSET Enemies /\ Living \subseteq AmongNow /\ AmongNow \ c.struck \subseteq Living
             /\ c.stacks # 0 => c.grows
             /\ c.grows => \E g : /\ Grew(g, at, c.center, c.base, AmongNow)
                                  /\ PassesNow \in Nat /\ PassesNow <= c.stacks
                                  /\ g[PassesNow] = [r |-> RingRadius(c.base, c.stacks), stacks |-> c.stacks,
                                                     reached |-> Cardinality(c.struck)]
             /\ c.struck \subseteq {e \in AmongNow : Within(at[e], c.center, RingRadius(c.base, c.stacks))}
<1> DEFINE c == Head(work)
<1>1. c \in RingType /\ work # <<>> /\ work \in Seq(Calls) /\ c.do = "ring"
  BY RingCalls DEF Ring, Doing
<1>2. /\ c.center \in Point /\ c.base \in Nat /\ c.stacks \in 0 .. centrifugeMaxStacks
      /\ c.struck \in SUBSET Enemies
  BY <1>1 DEF RingType
<1>3. 1 \in 1 .. Len(work) /\ work[1] = c
  BY <1>1, TailAt
<1>4. ring \in RingsType /\ at \in [Enemies -> Point]
  BY DEF TypeOK, FieldOK
<1>5. /\ ~Runs(c) => c.struck = {} /\ c.stacks = 0
      /\ Runs(c) => StrikesFirst(work, 1, ring, Living)
      /\ ring.grows => \E g : Disc(ring, at, g) /\ (Runs(c) => NextPass(c, ring, g))
  BY <1>1, <1>3 DEF RingInv, RingOK
<1> HIDE DEF c
<1>6. CASE c.stacks = 0
  <2>1. c.struck = {} /\ AmongNow = Living /\ PassesNow = 0
    BY <1>5, <1>6 DEF Runs, AmongNow, PassesNow, c
  <2>2. PICK g : Grew(g, at, c.center, c.base, Living)
    BY <1>2, LivingRows, GrowthIterates
  <2>3. g[0] = [r |-> c.base, stacks |-> 0, reached |-> 0]
    BY <2>2 DEF Grew
  <2>4. RingRadius(c.base, 0) = c.base /\ Cardinality({}) = 0
    BY <1>2, FirstRingRadius, FS_EmptySet
  <2>5. g[0] = [r |-> RingRadius(c.base, c.stacks), stacks |-> c.stacks, reached |-> Cardinality(c.struck)]
    BY <1>6, <2>1, <2>3, <2>4
  <2>6. 0 \in Nat /\ 0 <= c.stacks
    BY <1>6
  <2> QED  BY <1>6, <2>1, <2>2, <2>5, <2>6, LivingRows DEF c
<1>7. CASE c.stacks # 0
  <2>1. Runs(c) /\ AmongNow = ring.among /\ PassesNow = ring.passes
    BY <1>1, <1>2, <1>7 DEF Runs, AmongNow, PassesNow, c
  <2>2. /\ ring.grows /\ Living \subseteq ring.among /\ ring.among \ ring.struck \subseteq Living
    BY <1>5, <2>1 DEF StrikesFirst
  <2>3. PICK g : Disc(ring, at, g) /\ NextPass(c, ring, g)
    BY <1>5, <2>1, <2>2
  <2>4. /\ Grew(g, at, ring.center, ring.base, ring.among) /\ ring.passes \in 1 .. centrifugeMaxStacks + 1
        /\ ring.struck = {e \in ring.among : Within(at[e], ring.center, ring.radius)}
    BY <2>3 DEF Disc
  <2>5. /\ c.grows /\ c.struck = ring.struck /\ c.center = ring.center /\ c.base = ring.base
        /\ ring.passes <= c.stacks /\ ring.radius <= RingRadius(c.base, c.stacks)
        /\ g[ring.passes] = [r |-> RingRadius(c.base, c.stacks), stacks |-> c.stacks,
                             reached |-> Cardinality(ring.struck)]
    BY <2>3 DEF NextPass
  <2>6. ring.among \in SUBSET Enemies /\ ring.radius \in Nat /\ ring.passes \in Nat
    BY <1>4 DEF RingsType
  <2>7. RingRadius(c.base, c.stacks) \in Nat
    <3>1. c.stacks \in Nat
      BY <1>2
    <3> QED  BY <1>2, <3>1, RingRadiusNat
  <2>8. ASSUME NEW e \in c.struck
        PROVE  e \in ring.among /\ Within(at[e], c.center, RingRadius(c.base, c.stacks))
    <3>1. e \in ring.among /\ Within(at[e], c.center, ring.radius)
      BY <2>4, <2>5
    <3>2. at[e] \in Point
      BY <1>4, <2>6, <3>1
    <3> QED  BY <1>2, <2>5, <2>6, <2>7, <3>1, <3>2, WithinMore
  <2> QED  BY <1>7, <2>1, <2>2, <2>4, <2>5, <2>6, <2>8 DEF c
<1> QED  BY <1>6, <1>7

(* A pass of the rings: what it records, and what it leaves on work.       *)
LEMMA RingKeepsRings ==
  ASSUME TypeOK, Shape(work), RingInv, Ring
  PROVE  RingInv'
<1> DEFINE c == Head(work)
           t == Tail(work)
           R == RingRadius(c.base, c.stacks)
           D == {e \in AmongNow : Within(at[e], c.center, R)}
           s == RingStrikes(RingFresh, c.power, c.gain)
           r == IF RingGrows THEN <<RingNext>> ELSE <<>>
           rg == [struck |-> D, radius |-> R, center |-> c.center, base |-> c.base, grows |-> c.grows,
                  over |-> ~RingGrows, among |-> AmongNow, passes |-> PassesNow + 1]
<1>1. /\ c \in RingType /\ work # <<>> /\ work \in Seq(Calls) /\ RingFresh \in SUBSET Enemies
      /\ s \in Seq(Simple) /\ s \in Seq(Calls) /\ r \in Seq(Calls) /\ RingNext.do = "ring"
      /\ s \o r \in Seq(Calls) /\ work' = (s \o r) \o t
  BY RingCalls
<1>2. c.do = "ring" /\ c.power \in Int /\ c.gain \in Int /\ c.stacks \in 0 .. centrifugeMaxStacks
      /\ centrifugeMaxStacks \in Nat
  BY <1>1, StrikesConstants DEF RingType
<1>3. /\ c.stacks = 0 => c.struck = {}
      /\ AmongNow \in SUBSET Enemies /\ Living \subseteq AmongNow /\ AmongNow \ c.struck \subseteq Living
      /\ c.stacks # 0 => c.grows
      /\ c.grows => \E g : /\ Grew(g, at, c.center, c.base, AmongNow)
                           /\ PassesNow \in Nat /\ PassesNow <= c.stacks
                           /\ g[PassesNow] = [r |-> R, stacks |-> c.stacks, reached |-> Cardinality(c.struck)]
      /\ c.struck \subseteq D
  BY RingBefore
<1>4. RingFresh = D \ c.struck /\ c.struck \cup RingFresh = D
  <2>1. RingFresh = {e \in Living : Within(at[e], c.center, R)} \ c.struck
    BY DEF RingFresh, InRadius, RingRadiusNow
  <2> HIDE DEF c, R
  <2> QED  BY <1>3, <2>1
<1>5. RingGrows <=> c.grows /\ RingFresh # {} /\ c.stacks < centrifugeMaxStacks
  BY DEF RingGrows
<1>6. ring' = rg
  <2>1. ring' = [struck |-> c.struck \cup RingFresh, radius |-> RingRadiusNow,
                 center |-> c.center, base |-> c.base, grows |-> c.grows, over |-> ~RingGrows,
                 among  |-> IF c.struck = {} /\ c.stacks = 0 THEN Living ELSE ring.among,
                 passes |-> IF c.stacks = 0 THEN 1 ELSE ring.passes + 1]
    BY RingStep
  <2>2. (IF c.struck = {} /\ c.stacks = 0 THEN Living ELSE ring.among) = AmongNow
    BY <1>3 DEF AmongNow
  <2>3. (IF c.stacks = 0 THEN 1 ELSE ring.passes + 1) = PassesNow + 1
    BY DEF PassesNow
  <2>4. RingRadiusNow = R
    BY DEF RingRadiusNow
  <2> HIDE DEF c, R, D
  <2> QED  BY <1>4, <2>1, <2>2, <2>3, <2>4
<1>7. at' = at /\ Living' = Living
  BY DEF Ring, Expand, places, Living
<1>8. LeechIn(work')
  <2>1. 1 \in 1 .. Len(work) /\ work[1].do = "ring"
    BY <1>1, <1>2, TailAt
  <2>2. LeechIn(work)
    BY <2>1 DEF Shape, RingIn
  <2>3. CallStep /\ ~Dot /\ ~Leech
    BY DEF CallStep, Ring, Dot, Leech, Doing
  <2> QED  BY <2>2, <2>3, ShapeStays
<1>9. Untouched(t) /\ t \in Seq(Calls)
  BY <1>1, <1>2, TailUntouched, HeadTailProperties
<1>10. ~RingIn(s)
  BY <1>1, SimpleShape
<1> HIDE DEF t
<1>11. CASE ~RingGrows
  <2>1. r = <<>>
    BY <1>11
  <2>2. s \o r = s
    BY <1>1, <2>1
  <2>3. Untouched(work')
    <3> HIDE DEF s, r
    <3>1. work' = s \o t
      BY <1>1, <2>2
    <3> QED  BY <1>1, <1>9, <1>10, <3>1, UntouchedConcat
  <2>4. ASSUME c.grows PROVE \E g : Disc(rg, at, g)
    <3>1. PICK g : /\ Grew(g, at, c.center, c.base, AmongNow)
                   /\ PassesNow \in Nat /\ PassesNow <= c.stacks
                   /\ g[PassesNow] = [r |-> R, stacks |-> c.stacks, reached |-> Cardinality(c.struck)]
      BY <1>3, <2>4
    <3>2. /\ PassesNow + 1 \in 1 .. centrifugeMaxStacks + 1 /\ g[PassesNow].r = R
          /\ g[PassesNow + 1] = g[PassesNow]
      <4>1. RingFresh = {} \/ c.stacks >= centrifugeMaxStacks
        BY <1>2, <1>5, <1>11, <2>4
      <4>2. D = {e \in AmongNow : Within(at[e], c.center, RingRadius(c.base, c.stacks))}
        OBVIOUS
      <4> HIDE DEF c, D
      <4>5. OnePass(c, at, AmongNow, g, PassesNow, D, RingFresh)
        BY <1>1, <1>3, <1>4, <3>1, <4>2 DEF OnePass
      <4> QED  BY <1>2, <3>1, <4>1, <4>5, LastPass
    <3>3. /\ rg.center = c.center /\ rg.base = c.base /\ rg.among = AmongNow /\ rg.passes = PassesNow + 1
          /\ rg.radius = R /\ rg.struck = D
      OBVIOUS
    <3>4. rg.passes - 1 = PassesNow
      BY <3>1, <3>3
    <3> HIDE DEF rg, R, c
    <3>5. rg.struck = {e \in rg.among : Within(at[e], rg.center, rg.radius)}
      BY <3>3
    <3> QED  BY <3>1, <3>2, <3>3, <3>4, <3>5 DEF Disc
  <2>5. rg.grows => \E g : Disc(rg, at, g)
    <3>1. rg.grows = c.grows
      OBVIOUS
    <3> HIDE DEF rg, c
    <3> QED  BY <2>4, <3>1
  <2> HIDE DEF rg
  <2>6. RingOK(rg, work', at, Living)
    BY <1>8, <2>3, <2>5, UntouchedRings
  <2> QED  BY <1>6, <1>7, <2>6 DEF RingInv
<1>12. CASE RingGrows
  <2> DEFINE x == RingNext
             n == Len(s) + 1
  <2>0. c.grows /\ RingFresh # {} /\ c.stacks < centrifugeMaxStacks
    BY <1>5, <1>12
  <2>1. PICK g : /\ Grew(g, at, c.center, c.base, AmongNow)
                 /\ PassesNow \in Nat /\ PassesNow <= c.stacks
                 /\ g[PassesNow] = [r |-> R, stacks |-> c.stacks, reached |-> Cardinality(c.struck)]
    BY <1>3, <2>0
  <2> DEFINE k == Stacked(c.stacks, Cardinality(RingFresh))
  <2>2. /\ PassesNow + 1 \in 1 .. centrifugeMaxStacks + 1 /\ g[PassesNow].r = R
        /\ g[PassesNow + 1] = [r |-> RingRadius(c.base, k), stacks |-> k, reached |-> Cardinality(D)]
        /\ k \in Nat /\ PassesNow + 1 <= k /\ R <= RingRadius(c.base, k)
    <3>1. D = {e \in AmongNow : Within(at[e], c.center, RingRadius(c.base, c.stacks))}
      OBVIOUS
    <3> HIDE DEF c, D
    <3>5. OnePass(c, at, AmongNow, g, PassesNow, D, RingFresh)
      BY <1>1, <1>3, <1>4, <2>1, <3>1 DEF OnePass
    <3>2. k = Stacked(c.stacks, Cardinality(RingFresh))
      OBVIOUS
    <3> HIDE DEF k
    <3> QED  BY <1>2, <2>0, <2>1, <3>2, <3>5, GrowingPass
  <2>3. /\ x.do = "ring" /\ x.grows = TRUE /\ x.struck = D /\ x.center = c.center /\ x.base = c.base
        /\ x.stacks = k
    BY <1>4 DEF RingNext, RingCall
  <2>4. /\ rg.center = c.center /\ rg.base = c.base /\ rg.among = AmongNow /\ rg.passes = PassesNow + 1
        /\ rg.radius = R /\ rg.struck = D /\ rg.grows /\ ~rg.over
    BY <1>12, <2>0
  <2>5. Runs(x)
    BY <2>1, <2>2, <2>3 DEF Runs
  <2>6. r = <<x>>
    BY <1>12
  <2>7. /\ n \in 1 .. Len(work') /\ work'[n] = x
        /\ \A j \in 1 .. Len(work') : j < n => j \in 1 .. Len(s) /\ work'[j] = s[j]
        /\ \A j \in 1 .. Len(work') : j > n => j - n \in 1 .. Len(t) /\ work'[j] = t[j - n]
    <3> HIDE DEF s, r, x
    <3>1. /\ Len(s \o r) = Len(s) + Len(r) /\ Len(s) \in Nat /\ Len(r) = 1 /\ r[1] = x
          /\ \A i \in 1 .. Len(s) : i \in 1 .. Len(s \o r) /\ (s \o r)[i] = s[i]
          /\ \A i \in 1 .. Len(r) : Len(s) + i \in 1 .. Len(s \o r) /\ (s \o r)[Len(s) + i] = r[i]
      BY <1>1, <2>6, ConcatAt
    <3> DEFINE q == s \o r
    <3>2. /\ q \in Seq(Calls) /\ Len(q) = n /\ n \in Nat /\ q[n] = x
          /\ \A i \in 1 .. Len(s) : q[i] = s[i]
      BY <1>1, <3>1
    <3> HIDE DEF q
    <3>3. work' = q \o t
      BY <1>1 DEF q
    <3>4. /\ Len(q \o t) = Len(q) + Len(t) /\ Len(t) \in Nat
          /\ \A i \in 1 .. Len(q) : i \in 1 .. Len(q \o t) /\ (q \o t)[i] = q[i]
          /\ \A i \in 1 .. Len(q \o t) : i \notin 1 .. Len(q) => i - Len(q) \in 1 .. Len(t) /\ (q \o t)[i] = t[i - Len(q)]
      BY <1>9, <3>2, ConcatAt
    <3> QED  BY <3>1, <3>2, <3>3, <3>4
  <2>8. \A j \in 1 .. Len(s) : s[j].do \in {"hit", "cc"} /\ s[j].who \in RingFresh
    BY <1>1, <1>2, RingStrikesWhom
  <2>9. \A i \in 1 .. Len(work') : work'[i].do = "ring" =>
           \/ i = n
           \/ ~Runs(work'[i]) /\ work'[i].struck = {} /\ work'[i].stacks = 0
    <3> TAKE i \in 1 .. Len(work')
    <3> HAVE work'[i].do = "ring"
    <3> HIDE DEF s
    <3>1. ASSUME i < n PROVE FALSE
      BY <2>7, <2>8, <3>1
    <3>2. ASSUME i > n PROVE ~Runs(work'[i]) /\ work'[i].struck = {} /\ work'[i].stacks = 0
      BY <1>9, <2>7, <3>2 DEF Untouched, Runs
    <3>3. i < n \/ i > n \/ i = n
      BY <2>7
    <3> QED  BY <3>1, <3>2, <3>3
  <2> HIDE DEF rg, R, c, x, s, k, D
  <2>10. Disc(rg, at, g)
    <3>1. rg.passes - 1 = PassesNow
      BY <2>1, <2>4
    <3>2. rg.struck = {e \in rg.among : Within(at[e], rg.center, rg.radius)}
      BY <2>4 DEF D
    <3> QED  BY <2>1, <2>2, <2>4, <3>1, <3>2 DEF Disc
  <2>11. NextPass(x, rg, g)
    BY <2>2, <2>3, <2>4 DEF NextPass
  <2>12. StrikesFirst(work', n, rg, Living)
    <3>1. AmongNow \ D \subseteq Living
      BY <1>3
    <3>2. \A j \in 1 .. Len(work') : j < n => work'[j].do \in {"hit", "cc"} /\ work'[j].who \in D
      BY <1>4, <2>7, <2>8
    <3> QED  BY <1>3, <2>4, <3>1, <3>2 DEF StrikesFirst
  <2>13. \A i \in 1 .. Len(work') : Runs(work'[i]) => i = n
    BY <2>9 DEF Runs
  <2>14. RingOK(rg, work', at, Living)
    <3>1. \A i \in 1 .. Len(work') : work'[i].do = "ring" /\ ~Runs(work'[i])
                                      => work'[i].struck = {} /\ work'[i].stacks = 0
      BY <2>5, <2>7, <2>9
    <3>2. \A i \in 1 .. Len(work') : Runs(work'[i]) => StrikesFirst(work', i, rg, Living)
      BY <2>12, <2>13
    <3>3. \A i \in 1 .. Len(work') : Runs(work'[i]) => NextPass(work'[i], rg, g)
      BY <2>7, <2>11, <2>13
    <3> QED  BY <1>8, <2>10, <3>1, <3>2, <3>3 DEF RingOK
  <2> QED  BY <1>6, <1>7, <2>14 DEF RingInv
<1> QED  BY <1>11, <1>12

(* Every step keeps what is recorded of the rings.                         *)
LEMMA RingStepInv ==
  ASSUME TypeOK, LeechInv, RingInv, [Next]_vars
  PROVE  RingInv'
<1>0. ring # NoRing => LeechIn(work)
  BY DEF RingInv, RingOK
<1>1. CASE UNCHANGED vars
  <2>1. work' = work /\ ring' = ring /\ at' = at /\ foe' = foe
    BY <1>1 DEF vars, strikeVars
  <2>2. Living' = Living
    BY <2>1 DEF Living
  <2> QED  BY <2>1, <2>2 DEF RingInv
<1>2. CASE PlacesStep \/ QuietStep \/ (Enter("decayRun") /\ DecayRun) \/ StrikingSystem
  <2>1. work = <<>>
    BY <1>2, StrikesBegin DEF PlacesStep, QuietStep, Enter
  <2>2. ring = NoRing
    BY <1>0, <2>1, NothingCalled
  <2>3. ring' = ring
    BY <1>2, StrikesBegin DEF PlacesStep, QuietStep, Aim, Part, Walk, BeginTick, CcDecayRun, EnemiesTurn,
                              DecayRun, history
  <2>4. Untouched(work')
    <3>1. CASE PlacesStep \/ QuietStep
      <4>1. work' = <<>>
        BY <2>1, <3>1 DEF PlacesStep, QuietStep, Aim, Part, Walk, BeginTick, CcDecayRun, EnemiesTurn
      <4> QED  BY <4>1 DEF Untouched
    <3>2. CASE Enter("decayRun") /\ DecayRun
      <4>1. work' \in Seq(DotType)
        BY <3>2, DecayRunCalls DEF Begin
      <4> QED  BY <4>1, DotsAreNoLeech DEF RingIn, Untouched
    <3>3. CASE StrikingSystem
      <4>1. PICK calls : Begin(calls) /\ Opening(calls)
        BY <3>3, StrikesBegin
      <4> QED  BY <4>1 DEF Begin, Opening, RingsFresh, Untouched
    <3> QED  BY <1>2, <3>1, <3>2, <3>3
  <2> QED  BY <2>2, <2>3, <2>4, NoDiscYet DEF RingInv
<1>3. CASE CallStep /\ system' = system /\ Dot
  <2>1. system = "decayRun" /\ work # <<>> /\ work' = Tail(work) /\ ring' = ring
    BY <1>3, DotsOnlyThere DEF Dot, Doing, history
  <2>2. work \in Seq(DotType) /\ work' \in Seq(DotType)
    BY <2>1, HeadTailProperties DEF TypeOK, WorkOK
  <2>3. ring' = NoRing
    BY <1>0, <2>1, <2>2, DotsAreNoLeech
  <2>4. Untouched(work')
    BY <2>2, DotsAreNoLeech DEF RingIn, Untouched
  <2> QED  BY <2>3, <2>4, NoDiscYet DEF RingInv
<1>4. CASE CallStep /\ system' = system /\ ~Dot
  <2>1. Shape(work)
    BY <1>4, OnlyDotsThere DEF LeechInv
  <2> QED  BY <1>4, <2>1, RingKeepsRings, StrikeKeepsRings, OtherCallsKeepRings DEF CallStep
<1> QED  BY <1>1, <1>2, <1>3, <1>4, StepKinds

(* The rings of a centrifuge end with everybody struck once who stood in   *)
(* the last circle, which is as large as the zone's rule says, in no more  *)
(* passes than there can be stacks, and one.                               *)
THEOREM RingsDoFillTheirDisc == Spec => []RingsFillTheirDisc
<1>1. Init => LeechInv /\ RingInv
  <2> SUFFICES ASSUME Init PROVE LeechInv /\ RingInv
    OBVIOUS
  <2>1. work = <<>> /\ ring = NoRing
    BY DEF Init, StrikesInit
  <2>2. Untouched(work)
    BY <2>1 DEF Untouched
  <2>3. RingInv
    BY <2>1, <2>2, NoDiscYet DEF RingInv
  <2> QED  BY <2>1, <2>3, NothingCalled DEF LeechInv
<1>2. TypeOK /\ LeechInv /\ RingInv /\ [Next]_vars => LeechInv' /\ RingInv'
  BY LeechStep, RingStepInv
<1>3. TypeOK /\ RingInv => RingsFillTheirDisc
  BY RingsSayTheRadius
<1> QED  BY <1>1, <1>2, <1>3, BattleTypes, PTL DEF Spec

===========================================================================
