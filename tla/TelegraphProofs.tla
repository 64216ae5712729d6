--------------------------- MODULE TelegraphProofs ---------------------------
(* Proofs that attacks keep what their telegraphs announce and keep their  *)
(* rhythm, for every number of enemies, every list of attack patterns and  *)
(* all the times that hero.json and enemies.json may set.                  *)
EXTENDS Telegraph, SequenceTheorems, WellFoundedInduction, TLAPS

(* Enemy e has its turn in the enemies' loop of this tick still to come.   *)
ToCome(e) == phase \in {"spawn", "effects", "qte", "hero"} \/ (phase = "enemy" /\ turn <= e)

Source(e) == qte.kind = "CrisisEvade" /\ qte.source = e

Phases == {"input", "spawn", "effects", "qte", "hero", "enemy"}

EnemyTypeOK ==
  /\ status \in [Enemy -> {"absent", "live", "dead", "gone"}]
  /\ loaded \in [Enemy -> Nat] /\ \A e \in Enemy : loaded[e] \in 1 .. Len(Pattern[e])
  /\ patternIndex \in [Enemy -> Nat] /\ \A e \in Enemy : patternIndex[e] \in 1 .. Len(Pattern[e])
  /\ attackCooldown \in [Enemy -> Nat]
  /\ windupLeft \in [Enemy -> Nat]

TypeOK ==
  /\ EnemyTypeOK
  /\ groggyLeft \in [Enemy -> Nat]
  /\ qte \in [kind : {"None", "SkillAmplify", "CrisisEvade"}, source : Enemy \cup {0},
              skill : Skill \cup {NoSkill}, left : Int, input : Grade, hasInput : BOOLEAN,
              shown : Nat]
  /\ phase \in Phases /\ turn \in 1 .. MaxEnemies + 1
  /\ hits \in [Enemy -> Nat] /\ rest \in [Enemy -> Nat]

(* While a crisis window is open, its source still winds up the attack     *)
(* that was announced: at its turn it has at least as many ticks to go as  *)
(* the window, stuns and range can only add to them.                       *)
WindowInv ==
  qte.kind = "CrisisEvade" =>
    /\ qte.source \in Enemy
    /\ status[qte.source] # "absent"
    /\ qte.left >= (IF phase \in {"hero", "enemy", "input"} THEN 1 ELSE 0)
    /\ status[qte.source] # "gone" => loaded[qte.source] = qte.shown
    /\ status[qte.source] = "live" =>
         windupLeft[qte.source] >= qte.left + (IF ToCome(qte.source) THEN 1 ELSE 0)

(* Whose attack is not in a window has rested at least as long as its      *)
(* cooldown has run down; a turn that finds it wound up costs no cooldown. *)
RestInv ==
  \A e \in Enemy :
    /\ status[e] = "absent" => rest[e] = RestCap(e)
    /\ status[e] = "live" /\ ~Source(e) =>
         rest[e] + attackCooldown[e] >=
           Interval(e) + (IF ToCome(e) /\ windupLeft[e] = 0 THEN 1 ELSE 0)

TelInv == TypeOK /\ WindowInv /\ RestInv
----------------------------------------------------------------------------
LEMMA Constants ==
  /\ MaxEnemies \in Nat /\ Enemy = 1 .. MaxEnemies /\ 0 \notin Enemy
  /\ GroggyTicks \in Nat /\ PerfectWindow \in Nat /\ QteCooldown \in Nat /\ HeroInterval \in Nat
  /\ \A e \in Enemy : e \in Int /\ 1 <= e /\ e <= MaxEnemies
BY TelegraphAssumption, SMT DEF TelegraphAssumption, Enemy

LEMMA Patterns ==
  ASSUME NEW e \in Enemy
  PROVE  /\ Len(Pattern[e]) \in Nat /\ Len(Pattern[e]) >= 1
         /\ DOMAIN Pattern[e] = 1 .. Len(Pattern[e])
         /\ \A i \in 1 .. Len(Pattern[e]) :
              Pattern[e][i].windup \in Nat /\ Pattern[e][i].cooldown \in Nat
<1>1. Pattern[e] \in Seq([windup : Nat, cooldown : Nat \ {0}]) /\ Pattern[e] # <<>>
  BY TelegraphAssumption DEF TelegraphAssumption
<1>2. Len(Pattern[e]) \in Nat /\ DOMAIN Pattern[e] = 1 .. Len(Pattern[e])
  BY <1>1
<1>3. Len(Pattern[e]) # 0
  BY <1>1
<1>4. \A i \in 1 .. Len(Pattern[e]) : Pattern[e][i] \in [windup : Nat, cooldown : Nat \ {0}]
  BY <1>1, ElementOfSeq
<1> QED BY <1>2, <1>3, <1>4

LEMMA LeastNatural ==
  ASSUME NEW T \in SUBSET Nat, T # {}
  PROVE  \E x \in T : \A y \in T : x <= y
<1>1. PICK x \in T : \A y \in T : ~ (<<y, x>> \in OpToRel(<, Nat))
  BY WFMin, NatLessThanWellFounded, Zenon
<1>2. ASSUME NEW y \in T PROVE x <= y
  <2>1. <<y, x>> \in Nat \X Nat /\ ~(<<y, x>> \in {ss \in Nat \X Nat : ss[1] < ss[2]})
    BY <1>1 DEF OpToRel
  <2> QED  BY <2>1
<1> QED  BY <1>2

(* The first numbers of a list have a largest one.                         *)
LEMMA LargestExists ==
  ASSUME NEW n \in Nat \ {0}, NEW f, \A i \in 1 .. n : f[i] \in Nat
  PROVE  \E m \in 1 .. n : \A i \in 1 .. n : f[i] <= f[m]
<1> DEFINE Has(k) == \E m \in 1 .. k : \A i \in 1 .. k : f[i] <= f[m]
           bad    == {k \in 1 .. n : ~Has(k)}
<1> SUFFICES ASSUME bad # {} PROVE FALSE
  <2>1. n \in 1 .. n
    OBVIOUS
  <2>2. Has(n)
    BY <2>1
  <2> QED BY <2>2
<1>1. bad \in SUBSET Nat
  OBVIOUS
<1>2. PICK k \in bad : \A y \in bad : k <= y
  BY <1>1, LeastNatural
<1>3. k # 1
  <2>1. Has(1)
    OBVIOUS
  <2> QED BY <2>1, <1>2
<1>4. k - 1 \in 1 .. n /\ k - 1 \notin bad /\ k \in 1 .. n
  <2>1. k \in 1 .. n
    BY <1>2
  <2>2. k - 1 \in 1 .. n /\ ~(k <= k - 1)
    BY <2>1, <1>3
  <2> HIDE DEF bad
  <2> QED BY <2>1, <2>2, <1>2
<1>5. PICK m \in 1 .. k - 1 : \A i \in 1 .. k - 1 : f[i] <= f[m]
  BY <1>4
<1>6. \A i \in 1 .. k : i \in 1 .. k - 1 \/ i = k
  BY <1>4
<1>7. f[m] \in Nat /\ f[k] \in Nat
  BY <1>4, <1>5
<1>8. \A i \in 1 .. k : f[i] \in Nat
  BY <1>4
<1>9. CASE f[k] <= f[m]
  <2>1. \A i \in 1 .. k : f[i] <= f[m]
    BY <1>5, <1>6, <1>9
  <2>2. m \in 1 .. k
    BY <1>4, <1>5
  <2> QED BY <2>1, <2>2, <1>2
<1>10. CASE ~(f[k] <= f[m])
  <2>1. ASSUME NEW i \in 1 .. k PROVE f[i] <= f[k]
    <3>1. CASE i = k
      BY <3>1, <1>7
    <3>2. CASE i \in 1 .. k - 1
      <4>1. f[i] <= f[m] /\ f[i] \in Nat
        BY <3>2, <1>5, <1>8
      <4> QED BY <4>1, <1>7, <1>10
    <3> QED BY <3>1, <3>2, <1>6
  <2>2. k \in 1 .. k
    BY <1>4
  <2> QED BY <2>1, <2>2, <1>2
<1> QED BY <1>9, <1>10

(* A history of rest counts beyond every cooldown.                         *)
LEMMA RestCapIs ==
  ASSUME NEW e \in Enemy
  PROVE  /\ RestCap(e) \in Nat
         /\ \A i \in 1 .. Len(Pattern[e]) : RestCap(e) >= Pattern[e][i].cooldown + 1
<1> DEFINE n == Len(Pattern[e])
           f == [i \in 1 .. n |-> Pattern[e][i].cooldown]
           C == {Pattern[e][i].cooldown : i \in DOMAIN Pattern[e]}
           P(c) == \A i \in DOMAIN Pattern[e] : Pattern[e][i].cooldown <= c
<1>1. n \in Nat \ {0} /\ DOMAIN Pattern[e] = 1 .. n /\ \A i \in 1 .. n : Pattern[e][i].cooldown \in Nat
  BY Patterns
<1>2. \A i \in 1 .. n : f[i] \in Nat
  BY <1>1
<1>3. \E m \in 1 .. n : \A i \in 1 .. n : f[i] <= f[m]
  <2> HIDE DEF f, n
  <2> QED BY <1>1, <1>2, LargestExists
<1>4. PICK m \in 1 .. n : \A i \in 1 .. n : Pattern[e][i].cooldown <= Pattern[e][m].cooldown
  BY <1>3
<1>5. Pattern[e][m].cooldown \in C /\ P(Pattern[e][m].cooldown)
  BY <1>1, <1>4
<1>6. (CHOOSE c \in C : P(c)) \in C /\ P(CHOOSE c \in C : P(c))
  <2> HIDE DEF C, P
  <2> QED BY <1>5
<1>7. RestCap(e) = 1 + (CHOOSE c \in C : P(c))
  BY DEF RestCap
<1>8. \A c \in C : c \in Nat
  BY <1>1
<1> HIDE DEF C
<1>9. PICK c : c = (CHOOSE d \in C : P(d))
  OBVIOUS
<1>10. c \in Nat /\ P(c) /\ RestCap(e) = 1 + c
  BY <1>6, <1>7, <1>8, <1>9
<1> QED BY <1>1, <1>10
----------------------------------------------------------------------------
LEMMA InitTelInv == Init => TelInv
<1> SUFFICES ASSUME Init PROVE TelInv
  OBVIOUS
<1>1. EnemyTypeOK
  <2>1. \A e \in Enemy : 1 \in 1 .. Len(Pattern[e])
    BY Patterns
  <2> QED BY <2>1 DEF Init, EnemyTypeOK
<1>2. rest \in [Enemy -> Nat] /\ \A e \in Enemy : rest[e] = RestCap(e)
  BY RestCapIs DEF Init
<1>3. TypeOK
  BY <1>1, <1>2, Constants DEF Init, TypeOK, Closed, Phases, Grade
<1>4. WindowInv
  BY DEF Init, WindowInv, Closed
<1>5. RestInv
  BY <1>2 DEF Init, RestInv
<1> QED BY <1>3, <1>4, <1>5 DEF TelInv

(* Every step keeps the types.                                             *)
LEMMA StunType ==
  ASSUME TypeOK, NEW S, Stun(S)
  PROVE  groggyLeft' \in [Enemy -> Nat]
BY Constants DEF TypeOK, Stun

LEMMA DieType ==
  ASSUME TypeOK, NEW S, Die(S)
  PROVE  status' \in [Enemy -> {"absent", "live", "dead", "gone"}]
BY DEF TypeOK, EnemyTypeOK, Die

LEMMA OpenSkillType ==
  ASSUME NEW s \in Skill, OpenSkill(s)
  PROVE  qte' \in [kind : {"None", "SkillAmplify", "CrisisEvade"}, source : Enemy \cup {0},
                   skill : Skill \cup {NoSkill}, left : Int, input : Grade, hasInput : BOOLEAN,
                   shown : Nat]
<1>1. 4 * PerfectWindow + 4 \in Int
  BY Constants
<1> QED BY <1>1 DEF OpenSkill, Closed, Grade

LEMMA ClosedType ==
  Closed \in [kind : {"None", "SkillAmplify", "CrisisEvade"}, source : Enemy \cup {0},
              skill : Skill \cup {NoSkill}, left : Int, input : Grade, hasInput : BOOLEAN,
              shown : Nat]
BY DEF Closed, Grade

LEMMA NextPatternType ==
  ASSUME TypeOK, NEW e \in Enemy
  PROVE  NextPattern(e) \in 1 .. Len(Pattern[e])
<1>1. Len(Pattern[e]) \in Nat /\ Len(Pattern[e]) >= 1 /\ patternIndex[e] \in Nat
  BY Patterns DEF TypeOK, EnemyTypeOK
<1>2. \A n \in Nat, l \in Nat : l >= 1 => n % l \in 0 .. l - 1
  BY SMT
<1>3. patternIndex[e] % Len(Pattern[e]) \in 0 .. Len(Pattern[e]) - 1
  BY <1>1, <1>2
<1> QED BY <1>1, <1>3 DEF NextPattern

LEMMA PatternTimes ==
  ASSUME TypeOK, NEW e \in Enemy
  PROVE  /\ Interval(e) \in Nat /\ RestCap(e) >= Interval(e) + 1 /\ RestCap(e) \in Nat
         /\ NextWindup(e) \in Nat /\ Pattern[e][patternIndex[e]].cooldown \in Nat
         /\ RestCap(e) >= Pattern[e][patternIndex[e]].cooldown + 1
BY Patterns, RestCapIs DEF TypeOK, EnemyTypeOK, Interval, NextWindup

(* The tables of the enemies.                                              *)
LEMMA NextEnemyType == TypeOK /\ [Next]_vars => EnemyTypeOK'
<1> SUFFICES ASSUME TypeOK, [Next]_vars PROVE EnemyTypeOK'
  OBVIOUS
<1> USE DEF EnemyTypeOK
<1>1. EnemyTypeOK
  BY DEF TypeOK
<1>2. CASE UNCHANGED enemyVars
  BY <1>1, <1>2 DEF enemyVars
<1>3. ASSUME NEW S, Die(S), UNCHANGED <<loaded, patternIndex, attackCooldown, windupLeft>>
      PROVE  EnemyTypeOK'
  BY <1>1, <1>3, DieType
<1>4. CASE SpawnRun
  <2>1. \A e \in Enemy : Interval(e) \in Nat
    BY PatternTimes
  <2>2. attackCooldown' \in [Enemy -> Nat]
    BY <1>1, <1>4, <2>1 DEF SpawnRun
  <2>3. status' \in [Enemy -> {"absent", "live", "dead", "gone"}]
    BY <1>1, <1>4 DEF SpawnRun
  <2> QED BY <1>1, <1>4, <2>2, <2>3 DEF SpawnRun
<1>5. CASE QteCrisis
  <2>1. CASE qte.source \in Enemy
    <3>1. Interval(qte.source) \in Nat
      BY <2>1, PatternTimes
    <3>2. attackCooldown' \in [Enemy -> Nat]
      BY <1>1, <1>5, <3>1 DEF QteCrisis, Attacked, Restart
    <3> QED BY <1>1, <1>5, <3>2 DEF QteCrisis
  <2>2. CASE qte.source \notin Enemy
    <3>1. attackCooldown' = attackCooldown
      BY <1>1, <1>5, <2>2 DEF QteCrisis, Attacked, Restart
    <3> QED BY <1>1, <1>5, <3>1 DEF QteCrisis
  <2> QED BY <2>1, <2>2
<1>6. ASSUME NEW e \in Enemy, EnemyTurn(e) PROVE EnemyTypeOK'
  <2>1. CASE EnemyAbsent(e) \/ EnemyFar(e) \/ EnemyGroggy(e)
    BY <1>1, <2>1 DEF EnemyAbsent, EnemyFar, EnemyGroggy, enemyVars
  <2>2. CASE EnemyWindsUp(e)
    <3>1. windupLeft' \in [Enemy -> Nat]
      BY <1>1, <2>2 DEF EnemyWindsUp
    <3> QED BY <1>1, <2>2, <3>1 DEF EnemyWindsUp
  <2>3. CASE EnemyCoolsDown(e)
    <3>1. attackCooldown' \in [Enemy -> Nat]
      BY <1>1, <2>3 DEF EnemyCoolsDown
    <3> QED BY <1>1, <2>3, <3>1 DEF EnemyCoolsDown
  <2>4. ASSUME Ready(e)
        PROVE  /\ loaded' \in [Enemy -> Nat] /\ \A f \in Enemy : loaded'[f] \in 1 .. Len(Pattern[f])
               /\ patternIndex' \in [Enemy -> Nat]
               /\ \A f \in Enemy : patternIndex'[f] \in 1 .. Len(Pattern[f])
    <3>1. NextPattern(e) \in Nat /\ NextPattern(e) \in 1 .. Len(Pattern[e])
      BY NextPatternType, Patterns
    <3>2. /\ loaded' = [loaded EXCEPT ![e] = patternIndex[e]]
          /\ patternIndex' = [patternIndex EXCEPT ![e] = NextPattern(e)]
      BY <2>4 DEF Ready
    <3> QED BY <1>1, <3>1, <3>2
  <2>5. CASE EnemyAnnounces(e)
    <3>1. NextWindup(e) \in Nat
      BY PatternTimes
    <3>2. windupLeft' \in [Enemy -> Nat]
      BY <1>1, <2>5, <3>1 DEF EnemyAnnounces, BeginWindup
    <3> QED BY <1>1, <2>4, <2>5, <3>2 DEF EnemyAnnounces
  <2>6. CASE EnemyHits(e)
    <3>1. Pattern[e][patternIndex[e]].cooldown \in Nat
      BY PatternTimes
    <3>2. attackCooldown' \in [Enemy -> Nat]
      BY <1>1, <2>6, <3>1 DEF EnemyHits
    <3> QED BY <1>1, <2>4, <2>6, <3>2 DEF EnemyHits
  <2> QED BY <1>6, <2>1, <2>2, <2>3, <2>5, <2>6 DEF EnemyTurn
<1>7. CASE EndTick
  <2>1. /\ status' = Dropped(status, "gone") /\ loaded' = Dropped(loaded, 1)
        /\ patternIndex' = Dropped(patternIndex, 1) /\ attackCooldown' = Dropped(attackCooldown, 0)
        /\ windupLeft' = Dropped(windupLeft, 0)
    BY <1>7 DEF EndTick
  <2>2. \A e \in Enemy : 1 \in 1 .. Len(Pattern[e])
    BY Patterns
  <2> QED BY <1>1, <2>1, <2>2 DEF Dropped
<1>8. CASE UNCHANGED vars
  BY <1>2, <1>8 DEF vars
<1>9. CASE \E g \in Grade : InputQte(g)
  BY <1>2, <1>9 DEF InputQte
<1>10. CASE BeginTick \/ QteWaits \/ QteSourceGone \/ HeroWaits
  BY <1>2, <1>10 DEF BeginTick, QteWaits, QteSourceGone, HeroWaits
<1>11. CASE EffectsRun \/ QteSkill \/ HeroStrikes
  BY <1>3, <1>11 DEF EffectsRun, QteSkill, HeroStrikes
<1>12. CASE \E s \in Skill : HeroProcsQte(s) \/ HeroProcsSkill(s)
  BY <1>3, <1>12 DEF HeroProcsQte, HeroProcsSkill
<1> QED BY <1>4, <1>5, <1>6, <1>7, <1>8, <1>9, <1>10, <1>11, <1>12 DEF Next, Tick, QteRun

(* The rest of the state.                                                  *)
LEMMA NextTypeOK == TypeOK /\ [Next]_vars => TypeOK'
<1> SUFFICES ASSUME TypeOK, [Next]_vars PROVE TypeOK'
  OBVIOUS
<1>1. EnemyTypeOK'
  BY NextEnemyType
<1> DEFINE Window == [kind : {"None", "SkillAmplify", "CrisisEvade"}, source : Enemy \cup {0},
                      skill : Skill \cup {NoSkill}, left : Int, input : Grade,
                      hasInput : BOOLEAN, shown : Nat]
<1>2. /\ groggyLeft \in [Enemy -> Nat] /\ qte \in Window /\ phase \in Phases
      /\ turn \in 1 .. MaxEnemies + 1 /\ hits \in [Enemy -> Nat] /\ rest \in [Enemy -> Nat]
  BY DEF TypeOK
<1>3. /\ 1 \in 1 .. MaxEnemies + 1 /\ {"input", "spawn", "effects", "qte", "hero", "enemy"} = Phases
      /\ \A e \in Enemy : e + 1 \in 1 .. MaxEnemies + 1
  BY Constants DEF Phases
<1>4. Closed \in Window
  BY ClosedType
<1>5. ASSUME NEW s \in Skill, OpenSkill(s) PROVE qte' \in Window
  BY <1>5, OpenSkillType
<1> SUFFICES /\ groggyLeft' \in [Enemy -> Nat] /\ qte' \in Window /\ phase' \in Phases
             /\ turn' \in 1 .. MaxEnemies + 1
             /\ hits' \in [Enemy -> Nat] /\ rest' \in [Enemy -> Nat]
  BY <1>1 DEF TypeOK
<1>6. CASE \E g \in Grade : InputQte(g)
  <2> PICK g \in Grade : InputQte(g)
    BY <1>6
  <2>1. Judge(g) \in Grade
    BY DEF Judge, Grade
  <2>2. qte' = [qte EXCEPT !.input = Judge(g), !.hasInput = TRUE]
    BY DEF InputQte
  <2>3. qte' \in Window
    BY <1>2, <2>1, <2>2
  <2> QED BY <1>2, <2>3 DEF InputQte, enemyVars, history
<1>7. CASE BeginTick
  <2>1. rest' \in [Enemy -> Nat] /\ hits' \in [Enemy -> Nat]
    BY <1>2, <1>7 DEF BeginTick, CountTo
  <2>2. qte' \in Window
    <3>1. qte.left - 1 \in Int
      BY <1>2
    <3> QED BY <1>2, <1>7, <3>1 DEF BeginTick
  <2> QED BY <1>2, <1>3, <1>7, <2>1, <2>2 DEF BeginTick, enemyVars
<1>8. CASE SpawnRun
  BY <1>2, <1>3, <1>8 DEF SpawnRun, heroVars, history
<1>9. CASE EffectsRun
  BY <1>2, <1>3, <1>9 DEF EffectsRun, heroVars, history
<1>10. CASE QteWaits \/ QteSourceGone
  BY <1>2, <1>3, <1>4, <1>10 DEF QteWaits, QteSourceGone, QteTurn, enemyVars, history
<1>11. CASE QteSkill
  BY <1>2, <1>3, <1>4, <1>11, StunType DEF QteSkill, QteTurn, history
<1>12. CASE QteCrisis
  <2>1. hits' \in [Enemy -> Nat] /\ rest' \in [Enemy -> Nat]
    <3>1. CASE qte.source \in Enemy
      <4>1. hits[qte.source] + 1 \in Nat
        BY <1>2, <3>1
      <4> QED BY <1>2, <1>12, <4>1 DEF QteCrisis, Attacked
    <3>2. CASE qte.source \notin Enemy
      <4>1. rest' = rest
        BY <1>2, <1>12, <3>2 DEF QteCrisis, Attacked
      <4>2. hits' = hits
        BY <1>2, <1>12, <3>2 DEF QteCrisis
      <4> QED BY <1>2, <4>1, <4>2
    <3> QED BY <3>1, <3>2
  <2> QED BY <1>2, <1>3, <1>4, <1>12, <2>1, StunType DEF QteCrisis, QteTurn
<1>13. CASE HeroWaits \/ HeroStrikes
  BY <1>2, <1>3, <1>13 DEF HeroWaits, HeroStrikes, HeroAttack, enemyVars, history
<1>14. ASSUME NEW s \in Skill, HeroProcsQte(s) \/ HeroProcsSkill(s)
       PROVE  /\ groggyLeft' \in [Enemy -> Nat] /\ qte' \in Window /\ phase' \in Phases
              /\ turn' \in 1 .. MaxEnemies + 1
              /\ hits' \in [Enemy -> Nat] /\ rest' \in [Enemy -> Nat]
  <2>1. CASE HeroProcsQte(s)
    BY <1>2, <1>3, <1>5, <2>1 DEF HeroProcsQte, HeroAttack
  <2>2. CASE HeroProcsSkill(s)
    BY <1>2, <1>3, <2>2, StunType DEF HeroProcsSkill, HeroAttack, history
  <2> QED BY <1>14, <2>1, <2>2
<1>15. ASSUME NEW e \in Enemy, EnemyTurn(e)
       PROVE  /\ groggyLeft' \in [Enemy -> Nat] /\ qte' \in Window /\ phase' \in Phases
              /\ turn' \in 1 .. MaxEnemies + 1
              /\ hits' \in [Enemy -> Nat] /\ rest' \in [Enemy -> Nat]
  <2>1. CASE EnemyAbsent(e) \/ EnemyFar(e) \/ EnemyWindsUp(e) \/ EnemyCoolsDown(e)
    BY <1>2, <1>3, <2>1 DEF EnemyAbsent, EnemyFar, EnemyWindsUp, EnemyCoolsDown, Awake, Turn,
                            enemyVars, heroVars, history
  <2>2. CASE EnemyGroggy(e)
    <3>1. groggyLeft[e] - 1 \in Nat
      BY <1>2, <2>2 DEF EnemyGroggy
    <3>2. groggyLeft' \in [Enemy -> Nat]
      BY <1>2, <2>2, <3>1 DEF EnemyGroggy
    <3> QED BY <1>2, <1>3, <2>2, <3>2 DEF EnemyGroggy, Turn, heroVars, history
  <2>3. CASE EnemyAnnounces(e)
    <3>1. NextWindup(e) \in Nat /\ patternIndex[e] \in Nat
      BY PatternTimes DEF TypeOK, EnemyTypeOK
    <3>2. OpenCrisis(e, patternIndex[e], NextWindup(e))
      BY <2>3 DEF EnemyAnnounces
    <3>3. qte' = [kind |-> "CrisisEvade", source |-> e, skill |-> NoSkill, left |-> NextWindup(e),
                  input |-> "Miss", hasInput |-> FALSE, shown |-> patternIndex[e]]
      BY <3>2 DEF OpenCrisis, Closed
    <3>4. qte' \in Window
      BY <3>1, <3>3 DEF Grade
    <3> QED BY <1>2, <1>3, <2>3, <3>4 DEF EnemyAnnounces, Ready, Awake, Turn
  <2>4. CASE EnemyHits(e)
    <3>1. hits' \in [Enemy -> Nat] /\ rest' \in [Enemy -> Nat]
      BY <1>2, <2>4 DEF EnemyHits
    <3> QED BY <1>2, <1>3, <2>4, <3>1 DEF EnemyHits, Ready, Awake, Turn, heroVars
  <2> QED BY <1>15, <2>1, <2>2, <2>3, <2>4 DEF EnemyTurn
<1>16. CASE EndTick
  <2>1. groggyLeft' \in [Enemy -> Nat]
    BY <1>2, <1>16 DEF EndTick, Dropped
  <2> QED BY <1>2, <1>3, <1>16, <2>1 DEF EndTick, heroVars, history
<1>17. CASE UNCHANGED vars
  BY <1>2, <1>17 DEF vars, enemyVars, heroVars, history
<1> HIDE DEF Window
<1> QED BY <1>6, <1>7, <1>8, <1>9, <1>10, <1>11, <1>12, <1>13, <1>14, <1>15, <1>16, <1>17
        DEF Next, Tick, QteRun

(* The steps that touch no windup, no cooldown and no rest, open no crisis *)
(* window and resolve none.                                                *)
Quiet ==
  /\ UNCHANGED <<loaded, attackCooldown, windupLeft, rest>>
  /\ \A e \in Enemy : status'[e] = status[e] \/ (status[e] = "live" /\ status'[e] = "dead")
  /\ \A e \in Enemy : ToCome(e)' => ToCome(e)
  /\ qte'.kind = "CrisisEvade" <=> qte.kind = "CrisisEvade"
  /\ qte.kind = "CrisisEvade" =>
       /\ qte'.source = qte.source /\ qte'.left = qte.left /\ qte'.shown = qte.shown
       /\ phase' \in {"hero", "enemy", "input"} => qte.left >= 1

LEMMA QuietTelInv ==
  ASSUME TelInv, TypeOK', Quiet
  PROVE  TelInv'
<1>1. WindowInv'
  <2> SUFFICES ASSUME qte'.kind = "CrisisEvade"
               PROVE  /\ qte'.source \in Enemy
                      /\ status'[qte'.source] # "absent"
                      /\ qte'.left >= (IF phase' \in {"hero", "enemy", "input"} THEN 1 ELSE 0)
                      /\ status'[qte'.source] # "gone" => loaded'[qte'.source] = qte'.shown
                      /\ status'[qte'.source] = "live" =>
                           windupLeft'[qte'.source] >= qte'.left + (IF ToCome(qte.source)' THEN 1 ELSE 0)
    BY DEF WindowInv
  <2>1. PICK e \in Enemy : e = qte.source
    BY DEF TelInv, WindowInv, Quiet
  <2>2. /\ qte'.source = e /\ qte'.left = qte.left /\ qte'.shown = qte.shown
        /\ status[e] # "absent" /\ (status[e] # "gone" => loaded[e] = qte.shown)
        /\ status[e] = "live" => windupLeft[e] >= qte.left + (IF ToCome(e) THEN 1 ELSE 0)
        /\ qte.left >= 0 /\ (phase' \in {"hero", "enemy", "input"} => qte.left >= 1)
        /\ qte.left \in Int /\ windupLeft[e] \in Nat
    BY <2>1 DEF TelInv, WindowInv, Quiet, TypeOK, EnemyTypeOK
  <2>3. /\ status'[e] = status[e] \/ (status[e] = "live" /\ status'[e] = "dead")
        /\ ToCome(e)' => ToCome(e)
        /\ loaded' = loaded /\ windupLeft' = windupLeft
    BY DEF Quiet
  <2>4. status'[e] # "absent" /\ (status'[e] # "gone" => loaded'[e] = qte'.shown)
    BY <2>2, <2>3
  <2>5. status'[e] = "live" => windupLeft'[e] >= qte'.left + (IF ToCome(e)' THEN 1 ELSE 0)
    BY <2>2, <2>3
  <2>6. qte'.left >= (IF phase' \in {"hero", "enemy", "input"} THEN 1 ELSE 0)
    BY <2>2
  <2>7. ToCome(qte.source)' <=> ToCome(e)'
    BY <2>2 DEF ToCome
  <2> QED BY <2>2, <2>4, <2>5, <2>6, <2>7
<1>2. RestInv'
  <2> SUFFICES ASSUME NEW e \in Enemy
               PROVE  /\ status'[e] = "absent" => rest'[e] = RestCap(e)
                      /\ status'[e] = "live" /\ ~Source(e)' =>
                           rest'[e] + attackCooldown'[e] >=
                             Interval(e)' + (IF ToCome(e)' /\ windupLeft'[e] = 0 THEN 1 ELSE 0)
    BY DEF RestInv
  <2>1. /\ status[e] = "absent" => rest[e] = RestCap(e)
        /\ status[e] = "live" /\ ~Source(e) =>
             rest[e] + attackCooldown[e] >=
               Interval(e) + (IF ToCome(e) /\ windupLeft[e] = 0 THEN 1 ELSE 0)
        /\ rest[e] \in Nat /\ attackCooldown[e] \in Nat /\ Interval(e) \in Nat
    BY PatternTimes DEF TelInv, RestInv, TypeOK, EnemyTypeOK
  <2>2. /\ Interval(e)' = Interval(e) /\ rest' = rest /\ attackCooldown' = attackCooldown
        /\ windupLeft' = windupLeft
    BY DEF Quiet, Interval
  <2>3. Source(e)' <=> Source(e)
    BY DEF Quiet, Source
  <2>4. /\ status'[e] = status[e] \/ (status[e] = "live" /\ status'[e] = "dead")
        /\ ToCome(e)' => ToCome(e)
    BY DEF Quiet
  <2> QED BY <2>1, <2>2, <2>3, <2>4
<1> QED BY <1>1, <1>2 DEF TelInv
----------------------------------------------------------------------------
(* The steps that do.  Each goal is stated for one enemy.                  *)
WindowFor(e) ==
  Source(e) =>
    /\ status[e] # "absent"
    /\ qte.left >= (IF phase \in {"hero", "enemy", "input"} THEN 1 ELSE 0)
    /\ status[e] # "gone" => loaded[e] = qte.shown
    /\ status[e] = "live" => windupLeft[e] >= qte.left + (IF ToCome(e) THEN 1 ELSE 0)

RestFor(e) ==
  /\ status[e] = "absent" => rest[e] = RestCap(e)
  /\ status[e] = "live" /\ ~Source(e) =>
       rest[e] + attackCooldown[e] >= Interval(e) + (IF ToCome(e) /\ windupLeft[e] = 0 THEN 1 ELSE 0)

SourceIsEnemy == qte.kind = "CrisisEvade" => qte.source \in Enemy

LEMMA ByEnemy ==
  TelInv <=> TypeOK /\ SourceIsEnemy /\ \A e \in Enemy : WindowFor(e) /\ RestFor(e)
<1>1. RestInv <=> \A e \in Enemy : RestFor(e)
  BY DEF RestInv, RestFor
<1>2. WindowInv <=> SourceIsEnemy /\ \A e \in Enemy : WindowFor(e)
  BY DEF WindowInv, SourceIsEnemy, WindowFor, Source
<1> QED BY <1>1, <1>2 DEF TelInv

LEMMA ByEnemyNext ==
  ASSUME TypeOK', SourceIsEnemy', \A e \in Enemy : WindowFor(e)' /\ RestFor(e)'
  PROVE  TelInv'
<1>1. RestInv'
  BY DEF RestInv, RestFor
<1>2. WindowInv'
  BY DEF WindowInv, SourceIsEnemy, WindowFor, Source
<1> QED BY <1>1, <1>2 DEF TelInv

LEMMA Types ==
  ASSUME TelInv, NEW e \in Enemy
  PROVE  /\ WindowFor(e) /\ RestFor(e) /\ SourceIsEnemy
         /\ windupLeft[e] \in Nat /\ attackCooldown[e] \in Nat /\ rest[e] \in Nat
         /\ hits[e] \in Nat /\ qte.left \in Int
         /\ Interval(e) \in Nat /\ RestCap(e) >= Interval(e) + 1 /\ RestCap(e) \in Nat
         /\ e \in 1 .. MaxEnemies /\ turn \in 1 .. MaxEnemies + 1 /\ MaxEnemies \in Nat
<1>1. TypeOK /\ WindowFor(e) /\ RestFor(e) /\ SourceIsEnemy
  BY ByEnemy
<1> QED BY <1>1, PatternTimes, Constants DEF TypeOK, EnemyTypeOK

LEMMA BeginTickTelInv ==
  ASSUME TelInv, TypeOK', BeginTick
  PROVE  TelInv'
<1>1. /\ phase = "input" /\ phase' = "spawn" /\ UNCHANGED enemyVars
      /\ qte'.kind = qte.kind /\ qte'.source = qte.source /\ qte'.shown = qte.shown
      /\ qte'.left = (IF Open /\ qte.left > -1 THEN qte.left - 1 ELSE qte.left)
      /\ rest' = [e \in Enemy |-> CountTo(RestCap(e), rest[e])]
  BY DEF BeginTick, TelInv, TypeOK
<1>2. SourceIsEnemy'
  BY <1>1, ByEnemy DEF SourceIsEnemy
<1>3. ASSUME NEW e \in Enemy PROVE WindowFor(e)' /\ RestFor(e)'
  <2>1. /\ WindowFor(e) /\ RestFor(e)
        /\ windupLeft[e] \in Nat /\ attackCooldown[e] \in Nat /\ rest[e] \in Nat /\ qte.left \in Int
        /\ Interval(e) \in Nat /\ RestCap(e) >= Interval(e) + 1 /\ RestCap(e) \in Nat
    BY Types
  <2>2. /\ ~ToCome(e) /\ ToCome(e)' /\ (Source(e)' <=> Source(e)) /\ Interval(e)' = Interval(e)
        /\ UNCHANGED <<status, loaded, attackCooldown, windupLeft>>
    BY <1>1 DEF ToCome, Source, enemyVars, Interval
  <2>3. WindowFor(e)'
    <3> SUFFICES ASSUME Source(e)' PROVE WindowFor(e)'
      BY DEF WindowFor
    <3>1. /\ status[e] # "absent" /\ qte.left >= 1
          /\ status[e] # "gone" => loaded[e] = qte.shown
          /\ status[e] = "live" => windupLeft[e] >= qte.left
      BY <1>1, <2>1, <2>2 DEF WindowFor
    <3>2. qte'.left = qte.left - 1
      BY <1>1, <2>1, <2>2, <3>1 DEF Source, Open
    <3>3. qte'.left >= 0 /\ (status[e] = "live" => windupLeft[e] >= qte'.left + 1)
      BY <2>1, <3>1, <3>2
    <3> QED BY <1>1, <2>2, <3>1, <3>3 DEF WindowFor
  <2>4. RestFor(e)'
    <3>1. rest'[e] = CountTo(RestCap(e), rest[e])
      BY <1>1
    <3>2. status[e] = "absent" => rest'[e] = RestCap(e)
      BY <2>1, <3>1 DEF RestFor, CountTo
    <3>3. ASSUME status[e] = "live", ~Source(e)
          PROVE  rest'[e] + attackCooldown[e] >= Interval(e) + 1
      <4>1. rest[e] + attackCooldown[e] >= Interval(e)
        BY <2>1, <2>2, <3>3 DEF RestFor
      <4>2. CASE rest[e] < RestCap(e)
        BY <2>1, <3>1, <4>1, <4>2 DEF CountTo
      <4>3. CASE ~(rest[e] < RestCap(e))
        BY <2>1, <3>1, <4>3 DEF CountTo
      <4> QED BY <4>2, <4>3
    <3>4. rest'[e] \in Nat
      BY DEF TypeOK
    <3> QED BY <2>1, <2>2, <3>2, <3>3, <3>4 DEF RestFor
  <2> QED BY <2>3, <2>4
<1> QED BY <1>2, <1>3, ByEnemyNext

LEMMA SpawnRunTelInv ==
  ASSUME TelInv, TypeOK', SpawnRun
  PROVE  TelInv'
<1>1. PICK n \in 0 .. MaxEnemies :
        LET new == {e \in Enemy : e <= n /\ status[e] = "absent"}
        IN  /\ status' = [e \in Enemy |-> IF e \in new THEN "live" ELSE status[e]]
            /\ attackCooldown' = [e \in Enemy |-> IF e \in new THEN Interval(e) ELSE attackCooldown[e]]
  BY DEF SpawnRun
<1>2. /\ phase = "spawn" /\ phase' = "effects"
      /\ UNCHANGED <<loaded, windupLeft, qte, turn, rest>>
  BY DEF SpawnRun, heroVars, history
<1>3. SourceIsEnemy'
  BY <1>2, ByEnemy DEF SourceIsEnemy
<1>4. ASSUME NEW e \in Enemy PROVE WindowFor(e)' /\ RestFor(e)'
  <2>1. /\ WindowFor(e) /\ RestFor(e)
        /\ windupLeft[e] \in Nat /\ attackCooldown[e] \in Nat /\ rest[e] \in Nat /\ qte.left \in Int
        /\ Interval(e) \in Nat /\ RestCap(e) >= Interval(e) + 1 /\ RestCap(e) \in Nat
    BY Types
  <2>2. /\ ToCome(e) /\ ToCome(e)' /\ (Source(e)' <=> Source(e)) /\ Interval(e)' = Interval(e)
    BY <1>2 DEF ToCome, Source, Interval
  <2>3. CASE status[e] = "absent" /\ e <= n
    <3>1. status'[e] = "live" /\ attackCooldown'[e] = Interval(e)
      BY <1>1, <2>3
    <3>2. ~Source(e)
      BY <2>1, <2>3 DEF WindowFor
    <3>3. rest'[e] = RestCap(e)
      BY <1>2, <2>1, <2>3 DEF RestFor
    <3>4. rest'[e] + attackCooldown'[e] >= Interval(e) + 1
      BY <2>1, <3>1, <3>3
    <3> QED BY <2>1, <2>2, <3>1, <3>2, <3>3, <3>4 DEF WindowFor, RestFor
  <2>4. CASE ~(status[e] = "absent" /\ e <= n)
    <3>1. status'[e] = status[e] /\ attackCooldown'[e] = attackCooldown[e]
      BY <1>1, <2>4
    <3> QED BY <1>2, <2>1, <2>2, <3>1 DEF WindowFor, RestFor
  <2> QED BY <2>3, <2>4
<1> QED BY <1>3, <1>4, ByEnemyNext

(* The window of a source that is gone closes without a verdict.           *)
LEMMA QteSourceGoneTelInv ==
  ASSUME TelInv, TypeOK', QteSourceGone
  PROVE  TelInv'
<1>1. /\ phase = "qte" /\ phase' = "hero" /\ qte' = Closed
      /\ status[qte.source] = "gone"
      /\ UNCHANGED <<status, loaded, attackCooldown, windupLeft, turn, rest>>
  BY DEF QteSourceGone, QteTurn, enemyVars, history
<1>2. qte'.kind # "CrisisEvade"
  BY <1>1 DEF Closed
<1>3. ASSUME NEW e \in Enemy PROVE WindowFor(e)' /\ RestFor(e)'
  <2>1. RestFor(e) /\ ToCome(e) /\ ToCome(e)' /\ Interval(e)' = Interval(e) /\ ~Source(e)'
    BY <1>1, <1>2, Types DEF ToCome, Interval, Source
  <2>2. Source(e) => status[e] = "gone"
    BY <1>1 DEF Source
  <2> QED BY <1>1, <2>1, <2>2 DEF WindowFor, RestFor
<1> QED BY <1>2, <1>3, ByEnemyNext DEF SourceIsEnemy

(* A verdict ends the attack that was announced: the source is still wound *)
(* up, so its turn in this tick costs no cooldown.                         *)
LEMMA QteCrisisTelInv ==
  ASSUME TelInv, TypeOK', QteCrisis
  PROVE  TelInv'
<1>1. PICK s \in Enemy : s = qte.source
  BY ByEnemy DEF QteCrisis, SourceIsEnemy
<1>2. /\ phase = "qte" /\ phase' = "hero" /\ qte' = Closed
      /\ qte.kind = "CrisisEvade" /\ status[s] # "gone" /\ qte.left <= 0
      /\ rest' = [rest EXCEPT ![s] = 0]
      /\ attackCooldown' = [attackCooldown EXCEPT ![s] = Interval(s)]
      /\ UNCHANGED <<status, loaded, windupLeft, turn>>
  BY <1>1 DEF QteCrisis, QteTurn, Attacked, Restart, Due
<1>3. qte'.kind # "CrisisEvade"
  BY <1>2 DEF Closed
<1>4. ASSUME NEW e \in Enemy PROVE WindowFor(e)' /\ RestFor(e)'
  <2>1. /\ WindowFor(e) /\ RestFor(e)
        /\ windupLeft[e] \in Nat /\ attackCooldown[e] \in Nat /\ rest[e] \in Nat /\ qte.left \in Int
        /\ Interval(e) \in Nat
    BY Types
  <2>2. ToCome(e) /\ ToCome(e)' /\ Interval(e)' = Interval(e) /\ ~Source(e)'
    BY <1>2, <1>3 DEF ToCome, Interval, Source
  <2>3. DOMAIN rest = Enemy /\ DOMAIN attackCooldown = Enemy
    BY DEF TelInv, TypeOK, EnemyTypeOK
  <2>4. CASE e = s
    <3>1. Source(e)
      BY <1>1, <1>2, <2>4 DEF Source
    <3>2. status[e] # "absent" /\ (status[e] = "live" => windupLeft[e] >= 1)
      BY <2>1, <2>2, <3>1, <1>2 DEF WindowFor
    <3>3. rest'[e] = 0 /\ attackCooldown'[e] = Interval(e)
      BY <1>2, <2>3, <2>4
    <3>4. status[e] = "live" => windupLeft[e] # 0
      BY <2>1, <3>2
    <3>5. 0 + Interval(e) >= Interval(e) + 0
      BY <2>1
    <3> QED BY <1>2, <2>2, <3>2, <3>3, <3>4, <3>5 DEF WindowFor, RestFor
  <2>5. CASE e # s
    <3>1. rest'[e] = rest[e] /\ attackCooldown'[e] = attackCooldown[e] /\ ~Source(e)
      BY <1>1, <1>2, <2>3, <2>5 DEF Source
    <3> QED BY <1>2, <2>1, <2>2, <3>1 DEF WindowFor, RestFor
  <2> QED BY <2>4, <2>5
<1> QED BY <1>3, <1>4, ByEnemyNext DEF SourceIsEnemy

(* The loop goes on by one enemy.                                          *)
LEMMA TurnMoves ==
  ASSUME NEW e \in Enemy, NEW f \in Enemy, Turn(e), phase' = phase
  PROVE  /\ phase = "enemy" /\ ToCome(e) /\ ~ToCome(e)'
         /\ f # e => (ToCome(f)' <=> ToCome(f))
<1>1. phase = "enemy" /\ turn = e /\ turn' = e + 1 /\ e \in Int /\ f \in Int
  BY Constants DEF Turn
<1>2. (e <= f <=> e = f \/ e + 1 <= f) /\ ~(e + 1 <= e)
  BY <1>1
<1> QED BY <1>1, <1>2 DEF ToCome

(* Enemies whose columns and window stay as they are, in another's turn.   *)
LEMMA OthersKeep ==
  ASSUME TelInv, NEW e \in Enemy, NEW f \in Enemy, f # e, Turn(e), phase' = phase,
         status' = status, rest'[f] = rest[f], attackCooldown'[f] = attackCooldown[f],
         windupLeft'[f] = windupLeft[f], loaded'[f] = loaded[f],
         Source(f)' <=> Source(f), Source(f) => qte' = qte
  PROVE  WindowFor(f)' /\ RestFor(f)'
<1>1. WindowFor(f) /\ RestFor(f) /\ (ToCome(f)' <=> ToCome(f)) /\ Interval(f)' = Interval(f)
  BY Types, TurnMoves DEF Interval
<1> QED BY <1>1 DEF WindowFor, RestFor

LEMMA EnemyWindsUpTelInv ==
  ASSUME TelInv, TypeOK', NEW e \in Enemy, EnemyWindsUp(e)
  PROVE  TelInv'
<1>1. /\ Turn(e) /\ status[e] = "live" /\ windupLeft[e] > 0
      /\ windupLeft' = [windupLeft EXCEPT ![e] = windupLeft[e] - 1]
      /\ UNCHANGED <<status, loaded, attackCooldown, phase, qte, rest>>
  BY DEF EnemyWindsUp, Awake, heroVars, history
<1>2. SourceIsEnemy'
  BY <1>1, ByEnemy DEF SourceIsEnemy
<1>3. DOMAIN windupLeft = Enemy
  BY DEF TelInv, TypeOK, EnemyTypeOK
<1>4. ASSUME NEW f \in Enemy, f # e PROVE WindowFor(f)' /\ RestFor(f)'
  <2>1. windupLeft'[f] = windupLeft[f] /\ (Source(f)' <=> Source(f))
    BY <1>1, <1>3, <1>4 DEF Source
  <2> QED BY <1>1, <1>4, <2>1, OthersKeep
<1>5. WindowFor(e)' /\ RestFor(e)'
  <2>1. /\ WindowFor(e) /\ RestFor(e)
        /\ windupLeft[e] \in Nat /\ attackCooldown[e] \in Nat /\ rest[e] \in Nat /\ qte.left \in Int
        /\ Interval(e) \in Nat
    BY Types
  <2>2. ToCome(e) /\ ~ToCome(e)' /\ Interval(e)' = Interval(e) /\ (Source(e)' <=> Source(e))
    BY <1>1, TurnMoves DEF Interval, Source
  <2>3. windupLeft'[e] = windupLeft[e] - 1
    BY <1>1, <1>3
  <2>4. Source(e) => windupLeft'[e] >= qte.left
    BY <1>1, <2>1, <2>2, <2>3 DEF WindowFor
  <2>5. ~Source(e) => rest[e] + attackCooldown[e] >= Interval(e) + 0
    BY <1>1, <2>1, <2>2 DEF RestFor
  <2> QED BY <1>1, <2>1, <2>2, <2>4, <2>5 DEF WindowFor, RestFor
<1> QED BY <1>2, <1>4, <1>5, ByEnemyNext

(* An enemy that cools down is not the source: that one is wound up.       *)
LEMMA SourceIsWoundUp ==
  ASSUME TelInv, NEW e \in Enemy, Awake(e), windupLeft[e] <= 0
  PROVE  ~Source(e)
<1>1. /\ phase = "enemy" /\ turn = e /\ status[e] = "live"
      /\ WindowFor(e) /\ windupLeft[e] \in Nat /\ qte.left \in Int
  BY Types DEF Awake, Turn
<1>2. Source(e) => qte.left >= 1 /\ windupLeft[e] >= qte.left + (IF ToCome(e) THEN 1 ELSE 0)
  BY <1>1 DEF WindowFor
<1> QED BY <1>1, <1>2

LEMMA EnemyCoolsDownTelInv ==
  ASSUME TelInv, TypeOK', NEW e \in Enemy, EnemyCoolsDown(e)
  PROVE  TelInv'
<1>1. /\ Turn(e) /\ status[e] = "live" /\ windupLeft[e] <= 0 /\ attackCooldown[e] > 0
      /\ attackCooldown' = [attackCooldown EXCEPT ![e] = attackCooldown[e] - 1]
      /\ UNCHANGED <<status, loaded, windupLeft, phase, qte, rest>>
  BY DEF EnemyCoolsDown, Awake, heroVars, history
<1>2. SourceIsEnemy'
  BY <1>1, ByEnemy DEF SourceIsEnemy
<1>3. DOMAIN attackCooldown = Enemy
  BY DEF TelInv, TypeOK, EnemyTypeOK
<1>4. ASSUME NEW f \in Enemy, f # e PROVE WindowFor(f)' /\ RestFor(f)'
  <2>1. attackCooldown'[f] = attackCooldown[f] /\ (Source(f)' <=> Source(f))
    BY <1>1, <1>3, <1>4 DEF Source
  <2> QED BY <1>1, <1>4, <2>1, OthersKeep
<1>5. WindowFor(e)' /\ RestFor(e)'
  <2>1. /\ RestFor(e) /\ windupLeft[e] \in Nat /\ attackCooldown[e] \in Nat /\ rest[e] \in Nat
        /\ Interval(e) \in Nat
    BY Types
  <2>2. ToCome(e) /\ ~ToCome(e)' /\ Interval(e)' = Interval(e) /\ ~Source(e) /\ ~Source(e)'
    BY <1>1, TurnMoves, SourceIsWoundUp DEF Interval, Source, EnemyCoolsDown
  <2>3. attackCooldown'[e] = attackCooldown[e] - 1
    BY <1>1, <1>3
  <2>4. rest[e] + attackCooldown[e] >= Interval(e) + 1
    BY <1>1, <2>1, <2>2 DEF RestFor
  <2>5. rest[e] + attackCooldown'[e] >= Interval(e) + 0
    BY <2>1, <2>3, <2>4
  <2> QED BY <1>1, <2>2, <2>5 DEF WindowFor, RestFor
<1> QED BY <1>2, <1>4, <1>5, ByEnemyNext

(* An attack begins, with a telegraph or without: enough rest has passed.  *)
LEMMA ReadyHasRested ==
  ASSUME TelInv, NEW e \in Enemy, Ready(e)
  PROVE  rest[e] > Interval(e)
<1>1. /\ Awake(e) /\ Turn(e) /\ phase = "enemy" /\ turn = e /\ status[e] = "live"
      /\ windupLeft[e] <= 0 /\ attackCooldown[e] <= 0
  BY DEF Ready, Awake, Turn
<1>2. /\ RestFor(e) /\ windupLeft[e] \in Nat /\ attackCooldown[e] \in Nat /\ rest[e] \in Nat
      /\ Interval(e) \in Nat /\ e \in 1 .. MaxEnemies /\ MaxEnemies \in Nat
  BY Types
<1>3. windupLeft[e] = 0 /\ attackCooldown[e] = 0 /\ e <= e
  BY <1>1, <1>2
<1>4. ~Source(e) /\ ToCome(e)
  BY <1>1, <1>3, SourceIsWoundUp DEF ToCome
<1>5. rest[e] + attackCooldown[e] >= Interval(e) + 1
  BY <1>1, <1>2, <1>3, <1>4 DEF RestFor
<1> QED BY <1>2, <1>3, <1>5

LEMMA EnemyAnnouncesTelInv ==
  ASSUME TelInv, TypeOK', NEW e \in Enemy, EnemyAnnounces(e)
  PROVE  TelInv'
<1>1. /\ Turn(e) /\ status[e] = "live" /\ ~Open /\ NextWindup(e) > 0
      /\ loaded' = [loaded EXCEPT ![e] = patternIndex[e]]
      /\ windupLeft' = [windupLeft EXCEPT ![e] = NextWindup(e)]
      /\ OpenCrisis(e, patternIndex[e], NextWindup(e))
      /\ UNCHANGED <<status, attackCooldown, phase, rest>>
  BY DEF EnemyAnnounces, Ready, Awake, Telegraphs, BeginWindup
<1>2. /\ qte'.kind = "CrisisEvade" /\ qte'.source = e /\ qte'.left = NextWindup(e)
      /\ qte'.shown = patternIndex[e]
  BY <1>1 DEF OpenCrisis, Closed
<1>3. DOMAIN windupLeft = Enemy /\ DOMAIN loaded = Enemy /\ NextWindup(e) \in Nat
  BY PatternTimes DEF TelInv, TypeOK, EnemyTypeOK
<1>4. ASSUME NEW f \in Enemy, f # e PROVE WindowFor(f)' /\ RestFor(f)'
  <2>1. /\ windupLeft'[f] = windupLeft[f] /\ loaded'[f] = loaded[f]
        /\ ~Source(f)' /\ ~Source(f)
    BY <1>1, <1>2, <1>3, <1>4 DEF Source, Open
  <2> QED BY <1>1, <1>4, <2>1, OthersKeep
<1>5. WindowFor(e)' /\ RestFor(e)'
  <2>1. phase' = "enemy" /\ ~ToCome(e)' /\ Source(e)'
    BY <1>1, <1>2, TurnMoves DEF Source
  <2>2. windupLeft'[e] = qte'.left /\ loaded'[e] = qte'.shown /\ qte'.left >= 1
    BY <1>1, <1>2, <1>3
  <2>3. windupLeft'[e] >= qte'.left + 0
    BY <1>2, <1>3, <2>2
  <2> QED BY <1>1, <2>1, <2>2, <2>3 DEF WindowFor, RestFor
<1> QED BY <1>2, <1>4, <1>5, ByEnemyNext DEF SourceIsEnemy

LEMMA EnemyHitsTelInv ==
  ASSUME TelInv, TypeOK', NEW e \in Enemy, EnemyHits(e)
  PROVE  TelInv'
<1>1. /\ Awake(e) /\ Turn(e) /\ status[e] = "live" /\ windupLeft[e] <= 0
      /\ loaded' = [loaded EXCEPT ![e] = patternIndex[e]]
      /\ attackCooldown' = [attackCooldown EXCEPT ![e] = Pattern[e][patternIndex[e]].cooldown]
      /\ rest' = [rest EXCEPT ![e] = 0]
      /\ UNCHANGED <<status, windupLeft, phase, qte>>
  BY DEF EnemyHits, Ready, Awake, heroVars
<1>2. SourceIsEnemy'
  BY <1>1, ByEnemy DEF SourceIsEnemy
<1>3. /\ DOMAIN attackCooldown = Enemy /\ DOMAIN loaded = Enemy /\ DOMAIN rest = Enemy
      /\ Pattern[e][patternIndex[e]].cooldown \in Nat
  BY PatternTimes DEF TelInv, TypeOK, EnemyTypeOK
<1>4. ASSUME NEW f \in Enemy, f # e PROVE WindowFor(f)' /\ RestFor(f)'
  <2>1. /\ attackCooldown'[f] = attackCooldown[f] /\ loaded'[f] = loaded[f] /\ rest'[f] = rest[f]
        /\ windupLeft'[f] = windupLeft[f] /\ (Source(f)' <=> Source(f))
    BY <1>1, <1>3, <1>4 DEF Source
  <2> QED BY <1>1, <1>4, <2>1, OthersKeep
<1>5. WindowFor(e)' /\ RestFor(e)'
  <2>1. ~ToCome(e)' /\ ~Source(e) /\ ~Source(e)'
    BY <1>1, TurnMoves, SourceIsWoundUp DEF Source
  <2>2. /\ loaded'[e] = patternIndex[e] /\ rest'[e] = 0
        /\ attackCooldown'[e] = Pattern[e][patternIndex[e]].cooldown
    BY <1>1, <1>3
  <2>3. Interval(e)' = attackCooldown'[e]
    BY <2>2 DEF Interval
  <2>4. rest'[e] + attackCooldown'[e] >= Interval(e)' + 0
    BY <1>3, <2>2, <2>3
  <2> QED BY <1>1, <2>1, <2>4 DEF WindowFor, RestFor
<1> QED BY <1>2, <1>4, <1>5, ByEnemyNext

LEMMA EndTickTelInv ==
  ASSUME TelInv, TypeOK', EndTick
  PROVE  TelInv'
<1>1. /\ phase = "enemy" /\ turn = MaxEnemies + 1 /\ phase' = "input"
      /\ status' = Dropped(status, "gone") /\ loaded' = Dropped(loaded, 1)
      /\ attackCooldown' = Dropped(attackCooldown, 0) /\ windupLeft' = Dropped(windupLeft, 0)
      /\ UNCHANGED <<qte, rest>>
  BY DEF EndTick, heroVars, history
<1>2. SourceIsEnemy'
  BY <1>1, ByEnemy DEF SourceIsEnemy
<1>3. ASSUME NEW e \in Enemy PROVE WindowFor(e)' /\ RestFor(e)'
  <2>1. /\ WindowFor(e) /\ RestFor(e) /\ Interval(e) \in Nat
        /\ e \in 1 .. MaxEnemies /\ MaxEnemies \in Nat
    BY Types
  <2>2. ~ToCome(e) /\ ~ToCome(e)' /\ (Source(e)' <=> Source(e))
    BY <1>1, <2>1 DEF ToCome, Source
  <2>3. CASE status[e] = "dead"
    <3>1. status'[e] = "gone"
      BY <1>1, <2>3 DEF Dropped
    <3> QED BY <1>1, <2>1, <2>2, <2>3, <3>1 DEF WindowFor, RestFor
  <2>4. CASE status[e] # "dead"
    <3>1. /\ status'[e] = status[e] /\ loaded'[e] = loaded[e]
          /\ attackCooldown'[e] = attackCooldown[e] /\ windupLeft'[e] = windupLeft[e]
      BY <1>1, <2>4 DEF Dropped
    <3>2. Interval(e)' = Interval(e)
      BY <3>1 DEF Interval
    <3> QED BY <1>1, <2>1, <2>2, <3>1, <3>2 DEF WindowFor, RestFor
  <2> QED BY <2>3, <2>4
<1> QED BY <1>2, <1>3, ByEnemyNext
----------------------------------------------------------------------------
LEMMA NextTelInv == TelInv /\ [Next]_vars => TelInv'
<1> SUFFICES ASSUME TelInv, [Next]_vars PROVE TelInv'
  OBVIOUS
<1>1. TypeOK'
  BY NextTypeOK DEF TelInv
<1>2. ASSUME Quiet PROVE TelInv'
  BY <1>1, <1>2, QuietTelInv
<1>3. ASSUME NEW S \in SUBSET Live, Die(S)
      PROVE  \A e \in Enemy : status'[e] = status[e] \/ (status[e] = "live" /\ status'[e] = "dead")
  BY <1>3 DEF Die, Live, TelInv, TypeOK, EnemyTypeOK
<1>4. CASE \E g \in Grade : InputQte(g)
  <2>1. /\ UNCHANGED <<enemyVars, phase, turn, rest>>
        /\ qte'.kind = qte.kind /\ qte'.source = qte.source /\ qte'.left = qte.left
        /\ qte'.shown = qte.shown
    BY <1>4 DEF InputQte, history, TelInv, TypeOK
  <2>2. qte.kind = "CrisisEvade" /\ phase \in {"hero", "enemy", "input"} => qte.left >= 1
    BY DEF TelInv, WindowInv
  <2>3. Quiet
    BY <2>1, <2>2 DEF Quiet, ToCome, enemyVars
  <2> QED BY <1>2, <2>3
<1>5. CASE UNCHANGED vars
  <2>1. qte.kind = "CrisisEvade" /\ phase \in {"hero", "enemy", "input"} => qte.left >= 1
    BY DEF TelInv, WindowInv
  <2>2. Quiet
    BY <1>5, <2>1 DEF Quiet, ToCome, vars, enemyVars, heroVars, history
  <2> QED BY <1>2, <2>2
<1>6. CASE BeginTick
  BY <1>1, <1>6, BeginTickTelInv
<1>7. CASE SpawnRun
  BY <1>1, <1>7, SpawnRunTelInv
<1>8. CASE EffectsRun
  <2>1. /\ phase = "effects" /\ phase' = "qte"
        /\ UNCHANGED <<loaded, attackCooldown, windupLeft, rest, qte, turn>>
        /\ \A e \in Enemy : status'[e] = status[e] \/ (status[e] = "live" /\ status'[e] = "dead")
    BY <1>3, <1>8 DEF EffectsRun, heroVars, history
  <2>2. Quiet
    BY <2>1 DEF Quiet, ToCome
  <2> QED BY <1>2, <2>2
<1>9. CASE QteWaits
  <2>1. /\ phase = "qte" /\ phase' = "hero" /\ (Open => ~(qte.left <= 0))
        /\ UNCHANGED <<status, loaded, attackCooldown, windupLeft, rest, qte, turn>>
    BY <1>9 DEF QteWaits, QteTurn, Due, enemyVars, history
  <2>2. qte.kind = "CrisisEvade" => qte.left >= 1
    BY <2>1 DEF Open, TelInv, TypeOK
  <2>3. Quiet
    BY <2>1, <2>2 DEF Quiet, ToCome
  <2> QED BY <1>2, <2>3
<1>10. CASE QteSkill
  <2>1. /\ phase = "qte" /\ phase' = "hero" /\ qte.kind # "CrisisEvade" /\ qte'.kind # "CrisisEvade"
        /\ UNCHANGED <<loaded, attackCooldown, windupLeft, rest, turn>>
        /\ \A e \in Enemy : status'[e] = status[e] \/ (status[e] = "live" /\ status'[e] = "dead")
    BY <1>3, <1>10 DEF QteSkill, QteTurn, Closed, history
  <2>2. Quiet
    BY <2>1 DEF Quiet, ToCome
  <2> QED BY <1>2, <2>2
<1>11. CASE QteSourceGone
  BY <1>1, <1>11, QteSourceGoneTelInv
<1>12. CASE QteCrisis
  BY <1>1, <1>12, QteCrisisTelInv
<1>13. \A e \in Enemy : phase = "hero" => ToCome(e)
  BY DEF ToCome
<1>14. phase = "hero" /\ qte.kind = "CrisisEvade" => qte.left >= 1
  BY DEF TelInv, WindowInv
<1>15. CASE HeroWaits \/ HeroStrikes
  <2>1. /\ phase = "hero" /\ UNCHANGED <<loaded, attackCooldown, windupLeft, rest, qte>>
        /\ \A e \in Enemy : status'[e] = status[e] \/ (status[e] = "live" /\ status'[e] = "dead")
    BY <1>3, <1>15 DEF HeroWaits, HeroStrikes, HeroAttack, enemyVars, history
  <2>2. Quiet
    BY <2>1, <1>13, <1>14 DEF Quiet
  <2> QED BY <1>2, <2>2
<1>16. ASSUME NEW s \in Skill, HeroProcsQte(s) PROVE TelInv'
  <2>1. /\ phase = "hero" /\ UNCHANGED <<loaded, attackCooldown, windupLeft, rest>>
        /\ qte.kind = "None" /\ qte'.kind = "SkillAmplify"
        /\ \A e \in Enemy : status'[e] = status[e] \/ (status[e] = "live" /\ status'[e] = "dead")
    BY <1>3, <1>16 DEF HeroProcsQte, HeroAttack, MayOpenSkill, OpenSkill, Open, Closed
  <2>2. Quiet
    BY <2>1, <1>13 DEF Quiet
  <2> QED BY <1>2, <2>2
<1>17. ASSUME NEW s \in Skill, HeroProcsSkill(s) PROVE TelInv'
  <2>1. /\ phase = "hero" /\ UNCHANGED <<loaded, attackCooldown, windupLeft, rest, qte>>
        /\ \A e \in Enemy : status'[e] = status[e] \/ (status[e] = "live" /\ status'[e] = "dead")
    BY <1>3, <1>17 DEF HeroProcsSkill, HeroAttack, history
  <2>2. Quiet
    BY <2>1, <1>13, <1>14 DEF Quiet
  <2> QED BY <1>2, <2>2
<1>18. ASSUME NEW e \in Enemy, EnemyTurn(e) PROVE TelInv'
  <2>1. CASE EnemyAbsent(e) \/ EnemyGroggy(e) \/ EnemyFar(e)
    <3>1. /\ Turn(e)
          /\ UNCHANGED <<status, loaded, attackCooldown, windupLeft, rest, qte, phase>>
      BY <2>1 DEF EnemyAbsent, EnemyGroggy, EnemyFar, Awake, enemyVars, heroVars, history
    <3>2. \A f \in Enemy : ToCome(f)' => ToCome(f)
      BY <3>1, TurnMoves
    <3>3. phase = "enemy" /\ (qte.kind = "CrisisEvade" => qte.left >= 1)
      BY <3>1 DEF Turn, TelInv, WindowInv
    <3>4. Quiet
      BY <3>1, <3>2, <3>3 DEF Quiet
    <3> QED BY <1>2, <3>4
  <2>2. CASE EnemyWindsUp(e)
    BY <1>1, <2>2, EnemyWindsUpTelInv
  <2>3. CASE EnemyCoolsDown(e)
    BY <1>1, <2>3, EnemyCoolsDownTelInv
  <2>4. CASE EnemyAnnounces(e)
    BY <1>1, <2>4, EnemyAnnouncesTelInv
  <2>5. CASE EnemyHits(e)
    BY <1>1, <2>5, EnemyHitsTelInv
  <2> QED BY <1>18, <2>1, <2>2, <2>3, <2>4, <2>5 DEF EnemyTurn
<1>19. CASE EndTick
  BY <1>1, <1>19, EndTickTelInv
<1> QED BY <1>4, <1>5, <1>6, <1>7, <1>8, <1>9, <1>10, <1>11, <1>12, <1>15, <1>16, <1>17, <1>18, <1>19
        DEF Next, Tick, QteRun

(* The attack that a crisis window resolves is the one it announced,       *)
(* whatever patterns the bosses have and whatever stuns and distances make *)
(* of the source's windup.                                                 *)
THEOREM TelegraphAnnouncedAttackLands == Spec => []AnnouncedAttackLands
<1>1. TelInv => AnnouncedAttackLands
  BY DEF TelInv, WindowInv, AnnouncedAttackLands
<1> QED BY InitTelInv, NextTelInv, <1>1, PTL DEF Spec

(* Only an enemy at its own turn, wound down and cooled down, begins.      *)
LEMMA OnlyReadyBegin ==
  ASSUME TelInv, [Next]_vars, NEW e \in Enemy, BeginsAttack(e)
  PROVE  Ready(e)
<1>1. /\ phase = "enemy" /\ hits \in [Enemy -> Nat]
      /\ hits'[e] > hits[e] \/ (qte'.kind = "CrisisEvade" /\ ~Open /\ qte'.source = e)
  BY DEF BeginsAttack, TelInv, TypeOK
<1>2. hits' = hits /\ qte' = qte => FALSE
  <2>1. ~(hits[e] > hits[e])
    BY <1>1
  <2> QED BY <1>1, <2>1 DEF Open
<1>3. ~(UNCHANGED vars) /\ ~EndTick
  BY <1>2 DEF vars, history, heroVars, EndTick
<1>4. /\ ~(\E g \in Grade : InputQte(g)) /\ ~BeginTick /\ ~SpawnRun /\ ~EffectsRun /\ ~QteRun
      /\ ~HeroWaits /\ ~HeroStrikes /\ ~\E s \in Skill : HeroProcsQte(s) \/ HeroProcsSkill(s)
  BY <1>1 DEF InputQte, BeginTick, SpawnRun, EffectsRun, QteRun, QteWaits, QteSkill, QteSourceGone,
              QteCrisis, QteTurn, HeroWaits, HeroStrikes, HeroProcsQte, HeroProcsSkill, HeroAttack
<1>5. PICK f \in Enemy : EnemyTurn(f)
  BY <1>3, <1>4 DEF Next, Tick
<1>6. EnemyAnnounces(f) \/ EnemyHits(f)
  BY <1>2, <1>5 DEF EnemyTurn, EnemyAbsent, EnemyGroggy, EnemyFar, EnemyWindsUp, EnemyCoolsDown,
                    heroVars, history
<1>7. CASE EnemyAnnounces(f)
  <2>1. hits' = hits /\ qte'.source = f
    BY <1>7 DEF EnemyAnnounces, OpenCrisis, Closed
  <2>2. f = e
    BY <1>1, <2>1
  <2> QED BY <1>7, <2>2 DEF EnemyAnnounces
<1>8. CASE EnemyHits(f)
  <2>1. qte' = qte /\ hits' = [hits EXCEPT ![f] = hits[f] + 1]
    BY <1>8 DEF EnemyHits, heroVars
  <2>2. f = e
    BY <1>1, <2>1 DEF Open
  <2> QED BY <1>8, <2>2 DEF EnemyHits
<1> QED BY <1>6, <1>7, <1>8

(* Attacks keep their rhythm: between the end of an enemy's attack, landed *)
(* or evaded, and the begin of its next more ticks pass than its cooldown, *)
(* for all tables of patterns and times.                                   *)
THEOREM TelegraphAttackRhythm == Spec => AttackRhythm
<1>1. TelInv /\ [Next]_vars => [\A e \in Enemy : BeginsAttack(e) => rest[e] > Interval(e)]_vars
  BY OnlyReadyBegin, ReadyHasRested
<1> QED BY InitTelInv, NextTelInv, <1>1, PTL DEF Spec, AttackRhythm
==============================================================================
