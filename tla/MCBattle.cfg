SPECIFICATION FairSpec
CONSTANTS
  Enemies = {1, 2, 3, 4}
  Id <- MCId
  targetPriority <- MCPriority
  approachSpeed <- MCSpeed
  attackRange <- MCReach
  ONE = 10
  DIM = 4
  minSep = 15
  heroSep = 10
  HeroRange = 30
  HeroStep = 6
  ApproachMargin = 4
  FalloffPerTile = 1
  FrostAura = 2
  FrostRadius = 25
  Q16_ONE = 5
  C = 2
  Archetype <- MCArchetype
  maxHp <- MCHp
  armor <- MCArmor
  ccGaugeMax <- MCGauge
  ExecuteImmune <- MCImmune
  exp <- MCExp
  armorK = 1
  tickHz = 2
  AttackPower = 10
  QteLength = 2
  qteCooldownTicks = 5
  Skills <- MCSkills
  aoe <- MCAoe
  forward <- MCForward
  mult <- MCMult
  ccGain <- MCCc
  uniqueSkill <- MCUnique
  Grades = {10, 20}
  Builds <- MCBuilds
  AoeRadius = 15
  PierceWidth = 6
  PierceLength = 30
  ShockwaveWidth = 8
  decayTicks = 3
  groggyTicks = 2
  bossCcResistStep = 5
  ccDecayPerTick = 1
  executeThresholdPermille = 400
  executeWeakBonus = 5
  centrifugeStep = 3
  centrifugeMaxStacks = 3
  stormPower = 1
  StormRadius = 20
  boltIntervalTicks = 2
  vortexPower = 4
  aftershockPower = 5
  fissureSlow = 9
  FissureRadius = 40
  fissurePower = 2
  zoneTicks <- MCZoneTicks
  trashPoints = 1
  elitePoints = 2
  attackInterval = 2
  Formations <- MCFormations
  Pointed = {0, 3}
INVARIANTS
  KillsPaidOnce
  LeechSeesEveryHit
  RingsFillTheirDisc
  DecayRunsOut
  TargetIsBest
  PartsEveryPair
  StreakBounded
PROPERTY FightEnds
