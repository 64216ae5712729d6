CONSTANTS
  MaxEnemies = 2
  Pattern <- MCPattern
  Boss <- MCBoss
  CcSkills = {"cleave"}
  OtherSkills = {"smash"}
  GroggyTicks = 2
  PerfectWindow = 0
  QteCooldown = 3
  HeroInterval = 1
SPECIFICATION FairSpec
INVARIANTS
  AnnouncedAttackLands
PROPERTIES
  AttackRhythm
  WindowResolves
  StunEnds
CHECK_DEADLOCK FALSE
