SPECIFICATION Spec
CONSTANTS
  Stat <- MCStat
  CorruptionMax = "max"
  Base <- MCBase
  MinValue <- MCMinValue
  MinPct <- MCMinPct
  ONE = 4
  Source = {1, 2}
  Amount <- MCAmount
  Additions <- MCAdditions
  MaxSum = 5
  Conditions <- MCConditions
  Ops = {"PercentMult", "Override"}
  Capacity <- MCCapacity
  Gauges = {0, 5}
  Targets = {1, 255}
  NO_TARGET = 255
  NO_EXPIRY = 99
  MaxTick = 2
INVARIANTS CacheHonest ValueOfModifiers EndedNeverActive
PROPERTIES ThresholdsFollowGauge
