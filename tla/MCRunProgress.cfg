SPECIFICATION FairSpec
CONSTANTS
  MAX_ENTITIES = 5
  segmentsPerMap = 3
  segmentStartPoints <- MCStart
  capBySegment <- MCCap
  batchBySegment <- MCBatch
  eliteSpawns <- MCElites
  trashPoints = 1
  elitePoints = 3
  clearTargetPoints = 5
  spawnIntervalTicks = 2
  summonCount = 2
  summonPeriod = 3
  segmentClearPurge = 1
  bossPhase2Purge = 2
  CorruptionMax = 2
  MAX_POINTS = 8
INVARIANTS NoEliteLost ClearedMeansBossDead
PROPERTIES BossComes
CHECK_DEADLOCK FALSE
