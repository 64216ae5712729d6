SPECIFICATION PoolsSpec
CONSTANTS
  MAX_ORBS = 3
  MAX_ZONES = 2
  OrbLifetime = 2
  Duration <- MCDuration
  MaxOrbs = 4
  MaxZones = 3
  MaxTick = 5
INVARIANTS NothingOverdue ExplodesOnce OrderKept
CHECK_DEADLOCK FALSE
