SPECIFICATION LoopSpec
CONSTANTS
  TotalExp <- MCTotalExp
  Amounts = {1, 2}
  Items = {i1}
  Stats = {s1}
  Growth = {g1}
  Legends = {l1}
  FirstStat = s1
  StatZero = s0
  CardsPerLevel = 2
  MAX_EVENTS = 3
  MaxLevel = 4
  MaxTicksPerFrame = 2
  MaxLost = 1
PROPERTIES OpenScreenStopsTicks
