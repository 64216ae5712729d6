SPECIFICATION LoopSpec
CONSTANTS
  TotalExp <- MCTotalExp
  Amounts = {1, 5}
  Items = {i1, i2}
  Stats = {s1}
  Growth = {g1}
  Legends = {l1, l2}
  FirstStat = s1
  StatZero = s0
  CardsPerLevel = 3
  MAX_EVENTS = 3
  MaxLevel = 4
  MaxTicksPerFrame = 2
  MaxLost = 1
INVARIANTS OfferIffPending OneCardPerLevel LegendsOnce FirstScreenStops
