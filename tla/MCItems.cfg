SPECIFICATION ItemsSpec
CONSTANTS
  Item <- MCItem
  Index = {1, 2, 3}
  Tables = {"t"}
  ItemTypes <- MCItemTypes
  Recipes <- MCRecipes
  MAX_COUNT = 3
  Stat = {"atk", "hp"}
  ItemStats <- MCItemStats
  ItemSlowAura <- MCItemSlowAura
  Draws = {"a", "b"}
  ONE_RAW = 4096
  Boosts = {123}
  MAX_BOOST = 246
INVARIANTS CraftableExact StatsAreWhatIsHeld ScreenTellsTheTruth
PROPERTIES ImplementsBag
CHECK_DEADLOCK FALSE
