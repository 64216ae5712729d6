SPECIFICATION ConfigSpec

CONSTANTS
  MAX_DEPTH = 4
  Layout <- MCLayout
  Stats <- MCStats
  Legends <- MCLegends
  LEGEND_RELICS = 3
  MAX_I32 = 5000
  MAX_ITEM_TYPES = 3
  MAX_ITEM_TIERS = 3
  MAX_RECIPE_INGREDIENTS = 2
  MAX_RECIPES_PER_ITEM = 2
  Read <- Parse
  Text <- MCText
  Base <- MCBase
  Editions <- MCEditions
  Alphabet <- MCAlphabet
  MAX_DRAFT = 6
  Handles = {"host"}
  Edits <- MCEdits
  Worlds = {"w"}

INVARIANTS
  ReaderExact
  LoadedIsCoherent
  SameFilesSameHash

CHECK_DEADLOCK FALSE
