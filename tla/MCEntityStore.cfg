CONSTANTS
  CAPACITY = 3
  GEN_MASK = 2
  MaxSpawns = 5
  Payload <- MCPayload
SPECIFICATION Spec
INVARIANTS
  FreeListExact
  SpawnOrder
  StaleNeverResolves
PROPERTIES ImplementsHandles
CHECK_DEADLOCK FALSE
