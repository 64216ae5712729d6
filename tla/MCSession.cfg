SPECIFICATION FairSession
CONSTANTS
  World <- MCWorld
  Start <- MCStart
  Tick <- MCTick
  Over <- MCOver
  StepWorld <- MCStepWorld
  Checksum <- MCChecksum
  Accepts <- TakesInput
  ApplyInput <- AfterInput
  Input <- MCInput
  CAPACITY = 2
  Garbled <- MCGarbled
  MaxTick = 3
  MaxInputs = 3
  Arguments <- MCArguments
  Diffs <- MCDiffs
  Foes = {1}
  Cost = 1
INVARIANTS ReplayExact FirstDivergence
PROPERTIES ReplayEnds
