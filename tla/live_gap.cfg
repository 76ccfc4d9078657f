\* Bounds: as in live.
CONSTANTS
  Stream <- Pipes
  MaxRuns = 2
  Plans <- PipesOrRerun
  BufferMax = 3
  MaxFaults = 2
SPECIFICATION Spec
CHECK_DEADLOCK FALSE
INVARIANT NothingIsMissed
