\* Bounds: PipesOrRerun, two faults, a buffer that overflows.
CONSTANTS
  Stream <- Pipes
  MaxRuns = 2
  Plans <- PipesOrRerun
  BufferMax = 3
  MaxFaults = 2
SPECIFICATION FairSpec
CHECK_DEADLOCK FALSE
INVARIANTS
  NothingElseIsMissed
PROPERTIES
  ImplementsInbox
  ResultReachesViewer
