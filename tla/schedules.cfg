\* Bounds: Worlds, each with one handler in flight at a time; batches of one.
CONSTANTS
  a1 = a1
  a2 = a2
  Schedule = {1, 2}
  Agent = {a1, a2}
  Tag = {"eu"}
  Tagged <- BothTagged
  Able <- OneAble
  PerTag = 1
  Specs <- IdOrTag
  Patches <- Edits
  Request = {h1}
  Batch = 1
  Worlds <- EditsAndFaults
SPECIFICATION FairSpec
CHECK_DEADLOCK FALSE
INVARIANTS
  RunsAreCounted
  AtMostOneLateRun
PROPERTIES
  RunsAreSpaced
  DueIsTried
