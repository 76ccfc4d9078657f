\* Bounds: FourWorlds; two capped tasks of which one may hang, an uncapped one, one without a runner; two workers.
CONSTANTS
  j1 = j1
  j2 = j2
  j3 = j3
  Job = {j1, j2, j3, j4}
  Type = {"hping3", "ping", "new"}
  JobType <- Mixed
  Known = {"hping3", "ping"}
  Caps <- HpingCap
  MaxConcurrency = 2
  Stuck = {j1}
  MaxIds = 5
  Worlds <- FourWorlds
SPECIFICATION ProcessSpec
CHECK_DEADLOCK FALSE
INVARIANTS
  SlotsAccountedFor
  WorkIsOwned
  GhostsArePaid
PROPERTIES
  TasksFinish
  KnownAgain
