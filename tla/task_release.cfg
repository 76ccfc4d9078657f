\* The watchdog: two tasks of one agent, a batch of one, hand-outs without end; results, which only release rows, are left out.
CONSTANTS
  a1 = a1
  t1 = t1
  Task = {t1, t2}
  Agent = {a1}
  Request = {h1}
  Owner <- OneOwner
  Group <- TwoGroups
  Priority <- OnePriority
  Verdicts = {}
  AdminSets = {}
  WatchdogBatch = 1
  MaxClaims <- OnceEach
SPECIFICATION EndlessSpec
PROPERTIES
  StuckRowsAreReleased
  OfflineAgentKeepsNothing
