\* One task, one agent, two handlers in flight.
CONSTANTS
  a1 = a1
  t1 = t1
  Task = {t1}
  Agent = {a1}
  Request = {h1, h2}
  Owner <- OneOwner
  Group <- OneGroup
  Priority <- OnePriority
  Verdicts = {"completed", "timeout"}
  AdminSets = {"active", "rejected"}
  WatchdogBatch = 1
  MaxClaims <- TwiceEach
SPECIFICATION Spec
SYMMETRY RequestSymmetry
INVARIANTS
  LeaseIsDated
  VerdictHasResult
  OneResultPerHandOut
PROPERTIES
  GoneForGood
  RevivedOnlyByStaleRun
  LateContract
