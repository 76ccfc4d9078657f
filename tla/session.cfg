\* Bounds: two calls, two expiries, one mishap.
SPECIFICATION FairSpec
CONSTANTS
  None = None
  admin = admin
  operator = operator
  t1 = t1
  t2 = t2
  Tabs <- TwoTabs
  Users <- TwoUsers
  Calls = {1, 2}
  LevelOf <- Roles
  NeedOf <- Paths
  MaxExpiries = 2
  MaxTrouble = 1
CHECK_DEADLOCK FALSE
INVARIANTS
  OneRefreshAtATime
  SignedOutIsOut
PROPERTIES
  ExpiryIsInvisible
  NobodyWaits
