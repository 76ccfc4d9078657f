\* Bounds: three rows in one group, two changes under way, two or three in all.
SPECIFICATION FairSpec
CONSTANTS
  None = None
  a = a
  b = b
  c = c
  g = g
  Ids <- AllIds
  Hits <- TwoHits
  GroupOf <- OneGroup
  Tags = {"eu", "EU"}
  Tidy <- LowerCase
  Labels = {"operator", "admin"}
  Me = a
  Fresh <- NewRows
  Slots = {1, 2}
  Budget <- FewEvents
  Pages = {"tasks", "agents", "schedules", "users", "targets"}
  Roles = {"admin"}
  Chips = {"active"}
  Opening <- Tables
CHECK_DEADLOCK FALSE
INVARIANTS
  UndoneIsKept
  PreviewIsHonest
PROPERTIES
  BulkTouchesWhatIsShown
  GoneStaysHidden
  ListConverges
