\* Bounds: two tasks, one of them visited, two requests, few events.
SPECIFICATION FairSpec
CONSTANTS
  None = None
  t = t
  u = u
  a = a
  Tasks <- Group
  Details <- One
  Slots = {1, 2}
  Agents <- Alone
  Recent = 1
  Openings <- Users
CHECK_DEADLOCK FALSE
INVARIANTS
  
  AnnouncedOnce
PROPERTIES
  EndIsFinal
  EndIsShown
