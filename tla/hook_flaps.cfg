\* A statement of the hook that a click on "retry now" refutes.
CONSTANTS
  GiveUpAfter <- FewFailures
  Strict = FALSE
  MaxActs = 1
SPECIFICATION FairSpec
PROPERTIES
  Heals
CHECK_DEADLOCK FALSE
