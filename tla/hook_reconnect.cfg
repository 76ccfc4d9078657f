\* A production build, three user actions or token flips.
CONSTANTS
  GiveUpAfter <- FewFailures
  Strict = FALSE
  MaxActs = 3
SPECIFICATION FairSpec
CHECK_DEADLOCK FALSE
INVARIANTS
  OneAttemptAtATime
  FinishedStreamRests
  IndicatorIsTrue
PROPERTIES
  HealsUndisturbed
