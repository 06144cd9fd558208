SPECIFICATION Spec
CONSTANTS
  First = 4
  Last = 6
  MaxRetries = 3
  Oversized = {}
  Answers <- MCMissedAnswers
  MaxTroubles = 3
INVARIANT NothingMissed
CHECK_DEADLOCK FALSE
