\* Three blocks, so the halves are unequal and one is halved again; the last
\* block is over the limit for any query and some node lacks it yet.  Two
\* attempts per call, five failures.
SPECIFICATION FairSpec
CONSTANTS
  First = 4
  Last = 6
  MaxRetries = 2
  Oversized = {6}
  Answers <- MCAnswers
  MaxTroubles = 5
INVARIANTS
  OnlyFailedAttemptsOutlive
  RequestsAreBounded
PROPERTIES
  EveryCallEnds
  ImplementsLogQuery
CHECK_DEADLOCK FALSE
