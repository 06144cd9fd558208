\* Six blocks, a height that lags by up to two, a crash and a restart.
SPECIFICATION FairSpec
CONSTANTS
  MaxHead = 5
  MaxLag = 2
  LogBlocks = {2, 4}
  Answers <- MCAnswers
  Setups <- MCSetups
  MaxLives = 2
INVARIANTS
  TypeOK
  CoveredOnce
PROPERTIES
  ErrorStays
  CatchesUp
CHECK_DEADLOCK FALSE
