\* Two chains, four logs, three of one chain; threshold flushes of two handlers,
\* the timer's and that of stop() overlap; two attempts; weak
\* fairness of every flush, of the timer and of the lifespan.
SPECIFICATION FairSpec
CONSTANTS
  Logs = {11, 12, 13, 21}
  ChainOf <- MCChainOf
  BlockOf <- MCBlockOf
  Handlers = {h1, h2}
  BatchSize = 2
  RetryAttempts = 2
INVARIANTS
  TypeOK
  OneOwner
  BelowThreshold
  BoundedDuplicates
  CountersTellOutcome
  RangesAreWhole
PROPERTIES
  ImplementsDelivery
  BufferDrains
  TakenLogsSettle
CHECK_DEADLOCK FALSE
