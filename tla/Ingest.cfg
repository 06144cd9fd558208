\* Two chains, three logs of which two clash, a cache of two and pages of one:
\* the cache evicts, refuses and cuts.  One attempt per batch; two processes.
SPECIFICATION FairISpec
CONSTANTS
  Logs = {12, 13, 22}
  ChainOf <- MCChainOf
  BlockOf <- MCBlockOf
  Handlers = {h1}
  BatchSize = 2
  RetryAttempts = 1
  ChainOrder <- MCChainOrder
  KeyOf <- MCKeyOf
  MaxSize = 2
  PageLimit = 1
  Known <- MCKnown
  MaxLives = 2
INVARIANTS
  SinksAreIndependent
  OnlyLateLogsAreLeft
  DeliveriesAreBounded
PROPERTIES
  ReplaySendsTheNewest
  StartupEnds
CHECK_DEADLOCK FALSE
