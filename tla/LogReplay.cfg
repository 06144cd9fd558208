\* Two chains, three logs, two processes, a replay with batches of 0 (taken
\* as 1) and 2 blocks, beside two lists of logs from the listeners.
SPECIFICATION FairSpec
CONSTANTS
  c1 = c1
  c2 = c2
  Chains = {c1, c2}
  Logs <- MCLogs
  MaxSessions = 4
  Jobs = {j1}
  ChainOrder <- MCChainOrder
  AskedFrom <- MCAskedFrom
  AskedTo <- MCAskedTo
  BatchSizes = {0, 2}
  MaxWrites = 2
INVARIANTS
  RowsInRange
  TotalsCover
  MemoryAgrees
  ReplayFaithful
PROPERTIES
  SessionsOnlyGrow
  ReplayEnds
CHECK_DEADLOCK FALSE
