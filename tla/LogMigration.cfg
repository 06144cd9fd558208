\* Two files, batches of two rows, two runs of which the first may fail on a
\* line; two recorders that open, write, close and crash meanwhile.
SPECIFICATION FairMSpec
CONSTANTS
  c1 = c1
  c2 = c2
  Chains = {c1, c2}
  Logs <- MCLogs
  MaxSessions = 4
  Directories <- MCDirectories
  BatchSize = 2
  MaxRuns = 2
  MaxTries = 1
INVARIANT
  MigrationIsComplete
PROPERTY
  MigrationEnds
CHECK_DEADLOCK FALSE
