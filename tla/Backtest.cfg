\* Three submissions to the second of two chains of one name, of which two may
\* be the lifespan's; ranges within blocks 0..3 that are a multiple of the batch
\* size, are not, are one block or empty; a batch size of 0 in the configuration.
SPECIFICATION FairSpec
CONSTANTS
  Configured <- MCConfigured
  Keys <- MCKeys
  Lower <- MCLower
  Me = 2
  Submissions = {s1, s2, s3}
  LogBlocks = {0, 2, 3}
  Froms = {0, 3}
  Tos = {2, 3}
  BatchSizes = {0, 2}
  Setups <- MCSetups
INVARIANTS
  TasksHaveQuerier
  DeliversPrefix
  ProgressAddsUp
PROPERTY
  TasksEnd
CHECK_DEADLOCK FALSE
