\* A cache of three logs and six adds: each page may be followed by adds that
\* push logs down and out.  Clients may ask for sizes 1 and 2; query() clamps 0
\* and 3.  A token lasts from one request to the next or does not.
SPECIFICATION PSpec
CONSTANTS
  Logs = {11, 12, 13, 14, 22, 31}
  KeyOf <- MCKeyOf
  ChainOf <- MCChainOf
  RankOf <- MCRankOf
  TopicOf <- MCTopicOf
  MaxSize = 3
  Writers = {1, 2, 3}
  Batches <- MCBatches
  MaxAdded = 6
  Clients = {k1}
  Requested = {0, 1, 2, 3}
  PageLimit = 2
  DefaultSize = 1
  PublicPaths = {"/", "/health", "/ready"}
  Offset = 0
INVARIANTS
  TypeOK
  Coherent
  KeepsNewest
  PagingMissesNothing
  PagesPartition
PROPERTY EvictsOneForOne
CHECK_DEADLOCK FALSE
