SPECIFICATION Spec
CONSTANTS
  Logs = {11, 12, 21}
  ChainOf <- MCChainOf
  BlockOf <- MCBlockOf
  Handlers = {h1, h2}
  BatchSize = 2
  RetryAttempts = 2
PROPERTY FailedDataStaysBuffered
CHECK_DEADLOCK FALSE
