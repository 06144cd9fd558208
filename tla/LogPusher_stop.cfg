SPECIFICATION Spec
CONSTANTS
  Logs = {11, 12, 21}
  ChainOf <- MCChainOf
  BlockOf <- MCBlockOf
  Handlers = {h1, h2}
  BatchSize = 2
  RetryAttempts = 2
INVARIANT StopFlushesRemaining
CHECK_DEADLOCK FALSE
