SPECIFICATION ISpec
CONSTANTS
  Logs = {12, 13, 22}
  ChainOf <- MCChainOf
  BlockOf <- MCBlockOf
  Handlers = {h1}
  BatchSize = 2
  RetryAttempts = 1
  ChainOrder <- MCChainOrder
  KeyOf <- MCKeyOf
  MaxSize = 2
  PageLimit = 1
  Known <- MCKnown
  MaxLives = 2
PROPERTY GapIsFilled
CHECK_DEADLOCK FALSE
