SPECIFICATION FairSpec
CONSTANTS
  c1 = c1
  c2 = c2
  Channels <- OneChannel
  BotChoices <- AnyBot
  Batches <- MixedBatches
  Secured = TRUE
  MaxConn = 2
  MaxReads = 3
  MaxCalls = 1
  ErrorWithBytes = FALSE
CHECK_DEADLOCK FALSE
INVARIANTS
  NeverReconnects
PROPERTIES
  BrokenStreamEndsReading
