SPECIFICATION Spec
CONSTANTS
  c1 = c1
  c2 = c2
  Channels <- OneChannel
  BotChoices <- WithBot
  Batches <- PingBatches
  Secured = TRUE
  MaxConn = 1
  MaxReads = 2
  MaxCalls = 0
  ErrorWithBytes = FALSE
CHECK_DEADLOCK FALSE
INVARIANTS
  OnePongPerPing
