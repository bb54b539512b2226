SPECIFICATION Spec
CONSTANTS
  c1 = c1
  c2 = c2
  Channels <- OneChannel
  BotChoices <- AnyBot
  Batches <- PingAndChatBatches
  Secured = TRUE
  MaxConn = 2
  MaxReads = 3
  MaxCalls = 1
  ErrorWithBytes = TRUE
CHECK_DEADLOCK FALSE
INVARIANTS
  PingHandledOnce
  TerminationHasCause
