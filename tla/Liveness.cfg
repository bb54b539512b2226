SPECIFICATION FairSpec
CONSTANTS
  c1 = c1
  c2 = c2
  Channels <- OneChannel
  BotChoices <- WithBot
  Batches <- AnswerableBatches
  Secured = TRUE
  MaxConn = 2
  MaxReads = 2
  MaxCalls = 1
  ErrorWithBytes = TRUE
CHECK_DEADLOCK FALSE
PROPERTIES
  RecoveryEnds
  SessionSettles
  PingAnswered
