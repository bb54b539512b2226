SPECIFICATION Spec
CONSTANTS
  c1 = c1
  c2 = c2
  Channels <- TwoChannels
  BotChoices <- WithBot
  Batches <- SilentBatches
  Secured = TRUE
  MaxConn = 3
  MaxReads = 3
  MaxCalls = 2
  ErrorWithBytes = TRUE
SYMMETRY ChannelSymmetry
CHECK_DEADLOCK FALSE
INVARIANTS
  TypeOK
  OneReadLoop
  NoCrossSessionFraming
  SessionRestored
  HandlerFollows
PROPERTIES
  HandlerNeverGoesBack
  ImplementsSession
