SPECIFICATION FairSpec
CONSTANTS
  viewer = viewer
  mod = mod
  cmd = cmd
  mode = mode
  w1 = w1
  w2 = w2
  NoCommand = NoCommand
  Users <- MCUsers
  Commands <- MCCommands
  Modes <- OneMode
  Workers <- TwoWorkers
  Starts <- TwoStarts
  Levels <- MCLevels
  MinimumRoles <- BroadcasterOnly
  Settings <- ListSettings
  ModeSettings <- OpenMode
  Chats <- BothStarts
  MaxMessages = 2
CHECK_DEADLOCK FALSE
INVARIANTS
  BotTypeOK
  Authorised
  OwnContentUnlessShared
  CalledOnce
PROPERTIES
  CommandIsExecuted
  ImplementsService
