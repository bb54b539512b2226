SPECIFICATION Spec
CONSTANTS
  viewer = viewer
  mod = mod
  cmd = cmd
  mode = mode
  w1 = w1
  w2 = w2
  NoCommand = NoCommand
  Users <- MCUsers
  Commands <- MCCommands
  Modes <- NoModes
  Workers <- TwoWorkers
  Starts <- OneStart
  Levels <- MCLevels
  MinimumRoles <- BroadcasterOnly
  Settings <- DefaultSettings
  ModeSettings <- OpenMode
  Chats <- MCChats
  MaxMessages = 2
CHECK_DEADLOCK FALSE
INVARIANTS
  ContentIsAllowed
