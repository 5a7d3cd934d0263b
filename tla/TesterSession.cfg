SPECIFICATION FairSpec
CONSTANTS
  RestartsWhile = {"connect", "active", "register", "resetFlag", "watch",
                   "startStates", "startCmd", "startStreams",
                   "stopStreams", "stopCmd", "stopStates", "release"}
INVARIANTS
  HandlersHaveTester
  StatesOutliveCommands
  SessionInv
PROPERTIES
  RestartIsSeen
