SPECIFICATION FairSpec
CONSTANTS
  OperatorOps = {}
  CallMayFail = FALSE
  MayRestart = TRUE
  MaxEvents = 1
PROPERTIES
  ShutdownCompletes
