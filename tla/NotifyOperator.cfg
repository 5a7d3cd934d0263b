SPECIFICATION FairSpec
CONSTANTS
  OperatorOps = {"load", "unload"}
  CallMayFail = TRUE
  MayRestart = FALSE
  MaxEvents = 1
PROPERTIES
  FailureSticks
  StateHandlerReturns
