SPECIFICATION FairSpec
CONSTANTS
  OperatorOps = {"unload"}
  CallMayFail = FALSE
  MayRestart = FALSE
  MaxEvents = 1
PROPERTIES
  WaitReturnsAfterAnswer
