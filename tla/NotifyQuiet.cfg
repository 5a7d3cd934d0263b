SPECIFICATION FairSpec
CONSTANTS
  OperatorOps = {}
  CallMayFail = TRUE
  MayRestart = TRUE
  MaxEvents = 2
INVARIANTS
  TypeOK
  MutexExclusive
  NoLostCompletion
  ParamsOnlyWithProgram
  QuietInv
PROPERTIES
  WaitReturnsAfterAnswer
  ImplementsProgramCalls
  RecipeReturns
