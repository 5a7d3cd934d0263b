SPECIFICATION FairSpec
CONSTANTS
  SiteNames <- MCSiteNames
  Keys <- MCKeys
  Values <- MCValues
  SiteParams <- MCSiteParams
  MaxTags = 3
  Programs = {"p", "q"}
  OperatorLoads = TRUE
  MayRestart = TRUE
  MaxEvents = 1
  MaxHandEvents = 1
INVARIANTS
  TypeOK
  ChosenSiteRules
  UnisonInv
  HostKnowsProgram
  UnloadNamesProgram
  StopNeedsPause
PROPERTIES
  RecipeKeepsRobot
  PauseStops
