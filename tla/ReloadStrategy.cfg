SPECIFICATION FairSpec
CONSTANTS
  Versions = {v1, v2}
  NoFile = NoFile
  Damaged = Damaged
  OtherProgram = OtherProgram
  Paths = {"empty", "plain"}
  MayMisfire = {"fetch", "server", "tester", "operator"}
INVARIANTS
  TypeOK
  TruthTable
  FailedFetchKeepsProgram
  SuccessMeansRequested
  ReloadInv
PROPERTIES
  RecipeEnds
