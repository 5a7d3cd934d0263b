SPECIFICATION FairSpec
CONSTANTS
  Versions = {v1, v2}
  NoFile = NoFile
  Damaged = Damaged
  OtherProgram = OtherProgram
  Paths = {"plain", "nested"}
  MayMisfire = {}
INVARIANTS
  TruthTable
