SPECIFICATION Spec
CONSTANTS
  OperatorLoads = FALSE
  CustomNames = {"", "PROBER"}
  MaxFields = 2
  MaxCustoms = 3
INVARIANTS
  TypeOK
  Delivered
  FaFollowsRecipe
  CustomsTold
  OnlyFlowIdSurvives
  ParamsInv
