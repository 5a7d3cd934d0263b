SPECIFICATION Spec
CONSTANTS
  OperatorLoads = TRUE
  CustomNames = {""}
  MaxFields = 1
  MaxCustoms = 1
INVARIANTS
  HostNameFillsGap
