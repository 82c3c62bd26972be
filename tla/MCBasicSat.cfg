CONSTANTS
  NVars = 3
  MaxClauses = 3
  Inputs <- AllInputs
SPECIFICATION Spec
CHECK_DEADLOCK FALSE
INVARIANTS TypeOK NeverOvercounts
PROPERTIES Answers SearchSpec
