CONSTANTS
  NVars = 3
  MaxClauses = 3
  OppositeUnits = TRUE
  Inputs <- MCInputs
SPECIFICATION Spec
CHECK_DEADLOCK FALSE
INVARIANT SatSound
