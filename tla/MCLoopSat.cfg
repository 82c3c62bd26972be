CONSTANTS
  NVars = 3
  MaxClauses = 2
  Runs = 2
  Inputs <- MCInputs
SPECIFICATION Spec
CHECK_DEADLOCK FALSE
INVARIANTS TypeOK SameAnswer DecideAssert SatSound
PROPERTY AllRunsAnswer
