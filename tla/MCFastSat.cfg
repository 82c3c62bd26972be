CONSTANTS
  NVars = 3
  MaxClauses = 3
  OppositeUnits = FALSE
  Inputs <- MCInputs
SPECIFICATION Spec
CHECK_DEADLOCK FALSE
INVARIANTS TypeOK OnlyImpliedConflicts WatchesListed WatchInv StackFits
PROPERTIES Answers SearchSpec
