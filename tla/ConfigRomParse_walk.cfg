CONSTANTS
  Inputs <- MCPassInputs

SPECIFICATION Spec
INVARIANTS
  TypeOK
  CrcVerdictExact
  WalkFindsTree
  ValidRomParses
CHECK_DEADLOCK FALSE
