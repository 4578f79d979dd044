CONSTANTS
  Inputs <- MCHostDumpInputs

SPECIFICATION Spec
INVARIANT ValidRomParses
CHECK_DEADLOCK FALSE
