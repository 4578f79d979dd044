CONSTANTS
  ResetBy = "update"
  GapValues <- MCGapValues

SPECIFICATION Spec
INVARIANT TypeOK
PROPERTY PersistedGapStays
