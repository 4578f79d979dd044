SPECIFICATION Spec
CONSTANTS
  Modes <- MCAllModes
  BlocksCount = 4
INVARIANTS
  TypeOK
  

PROPERTIES
  AllDelivered
  NoSubmitIntoRunningContext
CHECK_DEADLOCK FALSE
