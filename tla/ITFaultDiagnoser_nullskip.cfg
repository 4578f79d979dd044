CONSTANTS
  Lines <- MCNullSkipLines
  None = None
  MaxLines = 3

SPECIFICATION Spec
CHECK_DEADLOCK FALSE
INVARIANT NullSkipDetected
