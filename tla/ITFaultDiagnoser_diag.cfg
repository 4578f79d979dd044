CONSTANTS
  Lines <- MCLines
  None = None
  MaxLines = 4

SPECIFICATION Spec
INVARIANT TypeOK
INVARIANT CriticalIsFirstAlarm
INVARIANT DiagnosisReadsCmdPtrTarget
CHECK_DEADLOCK FALSE
