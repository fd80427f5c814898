SPECIFICATION Spec
CONSTANTS
  UINTMAX <- MCUintMax
  Values <- MCValues
  Tables <- MCTables
INVARIANTS
  VerdictIsRight
  EndsClose
  DoneIsComplete
PROPERTIES
  ErrorsStay
CHECK_DEADLOCK FALSE
