SPECIFICATION WalkSpec
CONSTANTS
  UINTMAX <- MCUintMax
  Values <- MCValues
  Others <- MCOthers
INVARIANTS
  ReadsAreBounded
  CasesPass
PROPERTIES
  MeetsEveryValue
  Finishes
CHECK_DEADLOCK FALSE
