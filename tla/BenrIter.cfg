SPECIFICATION Spec
CONSTANTS
  UINTMAX <- MCUintMax
  Values <- MCValues
  Others <- MCOthers
INVARIANTS
  InBounds
  ReadsEveryElement
  TruncationIsNoticed
  TokenizersAgree
PROPERTIES
  EndIsFinal
  CallsReturn
CHECK_DEADLOCK FALSE
