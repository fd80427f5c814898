SPECIFICATION KrpcSpec
CONSTANTS
  UINTMAX <- MCUintMax
  QueryName <- MCQueryName
  Ids <- MCIds
  Trans <- MCTrans
  Values <- MCValues
  Others <- MCOthers
INVARIANTS
  ParsedAsWritten
  PingsAreUnderstood
  EntriesAreTheirKeys
PROPERTIES
  WellFormedReturns
CHECK_DEADLOCK FALSE
