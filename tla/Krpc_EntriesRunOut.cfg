SPECIFICATION KrpcSpec
CONSTANTS
  UINTMAX <- MCUintMax
  QueryName <- MCQueryName
  Ids <- MCIds
  Trans <- MCTrans
  Values = {}
  Others <- MCOthersOpen
PROPERTY
  EntriesRunOut
CHECK_DEADLOCK FALSE
