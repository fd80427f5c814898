SPECIFICATION KrpcSpec
CONSTANTS
  UINTMAX <- MCUintMax
  QueryName <- MCQueryName
  Ids <- MCIdsOfNul
  Trans <- MCTrans
  Values = {}
  Others <- MCPings
INVARIANT
  PingsAreUnderstood
CHECK_DEADLOCK FALSE
