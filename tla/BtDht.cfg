SPECIFICATION Spec
CONSTANTS
  PEER_TIMEOUT <- MCPeerTimeout
  MaxStep <- MCMaxStep
  MaxLag <- MCMaxLag
  MaxInbox <- MCMaxInbox
INVARIANTS
  TypeOK
  TimerKept
  NextPingInTime
PROPERTIES
  PingsApart
  PingsForever
CHECK_DEADLOCK FALSE
