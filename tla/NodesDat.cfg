SPECIFICATION Spec
CONSTANTS
  WordLen <- MCWordLen
  V0Len <- MCV0Len
  V2Len <- MCV2Len
  Files <- MCFiles
INVARIANTS
  TypeOK
  CopiesInBounds
  EntriesAreFileSlices
  NoExtraPeers
  ShortCountMeansComplete
  OneOwnerPerPeer
PROPERTIES
  KeepsOwnership
  ErrorIsSticky
