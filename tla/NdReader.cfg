SPECIFICATION ReaderSpec
CONSTANTS
  WordLen <- MCWordLen
  V0Len <- MCV0Len
  V2Len <- MCV2Len
  BufLen <- MCBufLen
  Files <- MCFiles
INVARIANTS
  NothingLeaked
  PrintsWhatIsThere
PROPERTIES
  Returns
CHECK_DEADLOCK FALSE
