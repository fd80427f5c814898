SPECIFICATION Spec
CONSTANTS
  Files <- MCFiles
  MaxOptions <- MCMaxOptions
INVARIANTS
  RunsConfigured
PROPERTIES
  NeverSleepsAgain
CHECK_DEADLOCK FALSE
