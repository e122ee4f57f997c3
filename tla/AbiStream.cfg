SPECIFICATION FairSpec
CONSTANTS
  Limit = 2
  Bodies <- MCBodies
INVARIANTS
  TypeOK
  CleanCloseComplete
PROPERTIES
  EndToEnd
  CallEnds
  NothingLeftBehind
