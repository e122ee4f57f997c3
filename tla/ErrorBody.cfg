SPECIFICATION FairSpec
CONSTANTS
  Cap = 3
  Scripts <- MCScripts
INVARIANTS
  TypeOK
  BodyComplete
PROPERTIES
  ReturnsInTime
  NothingLeftBehind
