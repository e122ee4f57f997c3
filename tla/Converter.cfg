SPECIFICATION FairSpec
CONSTANTS
  Limit = 2
  Bodies <- MCBodies
INVARIANTS
  TypeOK
  NothingHeldBack
PROPERTIES
  Delivers
  CancelTerminates
  EndTerminates
