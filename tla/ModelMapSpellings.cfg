SPECIFICATION Spec
CONSTANTS
  Lists <- MCLists
  Requests <- PlainRequests
INVARIANTS
  BothSpellings
