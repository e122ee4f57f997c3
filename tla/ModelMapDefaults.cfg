SPECIFICATION Spec
CONSTANTS
  Lists <- Defaults
  Requests <- PlainRequests
INVARIANTS
  DefaultAliasesRouted
