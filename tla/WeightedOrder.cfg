SPECIFICATION Spec
CONSTANTS
  Pools <- MCPools
INVARIANTS
  Partition
  FairDraw
