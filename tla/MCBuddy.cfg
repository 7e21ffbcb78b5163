CONSTANTS
  NULL = NULL
  N = 6
  MAX_ORDER = 3
  MaxRefs = 2
  Pow2 <- MCPow2
SPECIFICATION FairSpec
INVARIANTS
  BlocksDisjoint
  NoFrameLost
  FreeListsExact
  FullyCoalesced
  ProbeInBounds
  FailsOnlyWhenNoRun
  CountIsRefs
PROPERTIES
  ImplementsPool
  CallsReturn
