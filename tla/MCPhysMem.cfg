CONSTANTS
  STALE = STALE
  Maps <- MCMaps
  KernEnds = {1400, 2001, 4081, 4096}
SPECIFICATION Spec
CHECK_DEADLOCK FALSE
INVARIANTS GoodMachinesBoot LayoutRight FaultsExplained
