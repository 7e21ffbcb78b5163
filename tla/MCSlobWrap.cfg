CONSTANTS
  NULL = NULL
  ARENA = 9
  HDR = 1
  MINPART = 2
  WORD = 32
  Sizes = {3, 31}
  Slots = {s1, s2}
SPECIFICATION Spec
INVARIANT GrantInArena
