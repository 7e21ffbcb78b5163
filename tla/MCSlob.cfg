CONSTANTS
  NULL = NULL
  ARENA = 13
  HDR = 1
  MINPART = 2
  WORD = 32
  Sizes = {1, 3, 6}
  Slots = {s1, s2, s3}
SPECIFICATION FairSpec
INVARIANTS
  Tiling
  NoAdjacentFree
  UsedHasHolder
  GrantsExclusive
  NullOnlyWhenNoneFits
PROPERTY
  KmallocReturns
