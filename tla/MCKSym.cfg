CONSTANTS
  NULL = NULL
  KALLSYMS_NUM_MAX = 3
  TextStart = 1
  TextEnd = 5
  Values <- MCValues
  MaxSyms = 4
SPECIFICATION FairKSymSpec
INVARIANTS
  SymbolsKept
  LookupRight
PROPERTIES
  LoopsEnd
