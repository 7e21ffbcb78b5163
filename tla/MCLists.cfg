CONSTANTS
  NULL = NULL
  h1 = h1
  h2 = h2
  e1 = e1
  e2 = e2
  e3 = e3
  Heads <- MCHeads
  Entries <- MCEntries
SYMMETRY MCSymmetry
SPECIFICATION ListsSpec
INVARIANTS RingsRight LoopsRight NodesRight
PROPERTIES ListsAreSequences HlistsAreSequences
