CONSTANTS
  Paths <- MCPaths
  NumBlobs = 2
  NumImages = 2
  Values = {0, 1}
  OldBlobs = 1
  OldTrees <- MCTrees
  OldEntries <- MCEntries
  BootIndex = 2
  Packed = FALSE
  MaxOpens = 2
  MaxEdits = 2
  MaxCommits = 2
SPECIFICATION Spec
INVARIANTS
  TypeOK
  Readable
  OkMeansApplied
PROPERTIES
  IsAtomic
CHECK_DEADLOCK FALSE
