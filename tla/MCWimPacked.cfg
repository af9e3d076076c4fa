CONSTANTS
  Paths <- MCPaths
  NumBlobs = 2
  NumImages = 2
  Values = {0, 1}
  OldBlobs = 1
  OldTrees <- MCTrees
  OldEntries <- MCEntries
  BootIndex = 2
  Packed = TRUE
  MaxOpens = 1
  MaxEdits = 2
  MaxCommits = 1
SPECIFICATION Spec
PROPERTY UnmodifiedKeepEntry
CHECK_DEADLOCK FALSE
