CONSTANTS
  ChunkSize = 2
  WideFrom = 3
  SolidMagic = 99
  Shrinks <- MCShrinks
  Comp = "XPRESS"
  Workers = {w1, w2}
  Dirs <- MCDirs
  Source <- MCSource
  SourceTrees <- MCSourceTrees
  BootIndex = 2
  MaxImages = 2
  MaxFailures = 1
  Reopen = TRUE
  PartSizes = {4, 9}
  MaxSplits = 2
SYMMETRY WorkersAlike
SPECIFICATION Spec
INVARIANTS
  TypeOK
  WrittenReadsBack
  ChunksOnce
  PartsPacked
  JoinedReadsBack
CHECK_DEADLOCK FALSE
