CONSTANTS
  ByteBits = 2
  HashSize = 4
  MaxChain = 2
  XpressChars = 2
  LenBits = 1
  NiceMatch = 6
  OffsetSlots = 5
  Headers = 2
  Slots = 9
  PreBits = 2
  RunMin = 2
  RunBits = 1
  AlignBits = 2
  MaxMatch = 9
  E8Byte = 3
  OperandBytes = 3
  E8Tail = 5
  MaxE8Offset = 15
  WindowSize = 15
  E8FileSize = 20
  NiceLen = 6
  FrameSize = 10
  DictSize = 4
  Letters = {0, 1}
  Lengths = {2, 5}
  MaxEvents = 4
  LongShapes <- MCLongShapes
  Texts <- MCTexts
  OutSize = 5
  Radix = 4
  LiteralValues = {0, 1}
  ExtraBits <- MCExtraBits
  Powers = {0, 1}
  MatchLens = {1, 2}
  CodeSyms = 4
  RebuildFreq = 4
  MaxRebuilds = 2
  CodeLimit = 4
  ShiftBits = 3
  ProbBits = 2
  OperandWidth = 2
  TargetWidth = 1
  MaxTranslation = 9
  IdWindow = 20
  XpressChunks <- MCXpressChunks
  LzxChunks <- MCLzxChunks
  Programs <- MCPrograms
  SymbolCounts <- MCSymbolCounts
  LengthLimit = 3
SPECIFICATION Spec
INVARIANT CallsRestored
CHECK_DEADLOCK FALSE
