------------------------------- MODULE Codecs -------------------------------
(***************************************************************************)
(* The compression formats of WIM files and cabinets, each as a job that   *)
(* goes from a text to its stream and back:                                *)
(*   "xpress"   a chunk through Compress and Decompress of pkg/wim/xpress  *)
(*   "lzx"      a chunk through Compress of pkg/wim/lzx and go-winio       *)
(*   "filter"   x86 code through the filter of pkg/wim/lzms                *)
(*   "lengths"  frequencies to a length-limited code and its decode table  *)
(*   "cab"      a folder made step by step, then extracted by pkg/cab      *)
(*   "items", "code", "range"   the three layers of LZMS                   *)
(***************************************************************************)
EXTENDS Cabinet, Lzms

CONSTANTS XpressChars, LenBits, NiceMatch, OffsetSlots,
          XpressChunks, LzxChunks, Programs,    \* the texts of the chunk jobs
          SymbolCounts, LengthLimit             \* and of "lengths"

ASSUME CodecsAssumption ==
    {ByteBits, XpressChars, LenBits, NiceMatch, OffsetSlots, LengthLimit} \subseteq Nat \ {0}

X == INSTANCE Xpress WITH NumChars <- XpressChars, Slots <- OffsetSlots

VARIABLES
  job,
  chunk,      \* the text of a chunk job
  stream,     \* what the compressor made of it
  stage,      \* "raw", "packed", "read"
  read        \* what the decompressor made of that

chunkVars == <<chunk, stream, stage, read>>
vars == <<job, chunkVars, cabVars, lzmsVars>>

Nothing == <<>>

Init ==
  /\ CabInit /\ LzmsInit
  /\ stream = Nothing /\ stage = "raw" /\ read = Corrupt
  /\ \/ job = "xpress" /\ chunk \in XpressChunks
     \/ job = "lzx" /\ chunk \in LzxChunks
     \/ job = "filter" /\ chunk \in Programs
     \/ job = "lengths" /\ chunk \in SymbolCounts
     \/ job \in {"cab", "items", "code", "range"} /\ chunk = Nothing
  /\ job # "range" => range = NewRange(0)

-----------------------------------------------------------------------------
(* The chunk jobs *)

Pack ==
  /\ stage = "raw" /\ stage' = "packed"
  /\ \/ job = "xpress" /\ stream' = X!XpressCompress(chunk)
     \/ job = "lzx" /\ stream' = LzxCompress(chunk)
     \/ job = "filter" /\ stream' = Translated(chunk)
     \/ job = "lengths" /\ stream' = BuildLengthLimitedLengths(chunk, LengthLimit)
  /\ UNCHANGED <<job, chunk, read, cabVars, lzmsVars>>

Unpack ==
  /\ stage = "packed" /\ stage' = "read"
  /\ \/ job = "xpress" /\ read' = X!XpressDecompress(stream, Len(chunk))
     \/ job = "lzx" /\ read' = WimDecompress(stream, Len(chunk))
     \/ job = "filter" /\ read' = Decoded(Undone(stream))
     \/ job = "lengths" /\ read' = Decoded(BuildDecodeTable(stream, LengthLimit))
  /\ UNCHANGED <<job, chunk, stream, cabVars, lzmsVars>>

-----------------------------------------------------------------------------
Next ==
  \/ Pack
  \/ Unpack
  \/ job = "cab" /\ CabNext /\ UNCHANGED <<job, chunkVars, lzmsVars>>
  \/ job = "items" /\ LzmsItems /\ UNCHANGED <<job, chunkVars, cabVars, huff, rebuilds, range>>
  \/ job = "code" /\ (\E s \in Syms : DecodeSymbol(s)) /\ UNCHANGED <<job, chunkVars, cabVars>>
  \/ job = "range" /\ (\E w \in 0..(2^ShiftBits - 1) : DecodeBit(w)) /\ UNCHANGED <<job, chunkVars, cabVars>>

Spec == Init /\ [][Next]_vars

-----------------------------------------------------------------------------
\* A chunk that XPRESS packed, and code that the filter translated, come back
\* byte for byte: raw bytes and words interleave as the reader expects them,
\* long lengths escape as it expects, and the walk that undoes the filter
\* recognises the same operands.
ChunkReadsBack ==
  stage = "read" /\ job \in {"xpress", "filter"} => read = Decoded(chunk)

\* No code of the LZX block has exactly one symbol.
LzxTokens == Tokens(EncodeE8(chunk), 0, NoChains(chunk))
NoLoneSymbol == \A freqs \in {MainFreq(LzxTokens), LenFreq(LzxTokens)} : Cardinality(Used(freqs)) # 1

\* No call in reach of the end of the chunk, none that jumps back into it,
\* none whose target is beyond the translation size.
CallsForward ==
  \A i \in 0..(Len(chunk) - E8Tail) :
     At(chunk, i) = E8Byte =>
        /\ i < Len(chunk) - E8Tail
        /\ \/ Operand(chunk, i) \in 0..(E8FileSize - 1 - i)
           \/ Operand(chunk, i) >= E8FileSize
           \/ Operand(chunk, i) < -i

\* An LZX chunk whose calls all jump forward is never read as another one,
\* and reads back unless one of its codes has a single symbol.  Such a code
\* gets one word of one bit, which go-winio does not take for complete: there
\* "The output can be decompressed by github.com/Microsoft/go-winio" does not
\* hold, and this property does not say that it should not.
LzxReadsBack ==
  stage = "read" /\ job = "lzx" /\ CallsForward =>
     /\ read.ok => read = Decoded(chunk)
     /\ NoLoneSymbol => read.ok

\* Whatever the frequencies, the length-limited code has exactly the symbols
\* that occur, fits in the code space after the repair, and the decoder's
\* table gives each symbol for every continuation of its word.
LengthsDecodable ==
  stage = "read" /\ job = "lengths" /\ Used(chunk) # {} =>
     /\ InCode(stream) = Used(chunk)
     /\ ~OverSubscribed(stream, LengthLimit)
     /\ \A s \in Used(chunk) :
           LET from == ValueOf(Padded(BuildCanonicalCodes(stream)[s], LengthLimit))
           IN \A i \in from..(from + 2^(LengthLimit - stream[s]) - 1) : read.out[i] = s

\* "so that the round-trip is lossless": what the decoder does to the calls
\* of a chunk undoes what the compressor did to them.
CallsRestored ==
  stage = "read" /\ job = "lzx" /\ read.ok => read = Decoded(chunk)
=============================================================================
