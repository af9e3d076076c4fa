----------------------------- MODULE LzxWriter ------------------------------
(***************************************************************************)
(* pkg/wim/lzx: the LZX compressor for WIM chunks, one verbatim block for  *)
(* each chunk, and go-winio's decoder (external), which reads the chunks   *)
(* back: the reader of LzxReader with a WIM block header.                  *)
(***************************************************************************)
EXTENDS LzxReader, MatchFinder

CONSTANTS WindowSize,       \* the largest chunk, 32768 in the code
          E8FileSize,       \* 12000000
          NiceLen           \* a match this long ends the search, 64

ASSUME LzxWriterAssumption == {WindowSize, E8FileSize, NiceLen} \subseteq Nat \ {0}

-----------------------------------------------------------------------------
(* Calls *)

RECURSIVE EncodeFrom(_, _)
EncodeFrom(b, i) ==
    LET orig == Operand(b, i)
        abs == IF orig >= 0 THEN orig + i ELSE orig - E8FileSize
        stored == IF orig >= 0 THEN abs >= 0 /\ abs < E8FileSize ELSE abs >= -i /\ abs < 0
    IN IF i > Len(b) - E8Tail THEN b
       ELSE IF b[i + 1] # E8Byte THEN EncodeFrom(b, i + 1)
       ELSE EncodeFrom(IF stored THEN SetOperand(b, i, abs) ELSE b, i + 1 + OperandBytes)

EncodeE8(b) == IF Len(b) < E8Tail THEN b ELSE EncodeFrom(b, 0)

-----------------------------------------------------------------------------
(* Parsing: greedy, the longest match at every position. *)

Lit(b) == [match |-> FALSE, lit |-> b, offset |-> 0, len |-> 1]
Copy(m) == [match |-> TRUE, lit |-> 0, offset |-> m.off, len |-> m.len]

RECURSIVE Tokens(_, _, _)
Tokens(in, i, ch) ==
    LET m == FindMatch(ch, in, i, MinMatch, MaxMatch, NiceLen)
    IN IF i >= Len(in) THEN <<>>
       ELSE IF m.len >= MinMatch
       THEN <<Copy(m)>> \o Tokens(in, i + m.len, InsertRange(ch, in, i, i + m.len, None))
       ELSE <<Lit(At(in, i))>> \o Tokens(in, i + 1, Insert(ch, in, i))

OffsetSlot(offset) ==
    LET slots == {s \in 3..(Slots - 2) : BasePosition(s + 1) > offset + 2}
    IN IF slots = {} THEN Slots - 1 ELSE Min(slots)

Header(len) == Min({len - MinMatch, Headers - 1})
LongCode(len) == len - MinMatch - (Headers - 1)

MainSym(t) == IF t.match THEN NumChars + OffsetSlot(t.offset) * Headers + Header(t.len) ELSE t.lit

IsLong(t) == t.match /\ Header(t.len) = Headers - 1

Count(n, seq) == [s \in 0..(n - 1) |-> Cardinality({k \in DOMAIN seq : seq[k] = s})]

MainFreq(toks) == Count(NumMain, [k \in DOMAIN toks |-> MainSym(toks[k])])
LenFreq(toks) == LET longs == SelectSeq(toks, IsLong)
                 IN Count(NumLen, [k \in DOMAIN longs |-> LongCode(longs[k].len)])

HuffLens(freqs, limit) ==
    IF Used(freqs) = {} THEN [s \in DOMAIN freqs |-> 0] ELSE BuildLengthLimitedLengths(freqs, limit)

CanonCodes(lens) == BuildCanonicalCodes(lens)

-----------------------------------------------------------------------------
(* A tree half: the differences to the previous lengths, runs of zeros     *)
(* shortened, in a code of their own whose lengths go first.               *)

RECURSIVE ZeroPieces(_)
ZeroPieces(run) ==
    LET long == Min({run, LongRunMin + 2^(RunBits + 1) - 1})
        short == Min({run, LongRunMin - 1})
    IN IF run >= LongRunMin
       THEN <<[sym |-> LongZeroRun, extra |-> BitsOf(long - LongRunMin, RunBits + 1)]>> \o ZeroPieces(run - long)
       ELSE IF run >= RunMin
       THEN <<[sym |-> ZeroRun, extra |-> BitsOf(short - RunMin, RunBits)]>> \o ZeroPieces(run - short)
       ELSE [k \in 1..run |-> [sym |-> 0, extra |-> <<>>]]

RECURSIVE Pieces(_, _)
Pieces(delta, i) ==
    LET n == Cardinality(DOMAIN delta)
        run == CHOOSE r \in 0..(n - i) : /\ \A k \in i..(i + r - 1) : delta[k] = 0
                                         /\ i + r = n \/ delta[i + r] # 0
    IN IF i >= n THEN <<>>
       ELSE IF delta[i] = 0 THEN ZeroPieces(run) \o Pieces(delta, i + run)
       ELSE <<[sym |-> delta[i], extra |-> <<>>]>> \o Pieces(delta, i + 1)

\* A code of one symbol would not be complete: a neighbour is counted once.
WithNeighbour(freq) ==
    IF Cardinality(Used(freq)) > 1 THEN freq
    ELSE [freq EXCEPT ![IF freq[0] > 0 THEN 1 ELSE 0] = @ + 1]

Delta(old, new) == (old + MaxLen + 1 - new) % (MaxLen + 1)

EmitPieces(pieces) ==
    LET preLens == HuffLens(WithNeighbour(Count(NumPre, [k \in DOMAIN pieces |-> pieces[k].sym])), PreLimit)
        codes == CanonCodes(preLens)
    IN FlattenSeq([s \in 1..NumPre |-> BitsOf(preLens[s - 1], PreBits)])
       \o FlattenSeq([k \in DOMAIN pieces |-> codes[pieces[k].sym] \o pieces[k].extra])

EmitTree(lens, prev) == EmitPieces(Pieces([s \in DOMAIN lens |-> Delta(prev[s], lens[s])], 0))

-----------------------------------------------------------------------------
(* The block: the symbol, the long length, then the bits of the offset. *)

EmitToken(t, mainCodes, lenCodes) ==
    LET slot == OffsetSlot(t.offset)
    IN mainCodes[MainSym(t)]
       \o (IF IsLong(t) THEN lenCodes[LongCode(t.len)] ELSE <<>>)
       \o (IF t.match THEN BitsOf(t.offset + 2 - BasePosition(slot), FooterBits(slot)) ELSE <<>>)

EmitBlock(dataLen, toks, mainLens, lenLens) ==
    LET mainCodes == CanonCodes(mainLens)
        lenCodes == CanonCodes(lenLens)
    IN BitsOf(VerbatimBlock, 3)
       \o (IF dataLen = WindowSize THEN <<1>> ELSE <<0>> \o BitsOf(dataLen, WordBits))
       \o EmitTree(Half(mainLens, 0, NumChars), NoLens(NumChars))
       \o EmitTree(Half(mainLens, NumChars, NumMain), NoLens(NumMain - NumChars))
       \o EmitTree(lenLens, NoLens(NumLen))
       \o FlattenSeq([k \in DOMAIN toks |-> EmitToken(toks[k], mainCodes, lenCodes)])

\* Whole words, each low byte first; two words more than the bits need, which
\* the decoder fetches ahead of its last symbols.
Bytes(bits) ==
    LET n == (Len(bits) + WordBits - 1) \div WordBits
        full == Padded(bits, n * WordBits)
    IN [k \in 1..(2 * n) |-> SubSeq(full, ((k - 1) \div 2) * WordBits + (IF k % 2 = 1 THEN ByteBits ELSE 0) + 1,
                                    ((k - 1) \div 2) * WordBits + (IF k % 2 = 1 THEN WordBits ELSE ByteBits))]

\* No words more than the bits need.
FlushExact(bits) == Bytes(bits)

Flush(bits) == Bytes(bits) \o [k \in 1..4 |-> Zeros(ByteBits)]

LzxBlock(in, toks) == EmitBlock(Len(in), toks, HuffLens(MainFreq(toks), MaxLen), HuffLens(LenFreq(toks), MaxLen))

LzxCompress(in) == IF in = <<>> THEN <<>> ELSE Flush(LzxBlock(in, Tokens(EncodeE8(in), 0, NoChains(in))))

-----------------------------------------------------------------------------
(* go-winio's decoder *)

WimTrees(d) == IF d.err \/ d.type # VerbatimBlock THEN Fail(d) ELSE ReadTrees(d)
WimSize(size, type) == WimTrees([size.d EXCEPT !.type = type, !.left = size.v])
WimFull(full, type) ==
    WimSize(IF full.v = 1 THEN [v |-> WindowSize, d |-> full.d] ELSE GetBits(full.d, WordBits), type)
WimType(bt) == WimFull(GetBits(bt.d, 1), bt.v)
WimBlockHeader(d) == WimType(GetBits(d, 3))

WimFinished(d, size) ==
    IF d.err \/ Len(d.out) # size THEN Corrupt ELSE Decoded(DecodeE8(d.out, 0, E8FileSize))

WimBlock(b) == DecodeMatches(b, b.left)

WimDecompress(data, size) ==
    IF size = 0 THEN Decoded(<<>>)
    ELSE WimFinished(WimBlock(WimBlockHeader([NewDecoder(TRUE) EXCEPT !.data = data])), size)
=============================================================================
