----------------------------- MODULE LzxReader ------------------------------
(***************************************************************************)
(* pkg/cab/lzx.go: the LZX decoder for the data blocks of a cabinet.  The  *)
(* bit reader starts afresh at every data block while the trees, the       *)
(* unfinished LZX block, the repeated offsets and the output go on.        *)
(*                                                                         *)
(* The decoder is one record: the reader (data, next, bits, unaligned, err)*)
(* and the stream's state.  The WIM decoder of go-winio, which pkg/cab was *)
(* adapted from, is the same reader with wim = TRUE: it wants every tree   *)
(* complete and fails when it fetches a word past the end of its input.    *)
(*                                                                         *)
(* Widths are constants: a byte has ByteBits bits, a word two bytes, a     *)
(* code word at most a word, a main symbol Headers length headers (8).     *)
(***************************************************************************)
EXTENDS Integers, Sequences, SequencesExt, FiniteSetsExt, Functions, Huffman

CONSTANTS ByteBits, Headers, Slots,
          PreBits,              \* bits of a pretree length, 4 in the code
          RunMin, RunBits,      \* a short run of zeros: 4 + 4 bits in the code
          AlignBits,            \* bits of an offset in the aligned tree, 3
          MaxMatch,             \* 257
          E8Byte, OperandBytes, \* the call opcode; 4
          E8Tail,               \* bytes at the end left alone, 10
          MaxE8Offset           \* lzxMaxE8Offset: frames beyond it are left alone

ASSUME LzxAssumption ==
    /\ {ByteBits, Headers, Slots, PreBits, RunMin, RunBits, AlignBits, MaxMatch,
        OperandBytes, E8Tail, MaxE8Offset} \subseteq Nat \ {0}
    /\ E8Byte \in 0..(2^ByteBits - 1)
    /\ E8Tail > OperandBytes
    /\ Slots <= 36          \* beyond them, footers no longer grow

WordBits == 2 * ByteBits
MaxLen == WordBits
NumChars == 2^ByteBits
NumMain == NumChars + Slots * Headers
MinMatch == 2
NumLen == MaxMatch - MinMatch - (Headers - 1) + 1
LongRunMin == RunMin + 2^RunBits

\* The pretree's symbols beyond the differences 0..MaxLen.
ZeroRun == MaxLen + 1
LongZeroRun == MaxLen + 2
SameRun == MaxLen + 3
NumPre == MaxLen + 4
PreLimit == 2^PreBits - 1

VerbatimBlock == 1
AlignedBlock == 2
UncompressedBlock == 3

FooterBits(slot) == IF slot < 4 THEN 0 ELSE slot \div 2 - 1
BasePosition(slot) == MapThenSumSet(LAMBDA s : 2^FooterBits(s), 0..(slot - 1))

NoLens(n) == [s \in 0..(n - 1) |-> 0]
NoTable(limit) == [i \in 0..(2^limit - 1) |-> 0]

-----------------------------------------------------------------------------
(* Bits *)

Fail(d) == [d EXCEPT !.err = TRUE, !.bits = <<>>]

Feed(d) ==
    IF Len(d.data) - d.next < 2 THEN [d EXCEPT !.err = @ \/ d.wim]
    ELSE [d EXCEPT !.bits = @ \o d.data[d.next + 2] \o d.data[d.next + 1], !.next = @ + 2]

GetBits(d, n) ==
    LET f == IF Len(d.bits) < n THEN Feed(d) ELSE d
    IN IF Len(f.bits) < n THEN [v |-> 0, d |-> Fail(f)]
       ELSE [v |-> ValueOf(First(f.bits, n)), d |-> [f EXCEPT !.bits = Rest(@, n)]]

\* Up to 17 bits, one more than a word.
GetBitsLong(d, n) ==
    LET hi == GetBits(d, n - WordBits)
        lo == GetBits(hi.d, WordBits)
    IN IF n <= WordBits THEN GetBits(d, n) ELSE [v |-> hi.v * 2^WordBits + lo.v, d |-> lo.d]

\* A tree is refused when its words do not fit; go-winio wants them to fit exactly.
Accepts(d, lens, limit) == IF d.wim THEN Complete(lens, limit) ELSE ~OverSubscribed(lens, limit)

GetCode(d, table, lens, limit) ==
    LET f == IF Len(d.bits) < WordBits THEN Feed(d) ELSE d
        peek == First(f.bits \o Zeros(limit), limit)
        sym == table[ValueOf(peek)]
    IN IF f.err \/ lens[sym] = 0 \/ Len(f.bits) < lens[sym] THEN [v |-> 0, d |-> Fail(f)]
       ELSE [v |-> sym, d |-> [f EXCEPT !.bits = Rest(@, lens[sym])]]

-----------------------------------------------------------------------------
(* Trees *)

SetRun(lens, i, n, l) == [s \in DOMAIN lens |-> IF i <= s /\ s < i + n THEN l ELSE lens[s]]

Failed(d, lens) == [d |-> Fail(d), lens |-> lens]

\* A difference to the length the symbol had.
Changed(old, x) == (old + MaxLen + 1 - x) % (MaxLen + 1)

\* What a pretree's symbol stands for: n lengths, all of them v.
ZerosOf(g, min) == [n |-> g.v + min, v |-> 0, d |-> g.d]
SameOf(n, diff, old) ==
    IF diff.v > MaxLen THEN [n |-> 0, v |-> 0, d |-> Fail(diff.d)] ELSE [n |-> n, v |-> Changed(old, diff.v), d |-> diff.d]
SameAfter(g, old, pre, table) == SameOf(g.v + RunMin, GetCode(g.d, table, pre, PreLimit), old)

PieceOf(c, old, pre, table) ==
    CASE c.d.err \/ c.v <= MaxLen -> [n |-> 1, v |-> Changed(old, c.v), d |-> c.d]
      [] c.v \in {ZeroRun, LongZeroRun} ->
           ZerosOf(GetBits(c.d, IF c.v = ZeroRun THEN RunBits ELSE RunBits + 1),
                   IF c.v = ZeroRun THEN RunMin ELSE LongRunMin)
      [] OTHER -> SameAfter(GetBits(c.d, 1), old, pre, table)

SetPiece(lens, i, p) ==
    IF p.d.err \/ i + p.n > Cardinality(DOMAIN lens) THEN Failed(p.d, lens)
    ELSE [d |-> p.d, lens |-> SetRun(lens, i, p.n, p.v), n |-> p.n]

\* The lengths from i on.
RECURSIVE ReadLens(_, _, _, _)
ReadLens(r, i, pre, table) ==
    IF r.d.err \/ i >= Cardinality(DOMAIN r.lens) THEN r
    ELSE LET q == SetPiece(r.lens, i, PieceOf(GetCode(r.d, table, pre, PreLimit), r.lens[i], pre, table))
         IN ReadLens(q, IF q.d.err THEN i ELSE i + q.n, pre, table)

\* n raw lengths of w bits each.
RECURSIVE RawLens(_, _, _, _)
RawLens(d, n, w, lens) ==
    IF Cardinality(DOMAIN lens) = n THEN [d |-> d, lens |-> lens]
    ELSE LET g == GetBits(d, w) IN RawLens(g.d, n, w, lens @@ (Cardinality(DOMAIN lens) :> g.v))

WithPretree(pre, lens) ==
    IF pre.d.err \/ ~Accepts(pre.d, pre.lens, PreLimit) THEN Failed(pre.d, lens)
    ELSE ReadLens([d |-> pre.d, lens |-> lens], 0, pre.lens, FillTable(NoTable(PreLimit), pre.lens, PreLimit))

ReadTree(d, lens) == WithPretree(RawLens(d, NumPre, PreBits, <<>>), lens)

Half(lens, lo, hi) == [s \in 0..(hi - lo - 1) |-> lens[s + lo]]

\* The block's trees: the aligned one, the main one in two halves, the lengths.
AlignedTree(d, lens) ==
    IF Accepts(d, lens, 2^AlignBits - 1)
    THEN [d EXCEPT !.alnlens = lens, !.alnTable = FillTable(@, lens, WordBits)] ELSE Fail(d)

MainTree(d, lens) ==
    IF Accepts(d, lens, WordBits)
    THEN [d EXCEPT !.mainlens = lens, !.mainTable = FillTable(@, lens, WordBits)] ELSE Fail(d)

LenTree(d, lens) ==
    IF Accepts(d, lens, WordBits)
    THEN [d EXCEPT !.lenlens = lens, !.lenTable = FillTable(@, lens, WordBits)] ELSE Fail(d)

ReadAligned(d) ==
    LET raw == RawLens(d, 2^AlignBits, AlignBits, <<>>)
    IN IF d.type = AlignedBlock THEN AlignedTree(raw.d, raw.lens) ELSE d

JoinedHalves(chars, heads) ==
    MainTree(heads.d, [s \in 0..(NumMain - 1) |-> IF s < NumChars THEN chars.lens[s] ELSE heads.lens[s - NumChars]])

ReadHeads(chars) == JoinedHalves(chars, ReadTree(chars.d, Half(chars.d.mainlens, NumChars, NumMain)))

ReadMain(d) == ReadHeads(ReadTree(d, Half(d.mainlens, 0, NumChars)))

AfterLens(r) == LenTree(r.d, r.lens)

ReadLengths(d) == AfterLens(ReadTree(d, d.lenlens))

ReadTrees(d) == ReadLengths(ReadMain(ReadAligned(d)))

-----------------------------------------------------------------------------
(* Blocks *)

\* The next n raw bytes, and the number little-endian bytes stand for.
TakeBytes(d, n) == [d EXCEPT !.next = @ + n, !.err = @ \/ d.next + n > Len(d.data)]
LittleEndian(bytes) == FoldRight(LAMBDA b, acc : acc * 2^ByteBits + b, bytes, 0)
RawBytes(d, at, n) == [k \in 1..n |-> IF at + k <= Len(d.data) THEN ValueOf(d.data[at + k]) ELSE 0]

\* A raw block starts on a word, after at least one bit, with the three offsets.
Aligned(d) == GetBits(d, IF d.bits = <<>> THEN WordBits ELSE Len(d.bits)).d
ReadOffsets(d) ==
    [TakeBytes(d, 3 * OperandBytes) EXCEPT
        !.bits = <<>>, !.unaligned = d.left % 2 = 1,
        !.lru = [k \in 0..2 |-> LittleEndian(RawBytes(d, d.next + k * OperandBytes, OperandBytes))]]

\* Type, then high and low part of the size: each step is given what the read
\* before it returned.
BlockBody(h) ==
    IF h.err \/ h.type \notin {VerbatimBlock, AlignedBlock, UncompressedBlock} THEN Fail(h)
    ELSE IF h.type = UncompressedBlock THEN ReadOffsets(Aligned(h)) ELSE ReadTrees(h)

LowSize(lo, type, hi) == BlockBody([lo.d EXCEPT !.type = type, !.left = hi * NumChars + lo.v])
HighSize(hi, type) == LowSize(GetBits(hi.d, ByteBits), type, hi.v)
BlockSize(bt) == HighSize(GetBits(bt.d, WordBits), bt.v)

\* A raw block of odd size is followed by a byte that is not part of it.
SkipPadding(d) == IF d.unaligned THEN [TakeBytes(d, 1) EXCEPT !.unaligned = FALSE] ELSE d

ReadBlockHeader(d) == BlockSize(GetBits(SkipPadding(d), 3))

RECURSIVE CopyBack(_, _, _)
CopyBack(out, offset, n) == IF n = 0 THEN out ELSE CopyBack(Append(out, out[Len(out) + 1 - offset]), offset, n - 1)

\* The offset of a match: a repeated one moves to the front, a new one pushes.
Plus(g, n) == [g EXCEPT !.v = @ + n]
AlignedLow(high, plain) ==
    Plus(GetCode(high.d, high.d.alnTable, high.d.alnlens, WordBits), plain + high.v * 2^AlignBits)

NewOffset(d, bits, plain) ==
    IF d.type = AlignedBlock /\ bits >= AlignBits THEN AlignedLow(GetBitsLong(d, bits - AlignBits), plain)
    ELSE Plus(GetBitsLong(d, bits), plain)

Pushed(m) == [m EXCEPT !.d.lru = [k \in 0..2 |-> IF k = 0 THEN m.v ELSE m.d.lru[k - 1]]]

MatchOffset(d, slot) ==
    IF slot < 3 THEN [v |-> d.lru[slot], d |-> [d EXCEPT !.lru[slot] = d.lru[0], !.lru[0] = d.lru[slot]]]
    ELSE Pushed(NewOffset(d, FooterBits(slot), BasePosition(slot) - 2))

\* One symbol: a literal, or a match, whose length may go on in another code.
CopyWithin(m, len, end) ==
    IF m.d.err \/ m.v > Len(m.d.out) \/ len > end - Len(m.d.out) THEN Fail(m.d)
    ELSE [m.d EXCEPT !.out = CopyBack(@, m.v, len)]

LongOf(main, header) ==
    IF header = Headers - 1 THEN GetCode(main.d, main.d.lenTable, main.d.lenlens, WordBits) ELSE [main EXCEPT !.v = 0]

MatchOf(long, header, slot, end) == CopyWithin(MatchOffset(long.d, slot), MinMatch + header + long.v, end)

DecodeItem(main, end) ==
    LET n == main.v - NumChars
    IN IF main.d.err THEN main.d
       ELSE IF n < 0 THEN [main.d EXCEPT !.out = Append(@, main.v)]
       ELSE MatchOf(LongOf(main, n % Headers), n % Headers, n \div Headers, end)

RECURSIVE DecodeMatches(_, _)
DecodeMatches(d, end) ==
    IF Len(d.out) >= end \/ d.err THEN d
    ELSE DecodeMatches(DecodeItem(GetCode(d, d.mainTable, d.mainlens, WordBits), end), end)

CopyUncompressed(d, end) ==
    LET n == end - Len(d.out)
    IN [TakeBytes(d, n) EXCEPT !.out = @ \o RawBytes(d, d.next, n)]

-----------------------------------------------------------------------------
(* Calls *)

Signed(v) == IF v >= NumChars^OperandBytes \div 2 THEN v - NumChars^OperandBytes ELSE v
Operand(b, i) == Signed(LittleEndian(SubSeq(b, i + 2, i + 1 + OperandBytes)))
SetOperand(b, i, v) ==
    [k \in DOMAIN b |-> IF k \in (i + 2)..(i + 1 + OperandBytes)
                        THEN ((v % NumChars^OperandBytes) \div NumChars^(k - i - 2)) % NumChars
                        ELSE b[k]]

\* The calls of a frame that starts at off, from position i on.
RECURSIVE CallsFrom(_, _, _, _)
CallsFrom(b, off, i, filesize) ==
    LET cur == off + i
        abs == Operand(b, i)
        rel == IF abs >= 0 THEN abs - cur ELSE abs + filesize
        near == abs >= -cur /\ abs < filesize
    IN IF i >= Len(b) - E8Tail THEN b
       ELSE IF b[i + 1] # E8Byte THEN CallsFrom(b, off, i + 1, filesize)
       ELSE CallsFrom(IF near THEN SetOperand(b, i, rel) ELSE b, off, i + 1 + OperandBytes, filesize)

DecodeE8(b, off, filesize) ==
    IF filesize = 0 \/ off > MaxE8Offset \/ Len(b) < E8Tail THEN b ELSE CallsFrom(b, off, 0, filesize)

-----------------------------------------------------------------------------
(* A folder *)

NewDecoder(wim) ==
    [data |-> <<>>, next |-> 0, bits |-> <<>>, unaligned |-> FALSE, err |-> FALSE, wim |-> wim,
     out |-> <<>>, lru |-> [k \in 0..2 |-> 1], type |-> 0, left |-> 0, intel |-> 0,
     mainlens |-> NoLens(NumMain), lenlens |-> NoLens(NumLen), alnlens |-> NoLens(2^AlignBits),
     mainTable |-> NoTable(WordBits), lenTable |-> NoTable(WordBits), alnTable |-> NoTable(WordBits)]

\* The bits of the last word are kept.
ResetReaderOnly(d, comp) ==
    [d EXCEPT !.data = comp \o [k \in 1..8 |-> Zeros(ByteBits)], !.next = 0, !.unaligned = FALSE]

ResetReader(d, comp) ==
    [d EXCEPT !.data = comp \o [k \in 1..8 |-> Zeros(ByteBits)], !.next = 0, !.bits = <<>>, !.unaligned = FALSE]

\* The translation size, read once, at the start of the stream.
LowIntel(lo, hi) == [lo.d EXCEPT !.intel = hi * 2^WordBits + lo.v]
HighIntel(hi) == LowIntel(GetBits(hi.d, WordBits), hi.v)
AfterFlag(flag) == IF flag.v = 0 THEN flag.d ELSE HighIntel(GetBits(flag.d, WordBits))
ReadE8Header(d) == AfterFlag(GetBits(d, 1))

\* Of a block, what the chunk has of it; a block that gives nothing is an error.
Accounted(b, p) ==
    IF p.err \/ Len(p.out) = Len(b.out) THEN [p EXCEPT !.err = TRUE]
    ELSE [p EXCEPT !.left = @ - (Len(p.out) - Len(b.out))]

RunBlock(b, chunkEnd) ==
    LET limit == Min({chunkEnd, Len(b.out) + b.left})
    IN IF b.err THEN b
       ELSE Accounted(b, IF b.type = UncompressedBlock THEN CopyUncompressed(b, limit) ELSE DecodeMatches(b, limit))

RECURSIVE DecodeChunk(_, _)
DecodeChunk(d, chunkEnd) ==
    IF Len(d.out) >= chunkEnd \/ d.err THEN d
    ELSE DecodeChunk(RunBlock(IF d.left = 0 THEN ReadBlockHeader(d) ELSE d, chunkEnd), chunkEnd)

Started(d, ci) == IF ci = 1 THEN ReadE8Header(d) ELSE d

NextChunk(d, chunks, sizes, ci) ==
    IF d.err THEN d
    ELSE DecodeChunk(Started(ResetReader(d, chunks[ci]), ci), Len(d.out) + sizes[ci])

RECURSIVE DecodeChunks(_, _, _, _)
DecodeChunks(d, chunks, sizes, ci) ==
    IF ci > Len(chunks) THEN d ELSE DecodeChunks(NextChunk(d, chunks, sizes, ci), chunks, sizes, ci + 1)

\* The frames of frameSize bytes, each translated on its own.
Frames(out, frameSize, filesize) ==
    LET n == (Len(out) + frameSize - 1) \div frameSize
        Frame(k) == SubSeq(out, (k - 1) * frameSize + 1, Min({k * frameSize, Len(out)}))
    IN FlattenSeq([k \in 1..n |-> DecodeE8(Frame(k), (k - 1) * frameSize, filesize)])

Finished(d, frameSize) ==
    IF d.err THEN Corrupt ELSE Decoded(IF d.intel = 0 THEN d.out ELSE Frames(d.out, frameSize, d.intel))

LzxDecompress(chunks, sizes, frameSize) == Finished(DecodeChunks(NewDecoder(FALSE), chunks, sizes, 1), frameSize)
=============================================================================
