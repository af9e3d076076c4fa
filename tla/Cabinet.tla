------------------------------ MODULE Cabinet -------------------------------
(***************************************************************************)
(* pkg/cab: reading a cabinet.  The program that made the cabinet is not   *)
(* part of the repository; it is modelled from what the reader takes       *)
(* apart: a text is added as literals and matches, in LZX blocks of the    *)
(* three types, and cut into data blocks anywhere between two of them.     *)
(* The same steps give the data blocks of an MSZIP and of a stored folder. *)
(***************************************************************************)
EXTENDS LzxWriter, TLC

CONSTANTS FrameSize,    \* bytes translated as one, 32768 in the code
          DictSize,     \* bytes of history an MSZIP block sees, 32768
          Letters,      \* the literals a text is made of
          Lengths,      \* the match lengths
          MaxEvents,    \* bound of the steps the cabinet is made in
          LongShapes,   \* shapes of folders beyond it: the kind of each step, the type of a block
          Texts         \* texts with calls, for folders with translation

VARIABLES
  script,   \* how the text was made: blocks, items and cuts, in order
  text,     \* the text, as the LZX stream has it
  queue,    \* the compressor's last three offsets, the latest first
  intel,    \* the translation size, 0 without translation
  files     \* what Extract returned, by the kind of the folder; <<>> before

cabVars == <<script, text, queue, intel, files>>

CabInit ==
  /\ script = <<>> /\ text = <<>> /\ queue = <<1, 1, 1>> /\ intel = 0
  /\ files = <<>>

-----------------------------------------------------------------------------
(* Making a cabinet *)

Event(kind, type, slot, offset, len, lit) ==
    [kind |-> kind, type |-> type, slot |-> slot, offset |-> offset, len |-> len, lit |-> lit]

Items(events) == SelectSeq(events, LAMBDA e : e.kind = "item")
InBlock == \E k \in DOMAIN script : script[k].kind = "block"
LastBlock == script[CHOOSE k \in DOMAIN script : /\ script[k].kind = "block"
                                                 /\ \A j \in DOMAIN script : j > k => script[j].kind # "block"]

Shape(events) == [k \in DOMAIN events |-> <<events[k].kind, events[k].type>>]
InBounds(events) == Len(events) <= MaxEvents \/ \E shape \in LongShapes : IsPrefix(Shape(events), shape)

More(e) == files = <<>> /\ InBounds(Append(script, e)) /\ script' = Append(script, e) /\ UNCHANGED <<intel, files>>

NewBlock(type) ==
  /\ script # <<>> => script[Len(script)].kind # "block"
  /\ intel = 0
  /\ More(Event("block", type, 0, 0, 0, 0))
  /\ UNCHANGED <<text, queue>>

CutBlock ==
  /\ InBlock /\ script[Len(script)].kind = "item" /\ intel = 0
  /\ More(Event("cut", 0, 0, 0, 0, 0))
  /\ UNCHANGED <<text, queue>>

AddLiteral(b) ==
  /\ InBlock /\ intel = 0
  /\ More(Event("item", 0, 0, 0, 1, b))
  /\ text' = Append(text, b)
  /\ UNCHANGED queue

\* A match with a new offset pushes it on the queue.
AddMatch(offset, len) ==
  /\ InBlock /\ intel = 0 /\ LastBlock.type # UncompressedBlock /\ offset <= Len(text)
  /\ More(Event("item", 0, OffsetSlot(offset), offset, len, 0))
  /\ text' = CopyBack(text, offset, len)
  /\ queue' = <<offset, queue[1], queue[2]>>

\* A match with one of the last three offsets swaps it to the front.
AddRepeat(r, len) ==
  /\ InBlock /\ intel = 0 /\ LastBlock.type # UncompressedBlock /\ queue[r] <= Len(text)
  /\ More(Event("item", 0, r - 1, queue[r], len, 0))
  /\ text' = CopyBack(text, queue[r], len)
  /\ queue' = [queue EXCEPT ![r] = queue[1], ![1] = queue[r]]

\* The translation of a frame at off, the one that can be undone: an operand
\* in reach of the frame's calls becomes absolute.
RECURSIVE TranslateFrom(_, _, _)
TranslateFrom(b, off, i) ==
    LET cur == off + i
        rel == Operand(b, i)
        abs == IF rel < E8FileSize - cur THEN rel + cur ELSE rel - E8FileSize
    IN IF i >= Len(b) - E8Tail THEN b
       ELSE IF b[i + 1] # E8Byte THEN TranslateFrom(b, off, i + 1)
       ELSE TranslateFrom(IF rel >= -cur /\ rel < E8FileSize THEN SetOperand(b, i, abs) ELSE b,
                          off, i + 1 + OperandBytes)

Translate(b) ==
    LET n == (Len(b) + FrameSize - 1) \div FrameSize
    IN FlattenSeq([k \in 1..n |-> TranslateFrom(
           SubSeq(b, (k - 1) * FrameSize + 1, Min({k * FrameSize, Len(b)})), (k - 1) * FrameSize,
           IF (k - 1) * FrameSize > MaxE8Offset THEN Len(b) ELSE 0)])

\* A whole text with calls, translated, as the literals of one block.
AddText(t) ==
  /\ script = <<>> /\ files = <<>>
  /\ intel' = E8FileSize /\ text' = t
  /\ script' = <<Event("block", VerbatimBlock, 0, 0, 0, 0)>>
               \o [k \in DOMAIN t |-> Event("item", 0, 0, 0, 1, Translate(t)[k])]
  /\ UNCHANGED <<queue, files>>

-----------------------------------------------------------------------------
(* The data blocks *)

\* The items of the block that starts at event k.
BlockItems(k) ==
    LET ends == {j \in (k + 1)..Len(script) : script[j].kind = "block"}
    IN Items(SubSeq(script, k + 1, IF ends = {} THEN Len(script) ELSE Min(ends) - 1))

ItemSym(e) == IF e.offset = 0 THEN e.lit ELSE NumChars + e.slot * Headers + Header(e.len)
Long(e) == e.offset # 0 /\ Header(e.len) = Headers - 1
MainLensOf(items) == HuffLens(Count(NumMain, [k \in DOMAIN items |-> ItemSym(items[k])]), MaxLen)
LenLensOf(items) == LET longs == SelectSeq(items, Long)
                    IN HuffLens(Count(NumLen, [k \in DOMAIN longs |-> LongCode(longs[k].len)]), MaxLen)

\* A tree after the one before it: runs of unused symbols, runs of equal
\* lengths, and differences to the length a symbol had.
RECURSIVE TreePieces(_, _, _)
TreePieces(lens, prev, i) ==
    LET n == Cardinality(DOMAIN lens)
        run == CHOOSE r \in 1..(n - i) : /\ \A k \in i..(i + r - 1) : lens[k] = lens[i]
                                         /\ i + r = n \/ lens[i + r] # lens[i]
        same == Min({run, RunMin + 1})
        zeros == Min({run, IF run < LongRunMin THEN LongRunMin - 1 ELSE LongRunMin + 2^(RunBits + 1) - 1})
        diff == [sym |-> Delta(prev[i], lens[i]), extra |-> <<>>]
    IN IF i >= n THEN <<>>
       ELSE IF run < RunMin THEN <<diff>> \o TreePieces(lens, prev, i + 1)
       ELSE IF lens[i] = 0 THEN <<Head(ZeroPieces(run))>> \o TreePieces(lens, prev, i + zeros)
       ELSE <<[sym |-> SameRun, extra |-> BitsOf(same - RunMin, 1)], diff>> \o TreePieces(lens, prev, i + same)

TreeAfter(lens, prev) == EmitPieces(TreePieces(lens, prev, 0))

\* The aligned tree's lengths: 1, 2, 3, 3 for four symbols.
AlignedLens == [s \in 0..(2^AlignBits - 1) |-> Min({s + 1, 2^AlignBits - 1})]

OffsetBits(e, type) ==
    LET n == FooterBits(e.slot)
        v == e.offset + 2 - BasePosition(e.slot)
    IN IF e.offset = 0 \/ e.slot < 3 THEN <<>>
       ELSE IF type = AlignedBlock /\ n >= AlignBits
            THEN BitsOf(v \div 2^AlignBits, n - AlignBits) \o CanonCodes(AlignedLens)[v % 2^AlignBits]
            ELSE BitsOf(v, n)

ItemBits(e, w) ==
    CanonCodes(w.main)[ItemSym(e)]
    \o (IF Long(e) THEN CanonCodes(w.lens)[LongCode(e.len)] ELSE <<>>)
    \o OffsetBits(e, w.type)

ByteOf(v) == BitsOf(v, ByteBits)
StoredOffset(v) == [k \in 1..OperandBytes |-> ByteOf((v \div NumChars^(k - 1)) % NumChars)]

\* The stream: whole data blocks, the bytes of the open one, bits of a word
\* not full yet; and the block's type, its trees, the raw bytes left in it
\* and the last three offsets, which a raw block carries.
RawHeader(w, size, head) ==
    LET fill == IF Len(head) % WordBits = 0 THEN WordBits ELSE 0
    IN [w EXCEPT !.type = UncompressedBlock, !.raw = size, !.odd = size % 2 = 1, !.bits = <<>>,
                 !.bytes = @ \o Bytes(head \o Zeros(fill)) \o FlattenSeq([j \in 1..3 |-> StoredOffset(w.queue[j])])]

CodedHeader(w, type, head, main, lens) ==
    LET aligned == IF type = AlignedBlock
                   THEN FlattenSeq([s \in 1..2^AlignBits |-> BitsOf(AlignedLens[s - 1], AlignBits)]) ELSE <<>>
    IN [w EXCEPT !.type = type, !.main = main, !.lens = lens,
                 !.bits = head \o aligned \o TreeAfter(Half(main, 0, NumChars), Half(w.main, 0, NumChars))
                          \o TreeAfter(Half(main, NumChars, NumMain), Half(w.main, NumChars, NumMain))
                          \o TreeAfter(lens, w.lens)]

BlockHeader(w, type, items) ==
    LET size == FoldLeft(LAMBDA n, e : n + e.len, 0, items)
        head == w.bits \o BitsOf(type, 3) \o BitsOf(size, WordBits + ByteBits)
    IN IF type = UncompressedBlock THEN RawHeader(w, size, head)
       ELSE CodedHeader(w, type, head, MainLensOf(items), LenLensOf(items))

Queued(q, e) == IF e.offset = 0 THEN q
                ELSE IF e.slot < 3 THEN [q EXCEPT ![e.slot + 1] = q[1], ![1] = e.offset]
                ELSE <<e.offset, q[1], q[2]>>

WriteEvent(w, k) ==
    LET e == script[k]
        last == w.raw = 1 /\ w.odd
    IN CASE e.kind = "block" -> BlockHeader(w, e.type, BlockItems(k))
         [] e.kind = "cut" -> [w EXCEPT !.chunks = Append(@, w.bytes \o Bytes(w.bits)), !.bytes = <<>>, !.bits = <<>>]
         [] OTHER -> IF w.type = UncompressedBlock
                     THEN [w EXCEPT !.bytes = @ \o <<ByteOf(e.lit)>> \o (IF last THEN <<ByteOf(0)>> ELSE <<>>),
                                    !.raw = @ - 1]
                     ELSE [w EXCEPT !.bits = @ \o ItemBits(e, w), !.queue = Queued(@, e)]

NewStream ==
    [chunks |-> <<>>, bytes |-> <<>>, type |-> 0, raw |-> 0, odd |-> FALSE, queue |-> <<1, 1, 1>>,
     main |-> NoLens(NumMain), lens |-> NoLens(NumLen),
     bits |-> IF intel = 0 THEN <<0>> ELSE <<1>> \o BitsOf(intel, 2 * WordBits)]

\* A cut after the last item leaves no empty data block.
Whole == IF script[Len(script)].kind = "cut" THEN script ELSE Append(script, Event("cut", 0, 0, 0, 0, 0))
Closed(w) == IF Whole = script THEN w.chunks ELSE Append(w.chunks, w.bytes \o Bytes(w.bits))
LzxBlocks == Closed(FoldLeft(WriteEvent, NewStream, [k \in DOMAIN script |-> k]))

\* The items of each data block.
Cut == LET ends == {k \in DOMAIN Whole : Whole[k].kind = "cut"}
           From(k) == Max({0} \union {j \in ends : j < k}) + 1
       IN [n \in 1..Cardinality(ends) |->
              LET k == SetToSortSeq(ends, <)[n] IN Items(SubSeq(Whole, From(k), k))]

Sizes == [n \in DOMAIN Cut |-> FoldLeft(LAMBDA s, e : s + e.len, 0, Cut[n])]

StoredBlocks == [n \in DOMAIN Sizes |->
    LET from == FoldLeft(+, 0, SubSeq(Sizes, 1, n - 1)) IN SubSeq(text, from + 1, from + Sizes[n])]

-----------------------------------------------------------------------------
(* Reading a cabinet *)

\* compress/flate with a dictionary: the block's tokens over its history.
RECURSIVE Inflate(_, _)
Inflate(toks, out) ==
    IF toks = <<>> THEN Decoded(out)
    ELSE LET t == Head(toks)
         IN IF t.offset = 0 THEN Inflate(Tail(toks), Append(out, t.lit))
            ELSE IF t.offset > Len(out) THEN Corrupt
            ELSE Inflate(Tail(toks), CopyBack(out, t.offset, t.len))

Suffix(s, n) == SubSeq(s, Max({0, Len(s) - n}) + 1, Len(s))

\* Each block sees the last DictSize bytes before it.
MszipDecompress(blocks) ==
    LET Next1(acc, b) ==
            LET dict == Suffix(acc.out, DictSize)
                d == Inflate(b, dict)
            IN IF ~acc.ok \/ ~d.ok THEN Corrupt
               ELSE Decoded(acc.out \o SubSeq(d.out, Len(dict) + 1, Len(d.out)))
    IN FoldLeft(Next1, Decoded(<<>>), blocks)

DecompressFolder(kind) ==
    CASE kind = "none" -> Decoded(FlattenSeq(StoredBlocks))
      [] kind = "MSZIP" -> MszipDecompress(Cut)
      [] OTHER -> LzxDecompress(LzxBlocks, Sizes, FrameSize)

\* The files of a folder: two, that meet at byte at.
FileOf(folder, start, len) ==
    IF start + len > Len(folder) THEN Corrupt ELSE Decoded(SubSeq(folder, start + 1, start + len))

FilesOf(folder, at) ==
    IF ~folder.ok THEN <<folder, folder>>
    ELSE <<FileOf(folder.out, 0, at), FileOf(folder.out, at, Len(text) - at)>>

ExtractFiles(kind, at) == FilesOf(DecompressFolder(kind), at)

\* A deflate stream reaches back DictSize bytes at most.
Deflates == \A k \in DOMAIN script : script[k].offset <= DictSize

Extract(kind, at) ==
  /\ InBlock /\ script[Len(script)].kind # "block" /\ files = <<>>
  /\ kind = "MSZIP" => Deflates
  /\ files' = [kind |-> kind, at |-> at, read |-> ExtractFiles(kind, at)]
  /\ UNCHANGED <<script, text, queue, intel>>

CabNext ==
  \/ \E type \in {VerbatimBlock, AlignedBlock, UncompressedBlock} : NewBlock(type)
  \/ CutBlock
  \/ \E b \in Letters : AddLiteral(b)
  \/ \E offset \in 1..Len(text), len \in Lengths : AddMatch(offset, len)
  \/ \E r \in 1..3, len \in Lengths : AddRepeat(r, len)
  \/ \E t \in Texts : AddText(t)
  \/ \E kind \in {"none", "MSZIP", "LZX"}, at \in {0, Len(text) \div 2, Len(text)} :
        (kind # "LZX" => intel = 0) /\ Extract(kind, at)

\* A raw block of odd size that goes on behind a cut and is not the last one:
\* resetReader forgets at the cut that a byte of padding follows the block, and
\* the next header is read from that byte.
After(k) == {j \in (k + 1)..Len(script) : script[j].kind = "block"}
CutInside(k) ==
  \E c \in (k + 1)..Len(script), i \in (k + 1)..Len(script) :
     c < i /\ i < Min(After(k)) /\ script[c].kind = "cut" /\ script[i].kind = "item"
PaddingForgotten ==
  \E k \in DOMAIN script :
     /\ script[k].kind = "block" /\ script[k].type = UncompressedBlock
     /\ Len(BlockItems(k)) % 2 = 1
     /\ After(k) # {} /\ CutInside(k)

\* Every file of a cabinet reads back as it was put in, whatever blocks the
\* folder's data is in and wherever the data blocks are cut: the state the
\* decoder keeps across the cuts is the compressor's.  One folder is excepted,
\* the one of PaddingForgotten, which the decoder does not read: although
\* "block/window/repeated-offset state persists across" the data blocks, the
\* padding of a raw block does not.
CabReadsBack ==
  files # <<>> /\ (files.kind = "LZX" => ~PaddingForgotten) =>
     files.read = <<Decoded(SubSeq(text, 1, files.at)), Decoded(SubSeq(text, files.at + 1, Len(text)))>>
=============================================================================
