-------------------------------- MODULE Lzms --------------------------------
(***************************************************************************)
(* pkg/wim/lzms: the decoder for solid resources.  The compressor is not   *)
(* part of the repository: it picks the items (literals, matches, delta    *)
(* matches, with new sources or one of the last three) and keeps its own   *)
(* text and its own list of sources; the decoder must come to the same     *)
(* text.  The parts items are coded with go step by step as well: the      *)
(* adaptive Huffman codes, the range decoder, the x86 filter.              *)
(***************************************************************************)
EXTENDS Integers, Sequences, SequencesExt, FiniteSetsExt, Huffman

CONSTANTS
  OutSize,        \* bytes of the text, outSize
  Radix,          \* values of a byte, 256 in the code
  LiteralValues,  \* the literals the compressor picks
  ExtraBits,      \* extraOffsetBits: the verbatim bits after an offset slot
  Powers,         \* the delta powers
  MatchLens,
  CodeSyms,       \* symbols of an adaptive code
  RebuildFreq, MaxRebuilds, CodeLimit,
  ShiftBits,           \* bits the range decoder shifts in, 16
  ProbBits        \* 6

ASSUME LzmsAssumption ==
  /\ {OutSize, Radix, RebuildFreq, MaxRebuilds, CodeLimit, ShiftBits, ProbBits} \subseteq Nat \ {0}
  /\ MatchLens \subseteq Nat \ {0} /\ Powers \subseteq Nat
  /\ LiteralValues \subseteq 0..(Radix - 1)
  /\ ProbBits <= ShiftBits

VARIABLES
  out, recentLZ, recentDelta, prevItemType,  \* the decoder
  invalid,                                   \* it has returned ErrInvalid
  plain, lzSources, deltaSources, lastItem,   \* the compressor
  huff, rebuilds,                            \* an adaptive code
  range                                      \* the range decoder

itemVars == <<out, recentLZ, recentDelta, prevItemType, invalid, plain, lzSources, deltaSources, lastItem>>
lzmsVars == <<itemVars, huff, rebuilds, range>>

-----------------------------------------------------------------------------
(* Offset slots *)

NumSlots == Len(ExtraBits)

\* offsetSlotBase, with the entry past the last slot.
OffsetSlotBase(slot) == 1 + MapThenSumSet(LAMBDA s : 2^ExtraBits[s + 1], 0..(slot - 1))

RECURSIVE SearchSlot(_, _, _)
SearchSlot(v, l, r) ==
    LET slot == (l + r) \div 2
    IN IF v < OffsetSlotBase(slot) THEN SearchSlot(v, l, slot - 1)
       ELSE IF v < OffsetSlotBase(slot + 1) THEN slot
       ELSE SearchSlot(v, slot + 1, r)

GetSlot(v) == SearchSlot(v, 0, NumSlots - 1)

GetNumOffsetSlots(size) == IF size < 2 THEN 0 ELSE 1 + GetSlot(size - 1)

DecodeOffset(slot, extra) == OffsetSlotBase(slot) + extra

\* The offsets the compressor can send, and each as the decoder reads it.
Sendable == {o \in 1..(OutSize - 1) : GetSlot(o) < GetNumOffsetSlots(OutSize)}
Sent(o) == DecodeOffset(GetSlot(o), o - OffsetSlotBase(GetSlot(o)))

-----------------------------------------------------------------------------
(* Items *)

LiteralItem == 0
LzItem == 1
DeltaItem == 2

RECURSIVE CopyMatch(_, _, _)
CopyMatch(bytes, offset, n) ==
    IF n = 0 THEN bytes ELSE CopyMatch(Append(bytes, bytes[Len(bytes) + 1 - offset]), offset, n - 1)

\* Each byte continues the difference the source has over the span.
RECURSIVE CopyDelta(_, _, _, _)
CopyDelta(bytes, offset, span, n) ==
    LET p == Len(bytes) + 1
    IN IF n = 0 THEN bytes
       ELSE CopyDelta(Append(bytes, (bytes[p - offset] + bytes[p - span] + Radix - bytes[p - offset - span]) % Radix),
                      offset, span, n - 1)

\* The queue has three sources and a place for the one that drops out: index
\* i moves to the front.
ToFront(recent, i) ==
    [k \in 0..3 |-> IF k = 0 THEN recent[i] ELSE IF k <= i THEN recent[k - 1] ELSE recent[k]]

Push(recent, source) == [k \in 0..3 |-> IF k = 0 THEN source ELSE recent[k - 1]]

\* The source of the item before counts as not yet queued for an item of its
\* own kind: the indices start behind it.
NoDelay(type) == 0
Adj(type) == IF prevItemType = type THEN 1 ELSE 0

Pair(power, raw) == [power |-> power, raw |-> raw]
Span(pair) == 2^pair.power
DeltaOffset(pair) == pair.raw * 2^pair.power

\* A source that reaches before the text, or a length past its end, ends the
\* decoding with an error.
DecodeMatch(recent, len) ==
  /\ recentLZ' = recent
  /\ prevItemType' = LzItem
  /\ invalid' = (recent[0] > Len(out) \/ len > OutSize - Len(out))
  /\ out' = IF invalid' THEN out ELSE CopyMatch(out, recent[0], len)
  /\ UNCHANGED recentDelta

DecodeDelta(recent, len) ==
  /\ recentDelta' = recent
  /\ prevItemType' = DeltaItem
  /\ invalid' = (DeltaOffset(recent[0]) + Span(recent[0]) > Len(out) \/ len > OutSize - Len(out))
  /\ out' = IF invalid' THEN out ELSE CopyDelta(out, DeltaOffset(recent[0]), Span(recent[0]), len)
  /\ UNCHANGED recentLZ

\* The compressor's list of sources, in the order of their last use: it
\* names the k-th of those that do not wait in front, the last item's own.
Waiting(type) == IF lastItem = type THEN 1 ELSE 0
Named(sources, type, k) == sources[Waiting(type) + k + 1]
Chosen(sources, type, k) == <<Named(sources, type, k)>> \o RemoveAt(sources, Waiting(type) + k + 1)

\* Its items stay in the text and reach back no further than it.
Fits(source, len) == source <= Len(plain) /\ len <= OutSize - Len(plain)

Literal(b) ==
  /\ Fits(0, 1)
  /\ out' = Append(out, b) /\ plain' = Append(plain, b)
  /\ prevItemType' = LiteralItem /\ lastItem' = LiteralItem
  /\ UNCHANGED <<recentLZ, recentDelta, invalid, lzSources, deltaSources>>

NewMatch(o, len) ==
  /\ Fits(o, len)
  /\ DecodeMatch(Push(recentLZ, Sent(o)), len)
  /\ plain' = CopyMatch(plain, o, len)
  /\ lzSources' = <<o>> \o SubSeq(lzSources, 1, 3) /\ lastItem' = LzItem
  /\ UNCHANGED deltaSources

RepeatMatch(k, len) ==
  /\ LET o == Named(lzSources, LzItem, k)
     IN /\ Fits(o, len)
        /\ plain' = CopyMatch(plain, o, len)
        /\ lzSources' = Chosen(lzSources, LzItem, k)
  /\ lastItem' = LzItem
  /\ DecodeMatch(ToFront(recentLZ, k + Adj(LzItem)), len)
  /\ UNCHANGED deltaSources

NewDelta(power, raw, len) ==
  /\ LET p == Pair(power, raw)
     IN /\ Fits(DeltaOffset(p) + Span(p), len)
        /\ plain' = CopyDelta(plain, DeltaOffset(p), Span(p), len)
        /\ deltaSources' = <<p>> \o SubSeq(deltaSources, 1, 3)
        /\ DecodeDelta(Push(recentDelta, Pair(power, Sent(raw))), len)
  /\ lastItem' = DeltaItem
  /\ UNCHANGED lzSources

RepeatDelta(k, len) ==
  /\ LET p == Named(deltaSources, DeltaItem, k)
     IN /\ Fits(DeltaOffset(p) + Span(p), len)
        /\ plain' = CopyDelta(plain, DeltaOffset(p), Span(p), len)
        /\ deltaSources' = Chosen(deltaSources, DeltaItem, k)
  /\ lastItem' = DeltaItem
  /\ DecodeDelta(ToFront(recentDelta, k + Adj(DeltaItem)), len)
  /\ UNCHANGED lzSources

LzmsItems ==
  /\ ~invalid
  /\ \/ \E b \in LiteralValues : Literal(b)
     \/ \E o \in Sendable, len \in MatchLens : NewMatch(o, len)
     \/ \E k \in 0..2, len \in MatchLens : RepeatMatch(k, len)
     \/ \E power \in Powers, raw \in Sendable, len \in MatchLens : NewDelta(power, raw, len)
     \/ \E k \in 0..2, len \in MatchLens : RepeatDelta(k, len)

-----------------------------------------------------------------------------
(* An adaptive code: a symbol is counted when it is decoded, and every       *)
(* RebuildFreq symbols the code is made anew and the counts are halved.      *)

Syms == 0..(CodeSyms - 1)

\* built is a history variable: the counts the code was made from.
BuildCode(h) ==
    LET lens == MakeCanonicalLens(h.freqs, h.lens, CodeLimit)
    IN [h EXCEPT !.lens = lens, !.table = FillTable(@, lens, CodeLimit), !.left = RebuildFreq, !.built = h.freqs]

Rebuild(h) == LET b == BuildCode(h) IN [b EXCEPT !.freqs = [s \in Syms |-> b.freqs[s] \div 2 + 1]]

NewHuffDecoder ==
    BuildCode([freqs |-> [s \in Syms |-> 1], lens |-> [s \in Syms |-> 0],
               table |-> [i \in 0..(2^CodeLimit - 1) |-> 0], left |-> 0, built |-> [s \in Syms |-> 1]])

\* The bits of s arrive; what the table makes of them is counted.
DecodeSymbol(s) ==
  /\ rebuilds < MaxRebuilds
  /\ LET bits == BuildCanonicalCodes(huff.lens)[s]
         sym == huff.table[ValueOf(Padded(bits, CodeLimit))]
         counted == [huff EXCEPT !.freqs[sym] = @ + 1, !.left = @ - 1]
     IN /\ huff' = IF counted.left = 0 THEN Rebuild(counted) ELSE counted
        /\ rebuilds' = IF counted.left = 0 THEN rebuilds + 1 ELSE rebuilds
  /\ UNCHANGED <<itemVars, range>>

-----------------------------------------------------------------------------
(* The range decoder, with one adaptive probability: how many of the last  *)
(* 2^ProbBits bits were zero.                                              *)

Denominator == 2^ProbBits

RawProbability(e) == e.zeros
Probability(e) == IF e.zeros = 0 THEN 1 ELSE IF e.zeros = Denominator THEN Denominator - 1 ELSE e.zeros

Update(e, bit) ==
    [zeros |-> e.zeros + e.recent[1] - bit, recent |-> Append(Tail(e.recent), bit)]

NewRange(code) ==
    [rng |-> 2^(2 * ShiftBits) - 1, code |-> code,
     entry |-> LET zeros == (3 * Denominator) \div 4
               IN [zeros |-> zeros, recent |-> [k \in 1..Denominator |-> IF k <= zeros THEN 0 ELSE 1]]]

Normalized(r, word) ==
    IF r.rng < 2^ShiftBits THEN [r EXCEPT !.rng = @ * 2^ShiftBits, !.code = @ * 2^ShiftBits + word] ELSE r

Bound(r) == (r.rng \div Denominator) * Probability(r.entry)

\* The next bit, when word comes next in the stream.
DecodeBit(word) ==
  /\ LET r == Normalized(range, word)
         bound == Bound(r)
     IN range' = IF r.code < bound
                 THEN [r EXCEPT !.rng = bound, !.entry = Update(@, 0)]
                 ELSE [r EXCEPT !.rng = @ - bound, !.code = @ - bound, !.entry = Update(@, 1)]
  /\ UNCHANGED <<itemVars, huff, rebuilds>>

-----------------------------------------------------------------------------
LzmsInit ==
  /\ out = <<>> /\ plain = <<>> /\ invalid = FALSE
  /\ recentLZ = [k \in 0..3 |-> k + 1] /\ lzSources = <<1, 2, 3, 4>>
  /\ recentDelta = [k \in 0..3 |-> Pair(0, k + 1)]
  /\ deltaSources = <<Pair(0, 1), Pair(0, 2), Pair(0, 3), Pair(0, 4)>>
  /\ prevItemType = LiteralItem /\ lastItem = LiteralItem
  /\ huff = NewHuffDecoder /\ rebuilds = 0
  /\ range \in {NewRange(code) : code \in 0..(2^(2 * ShiftBits) - 2)}

\* The decoder refuses no item and its text is the compressor's, whatever
\* mixture of items made it: its queues of sources, updated in place with an
\* index that depends on the item before, name what the compressor's lists
\* name.
LzmsReadsBack == ~invalid /\ out = plain

\* However the counts evolve, the code made from them in place is complete,
\* no other code takes fewer bits for the counts it was made from, and the
\* table gives every symbol back.
AdaptiveCodeOptimal ==
  LET codes == BuildCanonicalCodes(huff.lens)
  IN /\ Complete(huff.lens, CodeLimit)
     /\ Cost(huff.built, huff.lens) = Cost(huff.built, HuffmanCodeLengths(huff.built))
     /\ \A s \in Syms : huff.table[ValueOf(Padded(codes[s], CodeLimit))] = s

\* Both bits can always come next: the range never becomes so narrow that a
\* bit has no room, the code stays inside it, and the count of zeros is that
\* of the bits remembered.
RangeHasRoom ==
  /\ range.code < range.rng
  /\ LET r == Normalized(range, 0) IN 0 < Bound(r) /\ Bound(r) < r.rng
  /\ range.entry.zeros = Len(SelectSeq(range.entry.recent, LAMBDA b : b = 0))
--------------------------------------------------------------------------------
(***************************************************************************)
(* x86.go: undoing the translation of x86 code that the compressor made    *)
(* before it looked for matches.  An operand is translated only where code *)
(* was recognised shortly before: a target that two operands share marks   *)
(* the place.  The compressor's direction (external) is the same walk with *)
(* the addition in place of the subtraction.  Bytes are numbers; an        *)
(* operand has OperandWidth of them (4 in the code), of which the low      *)
(* TargetWidth (2) name the target.                                        *)
(***************************************************************************)
CONSTANTS OperandWidth, TargetWidth,
          MaxTranslation,   \* x86MaxTranslationOff, 1023
          IdWindow          \* x86IDWindowSize, 65535

ASSUME FilterAssumption ==
    /\ {OperandWidth, TargetWidth, MaxTranslation, IdWindow} \subseteq Nat \ {0}
    /\ TargetWidth <= OperandWidth

Get(data, p, n) == FoldRight(LAMBDA b, acc : 256 * acc + b, SubSeq(data, p + 1, p + n), 0)
Put(data, p, n, v) == [k \in DOMAIN data |-> IF p < k /\ k <= p + n THEN (v \div 256^(k - p - 1)) % 256 ELSE data[k]]

Potential == {72, 76, 232, 233, 240, 255}     \* 48 4C E8 E9 F0 FF

\* How many bytes of opcode come before an operand at p; 0 for none.
OpcodeBytes(data, p) ==
    LET b0 == data[p + 1]
        b1 == data[p + 2]
        b2 == data[p + 3]
    IN CASE b0 = 255 -> IF b1 = 21 THEN 2 ELSE 0
         [] b0 = 240 -> IF b1 = 131 /\ b2 = 5 THEN 3 ELSE 0
         [] b0 \in {72, 76} ->
              IF b2 % 8 = 5 /\ (b1 = 141 \/ (b1 = 139 /\ b0 = 72 /\ b2 < 16)) THEN 3 ELSE 0
         [] OTHER -> 1

\* A jump (E9) is passed over; a call reaches half as far.
Skipped(data, p) == data[p + 1] = 233
Reach(data, p) == IF data[p + 1] = 232 THEN MaxTranslation \div 2 ELSE MaxTranslation

\* The operand after an opcode at s.p, in the direction dir.
TranslateIfNeeded(s, dir) ==
    LET i == s.p
        n == OpcodeBytes(s.data, i)
        p == i + n
        near == i - s.last <= Reach(s.data, i)
        old == Get(s.data, p, OperandWidth)
        width == 256^OperandWidth
        new == IF dir = "undo" THEN (old + width - i) % width ELSE (old + i) % width
        data == IF near THEN Put(s.data, p, OperandWidth, new) ELSE s.data
        bytes == IF dir = "undo" THEN data ELSE s.data
        target == (i + Get(bytes, p, TargetWidth)) % 256^TargetWidth
        end == p + OperandWidth - 1
    IN IF Skipped(s.data, i) THEN [s EXCEPT !.p = i + OperandWidth]
       ELSE IF n = 0 THEN [s EXCEPT !.p = i + 1]
       ELSE [data |-> data, p |-> p + OperandWidth,
             last |-> IF end - s.usage[target] <= IdWindow THEN end ELSE s.last,
             usage |-> [s.usage EXCEPT ![target] = end]]

\* The opcode put into the data near its end stops every search.
FindNextOpcode(s) ==
    [s EXCEPT !.p = Min({q \in s.p..(Len(s.data) - 1) : s.data[q + 1] \in Potential})]

RECURSIVE Walk(_, _)
Walk(s, dir) ==
    LET t == FindNextOpcode(s)
    IN IF t.p >= Len(t.data) - 16 THEN t.data ELSE Walk(TranslateIfNeeded(t, dir), dir)

Filter(data, dir) ==
    LET sentinel == Len(data) - 8
        start == [data |-> [data EXCEPT ![sentinel + 1] = 232], p |-> 1, last |-> -MaxTranslation - 1,
                  usage |-> [t \in 0..(256^TargetWidth - 1) |-> -IdWindow - 1]]
    IN IF Len(data) <= 17 THEN data
       ELSE [Walk(start, dir) EXCEPT ![sentinel + 1] = data[sentinel + 1]]

\* x86Filter, and what the compressor did before.
Undone(data) == Filter(data, "undo")
Translated(data) == Filter(data, "do")
=============================================================================
