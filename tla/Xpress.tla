------------------------------- MODULE Xpress -------------------------------
(***************************************************************************)
(* pkg/wim/xpress: the XPRESS codec of WIM chunks, both directions.        *)
(* Compress parses the chunk into literals and matches, builds a code for  *)
(* their symbols, and writes one stream in which 16-bit words of code bits *)
(* and raw bytes (long match lengths) are interleaved: a word's place is   *)
(* reserved before its bits are known, so that the reader, which fetches a *)
(* word when it needs one, finds each raw byte where it looks for it.      *)
(*                                                                         *)
(* The widths are constants: a byte has ByteBits bits (8 in the code), a   *)
(* word two bytes, a match symbol LenBits bits of length (4), a code word  *)
(* at most one bit less than a word (15).                                  *)
(***************************************************************************)
EXTENDS Integers, Sequences, SequencesExt, FiniteSetsExt, Huffman, MatchFinder

CONSTANTS ByteBits, NumChars, LenBits, NiceMatch,
          Slots             \* the values of log2Offset, 16 in the code

WordBits == 2 * ByteBits
MaxCodewordLen == WordBits - 1
MinMatchLen == 3
MaxMatchLen == 2^WordBits
LongLength == 2^LenBits - 1
LastByte == 2^ByteBits - 1
NumSymbols == NumChars + Slots * 2^LenBits


-----------------------------------------------------------------------------
(* Parsing *)

Log2(n) == CHOOSE k \in 0..n : 2^k <= n /\ n < 2^(k + 1)

MatchSym(offset, len) ==
    NumChars + Log2(offset) * 2^LenBits + Min({len - MinMatchLen, LongLength})

Literal(b) == [sym |-> b, offset |-> 0, len |-> 0]
Match(m) == [sym |-> MatchSym(m.off, m.len), offset |-> m.off, len |-> m.len]

FindMatchAt(ch, in, p) == FindMatch(ch, in, p, MinMatchLen, MaxMatchLen, NiceMatch)

\* One round of the lazy parser: the match at i, or the literal at i and a
\* longer match at i + 1, or the literal.  i itself is put in the chains
\* before i + 1 is looked up, and is not put there twice.
Round(in, i, ch) ==
    LET m == FindMatchAt(ch, in, i)
        seen == Insert(ch, in, i)
        look == m.len < NiceMatch /\ i + 1 < Len(in)
        m2 == FindMatchAt(seen, in, i + 1)
    IN IF m.len < MinMatchLen
       THEN [next |-> i + 1, ch |-> seen, tokens |-> <<Literal(At(in, i))>>]
       ELSE IF look /\ m2.len > m.len
       THEN [next |-> i + 1 + m2.len, ch |-> InsertRange(seen, in, i + 1, i + 1 + m2.len, i),
             tokens |-> <<Literal(At(in, i)), Match(m2)>>]
       ELSE [next |-> i + m.len, tokens |-> <<Match(m)>>,
             ch |-> IF look THEN InsertRange(seen, in, i, i + m.len, i)
                            ELSE InsertRange(ch, in, i, i + m.len, None)]

RECURSIVE ParseFrom(_, _, _)
ParseFrom(in, i, ch) ==
    LET r == Round(in, i, ch)
    IN IF i >= Len(in) THEN <<>> ELSE r.tokens \o ParseFrom(in, r.next, r.ch)

Lz77Parse(in) == ParseFrom(in, 0, NoChains(in))

-----------------------------------------------------------------------------
(* Writing: bits wait in a buffer of less than two words; nextBits and     *)
(* nextBits2 are the places of the next two words, nextByte that of the    *)
(* next raw byte.                                                          *)

NewBitWriter(size) ==
    [buf |-> [at \in 0..(size - 1) |-> Zeros(ByteBits)], bits |-> <<>>,
     nextBits |-> 0, nextBits2 |-> 2, nextByte |-> 4]

Full(w, n) == Cardinality(DOMAIN w.buf) - w.nextByte < n

\* Low byte first.
PutLE16(buf, at, word) == [buf EXCEPT ![at] = Rest(word, ByteBits), ![at + 1] = First(word, ByteBits)]

PutBits(w, b) ==
    LET bits == w.bits \o b
    IN IF Len(bits) <= WordBits THEN [w EXCEPT !.bits = bits]
       ELSE IF Full(w, 2) THEN [w EXCEPT !.bits = Rest(bits, WordBits)]
       ELSE [buf |-> PutLE16(w.buf, w.nextBits, First(bits, WordBits)), bits |-> Rest(bits, WordBits),
             nextBits |-> w.nextBits2, nextBits2 |-> w.nextByte, nextByte |-> w.nextByte + 2]

PutByte(w, v) ==
    IF Full(w, 1) THEN w
    ELSE [w EXCEPT !.buf[w.nextByte] = BitsOf(v, ByteBits), !.nextByte = @ + 1]

PutU16(w, v) ==
    IF Full(w, 2) THEN w
    ELSE [w EXCEPT !.buf = PutLE16(w.buf, w.nextByte, BitsOf(v, WordBits)), !.nextByte = @ + 2]

Finish(w) ==
    LET flushed == PutLE16(PutLE16(w.buf, w.nextBits, Padded(w.bits, WordBits)), w.nextBits2, Zeros(WordBits))
    IN IF Full(w, 2) THEN [k \in 1..Cardinality(DOMAIN w.buf) |-> w.buf[k - 1]]
       ELSE [k \in 1..w.nextByte |-> flushed[k - 1]]

\* What is left of a long match length, before the bits of the offset.
PutLength(w, len) ==
    LET L == len - MinMatchLen
    IN IF L < LongLength THEN w
       ELSE IF L - LongLength < LastByte THEN PutByte(w, L - LongLength)
       ELSE PutU16(PutByte(w, LastByte), L)

\* The bytes of a long length after the bits of the offset.
PutTokenLate(w, t, codes) ==
    LET log2 == Log2(t.offset)
        coded == PutBits(w, codes[t.sym])
    IN IF t.sym < NumChars THEN coded
       ELSE PutLength(PutBits(coded, BitsOf(t.offset - 2^log2, log2)), t.len)

PutToken(w, t, codes) ==
    LET coded == PutBits(w, codes[t.sym])
    IN IF t.sym < NumChars THEN coded
       ELSE LET log2 == Log2(t.offset)
            IN PutBits(PutLength(coded, t.len), BitsOf(t.offset - 2^log2, log2))

Frequencies(tokens) ==
    [s \in 0..(NumSymbols - 1) |-> Cardinality({k \in DOMAIN tokens : tokens[k].sym = s})]

\* Compress: the code lengths, then the stream.
Stream(size, tokens, lens) ==
    LET codes == BuildCanonicalCodes(lens)
    IN [lens |-> lens, data |-> Finish(FoldLeft(LAMBDA w, t : PutToken(w, t, codes), NewBitWriter(size), tokens))]

Encoded(size, tokens) == Stream(size, tokens, BuildLengthLimitedLengths(Frequencies(tokens), MaxCodewordLen))

XpressCompress(in) == Encoded(2 * Len(in) + 8, Lz77Parse(in))

-----------------------------------------------------------------------------
(* Reading *)

\* At least n bits in the buffer, zeros past the end of the input.
Ensure(r, n) ==
    IF Len(r.bits) >= n THEN r
    ELSE IF Len(r.data) - r.next < 2 THEN [r EXCEPT !.bits = Padded(@, 2 * WordBits)]
    ELSE [r EXCEPT !.bits = @ \o r.data[r.next + 2] \o r.data[r.next + 1], !.next = @ + 2]

RemoveBits(r, n) == [r EXCEPT !.bits = Rest(@, n)]

ReadByte(r) ==
    IF r.next >= Len(r.data) THEN [v |-> 0, r |-> r]
    ELSE [v |-> ValueOf(r.data[r.next + 1]), r |-> [r EXCEPT !.next = @ + 1]]

ReadU16(r) ==
    IF Len(r.data) - r.next < 2 THEN [v |-> 0, r |-> r]
    ELSE [v |-> ValueOf(r.data[r.next + 2] \o r.data[r.next + 1]), r |-> [r EXCEPT !.next = @ + 2]]

\* The length of a match, from its symbol and, if long, the raw bytes.
ReadLength(r, low) ==
    LET b == ReadByte(r)
        long == ReadU16(b.r)
    IN IF low < LongLength THEN [v |-> low + MinMatchLen, r |-> r]
       ELSE IF b.v < LastByte THEN [v |-> low + b.v + MinMatchLen, r |-> b.r]
       ELSE [v |-> long.v + MinMatchLen, r |-> long.r]

RECURSIVE Repeat(_, _, _)
Repeat(out, offset, n) == IF n = 0 THEN out ELSE Repeat(Append(out, out[Len(out) + 1 - offset]), offset, n - 1)

RECURSIVE Decode(_, _, _, _, _)
Decode(r, lens, table, out, size) ==
    LET head == Ensure(r, MaxCodewordLen)
        sym == table[ValueOf(First(head.bits, MaxCodewordLen))]
        body == Ensure(RemoveBits(head, lens[sym]), WordBits)
        slot == (sym - NumChars) \div 2^LenBits
        offset == 2^slot + ValueOf(First(body.bits, slot))
        len == ReadLength(RemoveBits(body, slot), (sym - NumChars) % 2^LenBits)
    IN IF Len(out) >= size THEN Decoded(out)
       ELSE IF sym = NoSymbol THEN Corrupt
       ELSE IF sym < NumChars THEN Decode(RemoveBits(head, lens[sym]), lens, table, Append(out, sym), size)
       ELSE IF offset > Len(out) \/ Len(out) + len.v > size THEN Corrupt
       ELSE Decode(len.r, lens, table, Repeat(out, offset, len.v), size)

XpressDecompress(chunk, size) ==
    IF OverSubscribed(chunk.lens, MaxCodewordLen) THEN Corrupt
    ELSE Decode([data |-> chunk.data, next |-> 0, bits |-> <<>>], chunk.lens,
                BuildDecodeTable(chunk.lens, MaxCodewordLen), <<>>, size)
=============================================================================
