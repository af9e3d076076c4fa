------------------------------ MODULE MCCodecs ------------------------------
(* The texts the codecs are checked with. *)
EXTENDS Codecs

Strings(letters, n) == UNION {[1..k -> letters] : k \in 0..n}
\* Runs and periods, long enough for the escapes of the match lengths.
Periodic(from, to) == {[k \in 1..n |-> IF k % m = 0 THEN 1 ELSE 0] : n \in from..to, m \in {3, 5, 19}}

\* A few letters over and over: long matches with bits of offset, at every
\* place of a word.
Repeated(n, lens) == {[k \in 1..l |-> p[((k - 1) % n) + 1]] : p \in [1..n -> {0, 1}], l \in lens}

MCXpressChunks == Strings({0, 1}, 7) \cup Periodic(10, 20) \cup Repeated(5, {11, 15}) \cup Repeated(6, {16})

\* Operands are three bytes of two bits: 0, 1, -1, 19, 20, -2, 14.
MCOperands == {<<0, 0, 0>>, <<1, 0, 0>>, <<3, 3, 3>>, <<3, 0, 1>>, <<0, 1, 1>>, <<2, 3, 3>>, <<2, 3, 0>>}
MCCalls == {p \o <<3>> \o o \o s : p \in {<<>>, <<0>>, <<1, 2>>}, o \in MCOperands,
                                  s \in {<<0>>, <<0, 0>>, <<0, 1, 3, 0, 0, 0>>}}
MCLzxChunks == Strings({0, 1}, 6) \cup Periodic(7, 15) \cup MCCalls

MCTexts == {<<0, 3>> \o o \o s : o \in MCOperands,
                s \in {<<0, 0, 0, 0, 0>>,
                       <<0, 3, 0, 0, 0, 1, 0, 3, 3, 3, 3, 0, 0, 1, 1>>,
                       <<0, 3, 0, 0, 0, 1, 0, 3, 3, 3, 3, 0, 0, 1, 1, 3, 0, 0, 1, 0, 0, 0, 0, 0, 0>>}}

\* A block that goes on behind a cut, or ends at one, with another block after it.
MCBlock(type) == <<"block", type>>
MCItem == <<"item", 0>>
MCCut == <<"cut", 0>>
MCLongShapes == UNION {
    {<<MCBlock(s), MCItem, MCCut>> \o [k \in 1..n |-> MCItem] \o <<MCBlock(t), MCItem>> :
        s \in {VerbatimBlock, UncompressedBlock}, t \in {VerbatimBlock, UncompressedBlock}, n \in 0..1},
    {<<MCBlock(UncompressedBlock), MCItem, MCCut, MCItem, MCItem, MCBlock(t), MCItem>> :
        t \in {VerbatimBlock, UncompressedBlock}}}

MCSymbolCounts == [0..4 -> 0..4] \cup {[s \in 0..5 |-> 2^s], [s \in 0..5 |-> 2^(5 - s)]}

\* Programs: an instruction names its target, the operand is the distance.
MCOperand(target, i) == <<(target - i) % 256, ((target - i + 65536) \div 256) % 256>>
MCInstruction(x, i) ==
    CASE x = "call" -> <<232>> \o MCOperand(60, i)
      [] x = "other" -> <<232>> \o MCOperand(61, i)
      [] x = "lea" -> <<72, 141, 5>> \o MCOperand(60, i)
      [] x = "indirect" -> <<255, 21>> \o MCOperand(60, i)
      [] x = "lock" -> <<240, 131, 5>> \o MCOperand(60, i)
      [] x = "jump" -> <<233>> \o MCOperand(60, i)
      [] OTHER -> <<144>>
MCPrograms ==
    {FoldLeft(LAMBDA d, x : d \o MCInstruction(x, Len(d)), <<7>>, xs) \o [k \in 1..n |-> IF k = 3 THEN 72 ELSE 7] :
        xs \in [1..3 -> {"call", "other", "lea", "indirect", "lock", "jump", "nop"}], n \in {6, 17}}

MCExtraBits == <<0, 0, 1, 1, 2>>
=============================================================================
