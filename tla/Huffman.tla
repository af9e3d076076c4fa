------------------------------ MODULE Huffman -------------------------------
(***************************************************************************)
(* The Huffman codes of the codecs.  Three packages build them:            *)
(*   pkg/wim/xpress and pkg/wim/lzx build an optimal tree, cut the lengths *)
(*     at a limit and repair the Kraft sum (the same algorithm twice);     *)
(*   pkg/wim/lzms rebuilds an adaptive code in place over one array.       *)
(* Lengths are functions from symbols 0..n-1 to Nat, 0 for a symbol that   *)
(* is not in the code; a code word is a sequence of bits.                  *)
(***************************************************************************)
EXTENDS Integers, Sequences, FiniteSets, FiniteSetsExt, SequencesExt, Functions

-----------------------------------------------------------------------------
(* Bits, most significant first, as sequences of 0 and 1: what a bit buffer  *)
(* holds.  A word is two bytes, stored low byte first, so a byte of the      *)
(* stream is a sequence of ByteBits bits and a word is the bits of its high  *)
(* byte followed by those of its low byte.                                   *)

BitsOf(v, n) == [k \in 1..n |-> (v \div 2^(n - k)) % 2]

ValueOf(b) == FoldLeft(LAMBDA acc, x : 2 * acc + x, 0, b)

Zeros(n) == [k \in 1..n |-> 0]

\* bits widened with zeros to n
Padded(b, n) == b \o Zeros(n - Len(b))

First(b, n) == SubSeq(b, 1, n)

Rest(b, n) == SubSeq(b, n + 1, Len(b))

\* What a decoder returns.
Corrupt == [ok |-> FALSE, out |-> <<>>]
Decoded(out) == [ok |-> TRUE, out |-> out]

-----------------------------------------------------------------------------

Used(freqs) == {s \in DOMAIN freqs : freqs[s] > 0}

InCode(lens) == {s \in DOMAIN lens : lens[s] > 0}

\* The Kraft sum of the symbols S, in units of 2^-limit.
Kraft(lens, S, limit) == MapThenSumSet(LAMBDA s : 2^(limit - lens[s]), S)

-----------------------------------------------------------------------------
(* pkg/wim/xpress: buildLengthLimitedLengths *)

\* The heap's order: by frequency, and by the node's index among equals.
Before(a, b) == a.freq < b.freq \/ (a.freq = b.freq /\ a.at < b.at)

Lightest(forest) == CHOOSE t \in forest : \A u \in forest \ {t} : Before(t, u)

RECURSIVE Merged(_, _)
Merged(forest, next) ==
    IF Cardinality(forest) = 1 THEN (CHOOSE t \in forest : TRUE).depth
    ELSE LET a == Lightest(forest)
             b == Lightest(forest \ {a})
             both == DOMAIN a.depth \union DOMAIN b.depth
             node == [freq |-> a.freq + b.freq, at |-> next,
                      depth |-> [s \in both |-> 1 + (IF s \in DOMAIN a.depth
                                                     THEN a.depth[s] ELSE b.depth[s])]]
         IN Merged((forest \ {a, b}) \union {node}, next + 1)

\* The depth of every used symbol in the optimal tree.
HuffmanCodeLengths(freqs) ==
    LET used == Used(freqs)
        Index(s) == Cardinality({u \in used : u < s})
    IN Merged({[freq |-> freqs[s], at |-> Index(s), depth |-> (s :> 0)] : s \in used},
              Cardinality(used))

\* One pass of the repair: the codes from the shortest on, each made one bit
\* longer while the sum is still above one.
Lengthen(lens, limit) ==
    LET order == SetToSortSeq(DOMAIN lens, LAMBDA s, t : lens[s] < lens[t] \/ (lens[s] = lens[t] /\ s < t))
        Step(l, s) == IF Kraft(l, DOMAIN l, limit) > 2^limit /\ l[s] < limit
                      THEN [l EXCEPT ![s] = @ + 1] ELSE l
    IN FoldLeft(Step, lens, order)

RECURSIVE Repaired(_, _)
Repaired(lens, limit) ==
    IF Kraft(lens, DOMAIN lens, limit) <= 2^limit THEN lens
    ELSE LET l == Lengthen(lens, limit)
         IN IF l = lens THEN lens ELSE Repaired(l, limit)

\* Cut without the repair.
OnlyCut(lens, limit) == [s \in DOMAIN lens |-> IF lens[s] > limit THEN limit ELSE lens[s]]

\* Over-long codes cut to the limit, then the repair.
LimitLengths(lens, limit) ==
    Repaired([s \in DOMAIN lens |-> IF lens[s] > limit THEN limit ELSE lens[s]], limit)

BuildLengthLimitedLengths(freqs, limit) ==
    LET used == Used(freqs)
        lens == IF Cardinality(used) = 1 THEN [s \in used |-> 1]
                ELSE LimitLengths(HuffmanCodeLengths(freqs), limit)
    IN [s \in DOMAIN freqs |-> IF s \in used THEN lens[s] ELSE 0]

-----------------------------------------------------------------------------
(* Canonical codes: by length, then by symbol. *)

\* How many code words of at most the symbol's length come before it, counted
\* in words of its length: its code.
BuildCanonicalCodes(lens) ==
    LET Earlier(s) == {t \in InCode(lens) : lens[t] < lens[s] \/ (lens[t] = lens[s] /\ t < s)}
    IN [s \in InCode(lens) |->
            BitsOf(MapThenSumSet(LAMBDA t : 2^(lens[s] - lens[t]), Earlier(s)), lens[s])]

\* A flat table indexed by the next limit bits: a symbol fills the entries its
\* code starts, an entry no code starts keeps what the table held before.
FillTable(table, lens, limit) ==
    LET codes == BuildCanonicalCodes(lens)
        From(s) == ValueOf(Padded(codes[s], limit))
        Owner(i) == {s \in InCode(lens) : From(s) <= i /\ i < From(s) + 2^(limit - lens[s])}
    IN [i \in DOMAIN table |-> IF Owner(i) = {} THEN table[i] ELSE CHOOSE s \in Owner(i) : TRUE]

OverSubscribed(lens, limit) == Kraft(lens, InCode(lens), limit) > 2^limit

\* The decoders of LZX in WIM files refuse a code that leaves words unused.
Complete(lens, limit) == InCode(lens) = {} \/ Kraft(lens, InCode(lens), limit) = 2^limit

NoSymbol == -1

BuildDecodeTable(lens, limit) == FillTable([i \in 0..(2^limit - 1) |-> NoSymbol], lens, limit)

-----------------------------------------------------------------------------
(* pkg/wim/lzms: the adaptive codes.  One array, of pairs of a number (a     *)
(* frequency, then a parent, then a depth) and a symbol: the leaves' symbols *)
(* stay in place while the inner nodes overwrite the numbers.                *)

\* The leaves in the order of the symbols.
LeavesBySymbol(freqs) ==
    LET order == SetToSortSeq(Used(freqs), LAMBDA s, t : s < t)
    IN [k \in 0..(Len(order) - 1) |-> [num |-> freqs[order[k + 1]], sym |-> order[k + 1]]]

SortedLeaves(freqs) ==
    LET order == SetToSortSeq(Used(freqs), LAMBDA s, t : freqs[s] < freqs[t] \/ (freqs[s] = freqs[t] /\ s < t))
    IN [k \in 0..(Len(order) - 1) |-> [num |-> freqs[order[k + 1]], sym |-> order[k + 1]]]

Child(a, node, parent) == [a EXCEPT ![node].num = parent]

\* i: the next leaf, b: the next inner node without a parent, e: the next
\* inner node to be made.
RECURSIVE BuildTree(_, _, _, _, _)
BuildTree(a, i, b, e, last) ==
    LET f(k) == a[k].num
        twoLeaves == i + 1 <= last /\ (b = e \/ f(i + 1) <= f(b))
        twoNodes == ~twoLeaves /\ b + 2 <= e /\ (i > last \/ f(b + 1) < f(i))
        freq == IF twoLeaves THEN f(i) + f(i + 1) ELSE IF twoNodes THEN f(b) + f(b + 1) ELSE f(i) + f(b)
        tree == [(IF twoLeaves THEN a
                  ELSE IF twoNodes THEN Child(Child(a, b, e), b + 1, e) ELSE Child(a, b, e))
                 EXCEPT ![e].num = freq]
        leaves == IF twoLeaves THEN 2 ELSE IF twoNodes THEN 0 ELSE 1
    IN IF e + 1 >= last THEN tree
       ELSE BuildTree(tree, i + leaves, b + 2 - leaves, e + 1, last)

\* From the root down: an inner node at a depth takes one code word of that
\* length and gives two of the next.
RECURSIVE LengthCounts(_, _, _, _)
LengthCounts(a, node, counts, limit) ==
    IF node < 0 THEN counts
    ELSE LET depth == a[a[node].num].num + 1
             ln == IF depth < limit THEN depth ELSE Max({k \in 0..limit : counts[k] # 0})
         IN LengthCounts([a EXCEPT ![node].num = depth], node - 1,
                         [counts EXCEPT ![ln] = @ - 1, ![ln + 1] = @ + 2], limit)

ComputeLengthCounts(a, root, limit) ==
    LengthCounts([a EXCEPT ![root].num = 0], root - 1,
                 [k \in 0..(limit + 1) |-> IF k = 1 THEN 2 ELSE 0], limit)

\* The rarest symbols get the longest words; a symbol no word is left for
\* keeps the length it had.
GenLens(a, old, counts, limit) ==
    LET Longer(l) == MapThenSumSet(LAMBDA k : counts[k], {k \in 1..limit : k > l})
        Place(s) == CHOOSE k \in DOMAIN a : a[k].sym = s
        Fits(s) == {l \in 1..limit : Longer(l) <= Place(s) /\ Place(s) < Longer(l) + counts[l]}
        Rated == {a[k].sym : k \in DOMAIN a}
    IN [s \in DOMAIN old |-> IF s \in Rated /\ Fits(s) # {} THEN CHOOSE l \in Fits(s) : TRUE ELSE old[s]]

MakeCanonicalLens(freqs, old, limit) ==
    LET used == Used(freqs)
        lens == [s \in DOMAIN old |-> IF s \in used THEN old[s] ELSE 0]
        leaves == SortedLeaves(freqs)
        n == Cardinality(used)
        tree == BuildTree(leaves, 0, 0, 0, n - 1)
    IN IF n = 0 THEN lens
       ELSE IF n = 1 THEN LET s == CHOOSE x \in used : TRUE
                          IN [lens EXCEPT ![0] = 1, ![IF s = 0 THEN 1 ELSE s] = 1]
       ELSE GenLens(tree, lens, ComputeLengthCounts(tree, n - 2, limit), limit)

\* The bits a text with these frequencies takes.
Cost(freqs, lens) == MapThenSumSet(LAMBDA s : freqs[s] * lens[s], Used(freqs))
=============================================================================
