---------------------------- MODULE MatchFinder -----------------------------
(***************************************************************************)
(* The hash-chain match finder that the XPRESS and the LZX compressor      *)
(* both have.  Positions of the input in count from 0.  head holds, for    *)
(* each hash, the last position inserted with it and prev, for each        *)
(* position, the one before it in its chain.                               *)
(***************************************************************************)
EXTENDS Integers, Sequences, SequencesExt, FiniteSetsExt

CONSTANTS HashSize,     \* buckets: small, so that different triples collide
          MaxChain      \* maxChainLen, how far a chain is followed

ASSUME FinderAssumption == HashSize \in Nat \ {0} /\ MaxChain \in Nat \ {0}

None == -1

At(in, p) == in[p + 1]

Hash3(in, p) == (At(in, p) + 2 * At(in, p + 1) + 4 * At(in, p + 2)) % HashSize

NoChains(in) == [head |-> [h \in 0..(HashSize - 1) |-> None], prev |-> [p \in 0..(Len(in) - 1) |-> 0]]

Insert(ch, in, p) ==
    IF p + 2 >= Len(in) THEN ch
    ELSE [head |-> [ch.head EXCEPT ![Hash3(in, p)] = p],
          prev |-> [ch.prev EXCEPT ![p] = ch.head[Hash3(in, p)]]]

InsertRange(ch, in, lo, hi, inserted) ==
    FoldLeft(LAMBDA c, p : IF p = inserted THEN c ELSE Insert(c, in, p), ch,
             [k \in 1..(hi - lo) |-> lo + k - 1])

RECURSIVE Chain(_, _, _)
Chain(ch, cur, k) == IF cur = None \/ k = 0 THEN <<>> ELSE <<cur>> \o Chain(ch, ch.prev[cur], k - 1)

\* How far the input at a and at b agree, up to maxLen.
Agreement(in, a, b, maxLen) ==
    Max({l \in 0..maxLen : \A k \in 0..(l - 1) : At(in, a + k) = At(in, b + k)})

\* The longest match at p that the chain offers: a candidate must agree in
\* the byte after the best so far, and a match of nice bytes ends the search.
FindMatch(ch, in, p, minMatch, maxMatch, nice) ==
    LET maxLen == Min({Len(in) - p, maxMatch})
        Better(best, cur) ==
            LET l == Agreement(in, cur, p, maxLen)
            IN IF best.done \/ best.len >= maxLen \/ At(in, cur + best.len) # At(in, p + best.len) \/ l <= best.len
               THEN best
               ELSE [len |-> l, off |-> p - cur, done |-> l >= nice \/ l >= maxLen]
        found == FoldLeft(Better, [len |-> minMatch - 1, off |-> 0, done |-> FALSE],
                          Chain(ch, ch.head[Hash3(in, p)], MaxChain))
    IN IF p + 2 >= Len(in) \/ found.len < minMatch THEN [len |-> 0, off |-> 0]
       ELSE [len |-> found.len, off |-> found.off]
=============================================================================
