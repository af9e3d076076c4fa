------------------------------- MODULE MCWimMedia ------------------------------
(***************************************************************************)
(* Chunks of two bytes; one directory tree with contents of one, two and   *)
(* three chunks.  The source has two solid resources in one run, between   *)
(* the entries of its two metadata resources; the first of its images      *)
(* lists its files in another order than the resources hold them, the      *)
(* second is compressed and has a stream and a reparse point.              *)
(***************************************************************************)
EXTENDS WimMedia, TLC

WorkersAlike == Permutations(Workers)

B(c) == [byte |-> c]
AA  == <<B("a"), B("a")>>
BA  == <<B("b"), B("a")>>
A   == <<B("a")>>
BAA == <<B("b"), B("a"), B("a")>>
BB  == <<B("b"), B("b")>>

MCShrinks == {AA, BA}

File(name, hash) == [name |-> name, attrs |-> {"archive"}, hash |-> hash, children |-> <<>>]
Dir(name, children) == [name |-> name, attrs |-> {"dir"}, hash |-> <<>>, children |-> children]
Root(children) == Dir("", children)

MCDirs ==
  {Root(<<File("x", AA \o BB \o A), Dir("s", <<File("e", <<>>), File("y", BAA)>>), File("z", A)>>)}

Link == [File("l", BB) EXCEPT !.attrs = {"dir", "reparse"}]
MCSourceTrees ==
  <<Root(<<File("p", A), File("q", BAA), File("r", A)>>),
    Root(<<Link, Dir("t", <<File("u", BB)>>), File("p", AA)>>)>>

\* The entry of "p" in the second image refers to its content in a stream.
Streamed(m) ==
  LET k == CHOOSE j \in DOMAIN m : IsDentry(m[j]) /\ m[j].name = "p"
      d == [m[k] EXCEPT !.streams = 1, !.hash = <<>>]
      shifted == [j \in DOMAIN m |-> IF IsDentry(m[j]) /\ m[j].sub > k - 1
                                     THEN [m[j] EXCEPT !.sub = @ + 1] ELSE m[j]]
  IN  SubSeq(shifted, 1, k - 1) \o <<d, [stream |-> "unnamed", hash |-> m[k].hash]>>
        \o SubSeq(shifted, k + 1, Len(m))

Zipped(c) == IF c \in MCShrinks THEN Compressed(c) ELSE c

Solid(cs) ==
  LET zip == [k \in DOMAIN cs |-> Zipped(cs[k])]
  IN  <<[solid |-> Len(FlattenSeq(cs)), chunk |-> 2, comp |-> "LZMS"]>>
        \o [k \in DOMAIN zip |-> [num |-> Len(zip[k])]] \o FlattenSeq(zip)

Packed(m) ==
  LET cs == [k \in 1..NumChunks(Len(m), ChunkSize) |-> Zipped(Raw(m, k - 1))]
  IN  ChunkTable(cs, Len(m)) \o FlattenSeq(cs)

Meta1  == BuildMetadata(MCSourceTrees[1])
Meta2  == Streamed(BuildMetadata(MCSourceTrees[2]))
Solid1 == Solid(<<BA, AA>>)      \* BAA, then A
Solid2 == Solid(<<BB>>)

Pieces == <<Meta1, Solid1, Solid2, AA, Packed(Meta2),
            <<[catalog |-> <<[index |-> 1, windows |-> "home"], [index |-> 2, windows |-> "pro"]>>]>>>>

\* Where the pieces start (SourceAssumption fails if they do not), and the table
\* behind them.
Starts == <<1, 8, 13, 17, 19, 37, 38>>
Rd(k, orig, flags) == Descriptor(Starts[k], Starts[k + 1] - Starts[k], orig, flags)

SourceTable ==
  <<Entry(Rd(1, 7, {"metadata"}), Meta1),
    Entry(Rd(2, SolidMagic, {"solid"}), <<>>),
    Entry(Rd(3, SolidMagic, {"solid"}), <<>>),
    Entry(Descriptor(0, 3, 3, {"solid"}), BAA),
    Entry(Descriptor(3, 1, 1, {"solid"}), A),
    Entry(Descriptor(4, 2, 2, {"solid"}), BB),
    Entry(Rd(4, 2, {}), AA),
    Entry(Rd(5, 10, {"metadata", "compressed"}), Meta2)>>

MCSource ==
  <<Header({}, "LZMS", 1, 1, 2, Plain(Starts[7], Len(SourceTable)), Rd(6, 1, {}), NoResource, 0)>>
    \o FlattenSeq(Pieces) \o SourceTable
================================================================================
