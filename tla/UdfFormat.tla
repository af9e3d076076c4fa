------------------------------- MODULE UdfFormat -------------------------------
(***************************************************************************)
(* The UDF structures pkg/udf writes and reads, and the trees they hold.   *)
(*                                                                         *)
(* A tree maps a path, the sequence of its names, to a directory or a      *)
(* file.  Names are numbers in the order of os.ReadDir.  A sector is       *)
(* <<tag, tag location, body>>; the sectors of directories and of files    *)
(* have cells for a body, SectorSize of them.  The numbers of the sectors  *)
(* are the code's own; sizes are scaled down.                              *)
(***************************************************************************)
EXTENDS Integers, SequencesExt, FiniteSetsExt

CONSTANTS
  SectorSize,  \* bytes of a sector
  LenLimit,    \* the length field of a short_ad holds less than this
  FidHeader,   \* bytes of a File Identifier Descriptor before its name
  FidAlign,    \* a descriptor is rounded up to a multiple of this
  NameRunes,   \* the characters of each name
  NameBytes,   \* its bytes
  WideNames    \* the names with a character above 255

ASSUME UdfAssumption ==
  /\ SectorSize \in Nat \ {0} /\ LenLimit \in Nat /\ LenLimit > SectorSize /\ LenLimit % SectorSize = 0
  /\ FidHeader \in Nat \ {0} /\ FidAlign \in Nat \ {0}
  /\ NameRunes \in Seq(Nat) /\ NameBytes \in [DOMAIN NameRunes -> Nat]

File(data) == [dir |-> FALSE, data |-> data]
Dir == [dir |-> TRUE, data |-> <<>>]
Node == {Dir} \cup [dir : {FALSE}, data : Seq(Nat)]
\* One entry, and a function's entries before those of another.
Only(path, value) == [p \in {path} |-> value]
Overlay(f, g) == [p \in DOMAIN f \cup DOMAIN g |-> IF p \in DOMAIN f THEN f[p] ELSE g[p]]
FilesOf(tree) == {p \in DOMAIN tree : ~tree[p].dir}

Parent(path) == Front(path)
Children(tree, path) == {p \in DOMAIN tree : p # <<>> /\ Parent(p) = path}
Ancestors(path) == {SubSeq(path, 1, n) : n \in 0..(Len(path) - 1)}

\* The order of the walk: a directory before its entries, entries by name.
Before(p, q) ==
  \E n \in 0..Min({Len(p), Len(q)}) :
     /\ SubSeq(p, 1, n) = SubSeq(q, 1, n)
     /\ IF n = Len(p) THEN n < Len(q) ELSE n < Len(q) /\ p[n + 1] < q[n + 1]

InOrder(paths) ==
  [k \in 1..Cardinality(paths) |-> CHOOSE p \in paths : Cardinality({q \in paths : Before(q, p)}) = k - 1]

RoundUp(n, m) == ((n + m - 1) \div m) * m
Blocks(n) == (n + SectorSize - 1) \div SectorSize

\* The elements of a sequence at these positions, in their order.
Selected(s, keep) ==
  [k \in 1..Cardinality(keep) |-> s[CHOOSE i \in keep : Cardinality({j \in keep : j <= i}) = k]]

\* Where the entries of a directory are in a list of paths.
ChildrenAt(paths, path) == {k \in DOMAIN paths : paths[k] # <<>> /\ Parent(paths[k]) = path}

\* dcharsLen counts characters, encodeDChars writes the bytes of a name whose
\* characters all fit in one.  Byte 19 of a descriptor holds the second length.
ByteRange == 256
DcharsLen(name) ==
  IF name = 0 THEN 0 ELSE IF name \in WideNames THEN 1 + 2 * NameRunes[name] ELSE 1 + NameRunes[name]
EncodedLen(name) ==
  IF name = 0 THEN 0 ELSE IF name \in WideNames THEN 1 + 2 * NameRunes[name] ELSE 1 + NameBytes[name]
FidLen(name) == RoundUp(FidHeader + DcharsLen(name), FidAlign)

\* A descriptor is its first cell, and cells that are not the start of one.
More == [head |-> FALSE]
FidHead(name, fe, dir, loc) ==
  [head |-> TRUE, name |-> name, fe |-> fe, dir |-> dir, parent |-> name = 0,
   lfi |-> EncodedLen(name) % ByteRange, len |-> FidLen(name), loc |-> loc]
Fid(name, fe, dir, loc) ==
  [i \in 1..FidLen(name) |-> IF i = 1 THEN FidHead(name, fe, dir, loc) ELSE More]

SectorOf(image, s) == IF s \in DOMAIN image THEN image[s] ELSE <<"zero", 0, <<>>>>
\* What is read at the place of a sector of another kind.
ZeroCell(kind) == IF kind = "file" THEN 0 ELSE More

\* The cells of an extent, read as those of a file or of a directory.
ReadAt(image, kind, sector, len) ==
  [i \in 1..len |->
     LET x == SectorOf(image, sector + (i - 1) \div SectorSize)
     IN  IF x[1] = kind THEN x[3][((i - 1) % SectorSize) + 1] ELSE ZeroCell(kind)]

\* Sectors one after another, and those that hold these cells.
From(sector, contents) == [s \in sector..(sector + Len(contents) - 1) |-> contents[s - sector + 1]]
Sectors(kind, cells, sector) ==
  [s \in sector..(sector + Blocks(Len(cells)) - 1) |->
     <<kind, 0, [i \in 1..SectorSize |->
                   LET at == (s - sector) * SectorSize + i
                   IN  IF at <= Len(cells) THEN cells[at] ELSE ZeroCell(kind)]>>]
=============================================================================
