------------------------------- MODULE WimFormat -------------------------------
(***************************************************************************)
(* pkg/wim: what a WIM file is made of, and how it is read.                *)
(*                                                                         *)
(* A file is a sequence of cells.  A cell is a byte of content, one entry  *)
(* of a table (of resources or of chunks), one directory entry, the header *)
(* or the catalog; sizes and offsets count cells, so all the arithmetic of *)
(* offsets, sizes and chunks is here, in smaller numbers.  The hash of a   *)
(* content is the content; the empty content has the zero hash.            *)
(***************************************************************************)
EXTENDS Integers, Sequences, SequencesExt, FiniteSetsExt

CONSTANTS
  ChunkSize,   \* what a chunk of a compressed resource holds
  WideFrom,    \* resources larger than this have chunk table entries of twice the width
  SolidMagic,  \* the uncompressed size that marks the entry of a solid resource
  Shrinks      \* the chunks the compressors make smaller

Failed == [ok |-> FALSE, data |-> <<>>]
Got(d) == [ok |-> TRUE, data |-> d]

Contents(results) == FlattenSeq([i \in DOMAIN results |-> results[i].data])

\* All of several reads, or an error.
AllOf(results) ==
  IF \A i \in DOMAIN results : results[i].ok THEN Got(Contents(results)) ELSE Failed

Descriptor(at, size, orig, flags) == [at |-> at, size |-> size, orig |-> orig, flags |-> flags]
NoResource == Descriptor(0, 0, 0, {})

IsSeq(s) == s \in Seq(ToSet(s))

\* The elements of s at some of its positions, in an order of positions.
Arranged(s, keep, Before(_, _)) ==
  LET before == [i \in keep |-> {j \in keep : Before(j, i)}]
  IN  [k \in 1..Cardinality(keep) |->
         s[CHOOSE i \in keep : Cardinality(before[i]) = k - 1]]

Select(s, Test(_)) == Arranged(s, {k \in DOMAIN s : Test(s[k])}, LAMBDA i, j : i < j)

\* A map with the entries of another added or replaced.
Updated(map, new) ==
  [x \in DOMAIN new \cup DOMAIN map |-> IF x \in DOMAIN new THEN new[x] ELSE map[x]]
Only(x, y) == [z \in {x} |-> y]

\* ReadAt: all that is asked for, or an error.
ReadAt(f, at, n) ==
  IF at >= 0 /\ n >= 0 /\ at + n <= Len(f) THEN Got(SubSeq(f, at + 1, at + n)) ELSE Failed

ReadResourceRaw(f, rd) == IF rd.size = 0 THEN Got(<<>>) ELSE ReadAt(f, rd.at, rd.size)

--------------------------------------------------------------------------------
(* Chunks of a resource that is compressed by itself. *)

NumChunks(size, chunk) == (size + chunk - 1) \div chunk

UncompressedChunkSize(n, size, chunk) ==
  IF n < NumChunks(size, chunk) - 1 \/ size % chunk = 0 THEN chunk ELSE size % chunk

EntrySize(size) == IF size > WideFrom THEN 2 ELSE 1

\* The codecs, of which only the sizes matter here: a chunk becomes one cell, or
\* does not get smaller.
Compressed(chunk) == [k \in 1..(IF chunk \in Shrinks THEN 1 ELSE Len(chunk)) |->
                        [zip |-> chunk, no |-> k]]

Decompress(cells, size) ==
  IF /\ cells # <<>> /\ "zip" \in DOMAIN cells[1]
     /\ cells = Compressed(cells[1].zip) /\ Len(cells[1].zip) = size
  THEN Got(cells[1].zip) ELSE Failed

Codecs == {"XPRESS", "LZX", "LZMS"}

\* A chunk as large as what it holds is what it holds.
OpenChunk(stored, size, comp) ==
  IF Len(stored) = size THEN Got(stored)
  ELSE IF comp \in Codecs THEN Decompress(stored, size) ELSE Failed

\* Where chunk i starts: the first behind the table, the others where it says,
\* and the end of the last.
ChunkOffset(cells, i, size) ==
  LET n     == NumChunks(size, ChunkSize)
      table == (n - 1) * EntrySize(size)
  IN  IF i = 0 THEN table
      ELSE IF i = n THEN Len(cells)
      ELSE table + cells[(i - 1) * EntrySize(size) + 1].num

ReadChunked(f, rd, comp) ==
  LET cells == ReadAt(f, rd.at, rd.size)
      n     == NumChunks(rd.orig, ChunkSize)
      Chunk(i) == OpenChunk(SubSeq(cells.data, ChunkOffset(cells.data, i, rd.orig) + 1,
                                   ChunkOffset(cells.data, i + 1, rd.orig)),
                            UncompressedChunkSize(i, rd.orig, ChunkSize), comp)
  IN  IF ~cells.ok \/ n = 0 THEN Failed ELSE AllOf([i \in 1..n |-> Chunk(i - 1)])

ReadCompressed(f, rd, comp) ==
  IF "solid" \in rd.flags THEN Failed ELSE ReadChunked(f, rd, comp)

--------------------------------------------------------------------------------
(* Solid resources: many blobs compressed as one, with a header of their own. *)

NewSolidResource(f, at) ==
  LET h == f[at + 1]
      n == NumChunks(h.solid, h.chunk)
      start(i) == at + 1 + n + SumFunction([k \in 1..i |-> f[at + 1 + k].num])
  IN  [at |-> at, size |-> h.solid, chunk |-> h.chunk, comp |-> h.comp,
       off |-> [i \in 0..n |-> start(i)]]

DecompressChunk(f, s, i) ==
  LET stored == ReadAt(f, s.off[i], s.off[i + 1] - s.off[i])
      size   == UncompressedChunkSize(i, s.size, s.chunk)
  IN  IF ~stored.ok \/ s.comp \notin {"none", "LZMS"} THEN Failed
      ELSE IF s.comp = "none" THEN stored
      ELSE OpenChunk(stored.data, size, s.comp)

ChunksOf(s, offset, size) == (offset \div s.chunk)..((offset + size - 1) \div s.chunk)

\* readAt: of each chunk the part that is asked for.
ReadSolid(f, s, offset, size) ==
  LET Part(i) ==
        LET c    == DecompressChunk(f, s, i)
            from == Max({0, offset - i * s.chunk})
            to   == Min({Len(c.data), offset + size - i * s.chunk})
        IN  IF c.ok THEN Got(SubSeq(c.data, from + 1, to)) ELSE Failed
      first == offset \div s.chunk
  IN  IF offset < 0 \/ offset + size > s.size THEN Failed
      ELSE AllOf([k \in 1..Cardinality(ChunksOf(s, offset, size)) |-> Part(first + k - 1)])

--------------------------------------------------------------------------------
(* The table of resources, and the reader it fills. *)

Entry(rd, hash) == [rd |-> rd, hash |-> hash]

NoSolid == [at |-> 0]
EmptyReader == [loaded |-> FALSE, metas |-> <<>>, blobs |-> <<>>]

IsSolid(e)      == "solid" \in e.rd.flags
IsMeta(e)       == "metadata" \in e.rd.flags
DescribesRun(e) == IsSolid(e) /\ e.rd.orig = SolidMagic

\* One past the run of solid entries that starts at i.
RunEnd(table, i) ==
  Min({k \in i..(Len(table) + 1) : k > Len(table) \/ ~IsSolid(table[k])})

RunResources(f, table, i) ==
  LET run == Select(SubSeq(table, i, RunEnd(table, i) - 1), DescribesRun)
  IN  [k \in DOMAIN run |-> NewSolidResource(f, run[k].rd.at)]

\* The offset of a blob counts through all the resources of its run.
Placed(e, resources) ==
  LET Before(k) == SumFunction([j \in 1..(k - 1) |-> resources[j].size])
      fits == {k \in DOMAIN resources :
                 e.rd.at - Before(k) + e.rd.size <= resources[k].size}
      k == Min(fits)
  IN  IF fits = {} THEN <<>>
      ELSE Only(e.hash, [solid |-> resources[k], at |-> e.rd.at - Before(k), size |-> e.rd.size])

RunBlobs(f, table, i) ==
  LET resources == RunResources(f, table, i)
      Add(e, blobs) == IF e.rd.orig = SolidMagic \/ e.hash = <<>> THEN blobs
                       ELSE Updated(blobs, Placed(e, resources))
  IN  FoldLeft(LAMBDA blobs, e : Add(e, blobs), <<>>, SubSeq(table, i, RunEnd(table, i) - 1))

\* loadOffsetTable from entry i on.  The header of the solid resource at "bad"
\* cannot be read: what was found before it stays.
Scan(f, table, bad) ==
  LET scan[i \in 1..(Len(table) + 1)] ==
        IF i > Len(table) THEN [EmptyReader EXCEPT !.loaded = TRUE]
        ELSE LET e == table[i]
                 solid == ~IsMeta(e) /\ IsSolid(e)
                 found == IF solid THEN RunBlobs(f, table, i)
                          ELSE IF IsMeta(e) \/ e.hash = <<>> THEN <<>>
                          ELSE Only(e.hash, [solid |-> NoSolid, rd |-> e.rd])
                 rest == scan[IF solid THEN RunEnd(table, i) ELSE i + 1]
             IN  IF solid /\ \E k \in i..(RunEnd(table, i) - 1) :
                               DescribesRun(table[k]) /\ table[k].rd.at = bad
                 THEN EmptyReader
                 ELSE [loaded |-> rest.loaded,
                       metas  |-> (IF IsMeta(e) THEN <<e.rd>> ELSE <<>>) \o rest.metas,
                       blobs  |-> Updated(found, rest.blobs)]
  IN  scan[1]

Table(f) == ReadResourceRaw(f, f[1].table).data

LoadOffsetTable(f, w, bad) ==
  IF w.loaded \/ ~ReadResourceRaw(f, f[1].table).ok THEN w
  ELSE LET s == Scan(f, Table(f), bad) IN [s EXCEPT !.metas = w.metas \o @]

BlobBytes(f, loc) ==
  IF loc.solid # NoSolid THEN ReadSolid(f, loc.solid, loc.at, loc.size)
  ELSE IF "compressed" \in loc.rd.flags THEN ReadCompressed(f, loc.rd, f[1].comp)
  ELSE ReadResourceRaw(f, loc.rd)

ReadFile(f, w, hash) ==
  IF hash = <<>> THEN Got(<<>>)
  ELSE IF hash \notin DOMAIN w.blobs THEN Failed
  ELSE BlobBytes(f, w.blobs[hash])

--------------------------------------------------------------------------------
(* The metadata of an image: security data, then lists of directory entries, *)
(* each list ended by a marker, the lists of subdirectories behind it.       *)

End == [mark |-> "end"]

IsDir(n) == "dir" \in n.attrs /\ "reparse" \notin n.attrs

Dentry(n) == [name |-> n.name, attrs |-> n.attrs, sub |-> 0, streams |-> 0,
              hash |-> IF IsDir(n) THEN <<>> ELSE n.hash]

\* The node of a tree that a path of positions leads to.
NodeAt(root, at) == FoldLeft(LAMBDA n, k : n.children[k], root, at)

\* appendChildList: the list of a directory, which starts at off, and behind it
\* the lists of its directories, one after another.
BuildMetadata(root) ==
  LET lists[at \in Seq(Nat), off \in Nat] ==
        LET list == NodeAt(root, at).children
            Sub(k, o) == IF IsDir(list[k]) THEN lists[Append(at, k), o] ELSE <<>>
            start(k) == off + Len(list) + 1 + SumFunction([j \in 1..(k - 1) |-> Len(Sub(j, 0))])
        IN  [k \in DOMAIN list |->
               [Dentry(list[k]) EXCEPT !.sub = IF IsDir(list[k]) THEN start(k) ELSE 0]]
              \o <<End>> \o FlattenSeq([k \in DOMAIN list |-> Sub(k, start(k))])
  IN  <<[security |-> 1], [Dentry(root) EXCEPT !.sub = 3], End>> \o lists[<<>>, 3]

IsDentry(cell) == "sub" \in DOMAIN cell
IsStream(cell) == "stream" \in DOMAIN cell

\* readDir and readEntry: an entry, its streams, and the directory it is.
ReadDir(m, start) ==
  LET read[off \in Int] ==
        IF off < 0 \/ off + 1 > Len(m) THEN Failed
        ELSE IF m[off + 1] = End THEN Got(<<>>)
        ELSE IF ~IsDentry(m[off + 1]) THEN Failed
        ELSE LET d    == m[off + 1]
                 main == d.streams > 0 /\ m[off + 2].stream = "unnamed"
                 kids == IF IsDir(d) THEN read[d.sub] ELSE Got(<<>>)
                 rest == read[off + 1 + d.streams]
             IN  IF \/ \E k \in 1..d.streams : off + 1 + k > Len(m) \/ ~IsStream(m[off + 1 + k])
                    \/ ~kids.ok \/ ~rest.ok
                 THEN Failed
                 ELSE Got(<<[name     |-> d.name, attrs |-> d.attrs,
                             hash     |-> IF main THEN m[off + 2].hash ELSE d.hash,
                             children |-> kids.data]>> \o rest.data)
  IN  read[start]

ParseImageMetadata(m) ==
  LET first == IF m = <<>> THEN 0 ELSE Max({m[1].security, 1})
      roots == ReadDir(m, first)
  IN  IF first = 0 \/ ~roots.ok \/ Len(roots.data) # 1 THEN Failed ELSE Got(roots.data[1])

ReadMetadata(f, rd) ==
  IF "compressed" \in rd.flags THEN ReadCompressed(f, rd, f[1].comp) ELSE ReadResourceRaw(f, rd)

\* OpenImage, once the table is loaded.
OpenImage(f, w, i) ==
  IF ~w.loaded \/ i \notin 1..Len(w.metas) THEN Failed
  ELSE LET m == ReadMetadata(f, w.metas[i])
       IN  IF m.ok THEN ParseImageMetadata(m.data) ELSE Failed

\* The paths to the nodes below a root.
Nodes(root) ==
  LET below[at \in Seq(Nat)] ==
        LET node == NodeAt(root, at)
        IN  UNION {{Append(at, k)} \cup (IF IsDir(node.children[k]) THEN below[Append(at, k)] ELSE {})
                   : k \in DOMAIN node.children}
  IN  below[<<>>]

\* ExtractImage: a directory tree with the contents Data finds, and no reparse
\* points.
TreeOf(root, Data(_)) ==
  LET names(at) == [k \in DOMAIN at |-> NodeAt(root, SubSeq(at, 1, k)).name]
  IN  {LET node == NodeAt(root, at)
       IN  IF IsDir(node) THEN [path |-> names(at), dir |-> TRUE]
           ELSE [path |-> names(at), dir |-> FALSE, data |-> Data(node.hash)]
       : at \in {p \in Nodes(root) : "reparse" \notin NodeAt(root, p).attrs}}

Extracted(f, w, root) == TreeOf(root, LAMBDA hash : ReadFile(f, w, hash))

--------------------------------------------------------------------------------
\* What Open finds in the catalog.
Images(f) ==
  LET rd == f[1].xml
  IN  IF rd.size = 0 THEN Got(<<>>)
      ELSE IF "compressed" \in rd.flags \/ ~ReadResourceRaw(f, rd).ok THEN Failed
      ELSE Got(ReadResourceRaw(f, rd).data[1].catalog)

IsWim(f) == f # <<>> /\ "table" \in DOMAIN f[1]
================================================================================
