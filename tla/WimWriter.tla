------------------------------- MODULE WimWriter -------------------------------
(***************************************************************************)
(* pkg/wim/writer.go, writer_copy.go and compress_resource.go: the Writer, *)
(* which builds a WIM front to back: the blobs of each image, its          *)
(* metadata, and at Close the table, the catalog and, over the placeholder *)
(* at the start, the header.                                               *)
(*                                                                         *)
(* An image comes from a directory or from another WIM.  Reading a file,   *)
(* compressing a chunk and writing may each fail; the caller may go on     *)
(* with the same Writer and call AddImage again, or Close again, until     *)
(* Close has returned nil.                                                 *)
(***************************************************************************)
EXTENDS WimFormat

CONSTANTS
  Comp,         \* "none", "XPRESS" or "LZX"
  Workers,      \* the goroutines that compress chunks
  Dirs,         \* the directory trees an image can be made from
  Source,       \* the WIM an image can be copied from
  SourceTrees,  \* the trees of its images
  BootIndex,    \* what SetBootIndex was called with, 0 if it was not
  MaxImages,    \* bound of the images written
  MaxFailures,  \* bound of the calls that fail
  Reopen        \* the caller opens the source again when reading it has failed

ASSUME WriterAssumption ==
  /\ ChunkSize \in Nat \ {0} /\ WideFrom \in Nat
  /\ Comp \in {"none", "XPRESS", "LZX"}
  /\ IsWim(Source) /\ SourceTrees \in Seq(ToSet(SourceTrees)) /\ Len(SourceTrees) = Source[1].count
  /\ Workers # {} /\ IsFiniteSet(Workers)
  /\ MaxImages \in Nat /\ BootIndex \in 0..MaxImages /\ MaxFailures \in Nat /\ Reopen \in BOOLEAN

VARIABLES
  out,       \* the file
  cursor,    \* where the file's next write goes
  pos,       \* w.pos
  blobs,     \* w.blobs, in the form of table entries
  seen,      \* w.seen
  images,    \* w.images
  src,       \* the reader of the source
  pc,        \* where the Writer is
  job,       \* the image being written: its tree, its catalog entry, the contents to come
  content,   \* the content being written
  next,      \* the next chunk to be taken
  holds,     \* the chunk each goroutine compresses, or Free or Done
  chunks,    \* the chunks compressed so far
  table,     \* where Close put the table, and then the catalog
  rewound,   \* history: a header was not written, and the file's position is not w.pos
  failures,
  added,     \* history: the trees of the images
  lost,      \* history: contents marked as seen that were never written
  unpacked   \* history: how often this call decompressed each chunk of the source

zipVars    == <<content, next, holds, chunks>>
writerVars == <<out, cursor, pos, blobs, seen, images, src, pc, job, zipVars, table,
                rewound, failures, added, lost, unpacked>>

Free == 0
Done == -1

Blank == [mark |-> "placeholder"]
NoJob == [tree |-> <<>>, info |-> <<>>, todo |-> <<>>, of |-> 0]

IdleZip == content = <<>> /\ next = 0 /\ holds = [w \in Workers |-> Free] /\ chunks = <<>>

WriterInit ==
  /\ out = <<Blank>> /\ cursor = 1 /\ pos = 1
  /\ blobs = <<>> /\ seen = {} /\ images = <<>>
  /\ src = EmptyReader /\ pc = "idle" /\ job = NoJob
  /\ IdleZip /\ table = <<>>
  /\ rewound = FALSE /\ failures = 0 /\ added = <<>> /\ lost = {} /\ unpacked = <<>>

Overwrite(f, at, cells) ==
  [k \in 1..Max({Len(f), at + Len(cells)}) |->
     IF k > at /\ k <= at + Len(cells) THEN cells[k - at] ELSE f[k]]

\* Writer.write: the position advances by what was written.
Write(cells) ==
  /\ out' = Overwrite(out, cursor, cells)
  /\ cursor' = cursor + Len(cells) /\ pos' = pos + Len(cells)

Fail == failures < MaxFailures /\ failures' = failures + 1

\* Nothing is written, or all but the last cell.
WriteFails(cells) == Fail /\ \E n \in {0, Len(cells) - 1} : Write(SubSeq(cells, 1, n))

Silent == UNCHANGED <<out, cursor, pos>>

\* The locals of AddImage and AddImageFromWIM go out of scope.
Leave ==
  /\ pc' = "idle" /\ job' = NoJob /\ unpacked' = <<>>
  /\ content' = <<>> /\ next' = 0 /\ holds' = [w \in Workers |-> Free] /\ chunks' = <<>>

--------------------------------------------------------------------------------
(* The contents of the files of a tree, in the order of the walk. *)
Walk(root) ==
  LET walk[at \in Seq(Nat)] ==
        LET node == NodeAt(root, at)
        IN  IF IsDir(node) THEN FlattenSeq([k \in DOMAIN node.children |-> walk[Append(at, k)]])
            ELSE <<node.hash>>
  IN  walk[<<>>]

\* The trees are finite: the files below a root are met on the walk, and the
\* metadata resource that is made of a tree is read as that tree.
Trees == Dirs \cup ToSet(SourceTrees)

ASSUME TreesAssumption ==
  \A tree \in Trees :
    /\ IsSeq(Walk(tree)) /\ \A h \in ToSet(Walk(tree)) : IsSeq(h)
    /\ \A at \in Nodes(tree) : LET n == NodeAt(tree, at)
                              IN  IsDir(n) \/ "reparse" \in n.attrs \/ n.hash \in ToSet(Walk(tree))
    /\ IsSeq(BuildMetadata(tree)) /\ ParseImageMetadata(BuildMetadata(tree)) = Got(tree)

\* The source is a WIM of the trees it is said to hold: each of its images opens
\* as one of them, and its files have the contents they are named by.
Loaded == LoadOffsetTable(Source, EmptyReader, -1)

ASSUME SourceAssumption ==
  /\ Loaded.loaded
  /\ \A i \in DOMAIN SourceTrees : OpenImage(Source, Loaded, i) = Got(SourceTrees[i])
  /\ \A tree \in ToSet(SourceTrees) : \A h \in ToSet(Walk(tree)) :
        h # <<>> => ReadFile(Source, Loaded, h) = Got(h)
  /\ \A h \in DOMAIN Loaded.blobs : Loaded.blobs[h].solid # NoSolid => Loaded.blobs[h].at \in Nat

\* Contents in its solid resources do not overlap.
ASSUME SolidAssumption ==
  \A g, h \in DOMAIN Loaded.blobs :
    LET a == Loaded.blobs[g] b == Loaded.blobs[h]
    IN  a.solid # NoSolid /\ b.solid # NoSolid =>
          /\ a.size \in Nat \ {0} /\ a.solid.chunk \in Nat \ {0}
          /\ a.solid.at = b.solid.at =>
               a.solid = b.solid /\ (g # h /\ a.at <= b.at => a.at + a.size <= b.at)

Info(n, windows) == [index |-> n, windows |-> windows]

\* AddImage: the walk writes each content as it meets it.
AddImage(tree) ==
  /\ pc = "idle" /\ Len(images) < MaxImages
  /\ pc' = "walking"
  /\ job' = [tree |-> tree, info |-> Info(Len(images) + 1, "none"),
             todo |-> Walk(tree), of |-> 0]
  /\ UNCHANGED <<out, cursor, pos, blobs, seen, images, src, zipVars, table, rewound, failures,
                 added, lost, unpacked>>

\* A directory or a file cannot be read: AddImage returns what it has.
SourceFails ==
  /\ pc = "walking" /\ job.todo # <<>>
  /\ Fail /\ Leave /\ Silent
  /\ UNCHANGED <<blobs, seen, images, src, table, rewound, added, lost>>

\* planNode: each content once, unless it is written already.
Pending(hashes, known) ==
  Arranged(hashes,
           {k \in DOMAIN hashes : /\ hashes[k] \notin known \cup {<<>>}
                                  /\ \A j \in 1..(k - 1) : hashes[j] # hashes[k]},
           LAMBDA i, j : i < j)

SolidOf(r, h) ==
  IF h \in DOMAIN r.blobs THEN r.blobs[h].solid ELSE NoSolid

\* The order of the walk.
WalkOrder(r, hashes) == hashes

\* sortBlobsBySource: solid resources in the order they are met, each by offset,
\* then the others as they were.
SortBlobsBySource(r, hashes) ==
  LET solid(k) == SolidOf(r, hashes[k])
      Group(k) == IF solid(k) = NoSolid THEN Len(hashes) + 1
                  ELSE Min({j \in DOMAIN hashes : solid(j) = solid(k)})
      Offset(k) == IF solid(k) = NoSolid THEN 0 ELSE r.blobs[hashes[k]].at
  IN  Arranged(hashes, DOMAIN hashes, LAMBDA i, j :
        \/ Group(i) < Group(j)
        \/ /\ Group(i) = Group(j)
           /\ Offset(i) < Offset(j) \/ (Offset(i) = Offset(j) /\ i < j))

SolidHeaders == {r.at : r \in {e.rd : e \in {x \in ToSet(Table(Source)) : DescribesRun(x)}}}

\* AddImageFromWIM: open the image and plan.
AddImageFromWIM(i) ==
  /\ pc = "idle" /\ Len(images) < MaxImages
  /\ LET r    == LoadOffsetTable(Source, src, -1)
         root == OpenImage(Source, r, i)
     IN  /\ src' = r
         /\ root.ok
         /\ pc' = "copying"
         /\ job' = [tree |-> root.data,
                    info |-> Info(Len(images) + 1, Images(Source).data[i].windows),
                    todo |-> SortBlobsBySource(r, Pending(Walk(root.data), seen)),
                    of   |-> i]
  /\ UNCHANGED <<out, cursor, pos, blobs, seen, images, zipVars, table, rewound, failures,
                 added, lost, unpacked>>

\* The table of the source cannot be loaded.
OpenFails ==
  /\ pc = "idle" /\ Len(images) < MaxImages
  /\ Fail
  /\ \E bad \in SolidHeaders : src' = IF Reopen THEN EmptyReader ELSE LoadOffsetTable(Source, src, bad)
  /\ UNCHANGED <<out, cursor, pos, blobs, seen, images, pc, job, zipVars, table, rewound,
                 added, lost, unpacked>>

\* The chunks of the source that reading a blob decompresses: all, but not the
\* first if it is the one that the resource has kept.
Unpack(h) ==
  LET loc  == src.blobs[h]
      keys == IF loc.solid = NoSolid THEN {}
              ELSE {<<loc.solid.at, k>> : k \in ChunksOf(loc.solid, loc.at, loc.size)}
      kept(k) == k \in DOMAIN unpacked /\ unpacked[k].last
      News == {k \in keys : ~(kept(k) /\ k[2] = loc.at \div loc.solid.chunk)}
      touched == {k[1] : k \in keys}
      times(k) == (IF k \in DOMAIN unpacked THEN unpacked[k].times ELSE 0)
                    + (IF k \in News THEN 1 ELSE 0)
      last(k)  == IF k[1] \in touched
                  THEN k[2] = Max({q[2] : q \in {x \in keys : x[1] = k[1]}})
                  ELSE unpacked[k].last
  IN  [k \in DOMAIN unpacked \cup keys |-> [times |-> times(k), last |-> last(k)]]

CopyFails ==
  /\ pc = "copying" /\ job.todo # <<>>
  /\ Fail /\ Leave /\ Silent
  /\ src' = IF Reopen THEN EmptyReader ELSE src
  /\ UNCHANGED <<blobs, seen, images, table, rewound, added, lost>>

\* An empty file, or a content written before.
SkipContent ==
  /\ pc \in {"walking", "copying"} /\ job.todo # <<>>
  /\ Head(job.todo) \in seen \cup {<<>>}
  /\ job' = [job EXCEPT !.todo = Tail(@)]
  /\ UNCHANGED <<out, cursor, pos, blobs, seen, images, src, pc, zipVars, table, rewound, failures,
                 added, lost, unpacked>>

Raw(c, i) == SubSeq(c, i * ChunkSize + 1, Min({Len(c), (i + 1) * ChunkSize}))

\* The content is marked as seen before it is written.  writeBlobData starts its
\* goroutines, no more than there are chunks.
StartContent ==
  /\ pc \in {"walking", "copying"} /\ job.todo # <<>>
  /\ LET h == Head(job.todo)
         data == IF pc = "walking" THEN Got(h) ELSE ReadFile(Source, src, h)
         n == NumChunks(Len(data.data), ChunkSize)
     IN  /\ h \notin seen \cup {<<>>} /\ data.ok
         /\ seen' = seen \cup {h}
         /\ content' = data.data
         /\ unpacked' = IF pc = "walking" THEN unpacked ELSE Unpack(h)
         /\ chunks' = [k \in 1..n |-> <<>>]
         /\ \E team \in SUBSET Workers :
              /\ Cardinality(team) = Min({n, Cardinality(Workers)})
              /\ holds' = [w \in Workers |-> IF w \in team /\ Comp # "none" THEN Free ELSE Done]
  /\ pc' = IF pc = "walking" THEN "zipping" ELSE "zipping copy"
  /\ next' = 0
  /\ UNCHANGED <<out, cursor, pos, blobs, images, src, job, table, rewound, failures, added,
                 lost>>

Zipping == pc \in {"zipping", "zipping copy"}

otherVars == <<out, cursor, pos, blobs, seen, images, src, pc, job, content, table,
               rewound, added, lost, unpacked>>

\* The end noticed one chunk too late.
TakeChunkPast(w) ==
  /\ Zipping /\ holds[w] = Free
  /\ next' = next + 1
  /\ holds' = [holds EXCEPT ![w] = IF next > Len(chunks) THEN Done ELSE next + 1]
  /\ UNCHANGED <<otherVars, chunks, failures>>

\* The counter is read and advanced in one step.
TakeChunk(w) ==
  /\ Zipping /\ holds[w] = Free
  /\ next' = next + 1
  /\ holds' = [holds EXCEPT ![w] = IF next >= Len(chunks) THEN Done ELSE next + 1]
  /\ UNCHANGED <<otherVars, chunks, failures>>

\* A chunk that keeps its size is compressed as well.
SmallerOrEqual(raw) == IF Len(Compressed(raw)) > Len(raw) THEN raw ELSE Compressed(raw)

Smaller(raw) == IF Len(Compressed(raw)) >= Len(raw) THEN raw ELSE Compressed(raw)

\* A chunk that does not shrink is stored as it is.
ZipChunk(w) ==
  /\ Zipping /\ holds[w] > 0
  /\ chunks' = [chunks EXCEPT ![holds[w]] = Smaller(Raw(content, holds[w] - 1))]
  /\ holds' = [holds EXCEPT ![w] = Free]
  /\ UNCHANGED <<otherVars, next, failures>>

\* The goroutine ends; the others go on.
ZipFails(w) ==
  /\ Zipping /\ holds[w] > 0
  /\ Fail
  /\ holds' = [holds EXCEPT ![w] = Done]
  /\ UNCHANGED <<otherVars, next, chunks>>

AllDone == Zipping /\ \A w \in Workers : holds[w] = Done

\* Where the chunks but the first start, behind the table.
ChunkTable(cs, size) ==
  [j \in 1..((Len(cs) - 1) * EntrySize(size)) |->
     IF (j - 1) % EntrySize(size) # 0 THEN Blank
     ELSE [num |-> Len(FlattenSeq(SubSeq(cs, 1, (j - 1) \div EntrySize(size) + 1)))]]

Resource ==
  IF Comp = "none" THEN content
  ELSE ChunkTable(chunks, Len(content)) \o FlattenSeq(chunks)

\* wg.Wait returns with an error: a chunk is missing.
Missing == Comp # "none" /\ \E i \in DOMAIN chunks : chunks[i] = <<>>

StoreContent ==
  /\ AllDone /\ ~Missing
  /\ Write(Resource)
  /\ blobs' = Append(blobs,
       Entry(Descriptor(pos, Len(Resource), Len(content),
                        IF Comp = "none" THEN {} ELSE {"compressed"}), Head(job.todo)))
  /\ job' = [job EXCEPT !.todo = Tail(@)]
  /\ pc' = IF pc = "zipping" THEN "walking" ELSE "copying"
  /\ content' = <<>> /\ next' = 0 /\ holds' = [w \in Workers |-> Free] /\ chunks' = <<>>
  /\ UNCHANGED <<seen, images, src, table, rewound, failures, added, lost, unpacked>>

\* Compressing or writing failed; the content stays marked as seen.
StoreFails ==
  /\ AllDone
  /\ IF Missing THEN Silent /\ UNCHANGED failures ELSE WriteFails(Resource)
  /\ lost' = lost \cup {Head(job.todo)}
  /\ Leave
  /\ UNCHANGED <<blobs, seen, images, src, table, rewound, added>>

--------------------------------------------------------------------------------
Metadata == BuildMetadata(job.tree)

AddMetadata ==
  /\ pc \in {"walking", "copying"} /\ job.todo = <<>>
  /\ Write(Metadata)
  /\ images' = Append(images, [rd   |-> Descriptor(pos, Len(Metadata), Len(Metadata), {"metadata"}),
                               hash |-> Metadata, info |-> job.info])
  /\ added' = Append(added, IF job.of = 0 THEN job.tree ELSE SourceTrees[job.of])
  /\ Leave
  /\ UNCHANGED <<blobs, seen, src, table, rewound, failures, lost>>

MetadataFails ==
  /\ pc \in {"walking", "copying"} /\ job.todo = <<>>
  /\ WriteFails(Metadata) /\ Leave
  /\ UNCHANGED <<blobs, seen, images, src, table, rewound, added, lost>>

--------------------------------------------------------------------------------
closeVars == <<blobs, seen, images, src, job, zipVars, added, lost, unpacked>>

TableCells == blobs \o [i \in DOMAIN images |-> Entry(images[i].rd, images[i].hash)]
Catalog    == <<[catalog |-> [i \in DOMAIN images |-> images[i].info]]>>

Plain(at, size) == Descriptor(at, size, size, {})

\* Close of a Writer with images; without any it returns an error.
CloseTable ==
  /\ pc = "idle" /\ images # <<>>
  /\ Write(TableCells)
  /\ table' = <<Plain(pos, Len(TableCells))>>
  /\ pc' = "catalog"
  /\ UNCHANGED <<closeVars, rewound, failures>>

CloseCatalog ==
  /\ pc = "catalog"
  /\ Write(Catalog)
  /\ table' = Append(table, Plain(pos, Len(Catalog)))
  /\ pc' = "header"
  /\ UNCHANGED <<closeVars, rewound, failures>>

CloseFails ==
  /\ pc \in {"idle", "catalog"} /\ images # <<>>
  /\ WriteFails(IF pc = "idle" THEN TableCells ELSE Catalog)
  /\ table' = <<>> /\ pc' = "idle"
  /\ UNCHANGED <<closeVars, rewound>>

Header(flags, comp, part, parts, count, offsets, xml, boot, bootIndex) ==
  [flags |-> flags, comp |-> comp, part |-> part, parts |-> parts, count |-> count,
   table |-> offsets, xml |-> xml, boot |-> boot, bootIndex |-> bootIndex]

BootResource == IF BootIndex = 0 THEN NoResource ELSE images[BootIndex].rd

\* finalizeHeader seeks back; afterwards the file's position is behind the header.
FinalizeHeader ==
  /\ pc = "header" /\ BootIndex <= Len(images)
  /\ out' = Overwrite(out, 0, <<Header({}, Comp, 1, 1, Len(images), table[1], table[2],
                                       BootResource, BootIndex)>>)
  /\ cursor' = 1 /\ pc' = "closed"
  /\ UNCHANGED <<closeVars, pos, table, rewound, failures>>

\* The boot index is out of range, or the seek fails: nothing is written, and Close
\* may be called again, perhaps with more images.
HeaderRefused ==
  /\ pc = "header"
  /\ Fail
  /\ pc' = "idle" /\ table' = <<>>
  /\ UNCHANGED <<closeVars, out, cursor, pos, rewound>>

\* The header cannot be written.  The file's position stays at the start and w.pos
\* where it was: what this Writer writes from now on is not where it says.
HeaderFails ==
  /\ pc = "header" /\ BootIndex <= Len(images)
  /\ Fail
  /\ cursor' = 0 /\ rewound' = TRUE
  /\ pc' = "idle" /\ table' = <<>>
  /\ UNCHANGED <<closeVars, out, pos>>

WriterNext ==
  \/ \E tree \in Dirs : AddImage(tree)
  \/ \E i \in DOMAIN SourceTrees : AddImageFromWIM(i)
  \/ OpenFails \/ SourceFails \/ CopyFails
  \/ SkipContent \/ StartContent
  \/ \E w \in Workers : TakeChunk(w) \/ ZipChunk(w) \/ ZipFails(w)
  \/ StoreContent \/ StoreFails
  \/ AddMetadata \/ MetadataFails
  \/ CloseTable \/ CloseCatalog \/ CloseFails
  \/ FinalizeHeader \/ HeaderRefused \/ HeaderFails
================================================================================
