------------------------------- MODULE UdfReader -------------------------------
(***************************************************************************)
(* The two readers of UDF images, as functions of an image: the strict one *)
(* of pkg/udf/reader.go, which refuses what Windows refuses, and the       *)
(* inspector of pkg/isoinspect/udf.go, which goes on and reports.          *)
(***************************************************************************)
EXTENDS UdfFormat

MaxDepth == 24

HasTag(image, s, tag, loc) == LET x == SectorOf(image, s) IN x[1] = tag /\ x[2] = loc

NoVolume == [ok |-> FALSE, part |-> 0, blocks |-> 0, root |-> 0]

\* The sectors of the Main Volume Descriptor Sequence up to its terminator.
Sequence(image, anchor) ==
  LET end == CHOOSE n \in 0..anchor.sectors :
               /\ \A k \in 0..(n - 1) : SectorOf(image, anchor.main + k)[1] \notin {"zero", "terminating"}
               /\ n = anchor.sectors \/ SectorOf(image, anchor.main + n)[1] \in {"zero", "terminating"}
  IN  [k \in 1..end |-> SectorOf(image, anchor.main + k - 1)]

\* Read: anchor, partition, logical volume and file set.
Volume(image) ==
  IF ~HasTag(image, 256, "anchor", 256) THEN NoVolume
  ELSE LET anchor == SectorOf(image, 256)[3]
           seq == Sequence(image, anchor)
           Found(tag) == {k \in DOMAIN seq : seq[k][1] = tag}
       IN  IF \/ \E k \in DOMAIN seq : seq[k][2] # anchor.main + k - 1
              \/ Found("partition") = {} \/ Found("logical volume") = {}
           THEN NoVolume
           ELSE LET pd == seq[Max(Found("partition"))][3]
                    lvd == seq[Max(Found("logical volume"))][3]
                IN  IF \/ lvd.blockSize # SectorSize \/ lvd.maps # 1
                       \/ ~HasTag(image, pd.start + lvd.fileSet, "file set", lvd.fileSet)
                    THEN NoVolume
                    ELSE [ok |-> TRUE, part |-> pd.start, blocks |-> pd.blocks,
                          root |-> SectorOf(image, pd.start + lvd.fileSet)[3].root]

\* readEntryData: the extents that are recorded, one after another.
EntryData(image, part, kind, fe) ==
  FlattenSeq([k \in DOMAIN fe.exts |->
     IF fe.exts[k].raw \div LenLimit # 0 THEN <<>>
     ELSE ReadAt(image, kind, part + fe.exts[k].block, fe.exts[k].raw % LenLimit)])

FidSpan(fid) == RoundUp(FidHeader + fid.lfi, FidAlign)

\* parseFIDs: each descriptor where the one before it ends.
ParseFids(cells) ==
  LET parsed[k \in 0..Len(cells)] ==
        IF k = 0 THEN [ok |-> TRUE, off |-> 0, fids |-> <<>>]
        ELSE LET s == parsed[k - 1]
                 fid == cells[s.off + 1]
             IN  IF ~s.ok \/ s.off + FidHeader > Len(cells) THEN s
                 ELSE IF ~fid.head \/ s.off + FidSpan(fid) > Len(cells) \/ fid.len > FidSpan(fid)
                 THEN [s EXCEPT !.ok = FALSE]
                 ELSE [ok |-> TRUE, off |-> s.off + FidSpan(fid), fids |-> Append(s.fids, fid)]
  IN  parsed[Len(cells)]

NotRead == [ok |-> FALSE, entries |-> <<>>]

\* readDirEntries: a directory's descriptors but for the parent's, whose File
\* Entries must be in order.
ReadDirEntries(image, vol, block) ==
  LET p == ParseFids(EntryData(image, vol.part, "fids", SectorOf(image, vol.part + block)[3]))
      named == {k \in DOMAIN p.fids : ~p.fids[k].parent}
  IN  IF /\ HasTag(image, vol.part + block, "file entry", block)
         /\ p.ok
         /\ \A k \in named : HasTag(image, vol.part + p.fids[k].fe, "file entry", p.fids[k].fe)
      THEN [ok |-> TRUE, entries |-> Selected(p.fids, named)] ELSE NotRead

NoEntry == [ok |-> FALSE, dir |-> FALSE, fe |-> 0]

\* ReadDir follows a path from the root, one component after another.
Resolve(image, vol, path) ==
  LET at[k \in 0..Len(path)] ==
        IF k = 0 THEN [ok |-> TRUE, dir |-> TRUE, fe |-> vol.root]
        ELSE LET above == at[k - 1]
                 d == ReadDirEntries(image, vol, above.fe)
                 found == {j \in DOMAIN d.entries : d.entries[j].name = path[k]}
             IN  IF ~above.ok \/ ~d.ok \/ found = {} THEN NoEntry
                 ELSE [ok |-> TRUE, dir |-> d.entries[Min(found)].dir, fe |-> d.entries[Min(found)].fe]
  IN  at[Len(path)]

\* readFileData
ReadFileData(image, vol, block) ==
  LET fe == SectorOf(image, vol.part + block)[3]
      data == EntryData(image, vol.part, "file", fe)
  IN  IF Len(data) > fe.len THEN SubSeq(data, 1, fe.len) ELSE data

--------------------------------------------------------------------------------
\* The inspector: what it counts and complains of.
Nothing == [errors |-> {}, files |-> <<>>, dirs |-> 0]
Both(a, b) == [errors |-> a.errors \cup b.errors, files |-> a.files \o b.files, dirs |-> a.dirs + b.dirs]

\* validateFileExtents
ExtentErrors(fe) ==
  LET sum == FoldLeft(LAMBDA n, e : n + (e.raw % LenLimit), 0, fe.exts)
      limit == LenLimit - SectorSize
  IN  IF fe.len = 0 THEN {} ELSE IF fe.exts = <<>> THEN {"no descriptors"}
      ELSE {x \in {"type", "limit", "sum", "too few"} :
              CASE x = "type" -> \E k \in DOMAIN fe.exts : fe.exts[k].raw \div LenLimit # 0
                [] x = "limit" -> \E k \in DOMAIN fe.exts : fe.exts[k].raw % LenLimit > limit
                [] x = "sum" -> sum # fe.len
                [] OTHER -> Len(fe.exts) < (fe.len + limit - 1) \div limit}

\* walkDir: what is not a descriptor is skipped up to the next block.
LenientFids(cells) ==
  LET lenient[off \in Nat] ==
        IF off + FidHeader > Len(cells) THEN <<>>
        ELSE LET fid == cells[off + 1]
             IN  IF ~fid.head THEN lenient[(off \div SectorSize + 1) * SectorSize]
                 ELSE (IF ~fid.parent /\ fid.lfi > 0 /\ off + FidHeader + fid.lfi <= Len(cells) THEN <<fid>> ELSE <<>>)
                        \o lenient[off + FidSpan(fid)]
  IN  lenient[0]

Walk(image, part, root) ==
  LET walk[block \in Nat, path \in Seq(Nat), depth \in Nat] ==
        LET s == SectorOf(image, part + block)
            fe == s[3]
            fids == LenientFids(EntryData(image, part, "fids", fe))
        IN  IF depth > MaxDepth THEN Nothing
            ELSE IF s[1] # "file entry" THEN [Nothing EXCEPT !.errors = {"unreadable"}]
            ELSE IF fe.dir
            THEN FoldLeft(LAMBDA acc, fid : Both(acc, walk[fid.fe, Append(path, fid.name), depth + 1]),
                          [Nothing EXCEPT !.dirs = 1], fids)
            ELSE [errors |-> ExtentErrors(fe), dirs |-> 0,
                  files |-> <<[path |-> path, size |-> fe.len, extents |-> Len(fe.exts),
                               first |-> IF fe.exts = <<>> THEN 0 ELSE fe.exts[1].block]>>]
  IN  walk[root, <<>>, 0]

\* The inspector checks neither the places of the tags nor the block size;
\* on the images of this writer it finds the volume the strict reader finds.
InspectUDF(image) ==
  LET vol == Volume(image)
  IN  IF ~vol.ok THEN [Nothing EXCEPT !.errors = {"no volume"}]
      ELSE Walk(image, vol.part, vol.root)
=============================================================================
