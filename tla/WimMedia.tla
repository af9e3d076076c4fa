-------------------------------- MODULE WimMedia -------------------------------
(***************************************************************************)
(* A WIM from end to end: written, closed, split into parts in a directory *)
(* (more than once perhaps, with another part size), joined from some of   *)
(* the parts found there, and read.                                        *)
(***************************************************************************)
EXTENDS WimWriter, WimSpan

CONSTANTS
  PartSizes,   \* the part sizes Split is called with
  MaxSplits    \* bound of the calls of Split

ASSUME MediaAssumption == PartSizes \subseteq Nat \ {0} /\ MaxSplits \in Nat

VARIABLES
  folder,    \* the part files, by the number in their names
  max,       \* the part size of the Split that runs or ran last
  part,      \* the part it is at
  torn,      \* history: the numbers of the part files that were not finished
  joined,    \* the WIM Join wrote
  given,     \* history: the parts it was given
  splits

mediaVars == <<folder, max, part, torn, joined, given, splits>>
vars == <<writerVars, mediaVars>>

Init ==
  /\ WriterInit
  /\ folder = <<>> /\ max = 0 /\ part = 0 /\ torn = {}
  /\ joined = <<>> /\ given = {} /\ splits = 0

\* Split opens the WIM and plans its parts.
Split(size) ==
  /\ pc = "closed" /\ splits < MaxSplits /\ CanSplit(out)
  /\ splits' = splits + 1
  /\ max' = size /\ part' = 1 /\ pc' = "splitting"
  /\ joined' = <<>> /\ given' = {}
  /\ UNCHANGED <<out, cursor, pos, closeVars, table, rewound, failures, folder, torn>>

Store(n, file) ==
  /\ folder' = Updated(folder, Only(n, file))
  /\ UNCHANGED <<out, cursor, pos, closeVars, table, rewound, max, joined, given, splits>>

WritePart ==
  /\ pc = "splitting"
  /\ Store(part, PartFile(out, part, max))
  /\ torn' = torn \ {part}
  /\ IF part < Len(PackParts(out, max)) THEN part' = part + 1 /\ UNCHANGED pc
                                        ELSE part' = 0 /\ pc' = "closed"
  /\ UNCHANGED failures

\* Split returns an error and leaves the parts as they are.
WritePartFails ==
  /\ pc = "splitting"
  /\ Fail
  /\ LET file == PartFile(out, part, max)
     IN  \E n \in {1, Len(file)} : Store(part, Torn(file, n))
  /\ torn' = torn \cup {part}
  /\ part' = 0 /\ pc' = "closed"

JoinParts(names) ==
  /\ pc = "closed" /\ joined = <<>>
  /\ LET order == SetToSeq(names)
         j == Join([k \in DOMAIN order |-> folder[order[k]]])
     IN  j.ok /\ joined' = j.data
  /\ given' = names
  /\ UNCHANGED <<writerVars, folder, max, part, torn, splits>>

Next ==
  \/ WriterNext /\ UNCHANGED mediaVars
  \/ \E size \in PartSizes : Split(size)
  \/ WritePart \/ WritePartFails
  \/ \E names \in SUBSET DOMAIN folder : JoinParts(names)

Spec == Init /\ [][Next]_vars

--------------------------------------------------------------------------------
TypeOK ==
  /\ cursor \in Nat /\ pos \in Nat
  /\ pc \in {"idle", "walking", "copying", "zipping", "zipping copy", "catalog", "header",
             "closed", "splitting"}
  /\ Len(added) = Len(images) /\ lost \subseteq seen
  /\ holds \in [Workers -> {Free, Done} \cup 1..Len(chunks)]
  /\ rewound \in BOOLEAN /\ failures \in 0..MaxFailures /\ splits \in 0..MaxSplits
  /\ torn \subseteq DOMAIN folder /\ given \subseteq DOMAIN folder

Opened(f) == LoadOffsetTable(f, EmptyReader, -1)

\* The files of a tree with their contents, as ExtractImage is to write them.
Expected(root) == TreeOf(root, Got)

\* A file without its content, because the write of that content failed.
Lacks(x, tree) ==
  /\ ~x.dir /\ ~x.data.ok
  /\ \E h \in lost : [path |-> x.path, dir |-> FALSE, data |-> Got(h)] \in Expected(tree)

WindowsOf(i) == Images(out).data[i].windows

(* A WIM that Close has finished extracts to the trees that were added, in   *)
(* order, each file with its content, chunk by chunk, and with the catalog   *)
(* entry of the image it was copied from: also when images were abandoned    *)
(* half way, when they share contents with each other, and when Close had    *)
(* failed before, at the table, the catalog, the boot index or the seek.     *)
(* Only a content whose own write failed, and which the Writer takes for     *)
(* written since, can be missing.  Nothing is promised of a Close that       *)
(* follows one whose header was not written: it starts at the head of the    *)
(* file, names places that were never written and returns nil all the same   *)
(* (writer.go:125-150, 268-273).                                             *)
WrittenReadsBack ==
  pc \in {"closed", "splitting"} /\ ~rewound =>
    /\ Len(Opened(out).metas) = Len(added) /\ out[1].count = Len(added)
    /\ Len(Images(out).data) = Len(added)
    /\ \A i \in DOMAIN added :
         LET image == OpenImage(out, Opened(out), i)
         IN  /\ image.ok /\ image.data = added[i]
             /\ WindowsOf(i) # "none" =>
                  \E k \in DOMAIN SourceTrees :
                    Images(Source).data[k].windows = WindowsOf(i) /\ SourceTrees[k] = added[i]
             /\ \A x \in Extracted(out, Opened(out), image.data) :
                  x \in Expected(added[i]) \/ Lacks(x, added[i])

(* Copying an image decompresses no chunk of a solid source twice, whatever  *)
(* the order of its files and whatever was written before (writer_copy.go,   *)
(* "decompresses each chunk exactly once").                                  *)
ChunksOnce == \A k \in DOMAIN unpacked : unpacked[k].times <= 1

(* The resources of a part stay below the part size, unless it holds one     *)
(* resource only or is the first, which holds all the metadata; no resource  *)
(* is left out and none is in two parts.                                     *)
PartsPacked ==
  pc = "splitting" =>
    LET parts == PackParts(out, max)
    IN  /\ \A k \in DOMAIN parts :
             \/ RunningSize(parts[k]) < max
             \/ Len(parts[k]) = 1
             \/ k = 1 /\ parts[k] = MetaItems(out)
        /\ ToSet(FlattenSeq(parts)) = {e \in ToSet(Table(out)) : e.hash # <<>>}
        /\ Len(FlattenSeq(parts)) = Len(Table(out))

BootAt(f) == IF f[1].bootIndex = 0 THEN NoResource ELSE Opened(f).metas[f[1].bootIndex]

Complete(names) ==
  /\ torn = {}
  /\ 1..Len(PackParts(out, max)) \subseteq names

(* A WIM joined from parts has every image and the boot image where its      *)
(* header says; every content it has is the right one, whichever of the      *)
(* parts were given and from whichever Split; none is missing when the last  *)
(* Split was given whole.  A part that was never finished is not joined.     *)
JoinedReadsBack ==
  joined # <<>> =>
    LET r == Opened(joined)
    IN  /\ given \cap torn = {}
        /\ \A i \in DOMAIN added : OpenImage(joined, r, i) = OpenImage(out, Opened(out), i)
        /\ Len(r.metas) = Len(added)
        /\ joined[1].boot = BootAt(joined) /\ joined[1].bootIndex = out[1].bootIndex
        /\ joined[1].flags = out[1].flags /\ Images(joined) = Images(out)
        /\ \A h \in DOMAIN r.blobs : ReadFile(joined, r, h) = Got(h)
        /\ Complete(given) => DOMAIN r.blobs = DOMAIN Opened(out).blobs
================================================================================
