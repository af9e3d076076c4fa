------------------------------- MODULE UdfWriter -------------------------------
(***************************************************************************)
(* pkg/udf/writer.go and descriptors.go: WriteTree, which walks a          *)
(* directory, gives every File Entry and every extent its blocks, writes   *)
(* the volume's structures and then, one node after another, copies the    *)
(* files.  The directory may change between the walk and the copying; the  *)
(* image may be one that a failed call left behind, truncated by the       *)
(* caller.                                                                 *)
(***************************************************************************)
EXTENDS UdfFormat

VARIABLES
  media,     \* the directory being mastered: a tree
  nodes,     \* the walked tree in the order of the walk, with the blocks assigned
  image,     \* the sectors written
  todo,      \* the nodes still to be written
  walked,    \* history: the directory as it was walked
  streamed   \* history: what each file held when it was copied

udfVars == <<nodes, image, todo, walked, streamed>>

LbnAnchor == 256
LbnMainVDS == 257
LbnReserveVDS == 273
LbnIntegrity == 289
LbnPartition == 291
VdsSectors == 16

MaxExtent == LenLimit - SectorSize

\* The descriptors of a directory's entries, after what comes before them.
FidBytes(paths, path, first) ==
  LET kids == Selected(paths, ChildrenAt(paths, path))
      sum[k \in 0..Len(kids)] == IF k = 0 THEN first ELSE sum[k - 1] + FidLen(Last(kids[k]))
  IN  sum[Len(kids)]

ChildFidBytes(paths, path) == FidBytes(paths, path, 0)

DirFidBytes(paths, path) == FidBytes(paths, path, FidLen(0))

\* assignBlocks, depth first from block 2: block 0 is the File Set Descriptor
\* and block 1 ends its sequence.
AssignBlocks(tree) ==
  LET paths == InOrder(DOMAIN tree)
      Size(p) == IF tree[p].dir THEN DirFidBytes(paths, p) ELSE Len(tree[p].data)
      next[k \in 0..Len(paths)] == IF k = 0 THEN 2 ELSE next[k - 1] + 1 + Blocks(Size(paths[k]))
  IN  [nodes |-> [k \in 1..Len(paths) |-> [path |-> paths[k], dir |-> tree[paths[k]].dir, len |-> Size(paths[k]),
                                          fe |-> next[k - 1], lb |-> next[k - 1] + 1, uid |-> k - 1]],
       next |-> next[Len(paths)]]

NodeAt(path) == nodes[CHOOSE k \in DOMAIN nodes : nodes[k].path = path]
Kids(n) == Selected(nodes, ChildrenAt([k \in DOMAIN nodes |-> nodes[k].path], n.path))
PartitionBlocks == LET n == Last(nodes) IN n.lb + Blocks(n.len)
TotalSectors == LbnPartition + PartitionBlocks

Anchor(loc) == <<"anchor", loc, [main |-> LbnMainVDS, sectors |-> VdsSectors, reserve |-> LbnReserveVDS]>>

PrimaryVolumeDescriptor(loc) == <<"primary volume", loc, <<>>>>
ImplUseVolumeDescriptor(loc) == <<"implementation use", loc, <<>>>>
PartitionDescriptor(loc, blocks) == <<"partition", loc, [start |-> LbnPartition, blocks |-> blocks]>>
LogicalVolumeDescriptor(loc) == <<"logical volume", loc, [blockSize |-> SectorSize, maps |-> 1, fileSet |-> 0]>>
UnallocatedSpaceDescriptor(loc) == <<"unallocated space", loc, <<>>>>
TerminatingDescriptor(loc) == <<"terminating", loc, <<>>>>

VDS(base, blocks) ==
  From(base, <<PrimaryVolumeDescriptor(base), ImplUseVolumeDescriptor(base + 1), PartitionDescriptor(base + 2, blocks),
               LogicalVolumeDescriptor(base + 3), UnallocatedSpaceDescriptor(base + 4), TerminatingDescriptor(base + 5)>>)

\* The Logical Volume Integrity Descriptor counts the files and directories.
Integrity(tree) ==
  From(LbnIntegrity, <<<<"integrity", LbnIntegrity,
                         [files |-> Cardinality({p \in DOMAIN tree : ~tree[p].dir}),
                          dirs |-> Cardinality({p \in DOMAIN tree : tree[p].dir}), nextId |-> 16]>>,
                       TerminatingDescriptor(LbnIntegrity + 1)>>)

VolumeStructures(tree, vrs, blocks) ==
  Overlay(From(vrs, <<<<"BEA01", 0, <<>>>>, <<"NSR02", 0, <<>>>>, <<"TEA01", 0, <<>>>>>>),
    Overlay(Only(LbnAnchor, Anchor(LbnAnchor)),
      Overlay(VDS(LbnMainVDS, blocks), Overlay(VDS(LbnReserveVDS, blocks), Integrity(tree)))))

FileSet(root) == From(LbnPartition, <<<<"file set", 0, [root |-> root]>>, TerminatingDescriptor(1)>>)

\* The parent's descriptor names the parent, and in the root the root.
OwnEntry(n) == n.fe
ParentEntry(n) == NodeAt(IF n.path = <<>> THEN <<>> ELSE Parent(n.path)).fe

\* The descriptors of a directory, one after another: first the parent's.
DirEntries(n) ==
  <<[name |-> 0, fe |-> ParentEntry(n), dir |-> TRUE]>>
    \o [k \in 1..Len(Kids(n)) |-> [name |-> Last(Kids(n)[k].path), fe |-> Kids(n)[k].fe, dir |-> Kids(n)[k].dir]]
DirFidStream(n) ==
  LET ents == DirEntries(n)
      stream[k \in 0..Len(ents)] ==
        IF k = 0 THEN <<>>
        ELSE LET buf == stream[k - 1]
             IN  buf \o Fid(ents[k].name, ents[k].fe, ents[k].dir, n.lb + Len(buf) \div SectorSize)
  IN  stream[Len(ents)]

\* As the writer once did, whatever the length.
OneExtent(len, lb) == <<[raw |-> len, block |-> lb]>>
\* Short allocation descriptors: the type of the extent is above the length.
Extents(len, lb) ==
  [k \in 1..((len + MaxExtent - 1) \div MaxExtent) |->
     [raw |-> Min({MaxExtent, len - (k - 1) * MaxExtent}), block |-> lb + Blocks((k - 1) * MaxExtent)]]

\* countChildDirs
Subdirectories(n) == {m \in Range(nodes) : m.dir /\ m.path # <<>> /\ Parent(m.path) = n.path}
LinkCount(n) == IF n.dir THEN 1 + Cardinality(Subdirectories(n)) ELSE 1

FileEntry(n) ==
  Only(LbnPartition + n.fe, <<"file entry", n.fe, [dir |-> n.dir, len |-> n.len, links |-> LinkCount(n),
                                                   uid |-> n.uid, exts |-> Extents(n.len, n.lb)]>>)

\* The data is written before the File Entry.
DirEntry(n) == Overlay(FileEntry(n), Sectors("fids", DirFidStream(n), LbnPartition + n.lb))
\* streamFile copies what there is now, up to the end of the file.
Streamed(n) == IF n.len > 0 THEN Sectors("file", media[n.path].data, LbnPartition + n.lb) ELSE <<>>

\* Result.Files: a file without bytes is not listed.
ResultFiles ==
  [p \in {nodes[k].path : k \in {j \in DOMAIN nodes : ~nodes[j].dir /\ nodes[j].len > 0}} |->
     [sector |-> LbnPartition + NodeAt(p).lb, len |-> NodeAt(p).len]]

UdfInit ==
  /\ nodes = <<>> /\ image = <<>> /\ todo = <<>>
  /\ walked = <<>> /\ streamed = <<>>

\* The walk, the assignment and the structures that depend on nothing else.
\* os.Create has truncated the file.
BeginTree(vrs) ==
  LET a == AssignBlocks(media) IN
  /\ nodes' = a.nodes /\ todo' = a.nodes
  /\ image' = Overlay(FileSet(a.nodes[1].fe), VolumeStructures(media, vrs, a.next))
  /\ walked' = media /\ streamed' = <<>>

WriteNode ==
  LET n == Head(todo) IN
  /\ todo # <<>>
  /\ n.dir \/ n.len = 0 \/ n.path \in DOMAIN media
  /\ image' = Overlay(IF n.dir THEN DirEntry(n) ELSE Overlay(FileEntry(n), Streamed(n)), image)
  /\ streamed' = IF n.dir \/ n.len = 0 THEN streamed ELSE Overlay(Only(n.path, media[n.path].data), streamed)
  /\ todo' = Tail(todo)
  /\ UNCHANGED <<nodes, walked>>

\* A file that was walked is gone: WriteTree returns an error.
NodeGone == todo # <<>> /\ ~Head(todo).dir /\ Head(todo).len > 0 /\ Head(todo).path \notin DOMAIN media

\* The backup anchor, in the last sector.
EndTree == Overlay(Only(TotalSectors, Anchor(TotalSectors)), image)
=============================================================================
