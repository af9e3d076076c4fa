------------------------------- MODULE WimUpdate -------------------------------
(***************************************************************************)
(* pkg/wim/modify.go and modify_files.go: the Updater, which edits a WIM   *)
(* in place.  Edits are staged in memory; Commit appends new blobs, the    *)
(* rebuilt metadata of the images that changed, a whole blob table and the *)
(* catalog to the file, and then overwrites the header, which alone says   *)
(* where the table and the catalog are.                                    *)
(*                                                                         *)
(* The file behind the header is a sequence of resources; an offset is an  *)
(* index into it.  Its first resources are those of the WIM as it was      *)
(* opened first: the blobs, one metadata resource per image, table and     *)
(* catalog.  Packed says that those metadata resources are compressed, as  *)
(* in Microsoft's media; this package's Writer never compresses them.      *)
(*                                                                         *)
(* The process may die between any two system calls.  Data the operating   *)
(* system has taken is not lost: that Sync alone orders the header behind  *)
(* the data on the medium is not modelled.                                 *)
(***************************************************************************)
EXTENDS WimTree

CONSTANTS
  NumImages,   \* how many images the WIM has
  Values,      \* what the catalog may say of an image
  OldBlobs,    \* the blobs 1..OldBlobs are in the original WIM
  OldTrees,    \* the images of the original WIM
  OldEntries,  \* its catalog
  BootIndex,   \* the bootable image, or 0
  Packed,      \* its metadata resources are compressed
  MaxOpens,    \* bound of the calls of OpenForUpdate
  MaxEdits,    \* bound of the edits staged
  MaxCommits   \* bound of the calls of Commit

Images == 1..NumImages

ASSUME UpdateAssumption ==
  /\ NumImages \in Nat \ {0}
  /\ OldBlobs \in 0..NumBlobs
  /\ OldTrees \in [Images -> Trees]
  /\ OldEntries \in [Images -> Values]
  /\ BootIndex \in 0..NumImages
  /\ Packed \in BOOLEAN
  /\ MaxOpens \in Nat /\ MaxEdits \in Nat /\ MaxCommits \in Nat
  /\ \A i \in Images : Uses(OldTrees[i]) \subseteq 1..OldBlobs /\ WellFormed(OldTrees[i])

VARIABLES
  file,      \* the resources behind the header
  head,      \* the header on disk
  pc,        \* "closed", "idle", or where Commit is
  hdr,       \* u.hdr
  base,      \* offset of the table in u.w.hdr, read when the file was opened
  recs,      \* u.recs
  ops,       \* u.ops
  drafts,    \* history: each image at open and after each of its staged edits
  todo,      \* images whose metadata is still to be rebuilt
  cur,       \* the image being rebuilt
  tree,      \* its tree
  opNo,      \* the next of its operations
  adds,      \* the blobs its operations brought
  blobs,     \* blobEntries: where the blobs are, 0 if nowhere
  metas,     \* newMeta
  places,    \* where Commit put its table and catalog
  result,    \* what Commit returned last, "none" once there are edits since
  opens, edits, commits

sessionVars == <<hdr, base, recs, ops, drafts, opens, edits, commits>>
imageVars   == <<cur, tree, opNo, adds>>
commitVars  == <<todo, imageVars, blobs, metas, places>>
vars == <<file, head, pc, sessionVars, commitVars, result>>

Entry    == [at : Nat, packed : BOOLEAN]
Resource ==
  [kind : {"blob"}, blob : 1..NumBlobs]
    \cup [kind : {"metadata"}, tree : Trees, packed : BOOLEAN]
    \cup [kind : {"table"}, blobs : [1..NumBlobs -> Nat], metas : [Images -> Entry]]
    \cup [kind : {"catalog"}, recs : [Images -> Values]]
    \cup [kind : {"slack"}]
Header == [table : Nat, catalog : Nat, boot : Nat]

Original(k) ==
  IF k <= OldBlobs
    THEN [kind |-> "blob", blob |-> k]
  ELSE IF k <= OldBlobs + NumImages
    THEN [kind |-> "metadata", tree |-> OldTrees[k - OldBlobs], packed |-> Packed]
  ELSE IF k = OldBlobs + NumImages + 1
    THEN [kind  |-> "table",
          blobs |-> [b \in 1..NumBlobs |-> IF b <= OldBlobs THEN b ELSE 0],
          metas |-> [i \in Images |-> [at |-> OldBlobs + i, packed |-> Packed]]]
  ELSE [kind |-> "catalog", recs |-> OldEntries]

OldTable == OldBlobs + NumImages + 1

NoTree   == [p \in Paths |-> Nothing]
NoBlobs  == [b \in 1..NumBlobs |-> 0]
NoMetas  == [i \in Images |-> [at |-> 0, packed |-> FALSE]]
NoPlaces == [table |-> 0, catalog |-> 0]

Init ==
  /\ file = [k \in 1..(OldTable + 1) |-> Original(k)]
  /\ head = [table   |-> OldTable, catalog |-> OldTable + 1,
             boot    |-> IF BootIndex = 0 THEN 0 ELSE OldBlobs + BootIndex]
  /\ pc = "closed" /\ result = "none"
  /\ hdr = head /\ base = OldTable /\ recs = OldEntries
  /\ ops = [i \in Images |-> <<>>]
  /\ drafts = [i \in Images |-> <<OldTrees[i]>>]
  /\ todo = {} /\ cur = 1 /\ tree = NoTree /\ opNo = 1 /\ adds = {}
  /\ blobs = NoBlobs /\ metas = NoMetas /\ places = NoPlaces
  /\ opens = 0 /\ edits = 0 /\ commits = 0

--------------------------------------------------------------------------------
MetaOf(table, i)  == file[table].metas[i]
ImageAt(table, i) == file[MetaOf(table, i).at].tree

\* A metadata resource is decompressed if and only if its entry says so.
Decodable(table, i) == file[MetaOf(table, i).at].packed = MetaOf(table, i).packed

\* A tree after an edit, or as it was if the edit cannot be applied.
After(t, e) == IF CanEdit(t, e) THEN Edited(t, e) ELSE t

Final(i) == drafts[i][Len(drafts[i])]

\* An Updater on what the file holds: the one OpenForUpdate makes, or, since
\* nothing depends on it, the one that there will be next.
Fresh ==
  /\ result' = "none"
  /\ hdr' = head /\ base' = head.table
  /\ recs' = file[head.catalog].recs
  /\ ops' = [i \in Images |-> <<>>]
  /\ drafts' = [i \in Images |-> <<ImageAt(head.table, i)>>]
  /\ UNCHANGED <<file, head, edits, commits>>

\* OpenForUpdate.
Open ==
  /\ pc = "closed" /\ opens < MaxOpens
  /\ pc' = "idle" /\ opens' = opens + 1
  /\ Fresh
  /\ UNCHANGED commitVars

\* AddFile and RemoveFile.
Stage(i, e) ==
  /\ pc = "idle" /\ edits < MaxEdits
  /\ edits' = edits + 1 /\ result' = "none"
  /\ ops' = [ops EXCEPT ![i] = Append(@, e)]
  /\ drafts' = [drafts EXCEPT ![i] = Append(@, After(Final(i), e))]
  /\ UNCHANGED <<file, head, pc, hdr, base, recs, opens, commits, commitVars>>

\* SetProperty of one image, or SetPropertyAll.
SetProperty(is, v) ==
  /\ pc = "idle" /\ edits < MaxEdits
  /\ edits' = edits + 1 /\ result' = "none"
  /\ recs' = [i \in Images |-> IF i \in is THEN v ELSE recs[i]]
  /\ UNCHANGED <<file, head, pc, hdr, base, ops, drafts, opens, commits, commitVars>>

Staged == {i \in Images : ops[i] # <<>>}

BeginCommit(st) ==
  /\ pc = "idle" /\ commits < MaxCommits
  /\ commits' = commits + 1 /\ pc' = st
  /\ UNCHANGED <<file, head, hdr, base, recs, ops, drafts, opens, edits, result, imageVars>>

\* Commit with no file operations pending: the table stays.
CommitCatalog ==
  /\ Staged = {}
  /\ BeginCommit("catalog")
  /\ places' = [NoPlaces EXCEPT !.table = hdr.table]
  /\ UNCHANGED <<todo, blobs, metas>>

\* commitWithFileOps: parseFullTable keeps every entry, but of the flags of a
\* metadata entry only that it is one.
CommitFiles ==
  /\ Staged # {}
  /\ BeginCommit("rebuilding")
  /\ blobs' = file[hdr.table].blobs
  /\ metas' = [i \in Images |-> [at |-> MetaOf(hdr.table, i).at, packed |-> FALSE]]
  /\ todo' = Staged
  /\ UNCHANGED places

\* The tree as it was when the file was opened.
OpenImage(i) ==
  /\ pc = "rebuilding" /\ i \in todo
  /\ Decodable(base, i)
  /\ pc' = "editing"
  /\ cur' = i /\ tree' = ImageAt(base, i) /\ opNo' = 1 /\ adds' = {}
  /\ UNCHANGED <<file, head, sessionVars, todo, blobs, metas, places, result>>

Pending == ops[cur][opNo]

\* applyFileOps, one operation.
ApplyOne ==
  /\ pc = "editing" /\ opNo <= Len(ops[cur])
  /\ CanEdit(tree, Pending)
  /\ tree' = Edited(tree, Pending)
  /\ opNo' = opNo + 1
  /\ adds' = IF Pending.remove \/ Pending.blob = 0 THEN adds ELSE adds \cup {Pending.blob}
  /\ UNCHANGED <<file, head, pc, sessionVars, todo, cur, blobs, metas, places, result>>

Applied == pc = "editing" /\ opNo > Len(ops[cur])

Write(r) == file' = Append(file, r)
End      == Len(file) + 1

\* A blob the table does not have yet.
AppendBlob(b) ==
  /\ Applied /\ b \in adds /\ blobs[b] = 0
  /\ Write([kind |-> "blob", blob |-> b])
  /\ blobs' = [blobs EXCEPT ![b] = End]
  /\ UNCHANGED <<head, pc, sessionVars, todo, imageVars, metas, places, result>>

\* The metadata resource, after its new blobs.
AppendMeta ==
  /\ Applied /\ \A b \in adds : blobs[b] # 0
  /\ Write([kind |-> "metadata", tree |-> tree, packed |-> FALSE])
  /\ metas' = [metas EXCEPT ![cur] = [at |-> End, packed |-> FALSE]]
  /\ todo' = todo \ {cur} /\ pc' = "rebuilding"
  /\ UNCHANGED <<head, sessionVars, imageVars, blobs, places, result>>

Rebuilt == pc = "rebuilding" /\ todo = {}

\* The table written once the first image is done.
AppendTableEarly ==
  /\ pc = "rebuilding" /\ todo # Staged
  /\ Write([kind |-> "table", blobs |-> blobs, metas |-> metas])
  /\ places' = [places EXCEPT !.table = End]
  /\ pc' = "catalog"
  /\ UNCHANGED <<head, sessionVars, todo, imageVars, blobs, metas, result>>

\* Every blob and every metadata resource of the WIM.
AppendTable ==
  /\ Rebuilt
  /\ Write([kind |-> "table", blobs |-> blobs, metas |-> metas])
  /\ places' = [places EXCEPT !.table = End]
  /\ pc' = "catalog"
  /\ UNCHANGED <<head, sessionVars, todo, imageVars, blobs, metas, result>>

\* The header's catalog pointer moved along with the catalog.
AppendCatalogLive ==
  /\ pc = "catalog"
  /\ Write([kind |-> "catalog", recs |-> recs])
  /\ places' = [places EXCEPT !.catalog = End]
  /\ head' = [head EXCEPT !.catalog = End]
  /\ pc' = "header"
  /\ UNCHANGED <<sessionVars, todo, imageVars, blobs, metas, result>>

\* The catalog, after the table or alone.
AppendCatalog ==
  /\ pc = "catalog"
  /\ Write([kind |-> "catalog", recs |-> recs])
  /\ places' = [places EXCEPT !.catalog = End]
  /\ pc' = "header"
  /\ UNCHANGED <<head, sessionVars, todo, imageVars, blobs, metas, result>>

\* The boot metadata left where it was.
OldBootHeader == [table |-> places.table, catalog |-> places.catalog, boot |-> hdr.boot]

\* A new table moves the boot image's metadata as well.
NewHeader ==
  [table   |-> places.table,
   catalog |-> places.catalog,
   boot    |-> IF Staged # {} /\ BootIndex # 0 THEN metas[BootIndex].at ELSE hdr.boot]

\* u.hdr changes before it is written.
SetHeader ==
  /\ pc = "header"
  /\ hdr' = NewHeader
  /\ UNCHANGED <<file, base, recs, ops, drafts, opens, edits, commits>>

WriteHeader ==
  /\ SetHeader
  /\ head' = hdr' /\ pc' = "syncing"
  /\ UNCHANGED <<commitVars, result>>

\* The locals of Commit go out of scope.
Leave ==
  /\ todo' = {} /\ cur' = 1 /\ tree' = NoTree /\ opNo' = 1 /\ adds' = {}
  /\ blobs' = NoBlobs /\ metas' = NoMetas /\ places' = NoPlaces

Return(r) == pc' = "idle" /\ result' = r /\ Leave

HeaderFails == SetHeader /\ Return("error") /\ UNCHANGED head

Sync ==
  /\ pc = "syncing"
  /\ \E r \in {"ok", "error"} : Return(r)
  /\ UNCHANGED <<file, head, sessionVars>>

\* A read or an append fails, leaving perhaps part of what was to be written,
\* or an operation removes what is not there.
CommitFails ==
  /\ pc \in {"rebuilding", "editing", "catalog"}
  /\ file' \in {file, Append(file, [kind |-> "slack"])}
  /\ Return("error")
  /\ UNCHANGED <<head, sessionVars>>

\* Close, or the process dies, in the middle of Commit perhaps.
Quit ==
  /\ pc # "closed"
  /\ pc' = "closed"
  /\ Fresh /\ Leave
  /\ UNCHANGED opens

Next ==
  \/ Open \/ Quit
  \/ \E i \in Images, e \in Edits : Stage(i, e)
  \/ \E is \in {{i} : i \in Images} \cup {Images}, v \in Values : SetProperty(is, v)
  \/ CommitCatalog \/ CommitFiles
  \/ \E i \in Images : OpenImage(i)
  \/ ApplyOne
  \/ \E b \in 1..NumBlobs : AppendBlob(b)
  \/ AppendMeta \/ AppendTable \/ AppendCatalog
  \/ WriteHeader \/ HeaderFails \/ Sync \/ CommitFails

Spec == Init /\ [][Next]_vars

--------------------------------------------------------------------------------
TypeOK ==
  /\ file \in Seq(Resource)
  /\ head \in Header /\ hdr \in Header /\ base \in Nat
  /\ pc \in {"closed", "idle", "rebuilding", "editing", "catalog", "header", "syncing"}
  /\ recs \in [Images -> Values]
  /\ ops \in [Images -> Seq(Edits)]
  /\ drafts \in [Images -> Seq(Trees) \ {<<>>}]
  /\ todo \subseteq Images /\ cur \in Images /\ tree \in Trees
  /\ opNo \in Nat \ {0} /\ adds \subseteq 1..NumBlobs
  /\ blobs \in [1..NumBlobs -> Nat] /\ metas \in [Images -> Entry]
  /\ places \in [table : Nat, catalog : Nat]
  /\ result \in {"none", "ok", "error"}
  /\ opens \in 0..MaxOpens /\ edits \in 0..MaxEdits /\ commits \in 0..MaxCommits

\* A table whose every entry leads to what it names.
TableComplete(t) ==
  /\ t \in DOMAIN file /\ file[t].kind = "table"
  /\ \A b \in 1..NumBlobs :
       LET k == file[t].blobs[b]
       IN  k # 0 => k \in DOMAIN file /\ file[k].kind = "blob" /\ file[k].blob = b
  /\ \A i \in Images :
       LET m == MetaOf(t, i)
       IN  /\ m.at \in DOMAIN file /\ file[m.at].kind = "metadata"
           /\ file[m.at].packed = m.packed
           /\ \A b \in Uses(file[m.at].tree) : file[t].blobs[b] # 0

HeaderComplete(h) ==
  /\ TableComplete(h.table)
  /\ h.catalog \in DOMAIN file /\ file[h.catalog].kind = "catalog"
  /\ h.boot = IF BootIndex = 0 THEN 0 ELSE MetaOf(h.table, BootIndex).at

(* At every moment, in the middle of a Commit, after one that failed at any *)
(* point and after a crash, whoever opens the file finds whole images: the  *)
(* metadata of each, a blob for every file in it, the catalog, and the boot *)
(* image's metadata where the header says it is.                            *)
Readable == HeaderComplete(head)

(* When Commit has returned nil, the file holds what was asked for: every   *)
(* staged edit of every image, applied once, and the edited catalog; also   *)
(* when an earlier Commit of the same Updater failed or succeeded before.   *)
OkMeansApplied ==
  result = "ok" =>
    /\ \A i \in Images : ImageAt(head.table, i) = Final(i)
    /\ file[head.catalog].recs = recs

\* A staged edit removes what is not there.
Broken ==
  \E i \in Images : \E n \in DOMAIN ops[i] : ~CanEdit(drafts[i][n], ops[i][n])

Store == INSTANCE ImageStore WITH
  images  <- [i \in Images |-> ImageAt(head.table, i)],
  catalog <- file[head.catalog].recs,
  draft   <- [i \in Images |-> Final(i)],
  entries <- recs,
  broken  <- Broken

(* What readers see changes in one step only, the write of the header, to   *)
(* the images with every staged edit applied, and never if an edit cannot   *)
(* be applied: Commit is atomic, repeatable, and all or nothing.            *)
IsAtomic == Store!Spec

--------------------------------------------------------------------------------
(* "Unmodified images keep their original entry" in the blob table when     *)
(* other images are rewritten (modify_files.go).                            *)
UnmodifiedKeepEntry ==
  [][\A i \in Images :
       ops[i] = <<>> => MetaOf(head.table, i)' = MetaOf(head.table, i)]_vars
================================================================================
