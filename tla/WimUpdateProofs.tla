---------------------------- MODULE WimUpdateProofs ----------------------------
(***************************************************************************)
(* For any number of images, paths, blobs, edits, commits and crashes: a   *)
(* WIM edited in place stays readable, Commit is atomic, and nil means     *)
(* that every edit was applied.  The metadata resources are assumed to be  *)
(* uncompressed, as this package writes them; with compressed ones the     *)
(* claims are false (UnmodifiedKeepEntry).                                 *)
(*                                                                         *)
(* The argument: the file only grows, so whatever a complete table refers  *)
(* to stays what it is.  The table of the header, the one in u.hdr and the *)
(* one read at open time are complete; the later ones have every blob the  *)
(* one at open time has, which is why trees rebuilt from the old metadata  *)
(* find their blobs in the new table.                                      *)
(***************************************************************************)
EXTENDS WimUpdate, SequenceTheorems, TLAPS

MetaIn(f, t, i) == f[t].metas[i]
TreeIn(f, t, i) == f[MetaIn(f, t, i).at].tree

BlobIn(f, b, k) == k \in DOMAIN f /\ f[k].kind = "blob" /\ f[k].blob = b

\* bs is where the blobs are, m the entry of a metadata resource.
EntryIn(f, bs, m) ==
  /\ m.at \in DOMAIN f /\ f[m.at].kind = "metadata"
  /\ m.packed = FALSE /\ f[m.at].packed = FALSE
  /\ \A b \in Uses(f[m.at].tree) : bs[b] # 0

TableIn(f, t) ==
  /\ t \in DOMAIN f /\ f[t].kind = "table"
  /\ \A b \in 1..NumBlobs : f[t].blobs[b] # 0 => BlobIn(f, b, f[t].blobs[b])
  /\ \A i \in Images : EntryIn(f, f[t].blobs, MetaIn(f, t, i))

CatalogIn(f, k) == k \in DOMAIN f /\ f[k].kind = "catalog"

HeaderIn(f, h) ==
  /\ TableIn(f, h.table)
  /\ CatalogIn(f, h.catalog)
  /\ h.boot = IF BootIndex = 0 THEN 0 ELSE MetaIn(f, h.table, BootIndex).at

Covers(f, t, bs) == \A b \in 1..NumBlobs : f[t].blobs[b] # 0 => bs[b] # 0

--------------------------------------------------------------------------------
\* The inductive invariant.
Tables ==
  /\ TableIn(file, base)
  /\ HeaderIn(file, head)
  /\ HeaderIn(file, hdr)
  /\ Covers(file, base, file[hdr.table].blobs)
  /\ \A i \in Images : ops[i] = <<>> => TreeIn(file, hdr.table, i) = TreeIn(file, base, i)

Drafts ==
  \A i \in Images :
    /\ Len(drafts[i]) = Len(ops[i]) + 1
    /\ drafts[i][1] = TreeIn(file, base, i)
    /\ \A n \in DOMAIN ops[i] : drafts[i][n + 1] = After(drafts[i][n], ops[i][n])

Applicable(ds, os, i) == \A n \in DOMAIN os[i] : CanEdit(ds[i][n], os[i][n])

\* What a table holds once everything staged is in it.
Holds(f, t, ds, os) ==
  \A i \in Images : TreeIn(f, t, i) = ds[i][Len(ds[i])] /\ Applicable(ds, os, i)

Building ==
  pc \in {"rebuilding", "editing"} =>
    /\ Staged # {} /\ todo \subseteq Staged
    /\ \A b \in 1..NumBlobs : blobs[b] # 0 => BlobIn(file, b, blobs[b])
    /\ Covers(file, base, blobs)
    /\ \A i \in Images : EntryIn(file, blobs, metas[i])
    /\ \A i \in Images \ todo : file[metas[i].at].tree = Final(i) /\ Applicable(drafts, ops, i)

Editing ==
  pc = "editing" =>
    /\ cur \in todo /\ opNo <= Len(ops[cur]) + 1
    /\ tree = drafts[cur][opNo]
    /\ \A n \in 1..(opNo - 1) : CanEdit(drafts[cur][n], ops[cur][n])
    /\ \A b \in Uses(tree) : blobs[b] # 0 \/ b \in adds

Tabled ==
  pc \in {"catalog", "header"} =>
    /\ TableIn(file, places.table)
    /\ Covers(file, base, file[places.table].blobs)
    /\ Holds(file, places.table, drafts, ops)
    /\ IF Staged = {} THEN places.table = hdr.table ELSE metas = file[places.table].metas

Cataloged ==
  pc = "header" => CatalogIn(file, places.catalog) /\ file[places.catalog].recs = recs

Published ==
  (pc = "syncing" \/ result = "ok") =>
    Holds(file, head.table, drafts, ops) /\ file[head.catalog].recs = recs

IInv == TypeOK /\ Tables /\ Drafts /\ Building /\ Editing /\ Tabled /\ Cataloged /\ Published

--------------------------------------------------------------------------------
\* One edit of a tree.
LEMMA AppendToOne ==
  ASSUME NEW S, NEW x \in S, NEW y \in S
  PROVE  Append(<<x>>, y) = <<x, y>>
<1>1. Append(<<x>>, y) \in Seq(S) /\ <<x, y>> \in Seq(S)
  OBVIOUS
<1>2. Len(Append(<<x>>, y)) = 2 /\ Len(<<x, y>>) = 2
  OBVIOUS
<1>3. \A i \in 1..2 : Append(<<x>>, y)[i] = <<x, y>>[i]
  OBVIOUS
<1> QED
  BY <1>1, <1>2, <1>3, SeqEqual

LEMMA WithIsKinds ==
  ASSUME NEW n \in Node, NEW k \in {"file", "dir"}
  PROVE  With(n, k) \in Kinds
<1>1. CASE Has(n, k)
  BY <1>1 DEF With, Node
<1>2. CASE ~Has(n, k)
  <2>1. Append(<<>>, k) = <<k>>
    OBVIOUS
  <2>2. \A x \in {"file", "dir"} : Append(<<x>>, k) = <<x, k>>
    BY AppendToOne
  <2>3. \A i \in DOMAIN n.kinds : n.kinds[i] # k
    BY <1>2 DEF Has
  <2>4. n.kinds \in {<<>>, <<"file">>, <<"dir">>}
    BY <2>3 DEF Node, Kinds
  <2>5. n.kinds # <<k>>
    BY <2>3
  <2> QED
    BY <1>2, <2>1, <2>2, <2>4, <2>5 DEF With, Kinds
<1> QED
  BY <1>1, <1>2

LEMMA TailIsKinds ==
  ASSUME NEW ks \in Kinds, ks # <<>>
  PROVE  Tail(ks) \in Kinds
<1>1. \A x : Tail(<<x>>) = <<>>
  OBVIOUS
<1>2. \A x, y : Tail(<<x, y>>) = <<y>>
  OBVIOUS
<1> QED
  BY <1>1, <1>2 DEF Kinds

LEMMA EditTypes ==
  ASSUME NEW e \in Edits
  PROVE  e.path \in Paths /\ e.blob \in 0..NumBlobs /\ e.remove \in BOOLEAN
<1>1. 0 \in 0..NumBlobs
  BY TreeAssumption
<1> QED
  BY <1>1 DEF Edits

LEMMA EditIsTree ==
  ASSUME NEW t \in Trees, NEW e \in Edits, CanEdit(t, e)
  PROVE  Edited(t, e) \in Trees
<1>1. CASE e.remove
  <2>1. t[e.path].kinds \in Kinds \ {<<>>} /\ e.path \in Paths
    BY <1>1, EditTypes DEF CanEdit, CanRemove, Trees, Node
  <2>2. Tail(t[e.path].kinds) \in Kinds
    BY <2>1, TailIsKinds
  <2>3. Nothing \in Node
    BY TreeAssumption DEF Nothing, Node, Kinds
  <2>4. [kinds |-> Tail(t[e.path].kinds),
         blob  |-> IF Head(t[e.path].kinds) = "file" THEN 0 ELSE t[e.path].blob] \in Node
    BY <2>1, <2>2, TreeAssumption DEF Trees, Node
  <2> QED
    BY <1>1, <2>3, <2>4 DEF Edited, RemoveFile, Trees
<1>2. CASE ~e.remove
  <2>1. e.path \in Paths /\ e.blob \in 0..NumBlobs
    BY EditTypes
  <2>2. ASSUME NEW q \in Paths
        PROVE  /\ [kinds |-> With(t[q], "dir"), blob |-> t[q].blob] \in Node
               /\ [kinds |-> With(t[q], "file"), blob |-> e.blob] \in Node
    <3>1. t[q] \in Node
      BY DEF Trees
    <3> QED
      BY <2>1, <3>1, WithIsKinds DEF Node
  <2> QED
    BY <1>2, <2>1, <2>2 DEF Edited, SetFile, Trees
<1> QED
  BY <1>1, <1>2

\* An edit brings in no blob but its own.
LEMMA EditUses ==
  ASSUME NEW t \in Trees, NEW e \in Edits, CanEdit(t, e), NEW b \in Uses(Edited(t, e))
  PROVE  b \in Uses(t) \/ (~e.remove /\ b = e.blob /\ b # 0)
<1>1. PICK p \in Paths : b = Edited(t, e)[p].blob /\ b # 0
  BY DEF Uses
<1>2. CASE e.remove
  <2>1. b = t[p].blob
    BY <1>1, <1>2 DEF Edited, RemoveFile, Nothing
  <2> QED
    BY <1>1, <2>1 DEF Uses
<1>3. CASE ~e.remove
  BY <1>1, <1>3 DEF Edited, SetFile, Uses
<1> QED
  BY <1>2, <1>3

LEMMA UsesAreBlobs ==
  ASSUME NEW t \in Trees, NEW b \in Uses(t)
  PROVE  b \in 1..NumBlobs
BY TreeAssumption DEF Uses, Trees, Node

--------------------------------------------------------------------------------
\* The file only grows, and what is complete stays complete.
Kept(f, g) == \A k \in DOMAIN f : k \in DOMAIN g /\ g[k] = f[k]

LEMMA ResourceTypes ==
  ASSUME NEW r \in Resource
  PROVE  /\ r.kind = "metadata" => r.tree \in Trees
         /\ r.kind = "table" => /\ r.blobs \in [1..NumBlobs -> Nat]
                                /\ r.metas \in [Images -> Entry]
         /\ r.kind = "catalog" => r.recs \in [Images -> Values]
BY DEF Resource

LEMMA AppendKeeps ==
  ASSUME NEW f \in Seq(Resource), NEW r \in Resource
  PROVE  /\ Append(f, r) \in Seq(Resource)
         /\ Kept(f, Append(f, r))
         /\ Len(f) + 1 \in DOMAIN Append(f, r) /\ Append(f, r)[Len(f) + 1] = r
BY DEF Kept

LEMMA KeptEntry ==
  ASSUME NEW f, NEW g, Kept(f, g), NEW bs, NEW m, EntryIn(f, bs, m)
  PROVE  EntryIn(g, bs, m) /\ g[m.at] = f[m.at]
BY DEF Kept, EntryIn

LEMMA KeptTable ==
  ASSUME NEW f, NEW g, Kept(f, g), NEW t, TableIn(f, t)
  PROVE  /\ TableIn(g, t) /\ g[t] = f[t]
         /\ \A i \in Images : MetaIn(g, t, i) = MetaIn(f, t, i) /\ TreeIn(g, t, i) = TreeIn(f, t, i)
<1>1. t \in DOMAIN g /\ g[t] = f[t] /\ g[t].kind = "table"
  BY DEF Kept, TableIn
<1>2. \A b \in 1..NumBlobs : g[t].blobs[b] # 0 => BlobIn(g, b, g[t].blobs[b])
  BY <1>1 DEF Kept, TableIn, BlobIn
<1>3. \A i \in Images : MetaIn(g, t, i) = MetaIn(f, t, i)
  BY <1>1 DEF MetaIn
<1>4. ASSUME NEW i \in Images
      PROVE  /\ EntryIn(g, g[t].blobs, MetaIn(g, t, i))
             /\ TreeIn(g, t, i) = TreeIn(f, t, i)
  <2>1. EntryIn(f, f[t].blobs, MetaIn(f, t, i))
    BY DEF TableIn
  <2> QED
    BY <2>1, <1>1, <1>3, KeptEntry DEF TreeIn
<1> QED
  BY <1>1, <1>2, <1>3, <1>4 DEF TableIn

LEMMA KeptHeader ==
  ASSUME NEW f, NEW g, Kept(f, g), NEW h, HeaderIn(f, h)
  PROVE  HeaderIn(g, h) /\ g[h.catalog] = f[h.catalog]
<1>1. TableIn(g, h.table) /\ \A i \in Images : MetaIn(g, h.table, i) = MetaIn(f, h.table, i)
  BY KeptTable DEF HeaderIn
<1>2. CatalogIn(g, h.catalog) /\ g[h.catalog] = f[h.catalog]
  BY DEF HeaderIn, CatalogIn, Kept
<1>3. BootIndex # 0 => BootIndex \in Images
  BY UpdateAssumption DEF Images
<1> QED
  BY <1>1, <1>2, <1>3 DEF HeaderIn

\* The types of what a table leads to.
LEMMA TableTypes ==
  ASSUME NEW f \in Seq(Resource), NEW t, TableIn(f, t)
  PROVE  /\ f[t].blobs \in [1..NumBlobs -> Nat] /\ f[t].metas \in [Images -> Entry]
         /\ \A i \in Images : MetaIn(f, t, i) \in Entry /\ TreeIn(f, t, i) \in Trees
<1>1. f[t] \in Resource /\ f[t].kind = "table"
  BY DEF TableIn
<1>2. f[t].blobs \in [1..NumBlobs -> Nat] /\ f[t].metas \in [Images -> Entry]
  BY <1>1, ResourceTypes
<1>3. ASSUME NEW i \in Images
      PROVE  MetaIn(f, t, i) \in Entry /\ TreeIn(f, t, i) \in Trees
  <2>1. f[MetaIn(f, t, i).at] \in Resource /\ f[MetaIn(f, t, i).at].kind = "metadata"
    BY DEF TableIn, EntryIn
  <2> QED
    BY <1>2, <2>1, ResourceTypes DEF MetaIn, TreeIn
<1> QED
  BY <1>2, <1>3

LEMMA CatalogTypes ==
  ASSUME NEW f \in Seq(Resource), NEW k, CatalogIn(f, k)
  PROVE  f[k].recs \in [Images -> Values]
<1>1. f[k] \in Resource /\ f[k].kind = "catalog"
  BY DEF CatalogIn
<1> QED
  BY <1>1, ResourceTypes

LEMMA NothingTypes ==
  /\ NoTree \in Trees /\ NoBlobs \in [1..NumBlobs -> Nat]
  /\ NoMetas \in [Images -> Entry] /\ NoPlaces \in [table : Nat, catalog : Nat]
  /\ 1 \in Images
<1>1. Nothing \in Node
  BY TreeAssumption DEF Nothing, Node, Kinds
<1>2. NoTree \in Trees
  BY <1>1 DEF NoTree, Trees
<1>3. 1 \in Images
  BY UpdateAssumption DEF Images
<1> QED
  BY <1>2, <1>3 DEF NoBlobs, NoMetas, NoPlaces, Entry

LEMMA DraftTypes ==
  ASSUME TypeOK, NEW i \in Images
  PROVE  /\ Final(i) \in Trees
         /\ \A n \in DOMAIN ops[i] : ops[i][n] \in Edits
         /\ \A n \in DOMAIN drafts[i] : drafts[i][n] \in Trees
<1>1. drafts[i] \in Seq(Trees) /\ drafts[i] # <<>> /\ ops[i] \in Seq(Edits)
  BY DEF TypeOK
<1>2. Len(drafts[i]) \in DOMAIN drafts[i]
  BY <1>1
<1> QED
  BY <1>1, <1>2 DEF Final

LEMMA AfterIsTree ==
  ASSUME NEW t \in Trees, NEW e \in Edits
  PROVE  After(t, e) \in Trees
BY EditIsTree DEF After

--------------------------------------------------------------------------------
\* Leaving Commit or the Updater.
LEMMA LeaveTypes ==
  ASSUME Leave
  PROVE  /\ todo' \subseteq Images /\ cur' \in Images /\ tree' \in Trees
         /\ opNo' \in Nat \ {0} /\ adds' \subseteq 1..NumBlobs
         /\ blobs' \in [1..NumBlobs -> Nat] /\ metas' \in [Images -> Entry]
         /\ places' \in [table : Nat, catalog : Nat]
BY NothingTypes DEF Leave

LEMMA FreshTypes ==
  ASSUME TypeOK, Tables, Fresh
  PROVE  /\ hdr' \in Header /\ base' \in Nat /\ recs' \in [Images -> Values]
         /\ ops' \in [Images -> Seq(Edits)]
         /\ drafts' \in [Images -> Seq(Trees) \ {<<>>}]
         /\ result' = "none"
<1>1. TableIn(file, head.table) /\ CatalogIn(file, head.catalog) /\ file \in Seq(Resource)
  BY DEF Tables, HeaderIn, TypeOK
<1>2. \A i \in Images : ImageAt(head.table, i) \in Trees
  BY <1>1, TableTypes DEF ImageAt, MetaOf, TreeIn, MetaIn
<1>3. recs' \in [Images -> Values]
  BY <1>1, CatalogTypes DEF Fresh
<1>4. drafts' \in [Images -> Seq(Trees) \ {<<>>}]
  BY <1>2 DEF Fresh
<1>5. ops' \in [Images -> Seq(Edits)]
  <2>1. <<>> \in Seq(Edits)
    OBVIOUS
  <2> QED
    BY <2>1 DEF Fresh
<1>6. hdr' \in Header /\ base' \in Nat /\ result' = "none"
  BY DEF Fresh, TypeOK, Header
<1> QED
  BY <1>3, <1>4, <1>5, <1>6

LEMMA TypeStep ==
  ASSUME TypeOK, Tables, Next
  PROVE  TypeOK'
<1> USE DEF vars, sessionVars, imageVars, commitVars
<1>1. CASE Open
  <2>1. opens' \in 0..MaxOpens
    BY <1>1, UpdateAssumption DEF Open, TypeOK
  <2> QED
    BY <1>1, <2>1, FreshTypes DEF Open, Fresh, TypeOK
<1>2. CASE Quit
  BY <1>2, FreshTypes, LeaveTypes DEF Quit, Fresh, TypeOK
<1>3. ASSUME NEW i \in Images, NEW e \in Edits, Stage(i, e)
      PROVE  TypeOK'
  <2>1. Final(i) \in Trees
    BY DraftTypes
  <2>2. After(Final(i), e) \in Trees
    BY <2>1, AfterIsTree
  <2>3. ops' \in [Images -> Seq(Edits)]
    BY <1>3 DEF Stage, TypeOK
  <2>4. Append(drafts[i], After(Final(i), e)) \in Seq(Trees) \ {<<>>}
    <3>1. drafts[i] \in Seq(Trees)
      BY DEF TypeOK
    <3> QED
      BY <2>2, <3>1, AppendProperties, EmptySeq
  <2>5. drafts' \in [Images -> Seq(Trees) \ {<<>>}]
    BY <1>3, <2>4 DEF Stage, TypeOK
  <2>6. edits' \in 0..MaxEdits
    BY <1>3, UpdateAssumption DEF Stage, TypeOK
  <2> QED
    BY <1>3, <2>3, <2>5, <2>6 DEF Stage, TypeOK
<1>4. ASSUME NEW is \in {{i} : i \in Images} \cup {Images}, NEW v \in Values,
             SetProperty(is, v)
      PROVE  TypeOK'
  <2>1. edits' \in 0..MaxEdits
    <3>1. edits \in 0..MaxEdits /\ edits < MaxEdits /\ edits' = edits + 1
      BY <1>4 DEF SetProperty, TypeOK
    <3>2. MaxEdits \in Nat
      BY UpdateAssumption
    <3>3. QED BY <3>1, <3>2
  <2> QED
    BY <1>4, <2>1 DEF SetProperty, TypeOK
<1>5. CASE CommitCatalog
  <2>1. commits' \in 0..MaxCommits
    <3>1. commits \in 0..MaxCommits /\ commits < MaxCommits /\ commits' = commits + 1
      BY <1>5 DEF CommitCatalog, BeginCommit, TypeOK
    <3>2. MaxCommits \in Nat
      BY UpdateAssumption
    <3>3. QED BY <3>1, <3>2
  <2>2. places' \in [table : Nat, catalog : Nat]
    BY <1>5, NothingTypes DEF CommitCatalog, TypeOK, Header
  <2> QED
    BY <1>5, <2>1, <2>2 DEF CommitCatalog, BeginCommit, TypeOK
<1>6. CASE CommitFiles
  <2>1. commits' \in 0..MaxCommits
    BY <1>6, UpdateAssumption DEF CommitFiles, BeginCommit, TypeOK
  <2>2. file \in Seq(Resource) /\ TableIn(file, hdr.table)
    BY DEF TypeOK, Tables, HeaderIn
  <2>3. blobs' \in [1..NumBlobs -> Nat]
    BY <1>6, <2>2, TableTypes DEF CommitFiles
  <2>4. metas' \in [Images -> Entry]
    BY <1>6, <2>2, TableTypes DEF CommitFiles, MetaOf, MetaIn, Entry
  <2>5. todo' \subseteq Images
    BY <1>6 DEF CommitFiles, Staged
  <2> QED
    BY <1>6, <2>1, <2>3, <2>4, <2>5 DEF CommitFiles, BeginCommit, TypeOK
<1>7. ASSUME NEW i \in Images, OpenImage(i)
      PROVE  TypeOK'
  <2>1. ImageAt(base, i) \in Trees
    BY TableTypes DEF TypeOK, Tables, ImageAt, MetaOf, TreeIn, MetaIn
  <2> QED
    BY <1>7, <2>1 DEF OpenImage, TypeOK
<1>8. CASE ApplyOne
  <2>1. opNo \in DOMAIN ops[cur] /\ cur \in Images
    BY <1>8 DEF ApplyOne, TypeOK
  <2>2. Pending \in Edits
    BY <2>1, DraftTypes DEF Pending
  <2>3. tree' \in Trees
    BY <1>8, <2>2, EditIsTree DEF ApplyOne, TypeOK
  <2>4. adds' \subseteq 1..NumBlobs
    <3>1. Pending.blob \in 0..NumBlobs
      BY <2>2, EditTypes
    <3>2. Pending.blob # 0 => Pending.blob \in 1..NumBlobs
      BY <3>1, TreeAssumption
    <3>3. adds' = adds \/ (Pending.blob # 0 /\ adds' = adds \cup {Pending.blob})
      BY <1>8 DEF ApplyOne
    <3> QED
      BY <3>2, <3>3 DEF TypeOK
  <2> QED
    BY <1>8, <2>3, <2>4 DEF ApplyOne, TypeOK
<1>9. ASSUME NEW b \in 1..NumBlobs, AppendBlob(b)
      PROVE  TypeOK'
  <2>1. [kind |-> "blob", blob |-> b] \in Resource
    BY DEF Resource
  <2>2. file' \in Seq(Resource) /\ End \in Nat
    BY <1>9, <2>1 DEF AppendBlob, Write, End, TypeOK
  <2> QED
    BY <1>9, <2>2 DEF AppendBlob, TypeOK
<1>10. CASE AppendMeta
  <2>1. [kind |-> "metadata", tree |-> tree, packed |-> FALSE] \in Resource
    BY DEF Resource, TypeOK
  <2>2. file' \in Seq(Resource) /\ End \in Nat
    BY <1>10, <2>1 DEF AppendMeta, Write, End, TypeOK
  <2> QED
    BY <1>10, <2>2 DEF AppendMeta, TypeOK, Entry
<1>11. CASE AppendTable
  <2>1. [kind |-> "table", blobs |-> blobs, metas |-> metas] \in Resource
    BY DEF Resource, TypeOK
  <2>2. file' \in Seq(Resource) /\ End \in Nat
    BY <1>11, <2>1 DEF AppendTable, Write, End, TypeOK
  <2> QED
    BY <1>11, <2>2 DEF AppendTable, TypeOK
<1>12. CASE AppendCatalog
  <2>1. [kind |-> "catalog", recs |-> recs] \in Resource
    BY DEF Resource, TypeOK
  <2>2. file' \in Seq(Resource) /\ End \in Nat
    BY <1>12, <2>1 DEF AppendCatalog, Write, End, TypeOK
  <2> QED
    BY <1>12, <2>2 DEF AppendCatalog, TypeOK
<1>13. ASSUME SetHeader
       PROVE  hdr' \in Header
  <2>1. BootIndex # 0 => metas[BootIndex].at \in Nat
    BY UpdateAssumption DEF TypeOK, Entry, Images
  <2> QED
    BY <1>13, <2>1 DEF SetHeader, NewHeader, TypeOK, Header
<1>14. CASE WriteHeader
  BY <1>13, <1>14 DEF WriteHeader, SetHeader, TypeOK
<1>15. CASE HeaderFails
  BY <1>13, <1>15, LeaveTypes DEF HeaderFails, SetHeader, Return, TypeOK
<1>16. CASE Sync
  BY <1>16, LeaveTypes DEF Sync, Return, TypeOK
<1>17. CASE CommitFails
  <2>1. [kind |-> "slack"] \in Resource
    BY DEF Resource
  <2>2. Append(file, [kind |-> "slack"]) \in Seq(Resource)
    BY <2>1, AppendProperties DEF TypeOK
  <2>3. file' \in Seq(Resource)
    BY <1>17, <2>2 DEF CommitFails, TypeOK
  <2> QED
    BY <1>17, <2>3, LeaveTypes DEF CommitFails, Return, TypeOK
<1> QED
  BY <1>1, <1>2, <1>3, <1>4, <1>5, <1>6, <1>7, <1>8, <1>9, <1>10, <1>11, <1>12,
     <1>14, <1>15, <1>16, <1>17 DEF Next

--------------------------------------------------------------------------------
\* What the parts of the invariant say once the file has grown.
LEMMA KeptTables ==
  ASSUME Tables, Kept(file, file'), UNCHANGED <<head, hdr, base, ops>>
  PROVE  Tables'
<1>1. TableIn(file, base) /\ TableIn(file, hdr.table)
  BY DEF Tables, HeaderIn
<1>2. /\ TableIn(file', base) /\ file'[base] = file[base] /\ file'[hdr.table] = file[hdr.table]
      /\ \A i \in Images : /\ TreeIn(file', base, i) = TreeIn(file, base, i)
                           /\ TreeIn(file', hdr.table, i) = TreeIn(file, hdr.table, i)
  BY <1>1, KeptTable
<1>3. HeaderIn(file', head) /\ HeaderIn(file', hdr)
  BY KeptHeader DEF Tables
<1>4. Covers(file', base, file'[hdr.table].blobs)
  BY <1>2 DEF Tables, Covers
<1> QED
  BY <1>2, <1>3, <1>4 DEF Tables

LEMMA KeptDrafts ==
  ASSUME Tables, Drafts, Kept(file, file'), UNCHANGED <<base, ops, drafts>>
  PROVE  Drafts'
<1>1. \A i \in Images : TreeIn(file', base, i) = TreeIn(file, base, i)
  BY KeptTable DEF Tables
<1> QED
  BY <1>1 DEF Drafts

LEMMA KeptHolds ==
  ASSUME NEW f, NEW g, Kept(f, g), NEW t, TableIn(f, t), NEW ds, NEW os, Holds(f, t, ds, os)
  PROVE  Holds(g, t, ds, os)
<1>1. \A i \in Images : TreeIn(g, t, i) = TreeIn(f, t, i)
  BY KeptTable
<1> QED
  BY <1>1 DEF Holds

LEMMA KeptPublished ==
  ASSUME Tables, Published, Kept(file, file'), UNCHANGED <<head, recs, ops, drafts>>,
         (pc' = "syncing" \/ result' = "ok") => (pc = "syncing" \/ result = "ok")
  PROVE  Published'
<1>1. TableIn(file, head.table) /\ file'[head.catalog] = file[head.catalog]
  BY KeptHeader DEF Tables, HeaderIn
<1>2. ASSUME pc' = "syncing" \/ result' = "ok"
      PROVE  Holds(file', head'.table, drafts', ops') /\ file'[head'.catalog].recs = recs'
  <2>1. Holds(file, head.table, drafts, ops) /\ file[head.catalog].recs = recs
    BY <1>2 DEF Published
  <2> QED
    BY <1>1, <2>1, KeptHolds
<1> QED
  BY <1>2 DEF Published

LEMMA SameIsKept == Kept(file, file)
BY DEF Kept

LEMMA EntryMono ==
  ASSUME NEW f \in Seq(Resource), NEW bs, NEW cs, NEW m, EntryIn(f, bs, m),
         \A b \in 1..NumBlobs : bs[b] # 0 => cs[b] # 0
  PROVE  EntryIn(f, cs, m)
<1>1. f[m.at] \in Resource /\ f[m.at].kind = "metadata"
  BY DEF EntryIn
<1>2. f[m.at].tree \in Trees
  BY <1>1, ResourceTypes
<1> QED
  BY <1>2, UsesAreBlobs DEF EntryIn

LEMMA UnstagedFinal ==
  ASSUME TypeOK, Tables, Drafts, NEW i \in Images, ops[i] = <<>>
  PROVE  TreeIn(file, hdr.table, i) = Final(i) /\ Applicable(drafts, ops, i)
<1>1. Len(ops[i]) = 0 /\ DOMAIN ops[i] = {}
  OBVIOUS
<1>2. Len(drafts[i]) = Len(ops[i]) + 1 /\ drafts[i][1] = TreeIn(file, base, i)
  BY DEF Drafts
<1> QED
  BY <1>1, <1>2 DEF Tables, Final, Applicable

LEMMA FreshInvariant ==
  ASSUME Tables, Fresh
  PROVE  Tables' /\ Drafts'
<1>1. HeaderIn(file, head) /\ TableIn(file, head.table)
  BY DEF Tables, HeaderIn
<1>2. \A i \in Images : ImageAt(head.table, i) = TreeIn(file, head.table, i)
  BY DEF ImageAt, MetaOf, TreeIn, MetaIn
<1>3. Tables'
  BY <1>1 DEF Fresh, Tables, Covers
<1>4. Drafts'
  BY <1>2 DEF Fresh, Drafts
<1> QED
  BY <1>3, <1>4

LEMMA StageDrafts ==
  ASSUME TypeOK, Drafts, NEW i \in Images, NEW e \in Edits, Stage(i, e)
  PROVE  Drafts'
<1>1. /\ ops[i] \in Seq(Edits) /\ drafts[i] \in Seq(Trees) /\ After(Final(i), e) \in Trees
      /\ Len(drafts[i]) = Len(ops[i]) + 1
  BY DraftTypes, AfterIsTree DEF TypeOK, Drafts
<1>2. /\ ops'[i] = Append(ops[i], e)
      /\ drafts'[i] = Append(drafts[i], After(Final(i), e))
  BY DEF Stage, TypeOK
<1>3. /\ Len(ops'[i]) = Len(ops[i]) + 1
      /\ Len(drafts'[i]) = Len(drafts[i]) + 1
      /\ DOMAIN ops'[i] = 1..(Len(ops[i]) + 1)
      /\ \A n \in 1..Len(ops[i]) : ops'[i][n] = ops[i][n]
      /\ \A n \in 1..Len(drafts[i]) : drafts'[i][n] = drafts[i][n]
      /\ ops'[i][Len(ops[i]) + 1] = e
      /\ drafts'[i][Len(drafts[i]) + 1] = After(Final(i), e)
  BY <1>1, <1>2
<1>4. drafts'[i][1] = TreeIn(file', base', i)
  BY <1>1, <1>3 DEF Drafts, Stage
<1>5. ASSUME NEW n \in DOMAIN ops'[i]
      PROVE  drafts'[i][n + 1] = After(drafts'[i][n], ops'[i][n])
  <2>1. CASE n \in 1..Len(ops[i])
    <3>1. drafts[i][n + 1] = After(drafts[i][n], ops[i][n])
      BY <1>1, <2>1 DEF Drafts
    <3>2. n \in 1..Len(drafts[i]) /\ n + 1 \in 1..Len(drafts[i])
      BY <1>1, <2>1
    <3> QED
      BY <1>3, <2>1, <3>1, <3>2
  <2>2. CASE n = Len(ops[i]) + 1
    BY <1>1, <1>3, <2>2 DEF Final
  <2> QED
    BY <1>1, <1>3, <2>1, <2>2
<1>6. \A j \in Images \ {i} : ops'[j] = ops[j] /\ drafts'[j] = drafts[j]
  BY DEF Stage, TypeOK
<1>7. file' = file /\ base' = base
  BY DEF Stage
<1>8. Len(drafts'[i]) = Len(ops'[i]) + 1
  BY <1>1, <1>3
<1>9. ASSUME NEW j \in Images, j # i
      PROVE  /\ Len(drafts'[j]) = Len(ops'[j]) + 1
             /\ drafts'[j][1] = TreeIn(file', base', j)
             /\ \A n \in DOMAIN ops'[j] : drafts'[j][n + 1] = After(drafts'[j][n], ops'[j][n])
  BY <1>6, <1>7, <1>9 DEF Drafts
<1> QED
  BY <1>4, <1>5, <1>8, <1>9 DEF Drafts

--------------------------------------------------------------------------------
\* One operation of applyFileOps.
LEMMA ApplyEditing ==
  ASSUME IInv, ApplyOne
  PROVE  Editing'
<1>1. /\ cur \in Images /\ cur \in todo /\ opNo \in Nat \ {0} /\ opNo <= Len(ops[cur])
      /\ ops[cur] \in Seq(Edits) /\ tree \in Trees
  BY DEF IInv, TypeOK, Editing, ApplyOne
<1>2. opNo \in DOMAIN ops[cur] /\ Pending \in Edits /\ CanEdit(tree, Pending)
  BY <1>1 DEF Pending, ApplyOne
<1>3. tree = drafts[cur][opNo] /\ tree' = Edited(tree, Pending)
  BY DEF IInv, Editing, ApplyOne
<1>4. drafts[cur][opNo + 1] = After(drafts[cur][opNo], ops[cur][opNo])
  BY <1>1, <1>2 DEF IInv, Drafts
<1>5. tree' = drafts[cur][opNo + 1]
  BY <1>2, <1>3, <1>4 DEF After, Pending
<1>6. \A n \in 1..opNo : CanEdit(drafts[cur][n], ops[cur][n])
  BY <1>1, <1>2, <1>3 DEF IInv, Editing, ApplyOne, Pending
<1>7. ASSUME NEW b \in Uses(tree')
      PROVE  blobs[b] # 0 \/ b \in adds'
  <2>1. b \in Uses(tree) \/ (~Pending.remove /\ b = Pending.blob /\ b # 0)
    BY <1>1, <1>2, <1>3, EditUses
  <2>2. adds \subseteq adds'
    BY DEF ApplyOne
  <2>3. b \in Uses(tree) => blobs[b] # 0 \/ b \in adds
    BY DEF IInv, Editing, ApplyOne
  <2>4. ~Pending.remove /\ b = Pending.blob /\ b # 0 => b \in adds'
    BY DEF ApplyOne
  <2> QED
    BY <2>1, <2>2, <2>3, <2>4
<1>8. /\ cur' = cur /\ todo' = todo /\ ops' = ops /\ drafts' = drafts /\ blobs' = blobs
      /\ opNo' = opNo + 1
  BY DEF ApplyOne, sessionVars
<1> QED
  BY <1>1, <1>5, <1>6, <1>7, <1>8 DEF Editing

\* The rebuilt image is the draft.
LEMMA AppliedFinal ==
  ASSUME TypeOK, Drafts, Editing, Applied
  PROVE  cur \in todo /\ tree = Final(cur) /\ Applicable(drafts, ops, cur)
<1>1. cur \in todo /\ cur \in Images /\ opNo = Len(ops[cur]) + 1 /\ ops[cur] \in Seq(Edits)
  BY DEF TypeOK, Editing, Applied
<1>2. tree = Final(cur)
  BY <1>1 DEF Drafts, Editing, Applied, Final
<1>3. Applicable(drafts, ops, cur)
  BY <1>1 DEF Editing, Applied, Applicable
<1> QED
  BY <1>1, <1>2, <1>3

\* The header that Commit makes.
LEMMA HeaderStep ==
  ASSUME TypeOK, Tables, Drafts, Tabled, Cataloged, SetHeader
  PROVE  /\ head' = head => Tables'
         /\ HeaderIn(file, hdr') /\ Covers(file, base, file[hdr'.table].blobs)
         /\ \A i \in Images : ops[i] = <<>> => TreeIn(file, hdr'.table, i) = TreeIn(file, base, i)
         /\ Holds(file, hdr'.table, drafts, ops) /\ file[hdr'.catalog].recs = recs
<1>1. hdr' = NewHeader /\ pc = "header"
  BY DEF SetHeader
<1>2. hdr'.table = places.table /\ hdr'.catalog = places.catalog
  BY <1>1 DEF NewHeader
<1>3. TableIn(file, places.table) /\ CatalogIn(file, places.catalog)
  BY <1>1 DEF Tabled, Cataloged
<1>4. hdr'.boot = IF BootIndex = 0 THEN 0 ELSE MetaIn(file, places.table, BootIndex).at
  <2>1. hdr.boot = IF BootIndex = 0 THEN 0 ELSE MetaIn(file, hdr.table, BootIndex).at
    BY DEF Tables, HeaderIn
  <2>2. IF Staged = {} THEN places.table = hdr.table ELSE metas = file[places.table].metas
    BY <1>1 DEF Tabled
  <2> QED
    BY <1>1, <2>1, <2>2 DEF NewHeader, MetaIn
<1>5. HeaderIn(file, hdr')
  BY <1>2, <1>3, <1>4 DEF HeaderIn
<1>6. Covers(file, base, file[hdr'.table].blobs) /\ Holds(file, hdr'.table, drafts, ops)
  BY <1>1, <1>2 DEF Tabled
<1>7. ASSUME NEW i \in Images, ops[i] = <<>>
      PROVE  TreeIn(file, hdr'.table, i) = TreeIn(file, base, i)
  <2>1. Len(ops[i]) = 0
    BY <1>7
  <2>2. Len(drafts[i]) = Len(ops[i]) + 1 /\ drafts[i][1] = TreeIn(file, base, i)
    BY DEF Drafts
  <2> QED
    BY <1>6, <2>1, <2>2 DEF Holds
<1>8. file[hdr'.catalog].recs = recs
  BY <1>1, <1>2 DEF Cataloged
<1>9. ASSUME head' = head
      PROVE  Tables'
  <2>1. file' = file /\ base' = base /\ ops' = ops
    BY DEF SetHeader
  <2> QED
    BY <1>5, <1>6, <1>7, <1>9, <2>1 DEF Tables
<1> QED
  BY <1>5, <1>6, <1>7, <1>8, <1>9

LEMMA InitInvariant ==
  ASSUME Packed = FALSE, Init
  PROVE  IInv
<1>1. /\ OldBlobs \in Nat /\ NumImages \in Nat \ {0} /\ OldBlobs <= NumBlobs /\ NumBlobs \in Nat
      /\ OldTable \in Nat /\ OldTable = OldBlobs + NumImages + 1
  BY UpdateAssumption, TreeAssumption DEF OldTable
<1>2. DOMAIN file = 1..(OldTable + 1) /\ \A k \in 1..(OldTable + 1) : file[k] = Original(k)
  BY DEF Init
<1>3. ASSUME NEW k \in 1..OldBlobs
      PROVE  file[k] = [kind |-> "blob", blob |-> k] /\ k \in 1..NumBlobs /\ k \in DOMAIN file
  BY <1>1, <1>2 DEF Original
<1>4. ASSUME NEW i \in Images
      PROVE  /\ OldBlobs + i \in DOMAIN file /\ OldTrees[i] \in Trees
             /\ file[OldBlobs + i] = [kind |-> "metadata", tree |-> OldTrees[i], packed |-> FALSE]
  <2>1. OldBlobs + i \in 1..(OldTable + 1) /\ ~(OldBlobs + i <= OldBlobs)
        /\ OldBlobs + i <= OldBlobs + NumImages /\ (OldBlobs + i) - OldBlobs = i
    BY <1>1 DEF Images
  <2> QED
    BY <1>2, <2>1, UpdateAssumption DEF Original
<1>5. /\ OldTable \in DOMAIN file
      /\ file[OldTable] =
           [kind  |-> "table",
            blobs |-> [b \in 1..NumBlobs |-> IF b <= OldBlobs THEN b ELSE 0],
            metas |-> [i \in Images |-> [at |-> OldBlobs + i, packed |-> FALSE]]]
  <2>1. OldTable \in 1..(OldTable + 1) /\ ~(OldTable <= OldBlobs) /\ ~(OldTable <= OldBlobs + NumImages)
    BY <1>1
  <2> QED
    BY <1>1, <1>2, <2>1 DEF Original
<1>6. /\ OldTable + 1 \in DOMAIN file
      /\ file[OldTable + 1] = [kind |-> "catalog", recs |-> OldEntries]
  <2>1. /\ OldTable + 1 \in 1..(OldTable + 1) /\ ~(OldTable + 1 <= OldBlobs)
        /\ ~(OldTable + 1 <= OldBlobs + NumImages) /\ OldTable + 1 # OldBlobs + NumImages + 1
    BY <1>1
  <2> QED
    BY <1>2, <2>1 DEF Original
<1>7. file \in Seq(Resource)
  <2>1. ASSUME NEW k \in 1..(OldTable + 1)
        PROVE  file[k] \in Resource
    <3>1. CASE k <= OldBlobs
      <4>1. k \in 1..OldBlobs
        BY <1>1, <3>1
      <4>2. file[k] = [kind |-> "blob", blob |-> k] /\ k \in 1..NumBlobs
        BY <1>3, <4>1
      <4> QED
        BY <4>2 DEF Resource
    <3>2. CASE k > OldBlobs /\ k <= OldBlobs + NumImages
      <4>1. k - OldBlobs \in Images /\ OldBlobs + (k - OldBlobs) = k
        BY <1>1, <3>2 DEF Images
      <4>2. /\ file[k] = [kind |-> "metadata", tree |-> OldTrees[k - OldBlobs], packed |-> FALSE]
            /\ OldTrees[k - OldBlobs] \in Trees
        BY <1>4, <4>1
      <4> QED
        BY <4>2 DEF Resource
    <3>3. CASE k = OldTable
      <4>1. [b \in 1..NumBlobs |-> IF b <= OldBlobs THEN b ELSE 0] \in [1..NumBlobs -> Nat]
        BY <1>1
      <4>2. [i \in Images |-> [at |-> OldBlobs + i, packed |-> FALSE]] \in [Images -> Entry]
        BY <1>1 DEF Entry, Images
      <4> QED
        BY <1>5, <3>3, <4>1, <4>2 DEF Resource
    <3>4. CASE k = OldTable + 1
      BY <1>6, <3>4, UpdateAssumption DEF Resource
    <3> QED
      BY <1>1, <3>1, <3>2, <3>3, <3>4
  <2> QED
    BY <1>1, <2>1 DEF Init
<1>8. TableIn(file, OldTable)
  <2>1. ASSUME NEW b \in 1..NumBlobs, file[OldTable].blobs[b] # 0
        PROVE  BlobIn(file, b, file[OldTable].blobs[b])
    <3>1. b <= OldBlobs /\ file[OldTable].blobs[b] = b
      BY <1>1, <1>5, <2>1
    <3>2. file[b] = [kind |-> "blob", blob |-> b] /\ b \in DOMAIN file
      <4>1. b \in 1..OldBlobs
        BY <1>1, <3>1
      <4> QED
        BY <1>3, <4>1
    <3> QED
      BY <3>1, <3>2 DEF BlobIn
  <2>2. ASSUME NEW i \in Images
        PROVE  EntryIn(file, file[OldTable].blobs, MetaIn(file, OldTable, i))
    <3>1. MetaIn(file, OldTable, i) = [at |-> OldBlobs + i, packed |-> FALSE]
      BY <1>5 DEF MetaIn
    <3>2. \A b \in Uses(OldTrees[i]) : file[OldTable].blobs[b] # 0
      BY <1>1, <1>5, UpdateAssumption
    <3>3. /\ OldBlobs + i \in DOMAIN file
          /\ file[OldBlobs + i] = [kind |-> "metadata", tree |-> OldTrees[i], packed |-> FALSE]
      BY <1>4
    <3> QED
      BY <3>1, <3>2, <3>3 DEF EntryIn
  <2> QED
    BY <1>5, <2>1, <2>2 DEF TableIn
<1>9. /\ head.table = OldTable /\ head.catalog = OldTable + 1 /\ hdr = head /\ base = OldTable
      /\ head.boot = IF BootIndex = 0 THEN 0 ELSE OldBlobs + BootIndex
  BY DEF Init
<1>10. HeaderIn(file, head)
  <2>1. BootIndex # 0 => MetaIn(file, OldTable, BootIndex).at = OldBlobs + BootIndex
    BY <1>5, UpdateAssumption DEF MetaIn, Images
  <2> QED
    BY <1>6, <1>8, <1>9, <2>1 DEF HeaderIn, CatalogIn
<1>11. Tables
  BY <1>8, <1>9, <1>10 DEF Tables, Covers
<1>12. Drafts
  <2>1. \A i \in Images : ops[i] = <<>> /\ drafts[i] = <<OldTrees[i]>>
    BY DEF Init
  <2>2. ASSUME NEW i \in Images
        PROVE  TreeIn(file, base, i) = OldTrees[i]
    <3>1. MetaIn(file, base, i) = [at |-> OldBlobs + i, packed |-> FALSE]
      <4>1. MetaIn(file, OldTable, i) = [at |-> OldBlobs + i, packed |-> FALSE]
        BY <1>5 DEF MetaIn
      <4> QED
        BY <1>9, <4>1
    <3>2. file[OldBlobs + i] = [kind |-> "metadata", tree |-> OldTrees[i], packed |-> FALSE]
      BY <1>4
    <3> QED
      BY <3>1, <3>2 DEF TreeIn
  <2>3. ASSUME NEW i \in Images
        PROVE  /\ Len(drafts[i]) = Len(ops[i]) + 1 /\ DOMAIN ops[i] = {}
               /\ drafts[i][1] = OldTrees[i]
    BY <2>1
  <2> QED
    BY <2>2, <2>3 DEF Drafts
<1>13. TypeOK
  <2>1. head \in Header
    BY <1>1, UpdateAssumption DEF Init, Header
  <2>2. ops \in [Images -> Seq(Edits)]
    <3>1. <<>> \in Seq(Edits)
      OBVIOUS
    <3> QED
      BY <3>1 DEF Init
  <2>3. drafts \in [Images -> Seq(Trees) \ {<<>>}]
    BY UpdateAssumption DEF Init
  <2> QED
    BY <1>1, <1>7, <1>9, <2>1, <2>2, <2>3, NothingTypes, UpdateAssumption DEF TypeOK, Init
<1> QED
  BY <1>11, <1>12, <1>13 DEF IInv, Init, Building, Editing, Tabled, Cataloged, Published

--------------------------------------------------------------------------------
LEMMA InvariantStep ==
  ASSUME IInv, Next
  PROVE  IInv'
<1> USE DEF sessionVars, imageVars, commitVars
<1>0. TypeOK' /\ TypeOK /\ Tables /\ Drafts /\ Kept(file, file)
  BY TypeStep, SameIsKept DEF IInv
<1>1. CASE Open
  <2>1. Tables' /\ Drafts' /\ pc' = "idle" /\ result' = "none"
    BY <1>0, <1>1, FreshInvariant DEF Open, Fresh
  <2> QED
    BY <1>0, <2>1 DEF IInv, Building, Editing, Tabled, Cataloged, Published
<1>2. CASE Quit
  <2>1. Tables' /\ Drafts' /\ pc' = "closed" /\ result' = "none"
    BY <1>0, <1>2, FreshInvariant DEF Quit, Fresh
  <2> QED
    BY <1>0, <2>1 DEF IInv, Building, Editing, Tabled, Cataloged, Published
<1>3. ASSUME NEW i \in Images, NEW e \in Edits, Stage(i, e)
      PROVE  IInv'
  <2>1. Drafts'
    BY <1>0, <1>3, StageDrafts
  <2>2. \A j \in Images : ops'[j] = <<>> => ops[j] = <<>>
    <3>1. ops[i] \in Seq(Edits)
      BY <1>0 DEF TypeOK
    <3>2. Append(ops[i], e) # <<>>
      BY <3>1, AppendProperties
    <3> QED
      BY <1>0, <1>3, <3>2 DEF Stage, TypeOK
  <2>3. Tables'
    BY <1>0, <1>3, <2>2 DEF Stage, Tables
  <2>4. pc' = "idle" /\ result' = "none"
    BY <1>3 DEF Stage
  <2> QED
    BY <1>0, <2>1, <2>3, <2>4 DEF IInv, Building, Editing, Tabled, Cataloged, Published
<1>4. ASSUME NEW is \in {{i} : i \in Images} \cup {Images}, NEW v \in Values,
             SetProperty(is, v)
      PROVE  IInv'
  <2>1. Tables' /\ Drafts'
    BY <1>0, <1>4 DEF SetProperty, Tables, Drafts
  <2>2. pc' = "idle" /\ result' = "none"
    BY <1>4 DEF SetProperty
  <2> QED
    BY <1>0, <2>1, <2>2 DEF IInv, Building, Editing, Tabled, Cataloged, Published
<1>5. CASE CommitCatalog
  <2>1. /\ UNCHANGED <<file, head, hdr, base, recs, ops, drafts, result>>
        /\ pc' = "catalog" /\ places'.table = hdr.table /\ Staged = {} /\ Staged' = {}
    BY <1>5 DEF CommitCatalog, BeginCommit, NoPlaces, Staged
  <2>2. Tables' /\ Drafts'
    BY <1>0, <2>1 DEF Tables, Drafts
  <2>3. Published'
    BY <2>1 DEF IInv, Published
  <2>4. \A i \in Images : ops[i] = <<>>
    BY <2>1 DEF Staged
  <2>5. Holds(file, hdr.table, drafts, ops)
    BY <1>0, <2>4, UnstagedFinal DEF Holds, Final
  <2>6. TableIn(file, hdr.table) /\ Covers(file, base, file[hdr.table].blobs)
    BY <1>0 DEF Tables, HeaderIn
  <2>7. Tabled'
    BY <2>1, <2>5, <2>6 DEF Tabled
  <2> QED
    BY <1>0, <2>1, <2>2, <2>3, <2>7 DEF IInv, Building, Editing, Cataloged
<1>6. CASE CommitFiles
  <2>1. /\ UNCHANGED <<file, head, hdr, base, recs, ops, drafts, result>>
        /\ pc' = "rebuilding" /\ Staged # {} /\ Staged' = Staged /\ todo' = Staged
        /\ blobs' = file[hdr.table].blobs
        /\ metas' = [i \in Images |-> [at |-> MetaIn(file, hdr.table, i).at, packed |-> FALSE]]
    BY <1>6 DEF CommitFiles, BeginCommit, Staged, MetaOf, MetaIn
  <2>2. Tables' /\ Drafts'
    BY <1>0, <2>1 DEF Tables, Drafts
  <2>3. Published'
    BY <2>1 DEF IInv, Published
  <2>4. /\ TableIn(file, hdr.table)
        /\ Covers(file, base, blobs')
    BY <1>0, <2>1 DEF Tables, HeaderIn
  <2>5. ASSUME NEW i \in Images
        PROVE  EntryIn(file, blobs', metas'[i]) /\ metas'[i].at = MetaIn(file, hdr.table, i).at
    <3>1. EntryIn(file, blobs', MetaIn(file, hdr.table, i))
      BY <2>1, <2>4 DEF TableIn
    <3> QED
      BY <2>1, <3>1 DEF EntryIn
  <2>6. ASSUME NEW i \in Images \ todo'
        PROVE  file[metas'[i].at].tree = Final(i) /\ Applicable(drafts, ops, i)
    <3>1. ops[i] = <<>>
      BY <2>1 DEF Staged
    <3> QED
      BY <1>0, <2>5, <3>1, UnstagedFinal DEF TreeIn
  <2>7. \A b \in 1..NumBlobs : blobs'[b] # 0 => BlobIn(file, b, blobs'[b])
    BY <2>1, <2>4 DEF TableIn
  <2>8. Building'
    BY <2>1, <2>4, <2>5, <2>6, <2>7 DEF Building, Final
  <2> QED
    BY <1>0, <2>1, <2>2, <2>3, <2>8 DEF IInv, Editing, Tabled, Cataloged
<1>7. ASSUME NEW i \in Images, OpenImage(i)
      PROVE  IInv'
  <2>1. /\ UNCHANGED <<file, head, hdr, base, recs, ops, drafts, todo, blobs, metas, result>>
        /\ pc = "rebuilding" /\ pc' = "editing" /\ i \in todo
        /\ cur' = i /\ tree' = TreeIn(file, base, i) /\ opNo' = 1 /\ Staged' = Staged
    BY <1>7 DEF OpenImage, ImageAt, MetaOf, TreeIn, MetaIn, Staged
  <2>2. Tables' /\ Drafts'
    BY <1>0, <2>1 DEF Tables, Drafts
  <2>3. Published'
    BY <2>1 DEF IInv, Published
  <2>4. Building'
    BY <2>1 DEF IInv, Building, Final
  <2>5. tree' = drafts[i][1] /\ opNo' <= Len(ops[i]) + 1
    BY SMTT(30), <1>0, <2>1 DEF Drafts, TypeOK
  <2>6. ASSUME NEW b \in Uses(tree')
        PROVE  blobs[b] # 0
    <3>1. b \in 1..NumBlobs
      BY <1>0, UsesAreBlobs DEF TypeOK
    <3>2. file[base].blobs[b] # 0
      BY <1>0, <2>1 DEF Tables, TableIn, EntryIn, TreeIn
    <3> QED
      BY <2>1, <3>1, <3>2 DEF IInv, Building, Covers
  <2>7. Editing'
    BY <2>1, <2>5, <2>6 DEF Editing
  <2> QED
    BY <1>0, <2>1, <2>2, <2>3, <2>4, <2>7 DEF IInv, Tabled, Cataloged
<1>8. CASE ApplyOne
  <2>1. /\ UNCHANGED <<file, head, hdr, base, recs, ops, drafts, todo, blobs, metas, result>>
        /\ pc = "editing" /\ pc' = "editing" /\ Staged' = Staged
    BY <1>8 DEF ApplyOne, Staged
  <2>2. Tables' /\ Drafts'
    BY <1>0, <2>1 DEF Tables, Drafts
  <2>3. Published' /\ Building'
    BY <2>1 DEF IInv, Published, Building, Final
  <2>4. Editing'
    BY <1>8, ApplyEditing
  <2> QED
    BY <1>0, <2>1, <2>2, <2>3, <2>4 DEF IInv, Tabled, Cataloged
<1>9. ASSUME NEW b \in 1..NumBlobs, AppendBlob(b)
      PROVE  IInv'
  <2> DEFINE r == [kind |-> "blob", blob |-> b]
  <2>1. /\ UNCHANGED <<head, hdr, base, recs, ops, drafts, todo, cur, tree, opNo, adds, metas, result>>
        /\ pc = "editing" /\ pc' = "editing" /\ Staged' = Staged
        /\ file' = Append(file, r) /\ blobs' = [blobs EXCEPT ![b] = Len(file) + 1]
    BY <1>9 DEF AppendBlob, Applied, Staged, Write, End
  <2>2. r \in Resource /\ file \in Seq(Resource) /\ blobs \in [1..NumBlobs -> Nat]
    BY <1>0 DEF Resource, TypeOK
  <2>3. /\ Kept(file, file') /\ file' \in Seq(Resource)
        /\ Len(file) + 1 \in DOMAIN file' /\ file'[Len(file) + 1] = r
    BY <2>1, <2>2, AppendKeeps
  <2>4. Tables' /\ Drafts' /\ Published'
    BY <1>0, <2>1, <2>3, KeptTables, KeptDrafts, KeptPublished DEF IInv
  <2>5. \A x \in 1..NumBlobs : blobs[x] # 0 => blobs'[x] # 0
    BY <2>1, <2>2
  <2>6. ASSUME NEW x \in 1..NumBlobs, blobs'[x] # 0
        PROVE  BlobIn(file', x, blobs'[x])
    <3>1. CASE x = b
      BY <2>1, <2>2, <2>3, <3>1 DEF BlobIn
    <3>2. CASE x # b
      <4>1. blobs'[x] = blobs[x]
        BY <2>1, <2>2, <3>2
      <4>2. BlobIn(file, x, blobs[x])
        BY <2>1, <2>6, <4>1 DEF IInv, Building
      <4> QED
        BY <2>3, <4>1, <4>2 DEF BlobIn, Kept
    <3> QED
      BY <3>1, <3>2
  <2>7. ASSUME NEW i \in Images
        PROVE  EntryIn(file', blobs', metas'[i]) /\ file'[metas'[i].at] = file[metas[i].at]
    <3>1. EntryIn(file, blobs, metas[i])
      BY <2>1 DEF IInv, Building
    <3>2. EntryIn(file', blobs, metas[i]) /\ file'[metas[i].at] = file[metas[i].at]
      BY <2>3, <3>1, KeptEntry
    <3>3. EntryIn(file', blobs', metas[i])
      BY <2>3, <2>5, <3>2, EntryMono
    <3> QED
      BY <2>1, <3>2, <3>3
  <2>8. Covers(file', base', blobs')
    <3>1. file'[base] = file[base]
      BY <1>0, <2>3, KeptTable DEF Tables
    <3>2. Covers(file, base, blobs)
      BY <2>1 DEF IInv, Building
    <3> QED
      BY <2>1, <2>5, <3>1, <3>2 DEF Covers
  <2>9. \A i \in Images \ todo' : file'[metas'[i].at].tree = drafts[i][Len(drafts[i])]
                                  /\ Applicable(drafts, ops, i)
    BY <2>1, <2>7 DEF IInv, Building, Final
  <2>10. Staged' # {} /\ todo' \subseteq Staged'
    BY <2>1 DEF IInv, Building
  <2>11. Building'
    BY <2>1, <2>6, <2>7, <2>8, <2>9, <2>10 DEF Building, Final
  <2>12. Editing'
    <3>1. \A x \in Uses(tree) : x \in 1..NumBlobs
      BY <1>0, UsesAreBlobs DEF TypeOK
    <3> QED
      BY <2>1, <2>5, <3>1 DEF IInv, Editing
  <2> QED
    BY <1>0, <2>1, <2>4, <2>11, <2>12 DEF IInv, Tabled, Cataloged
<1>10. CASE AppendMeta
  <2> DEFINE r == [kind |-> "metadata", tree |-> tree, packed |-> FALSE]
             m == [at |-> Len(file) + 1, packed |-> FALSE]
  <2>1. /\ UNCHANGED <<head, hdr, base, recs, ops, drafts, blobs, result>>
        /\ pc = "editing" /\ pc' = "rebuilding" /\ Staged' = Staged /\ Applied
        /\ file' = Append(file, r) /\ metas' = [metas EXCEPT ![cur] = m]
        /\ todo' = todo \ {cur}
        /\ \A b \in adds : blobs[b] # 0
    BY <1>10 DEF AppendMeta, Applied, Staged, Write, End
  <2>2. /\ r \in Resource /\ file \in Seq(Resource) /\ metas \in [Images -> Entry]
        /\ cur \in Images /\ tree \in Trees
    BY <1>0 DEF Resource, TypeOK
  <2>3. /\ Kept(file, file') /\ file' \in Seq(Resource)
        /\ Len(file) + 1 \in DOMAIN file' /\ file'[Len(file) + 1] = r
    BY <2>1, <2>2, AppendKeeps
  <2>4. Tables' /\ Drafts' /\ Published'
    BY <1>0, <2>1, <2>3, KeptTables, KeptDrafts, KeptPublished DEF IInv
  <2>5. cur \in todo /\ tree = Final(cur) /\ Applicable(drafts, ops, cur)
    BY <1>0, <2>1, AppliedFinal DEF IInv
  <2>6. EntryIn(file', blobs, m) /\ file'[m.at].tree = Final(cur)
    <3>1. \A b \in Uses(tree) : blobs[b] # 0
      BY <2>1 DEF IInv, Editing
    <3> QED
      BY <2>3, <2>5, <3>1 DEF EntryIn
  <2>7. ASSUME NEW i \in Images, i # cur
        PROVE  /\ metas'[i] = metas[i] /\ EntryIn(file', blobs, metas[i])
               /\ file'[metas[i].at] = file[metas[i].at]
    <3>1. EntryIn(file, blobs, metas[i])
      BY <2>1 DEF IInv, Building
    <3>2. EntryIn(file', blobs, metas[i]) /\ file'[metas[i].at] = file[metas[i].at]
      BY <2>3, <3>1, KeptEntry
    <3>3. metas'[i] = metas[i]
      BY <2>1, <2>2, <2>7
    <3> QED
      BY <3>2, <3>3
  <2>8. metas'[cur] = m
    BY <2>1, <2>2
  <2>9. \A i \in Images : EntryIn(file', blobs', metas'[i])
    BY <2>1, <2>6, <2>7, <2>8
  <2>10. \A i \in Images \ todo' : file'[metas'[i].at].tree = Final(i)
                                   /\ Applicable(drafts, ops, i)
    <3>1. \A i \in Images \ todo : file[metas[i].at].tree = Final(i) /\ Applicable(drafts, ops, i)
      BY <2>1 DEF IInv, Building
    <3>2. ASSUME NEW i \in Images \ todo', i # cur
          PROVE  file'[metas'[i].at].tree = Final(i) /\ Applicable(drafts, ops, i)
      <4>1. i \in Images \ todo
        BY <2>1, <3>2
      <4>2. metas'[i] = metas[i] /\ file'[metas[i].at] = file[metas[i].at]
        BY <2>7, <3>2
      <4> QED
        BY <3>1, <4>1, <4>2
    <3>3. file'[metas'[cur].at].tree = Final(cur) /\ Applicable(drafts, ops, cur)
      BY <2>5, <2>6, <2>8
    <3> QED
      BY <3>2, <3>3
  <2>11. Covers(file', base', blobs')
    <3>1. file'[base] = file[base]
      BY <1>0, <2>3, KeptTable DEF Tables
    <3>2. Covers(file, base, blobs)
      BY <2>1 DEF IInv, Building
    <3> QED
      BY <2>1, <3>1, <3>2 DEF Covers
  <2>12. \A b \in 1..NumBlobs : blobs[b] # 0 => BlobIn(file', b, blobs[b])
    <3>1. \A b \in 1..NumBlobs : blobs[b] # 0 => BlobIn(file, b, blobs[b])
      BY <2>1 DEF IInv, Building
    <3> QED
      BY <2>3, <3>1 DEF BlobIn, Kept
  <2>13. Building'
    <3>1. Staged # {} /\ todo \subseteq Staged
      BY <2>1 DEF IInv, Building
    <3> QED
      BY <2>1, <2>9, <2>10, <2>11, <2>12, <3>1 DEF Building, Final
  <2> QED
    BY <1>0, <2>1, <2>4, <2>13 DEF IInv, Editing, Tabled, Cataloged
<1>11. CASE AppendTable
  <2> DEFINE r == [kind |-> "table", blobs |-> blobs, metas |-> metas]
             t == Len(file) + 1
  <2>1. /\ UNCHANGED <<head, hdr, base, recs, ops, drafts, blobs, metas, result>>
        /\ pc = "rebuilding" /\ pc' = "catalog" /\ Staged' = Staged /\ todo = {}
        /\ file' = Append(file, r) /\ places'.table = t
    BY <1>0, <1>11 DEF AppendTable, Rebuilt, Staged, Write, End, TypeOK
  <2>2. r \in Resource /\ file \in Seq(Resource)
    BY <1>0 DEF Resource, TypeOK
  <2>3. /\ Kept(file, file') /\ file' \in Seq(Resource) /\ t \in DOMAIN file' /\ file'[t] = r
    BY <2>1, <2>2, AppendKeeps
  <2>4. Tables' /\ Drafts' /\ Published'
    BY <1>0, <2>1, <2>3, KeptTables, KeptDrafts, KeptPublished DEF IInv
  <2>5. /\ Staged # {}
        /\ \A b \in 1..NumBlobs : blobs[b] # 0 => BlobIn(file, b, blobs[b])
        /\ Covers(file, base, blobs)
        /\ \A i \in Images : /\ EntryIn(file, blobs, metas[i])
                             /\ file[metas[i].at].tree = Final(i) /\ Applicable(drafts, ops, i)
    BY <2>1 DEF IInv, Building
  <2>6. \A b \in 1..NumBlobs : blobs[b] # 0 => BlobIn(file', b, blobs[b])
    BY <2>3, <2>5 DEF BlobIn, Kept
  <2>7. ASSUME NEW i \in Images
        PROVE  /\ EntryIn(file', blobs, metas[i])
               /\ file'[metas[i].at].tree = Final(i) /\ Applicable(drafts, ops, i)
    <3>1. EntryIn(file, blobs, metas[i])
      BY <2>5
    <3> QED
      BY <2>3, <2>5, <3>1, KeptEntry
  <2>8. TableIn(file', t)
    BY <2>3, <2>6, <2>7 DEF TableIn, MetaIn
  <2>9. Holds(file', t, drafts, ops)
    BY <2>3, <2>7 DEF Holds, TreeIn, MetaIn, Final
  <2>10. Covers(file', base, file'[t].blobs)
    <3>1. file'[base] = file[base]
      BY <1>0, <2>3, KeptTable DEF Tables
    <3> QED
      BY <2>3, <2>5, <3>1 DEF Covers
  <2>11. Tabled'
    BY <2>1, <2>3, <2>5, <2>8, <2>9, <2>10 DEF Tabled
  <2> QED
    BY <1>0, <2>1, <2>4, <2>11 DEF IInv, Building, Editing, Cataloged
<1>12. CASE AppendCatalog
  <2> DEFINE r == [kind |-> "catalog", recs |-> recs]
             k == Len(file) + 1
  <2>1. /\ UNCHANGED <<head, hdr, base, recs, ops, drafts, blobs, metas, result>>
        /\ pc = "catalog" /\ pc' = "header" /\ Staged' = Staged
        /\ file' = Append(file, r) /\ places'.catalog = k /\ places'.table = places.table
    BY <1>0, <1>12 DEF AppendCatalog, Staged, Write, End, TypeOK
  <2>2. r \in Resource /\ file \in Seq(Resource)
    BY <1>0 DEF Resource, TypeOK
  <2>3. /\ Kept(file, file') /\ k \in DOMAIN file' /\ file'[k] = r
    BY <2>1, <2>2, AppendKeeps
  <2>4. Tables' /\ Drafts' /\ Published'
    BY <1>0, <2>1, <2>3, KeptTables, KeptDrafts, KeptPublished DEF IInv
  <2>5. /\ TableIn(file, places.table) /\ Covers(file, base, file[places.table].blobs)
        /\ Holds(file, places.table, drafts, ops)
        /\ IF Staged = {} THEN places.table = hdr.table ELSE metas = file[places.table].metas
    BY <2>1 DEF IInv, Tabled
  <2>6. /\ TableIn(file', places.table) /\ file'[places.table] = file[places.table]
        /\ file'[base] = file[base]
    BY <1>0, <2>3, <2>5, KeptTable DEF Tables
  <2>7. Holds(file', places.table, drafts, ops)
    BY <2>3, <2>5, KeptHolds
  <2>8. Covers(file', base, file'[places.table].blobs)
    BY <2>5, <2>6 DEF Covers
  <2>9. Tabled'
    BY <2>1, <2>5, <2>6, <2>7, <2>8 DEF Tabled
  <2>10. Cataloged'
    BY <2>1, <2>3 DEF Cataloged, CatalogIn
  <2> QED
    BY <1>0, <2>1, <2>4, <2>9, <2>10 DEF IInv, Building, Editing
<1>13. CASE WriteHeader
  <2>1. /\ UNCHANGED <<file, base, recs, ops, drafts>>
        /\ SetHeader /\ head' = hdr' /\ pc' = "syncing"
    BY <1>13 DEF WriteHeader, SetHeader
  <2>2. /\ HeaderIn(file, hdr') /\ Covers(file, base, file[hdr'.table].blobs)
        /\ \A i \in Images : ops[i] = <<>> => TreeIn(file, hdr'.table, i) = TreeIn(file, base, i)
        /\ Holds(file, hdr'.table, drafts, ops) /\ file[hdr'.catalog].recs = recs
    BY <2>1, HeaderStep DEF IInv
  <2>3. Tables'
    BY <1>0, <2>1, <2>2 DEF Tables
  <2>4. Drafts'
    BY <1>0, <2>1 DEF Drafts
  <2>5. Published'
    BY <2>1, <2>2 DEF Published
  <2> QED
    BY <1>0, <2>1, <2>3, <2>4, <2>5 DEF IInv, Building, Editing, Tabled, Cataloged
<1>14. CASE HeaderFails
  <2>1. /\ UNCHANGED <<file, head, base, recs, ops, drafts>>
        /\ SetHeader /\ pc' = "idle" /\ result' = "error"
    BY <1>14 DEF HeaderFails, SetHeader, Return
  <2>2. Tables'
    BY <2>1, HeaderStep DEF IInv
  <2>3. Drafts'
    BY <1>0, <2>1 DEF Drafts
  <2> QED
    BY <1>0, <2>1, <2>2, <2>3 DEF IInv, Building, Editing, Tabled, Cataloged, Published
<1>15. CASE Sync
  <2>1. /\ UNCHANGED <<file, head, hdr, base, recs, ops, drafts>>
        /\ pc = "syncing" /\ pc' = "idle"
    BY <1>15 DEF Sync, Return
  <2>2. Tables' /\ Drafts'
    BY <1>0, <2>1 DEF Tables, Drafts
  <2>3. Published'
    BY <2>1 DEF IInv, Published
  <2> QED
    BY <1>0, <2>1, <2>2, <2>3 DEF IInv, Building, Editing, Tabled, Cataloged
<1>16. CASE CommitFails
  <2>1. /\ UNCHANGED <<head, hdr, base, recs, ops, drafts>>
        /\ pc' = "idle" /\ result' = "error"
        /\ file' \in {file, Append(file, [kind |-> "slack"])}
    BY <1>16 DEF CommitFails, Return
  <2>2. Kept(file, file')
    <3>1. [kind |-> "slack"] \in Resource /\ file \in Seq(Resource)
      BY <1>0 DEF Resource, TypeOK
    <3> QED
      BY <2>1, <3>1, AppendKeeps, SameIsKept
  <2>3. Tables' /\ Drafts'
    BY <1>0, <2>1, <2>2, KeptTables, KeptDrafts
  <2> QED
    BY <1>0, <2>1, <2>3 DEF IInv, Building, Editing, Tabled, Cataloged, Published
<1> QED
  BY <1>1, <1>2, <1>3, <1>4, <1>5, <1>6, <1>7, <1>8, <1>9, <1>10, <1>11, <1>12,
     <1>13, <1>14, <1>15, <1>16 DEF Next

--------------------------------------------------------------------------------
LEMMA Stutter ==
  ASSUME IInv, UNCHANGED vars
  PROVE  IInv'
<1> USE DEF vars, sessionVars, imageVars, commitVars
<1>1. TypeOK'
  BY DEF IInv, TypeOK
<1>2. Tables' /\ Drafts'
  BY DEF IInv, Tables, Drafts
<1>3. Building' /\ Editing'
  BY DEF IInv, Building, Editing, Staged, Final
<1>4. Tabled' /\ Cataloged' /\ Published'
  BY DEF IInv, Tabled, Cataloged, Published, Staged
<1> QED
  BY <1>1, <1>2, <1>3, <1>4 DEF IInv

(* The inductive invariant holds: every table that the header, u.hdr or a   *)
(* running Commit refers to is complete and leads to the trees it should.   *)
THEOREM Invariant ==
  ASSUME Packed = FALSE
  PROVE  Spec => []IInv
<1>1. Init => IInv
  BY InitInvariant
<1>2. IInv /\ [Next]_vars => IInv'
  BY InvariantStep, Stutter
<1> QED
  BY <1>1, <1>2, PTL DEF Spec

(* Every variable of the Updater keeps its type.                            *)
THEOREM TypeCorrect ==
  ASSUME Packed = FALSE
  PROVE  Spec => []TypeOK
<1>1. IInv => TypeOK
  BY DEF IInv
<1> QED
  BY <1>1, Invariant, PTL

LEMMA ReadableFromInvariant ==
  ASSUME IInv
  PROVE  Readable
<1>1. HeaderIn(file, head)
  BY DEF IInv, Tables
<1>2. \A i \in Images : MetaOf(head.table, i) = MetaIn(file, head.table, i)
  BY DEF MetaOf, MetaIn
<1>3. TableComplete(head.table)
  <2>1. TableIn(file, head.table)
    BY <1>1 DEF HeaderIn
  <2>2. \A b \in 1..NumBlobs :
          file[head.table].blobs[b] # 0 => BlobIn(file, b, file[head.table].blobs[b])
    BY <2>1 DEF TableIn
  <2>3. \A i \in Images : EntryIn(file, file[head.table].blobs, MetaOf(head.table, i))
    BY <1>2, <2>1 DEF TableIn
  <2> QED
    BY <2>1, <2>2, <2>3 DEF TableComplete, TableIn, BlobIn, EntryIn
<1>4. BootIndex # 0 => BootIndex \in Images
  BY UpdateAssumption DEF Images
<1> QED
  BY <1>1, <1>2, <1>3, <1>4 DEF Readable, HeaderComplete, HeaderIn, CatalogIn

(* Whoever opens the file finds whole images, whatever commits, failures    *)
(* and crashes came before.                                                 *)
THEOREM AlwaysReadable ==
  ASSUME Packed = FALSE
  PROVE  Spec => []Readable
BY Invariant, ReadableFromInvariant, PTL

LEMMA ImageAtHead == \A i \in Images : ImageAt(head.table, i) = TreeIn(file, head.table, i)
BY DEF ImageAt, MetaOf, TreeIn, MetaIn

(* Nil from Commit means that the file holds every staged edit.             *)
THEOREM NilMeansApplied ==
  ASSUME Packed = FALSE
  PROVE  Spec => []OkMeansApplied
<1>1. IInv => OkMeansApplied
  BY ImageAtHead DEF IInv, Published, Holds, Final, OkMeansApplied
<1> QED
  BY <1>1, Invariant, PTL

--------------------------------------------------------------------------------
\* The abstract store has the trees and the edits of the Updater.
LEMMA StoreTrees ==
  /\ Store!Trees = Trees /\ Store!Edits = Edits
  /\ \A t, e : /\ Store!CanEdit(t, e) <=> CanEdit(t, e)
               /\ Store!Edited(t, e) = Edited(t, e)
<1>1. Store!Trees = Trees /\ Store!Edits = Edits
  BY DEF Store!Trees, Store!Node, Store!Kinds, Store!Edits, Trees, Node, Kinds, Edits
<1>2. \A t, p : Store!CanRemove(t, p) <=> CanRemove(t, p)
  BY DEF Store!CanRemove, Store!Parents, CanRemove, Parents
<1>3. \A t, p : Store!RemoveFile(t, p) = RemoveFile(t, p)
  BY DEF Store!RemoveFile, Store!Parents, Store!Nothing, RemoveFile, Parents, Nothing
<1>4. \A t, p, b : Store!SetFile(t, p, b) = SetFile(t, p, b)
  BY DEF Store!SetFile, Store!Parents, Store!With, Store!Has, SetFile, Parents, With, Has
<1> QED
  BY <1>1, <1>2, <1>3, <1>4 DEF Store!CanEdit, Store!Edited, CanEdit, Edited

\* What the abstract store is made of.
StoreImages == [i \in Images |-> ImageAt(head.table, i)]
StoreDraft  == [i \in Images |-> Final(i)]

LEMMA StoreKept ==
  ASSUME Tables, Kept(file, file'), UNCHANGED <<head, recs, ops, drafts>>
  PROVE  UNCHANGED <<StoreImages, file[head.catalog].recs, StoreDraft, recs, Broken>>
<1>1. TableIn(file, head.table) /\ file'[head.catalog] = file[head.catalog]
  BY KeptHeader DEF Tables, HeaderIn
<1>2. \A i \in Images : TreeIn(file', head.table, i) = TreeIn(file, head.table, i)
  BY <1>1, KeptTable
<1>3. StoreImages' = StoreImages
  BY <1>2 DEF StoreImages, ImageAt, MetaOf, TreeIn, MetaIn
<1>4. StoreDraft' = StoreDraft
  BY DEF StoreDraft, Final
<1>5. Broken' = Broken
  BY DEF Broken
<1> QED
  BY <1>1, <1>3, <1>4, <1>5

\* Every step that changes neither the header nor what is staged.
QuietStep ==
  \/ CommitCatalog \/ CommitFiles
  \/ \E i \in Images : OpenImage(i)
  \/ ApplyOne
  \/ \E b \in 1..NumBlobs : AppendBlob(b)
  \/ AppendMeta \/ AppendTable \/ AppendCatalog
  \/ HeaderFails \/ Sync \/ CommitFails

LEMMA QuietKeeps ==
  ASSUME TypeOK, QuietStep
  PROVE  Kept(file, file') /\ UNCHANGED <<head, recs, ops, drafts>>
<1> USE DEF sessionVars, imageVars, commitVars
<1>0. ASSUME NEW r \in Resource
      PROVE  Kept(file, Append(file, r))
  BY AppendKeeps DEF TypeOK
<1>1. CASE CommitCatalog \/ CommitFiles \/ (\E i \in Images : OpenImage(i)) \/ ApplyOne
  BY <1>1, SameIsKept DEF CommitCatalog, CommitFiles, BeginCommit, OpenImage, ApplyOne
<1>2. ASSUME NEW b \in 1..NumBlobs, AppendBlob(b)
      PROVE  Kept(file, file') /\ UNCHANGED <<head, recs, ops, drafts>>
  <2>1. [kind |-> "blob", blob |-> b] \in Resource
    BY DEF Resource
  <2> QED
    BY <1>0, <1>2, <2>1 DEF AppendBlob, Write
<1>3. CASE AppendMeta
  <2>1. [kind |-> "metadata", tree |-> tree, packed |-> FALSE] \in Resource
    BY DEF Resource, TypeOK
  <2> QED
    BY <1>0, <1>3, <2>1 DEF AppendMeta, Write
<1>4. CASE AppendTable
  <2>1. [kind |-> "table", blobs |-> blobs, metas |-> metas] \in Resource
    BY DEF Resource, TypeOK
  <2> QED
    BY <1>0, <1>4, <2>1 DEF AppendTable, Write
<1>5. CASE AppendCatalog
  <2>1. [kind |-> "catalog", recs |-> recs] \in Resource
    BY DEF Resource, TypeOK
  <2> QED
    BY <1>0, <1>5, <2>1 DEF AppendCatalog, Write
<1>6. CASE HeaderFails \/ Sync
  BY <1>6, SameIsKept DEF HeaderFails, SetHeader, Sync
<1>7. CASE CommitFails
  <2>1. [kind |-> "slack"] \in Resource
    BY DEF Resource
  <2>2. file' = file \/ file' = Append(file, [kind |-> "slack"])
    BY <1>7 DEF CommitFails
  <2>3. Kept(file, file')
    BY <1>0, <2>1, <2>2, SameIsKept
  <2> QED
    BY <1>7, <2>3 DEF CommitFails
<1> QED
  BY <1>1, <1>2, <1>3, <1>4, <1>5, <1>6, <1>7 DEF QuietStep

LEMMA StageMaps ==
  ASSUME TypeOK, Drafts, NEW i \in Images, NEW e \in Edits, Stage(i, e)
  PROVE  Store!Edit(i, e)
<1>1. /\ ops[i] \in Seq(Edits) /\ drafts[i] \in Seq(Trees) /\ After(Final(i), e) \in Trees
      /\ Len(drafts[i]) = Len(ops[i]) + 1
  BY DraftTypes, AfterIsTree DEF TypeOK, Drafts
<1>2. /\ ops'[i] = Append(ops[i], e)
      /\ drafts'[i] = Append(drafts[i], After(Final(i), e))
  BY DEF Stage, TypeOK
<1>3. /\ DOMAIN ops'[i] = 1..(Len(ops[i]) + 1)
      /\ \A n \in 1..Len(ops[i]) : ops'[i][n] = ops[i][n] /\ drafts'[i][n] = drafts[i][n]
      /\ ops'[i][Len(ops[i]) + 1] = e
      /\ drafts'[i][Len(ops[i]) + 1] = Final(i)
      /\ Final(i)' = After(Final(i), e)
  BY <1>1, <1>2 DEF Final
<1>4. \A j \in Images \ {i} : ops'[j] = ops[j] /\ drafts'[j] = drafts[j]
  BY DEF Stage, TypeOK
<1>5. Broken' <=> Broken \/ ~CanEdit(Final(i), e)
  <2>1. (\E n \in DOMAIN ops'[i] : ~CanEdit(drafts'[i][n], ops'[i][n]))
          <=> (\E n \in DOMAIN ops[i] : ~CanEdit(drafts[i][n], ops[i][n])) \/ ~CanEdit(Final(i), e)
    <3>1. DOMAIN ops[i] = 1..Len(ops[i]) /\ Len(ops[i]) \in Nat
      BY <1>1
    <3>2. \A n : n \in 1..(Len(ops[i]) + 1) <=> n \in 1..Len(ops[i]) \/ n = Len(ops[i]) + 1
      BY <3>1
    <3> QED
      BY <1>3, <3>1, <3>2
  <2> QED
    BY <1>4, <2>1 DEF Broken
<1>6. StoreDraft' = [StoreDraft EXCEPT ![i] = After(Final(i), e)]
  BY <1>3, <1>4 DEF StoreDraft, Final
<1>7. UNCHANGED <<file, head, recs>>
  BY DEF Stage
<1>8. UNCHANGED <<StoreImages, file[head.catalog].recs, recs>>
  BY <1>7 DEF StoreImages, ImageAt, MetaOf
<1>9. StoreDraft[i] = Final(i)
  BY DEF StoreDraft
<1>10. CASE CanEdit(Final(i), e)
  <2>1. StoreDraft' = [StoreDraft EXCEPT ![i] = Edited(Final(i), e)]
    BY <1>6, <1>10 DEF After
  <2>2. Broken' = Broken
    BY <1>5, <1>10 DEF Broken
  <2> QED
    BY <1>8, <1>9, <1>10, <2>1, <2>2, StoreTrees DEF Store!Edit, StoreImages, StoreDraft
<1>11. CASE ~CanEdit(Final(i), e)
  <2>1. StoreDraft' = StoreDraft
    BY <1>6, <1>11 DEF After, StoreDraft
  <2>2. Broken' = TRUE
    BY <1>5, <1>11 DEF Broken
  <2> QED
    BY <1>8, <1>9, <1>11, <2>1, <2>2, StoreTrees DEF Store!Edit, StoreImages, StoreDraft
<1> QED
  BY <1>10, <1>11

LEMMA FreshMaps ==
  ASSUME Fresh
  PROVE  Store!Begin
<1>1. UNCHANGED <<StoreImages, file[head.catalog].recs>>
  BY DEF Fresh, StoreImages, ImageAt, MetaOf
<1>2. StoreDraft' = StoreImages
  BY DEF Fresh, StoreDraft, StoreImages, Final
<1>3. recs' = file[head.catalog].recs
  BY DEF Fresh
<1>4. Broken' = FALSE
  <2>1. \A i \in Images : DOMAIN ops'[i] = {}
    BY DEF Fresh
  <2> QED
    BY <2>1 DEF Broken
<1> QED
  BY <1>1, <1>2, <1>3, <1>4 DEF Store!Begin, StoreImages, StoreDraft

LEMMA WriteHeaderMaps ==
  ASSUME IInv, WriteHeader
  PROVE  Store!Publish
<1>1. /\ UNCHANGED <<file, recs, ops, drafts>>
      /\ SetHeader /\ head' = hdr'
  BY DEF WriteHeader, SetHeader
<1>2. Holds(file, head'.table, drafts, ops) /\ file[head'.catalog].recs = recs
  BY <1>1, HeaderStep DEF IInv
<1>3. ~Broken
  BY <1>2 DEF Holds, Applicable, Broken
<1>4. StoreImages' = StoreDraft
  BY <1>1, <1>2 DEF StoreImages, StoreDraft, ImageAt, MetaOf, Holds, TreeIn, MetaIn, Final
<1>5. UNCHANGED <<StoreDraft, recs, Broken>> /\ (file[head.catalog].recs)' = recs
  BY <1>1, <1>2 DEF StoreDraft, Final, Broken
<1> QED
  BY <1>3, <1>4, <1>5 DEF Store!Publish, StoreImages, StoreDraft

LEMMA StoreStep ==
  ASSUME IInv, [Next]_vars
  PROVE  [Store!Next]_(Store!storeVars)
<1>1. CASE Open \/ Quit
  BY <1>1, FreshMaps DEF Open, Quit, Store!Next
<1>2. ASSUME NEW i \in Images, NEW e \in Edits, Stage(i, e)
      PROVE  Store!Next
  <2>1. Store!Edit(i, e) /\ e \in Store!Edits
    BY <1>2, StageMaps, StoreTrees DEF IInv
  <2> QED
    BY <2>1 DEF Store!Next
<1>3. ASSUME NEW is \in {{i} : i \in Images} \cup {Images}, NEW v \in Values,
             SetProperty(is, v)
      PROVE  Store!Next
  <2>1. UNCHANGED <<file, head, ops, drafts>>
    BY <1>3 DEF SetProperty
  <2>2. UNCHANGED <<StoreImages, file[head.catalog].recs, StoreDraft, Broken>>
    BY <2>1 DEF StoreImages, StoreDraft, ImageAt, MetaOf, Final, Broken
  <2>3. recs' \in [Images -> Values]
    BY <1>3 DEF SetProperty, IInv, TypeOK
  <2> QED
    BY <2>2, <2>3 DEF Store!SetEntries, Store!Next, StoreImages, StoreDraft
<1>4. CASE WriteHeader
  BY <1>4, WriteHeaderMaps DEF Store!Next
<1>5. CASE QuietStep
  <2>1. UNCHANGED <<StoreImages, file[head.catalog].recs, StoreDraft, recs, Broken>>
    BY <1>5, QuietKeeps, StoreKept DEF IInv
  <2> QED
    BY <2>1 DEF Store!storeVars, StoreImages, StoreDraft
<1>6. CASE UNCHANGED vars
  <2>1. UNCHANGED <<file, head, recs, ops, drafts>>
    BY <1>6 DEF vars, sessionVars
  <2>2. UNCHANGED <<StoreImages, file[head.catalog].recs, StoreDraft, recs, Broken>>
    BY <2>1 DEF StoreImages, StoreDraft, ImageAt, MetaOf, Final, Broken
  <2> QED
    BY <2>2 DEF Store!storeVars, StoreImages, StoreDraft
<1>7. Next => Open \/ Quit \/ QuietStep \/ WriteHeader
              \/ (\E i \in Images, e \in Edits : Stage(i, e))
              \/ (\E is \in {{i} : i \in Images} \cup {Images}, v \in Values : SetProperty(is, v))
  BY DEF Next, QuietStep
<1> QED
  BY <1>1, <1>2, <1>3, <1>4, <1>5, <1>6, <1>7

LEMMA StoreInit ==
  ASSUME Packed = FALSE, Init
  PROVE  Store!Init
<1>1. IInv
  BY InitInvariant
<1>2. TableIn(file, head.table) /\ CatalogIn(file, head.catalog) /\ file \in Seq(Resource)
  BY <1>1 DEF IInv, Tables, HeaderIn, TypeOK
<1>3. StoreImages \in [Images -> Trees]
  BY <1>2, ImageAtHead, TableTypes DEF StoreImages
<1>4. file[head.catalog].recs \in [Images -> Values]
  BY <1>2, CatalogTypes
<1>5. base = head.table /\ \A i \in Images : ops[i] = <<>> /\ Len(drafts[i]) = 1
  BY DEF Init
<1>6. StoreDraft = StoreImages
  BY <1>1, <1>5, ImageAtHead DEF IInv, Drafts, StoreDraft, StoreImages, Final
<1>7. recs = file[head.catalog].recs
  <2>1. /\ OldTable + 1 \in 1..(OldTable + 1) /\ ~(OldTable + 1 <= OldBlobs)
        /\ ~(OldTable + 1 <= OldBlobs + NumImages) /\ OldTable + 1 # OldBlobs + NumImages + 1
    BY UpdateAssumption, TreeAssumption DEF OldTable
  <2> QED
    BY <2>1 DEF Init, Original
<1>8. Broken = FALSE
  BY <1>5 DEF Broken
<1> QED
  BY <1>3, <1>4, <1>6, <1>7, <1>8, StoreTrees DEF Store!Init, StoreImages, StoreDraft

(* An Updater is the store: what readers see changes at the write of the    *)
(* header only, to all that was staged, and not at all if an edit cannot be *)
(* applied.                                                                 *)
THEOREM Atomic ==
  ASSUME Packed = FALSE
  PROVE  Spec => IsAtomic
<1>1. Init => Store!Init
  BY StoreInit
<1>2. IInv /\ [Next]_vars => [Store!Next]_(Store!storeVars)
  BY StoreStep
<1> QED
  BY <1>1, <1>2, Invariant, PTL DEF Spec, IsAtomic, Store!Spec
================================================================================
