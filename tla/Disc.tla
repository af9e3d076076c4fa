---------------------------------- MODULE Disc ---------------------------------
(***************************************************************************)
(* Installation media from end to end: builds of an ISO in a work          *)
(* directory, calls that rewrite its boot catalog, and a USB disk written  *)
(* from the same media tree, which someone else may change meanwhile.      *)
(***************************************************************************)
EXTENDS UsbMedia

CONSTANTS
  Changes,     \* what somebody may do to the tree: [path, data]
  Removals,    \* the files somebody may delete
  Targets,     \* the paths RetargetElToritoUEFI is called with
  MaxChanges,  \* bound of the changes
  MaxRewrites  \* bound of the rewritten catalogs

ASSUME ChangesAssumption ==
  /\ \A c \in Changes : c.path \in Places /\ c.data \in Seq(Nat)
  /\ Removals \subseteq Places

VARIABLES changes, rewrites

vars == <<media, isoVars, builderVars, usbVars, changes, rewrites>>

Init == BuilderInit /\ UsbInit /\ changes = 0 /\ rewrites = 0

Touch(path) == touched' = IF usb = "idle" THEN touched ELSE touched \cup {path}

Change ==
  /\ changes < MaxChanges
  /\ pc = "mastering" \/ usb \in {"copying", "split"}
  /\ \/ \E c \in Changes : c.path \in DOMAIN media /\ media' = [media EXCEPT ![c.path] = File(c.data)] /\ Touch(c.path)
     \/ \E p \in Removals \cap DOMAIN media : media' = [q \in DOMAIN media \ {p} |-> media[q]] /\ Touch(p)
  /\ changes' = changes + 1
  /\ UNCHANGED <<isoVars, builderVars, usb, plan, pending, medium, planned, rewrites>>

RewriteCatalog ==
  /\ pc = "idle" /\ usb = "idle" /\ rewrites < MaxRewrites
  /\ SetElToritoUEFIOnly \/ \E p \in Targets : RetargetElToritoUEFI(p)
  /\ rewrites' = rewrites + 1
  /\ UNCHANGED <<media, builderVars, usbVars, changes>>

Mastered == iso = "done" /\ pc = "idle" /\ usb = "idle"

\* Bounds: once its catalog is rewritten an image is the last thing made, and a
\* disk is written after an image, when nobody has changed the tree yet.
Next ==
  \/ usb = "idle" /\ rewrites = 0 /\ BuilderNext /\ UNCHANGED <<usbVars, changes, rewrites>>
  \/ RewriteCatalog
  \/ Mastered /\ rewrites = 0 /\ changes = 0 /\ (\E d \in Disks, o \in UsbOptions : WriteMedia(d, o)) /\ UNCHANGED <<changes, rewrites>>
  \/ UsbNext /\ UNCHANGED <<media, isoVars, builderVars, changes, rewrites>>
  \/ Change

Spec == Init /\ [][Next]_vars

--------------------------------------------------------------------------------
\* A finished image read with the strict reader, from the root down, holds the
\* tree that was walked: every path leads to what it was, every directory lists
\* its entries and no other, every file has its size, and the bytes of every
\* file that was no shorter when it was copied than when it was walked, whatever
\* the other files had become (pkg/udf/writer.go WriteTree; a file that has
\* grown runs into the blocks of the nodes after it).
ImageReadsBack ==
  Mastered =>
    LET vol == Volume(image) IN
    /\ vol.ok
    /\ \A p \in DOMAIN walked :
         LET e == Resolve(image, vol, p)
             d == ReadDirEntries(image, vol, e.fe)
             size == Len(walked[p].data)
         IN  /\ e.ok /\ e.dir = walked[p].dir
             /\ e.dir => /\ d.ok /\ Len(d.entries) = Cardinality(Children(walked, p))
                         /\ {Append(p, f.name) : f \in Range(d.entries)} = Children(walked, p)
             /\ ~e.dir => SectorOf(image, vol.part + e.fe)[3].len = size
             /\ p \in DOMAIN streamed /\ Len(streamed[p]) >= size
                  => ReadFileData(image, vol, e.fe) = SubSeq(streamed[p], 1, size)

\* Windows rejects a volume whose directories do not refer back to their
\* parents: the first descriptor of each is its parent's, and each File Entry
\* counts the descriptors that name it (pkg/udf/writer.go writeDirEntry,
\* descriptors.go fileEntry).
LinksClosed ==
  Mastered =>
    LET dirs == {n \in Range(nodes) : n.dir}
        Stream(n) == ParseFids(EntryData(image, LbnPartition, "fids", SectorOf(image, LbnPartition + n.fe)[3])).fids
        named == UNION {LET fids == Stream(d) IN {<<d.fe, k, fids[k].fe>> : k \in DOMAIN fids} : d \in dirs}
    IN  /\ \A n \in dirs :
             LET fids == Stream(n) IN
             /\ fids[1].parent
             /\ fids[1].fe = NodeAt(IF n.path = <<>> THEN <<>> ELSE Parent(n.path)).fe
             /\ \A k \in DOMAIN fids : fids[k].loc >= n.lb /\ fids[k].loc < n.lb + Blocks(n.len)
        /\ \A n \in Range(nodes) :
             SectorOf(image, LbnPartition + n.fe)[3].links = Cardinality({x \in named : x[3] = n.fe})

\* The inspector finds no fault with a finished image, and the files, sizes
\* and places it reports are those the writer returned and the boot catalog
\* was made from (pkg/isoinspect/udf.go, pkg/udf/writer.go Result).
InspectorAgrees ==
  Mastered =>
    LET r == InspectUDF(image) IN
    /\ r.errors = {}
    /\ r.dirs = SectorOf(image, LbnIntegrity)[3].dirs
    /\ Len(r.files) = SectorOf(image, LbnIntegrity)[3].files
    /\ {[path |-> f.path, sector |-> LbnPartition + f.first, len |-> f.size] : f \in {g \in Range(r.files) : g.size > 0}} =
       {[path |-> p, sector |-> ResultFiles[p].sector, len |-> ResultFiles[p].len] : p \in DOMAIN ResultFiles}

\* However often the catalog was rewritten it is in order, and its UEFI entry
\* loads the file it was last made for, from its first byte to its last; after
\* a rewrite there is no other entry (pkg/iso/bridge.go bootCatalog,
\* pkg/isoinspect manipulate.go and retarget.go).  A boot image that is gone, or
\* empty, when WriteTree walks is excepted: BuildWindowsUDF had found it, takes
\* it to be at sector 0 and reports nothing.
BootsChosen ==
  Mastered /\ chosen \in FilesOf(walked) /\ Len(walked[chosen].data) > 0 =>
    LET et == InspectElTorito(image)
        vol == Volume(image)
        file == ReadFileData(image, vol, NodeAt(chosen).fe)
    IN  /\ et.errors = {}
        /\ et.bios # <<>> => et.platform = BIOS /\ rewrites = 0
        /\ et.uefi[1].rba = LbnPartition + NodeAt(chosen).lb
        /\ Len(ExtractedEFI(image)) >= Len(file) /\ SubSeq(ExtractedEFI(image), 1, Len(file)) = file
        /\ Len(ExtractedEFI(image)) < NodeAt(chosen).len + VirtualSector

\* Whatever builds that failed or that had other options left in the work
\* directory, every file this build is to write holds what it is to hold when
\* the tree is mastered.  Nothing is cleaned away: any other file is one the
\* directory held before the build, unchanged, and in a directory of the build's
\* own there is none.  An autounattend.xml given under that key is never replaced
\* by the generated one (pkg/builder/builder.go BuildISOFromWIM, Win11Bypass).
\* Of two keys that are cleaned to one path either file may be the one on disk:
\* injectExtraFiles ranges over a map.
Given(p) == {k \in DOMAIN extras : KeyPath[k] = p}
Wanted(p) ==
  IF Given(p) # {} THEN {extras[k] : k \in Given(p)}
  ELSE IF p \in FilesOf(SetupTree) THEN {SetupTree[p].data}
  ELSE IF p = BootWim THEN {Wim(BootImagesOf, Len(BootImagesOf), FALSE)}
  ELSE IF p = InstallWim /\ Editions # <<>> THEN {Wim(Editions, 0, opts.server)}
  ELSE {}

BuiltFromOptions ==
  pc = "extras" /\ inject = {} =>
    /\ \A p \in FilesOf(SetupTree) \cup Outputs :
          Wanted(p) # {} => p \in FilesOf(media) /\ media[p].data \in Wanted(p)
    /\ \A p \in FilesOf(media) :
          Wanted(p) = {} => ~opts.fresh /\ p \in DOMAIN leftover /\ media[p] = leftover[p]
    /\ AutoKey \in opts.extras => media[KeyPath[AutoKey]].data # AnswerData

\* A disk that was written without an error holds every file of the tree that
\* was planned, with its bytes unless the file has changed since; install.wim is
\* there in one piece or in parts that add up to it; and there is a loader that
\* planMedia looks for, or the one it had made up: on ARM64 that is
\* bootarm64.efi, which is none of those it looks for.  A file over the limit
\* of the file system is one that has changed, or a part that holds a single
\* resource: Split does not divide it, although "a part never crosses" the
\* limit (pkg/usb/media.go planMedia and execute, usb.go swmSliceSize,
\* pkg/wim/split.go packParts).
PartOf(p) == \E k \in DOMAIN Parts : Parts[k] = p
SingleResource(part) == \A j \in 3..Len(part) : part[j] \notin ResourceStarts

MediumComplete ==
  usb = "done" =>
    /\ \A p \in FilesOf(planned) \ {plan.split} :
          p \in DOMAIN medium /\ (p \notin touched => medium[p] = planned[p].data)
    /\ plan.split \notin touched \cup {<<>>} =>
         \E n \in DOMAIN Parts :
            /\ {k \in DOMAIN Parts : Parts[k] \in DOMAIN medium} = 1..n
            /\ FlattenSeq([k \in 1..n |-> Tail(medium[Parts[k]])]) = Tail(planned[plan.split].data)
    /\ \A p \in DOMAIN medium :
          Over(plan.fs, Len(medium[p])) => p \in touched \/ (PartOf(p) /\ SingleResource(medium[p]))
    /\ IF plan.fallback THEN Fallback[opts.arch] \in DOMAIN medium
       ELSE \E p \in DOMAIN medium : LowerPath(p) \in Loaders
=============================================================================
