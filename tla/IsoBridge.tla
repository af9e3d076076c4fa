------------------------------- MODULE IsoBridge -------------------------------
(***************************************************************************)
(* pkg/iso/bridge.go and windows.go: BuildWindowsUDF, which puts a minimal *)
(* ISO 9660 descriptor set and the El Torito boot catalog before the UDF   *)
(* volume; and pkg/isoinspect: the inspection of the catalog and the two   *)
(* calls that rewrite it in place.                                         *)
(***************************************************************************)
EXTENDS UdfWriter, UdfReader

CONSTANTS
  LowerCase,      \* the lower-case form of each name
  BiosBoot,       \* boot/etfsboot.com, as a lower-case path
  UefiBoot,       \* efi/microsoft/boot/efisys.bin
  Arm64Loader,    \* efi/boot/bootaa64.efi
  VirtualSector,  \* bytes of El Torito's sectors
  CountLimit      \* the largest number of them an entry holds

VARIABLES
  iso,     \* "none", "indexed", "writing", "done" or "failed"
  boots,   \* the boot images found in the directory, <<>> for none
  chosen   \* history: the file the UEFI entry is to boot, <<>> for none

isoVars == <<udfVars, iso, boots, chosen>>

PvdSector == 16
BootRecSector == 17
TermSector == 18
VrsSector == 19
CatalogSector == 22
RootDirSector == 25
BIOS == 0
UEFI == 239
BiosLoadSize == 8

LowerPath(path) == [k \in DOMAIN path |-> LowerCase[path[k]]]

\* indexTree keeps the last of several files that differ in case only.
Indexed(tree, lower) ==
  LET found == {p \in FilesOf(tree) : LowerPath(p) = lower}
  IN  IF found = {} THEN <<>> ELSE CHOOSE p \in found : \A q \in found : q = p \/ Before(q, p)

\* ARM64 media leave the BIOS boot image out.
BootImages(tree) ==
  [bios |-> IF Indexed(tree, Arm64Loader) # <<>> THEN <<>> ELSE Indexed(tree, BiosBoot),
   uefi |-> Indexed(tree, UefiBoot)]

\* The validation entry is 16 words that add up to zero.
Words(platform) == 1 + 256 * platform + 43605
CheckWord(platform) == (0 - Words(platform)) % 65536
ChecksumOK(catalog) == (Words(catalog.platform) + catalog.check) % 65536 = 0

WholeSectors(len) == len \div VirtualSector
VirtualSectors(len) == (len + VirtualSector - 1) \div VirtualSector

\* putBootEntry
BootEntry(platform, sector, len) ==
  [platform |-> platform, rba |-> sector,
   count |-> IF platform = BIOS THEN BiosLoadSize ELSE VirtualSectors(len)]

\* The first entry's platform is that of the validation entry; every other
\* entry has a section header of its own.
Catalog(entries) ==
  <<"catalog", 0, [platform |-> entries[1].platform, check |-> CheckWord(entries[1].platform), entries |-> entries]>>

\* A file the writer did not list is taken to be at sector 0 and empty.
Located(platform, path) ==
  IF path \in DOMAIN ResultFiles THEN BootEntry(platform, ResultFiles[path].sector, ResultFiles[path].len)
                                 ELSE BootEntry(platform, 0, 0)
BootEntries ==
  (IF boots.bios = <<>> THEN <<>> ELSE <<Located(BIOS, boots.bios)>>)
    \o (IF boots.uefi = <<>> THEN <<>> ELSE <<Located(UEFI, boots.uefi)>>)

\* The root directory of the ISO 9660 tree is empty.
Bridge(entries, total) ==
  Overlay(From(PvdSector, <<<<"iso primary", 0, [blocks |-> total, root |-> RootDirSector]>>,
                            <<"boot record", 0, [catalog |-> CatalogSector]>>, <<"iso terminator", 0, <<>>>>>>),
          From(CatalogSector, <<Catalog(entries), <<"path table", 0, [root |-> RootDirSector]>>,
                                <<"path table", 0, [root |-> RootDirSector]>>, <<"iso directory", 0, [names |-> {}]>>>>))

--------------------------------------------------------------------------------
NoCatalog == [present |-> FALSE, errors |-> {"no boot record"}, sector |-> 0, platform |-> 0, entries |-> <<>>,
              uefi |-> <<>>, bios |-> <<>>]

\* inspectElTorito and classifyAndValidate
InspectElTorito(img) ==
  LET records == {s \in 16..32 : SectorOf(img, s)[1] = "boot record"}
      sector == SectorOf(img, Min(records))[3].catalog
      cat == SectorOf(img, sector)[3]
      Of(p) == Selected(cat.entries, {k \in DOMAIN cat.entries : cat.entries[k].platform = p})
  IN  IF records = {} THEN NoCatalog
      ELSE IF SectorOf(img, sector)[1] # "catalog" THEN [NoCatalog EXCEPT !.present = TRUE, !.errors = {"malformed"}]
      ELSE [present |-> TRUE, sector |-> sector, platform |-> cat.platform, entries |-> cat.entries,
            uefi |-> SubSeq(Of(UEFI), 1, Min({1, Len(Of(UEFI))})), bios |-> SubSeq(Of(BIOS), 1, Min({1, Len(Of(BIOS))})),
            errors |-> (IF ChecksumOK(cat) THEN {} ELSE {"checksum"}) \cup (IF Of(UEFI) = <<>> THEN {"no UEFI"} ELSE {})]

\* ExtractElToritoEFIImage
ExtractedEFI(img) ==
  LET e == InspectElTorito(img).uefi[1] IN ReadAt(img, "file", e.rba, e.count * VirtualSector)

\* findUDFFile: the first file whose path is this one, in any case.
FindUDFFile(img, path) ==
  LET files == InspectUDF(img).files
  IN  Selected(files, {k \in DOMAIN files : LowerPath(files[k].path) = LowerPath(path)})

--------------------------------------------------------------------------------
IsoInit == UdfInit /\ iso = "none" /\ boots = [bios |-> <<>>, uefi |-> <<>>] /\ chosen = <<>>

\* The boot images are looked for in a walk of their own, before WriteTree's.
IndexISO ==
  /\ boots' = BootImages(media)
  /\ boots'.bios # <<>> \/ boots'.uefi # <<>>
  /\ iso' = "indexed" /\ chosen' = <<>>
  /\ UNCHANGED udfVars

BeginISO ==
  /\ iso = "indexed" /\ BeginTree(VrsSector)
  /\ iso' = "writing" /\ UNCHANGED <<boots, chosen>>

WriteISONode == iso = "writing" /\ WriteNode /\ UNCHANGED <<iso, boots, chosen>>

\* The walked file is gone, or an entry's count does not fit: the image is
\* left as it is.
FailISO ==
  /\ iso = "writing"
  /\ IF todo = <<>> THEN (\E k \in DOMAIN BootEntries : BootEntries[k].count > CountLimit) /\ image' = EndTree
                    ELSE NodeGone /\ UNCHANGED image
  /\ iso' = "failed"
  /\ UNCHANGED <<nodes, todo, walked, streamed, boots, chosen>>

EndISO ==
  /\ iso = "writing" /\ todo = <<>>
  /\ \A k \in DOMAIN BootEntries : BootEntries[k].count <= CountLimit
  /\ image' = Overlay(Bridge(BootEntries, TotalSectors + 1), EndTree)
  /\ iso' = "done" /\ chosen' = boots.uefi
  /\ UNCHANGED <<nodes, todo, walked, streamed, boots>>

Rewrite(entry) ==
  /\ image' = [image EXCEPT ![InspectElTorito(image).sector] = Catalog(<<entry>>)]
  /\ UNCHANGED <<nodes, todo, walked, streamed, iso, boots>>

\* A call on a catalog that is already so changes nothing.
SetElToritoUEFIOnly ==
  LET et == InspectElTorito(image) IN
  /\ iso = "done" /\ et.present /\ et.uefi # <<>>
  /\ et.platform # UEFI \/ et.bios # <<>> \/ et.entries[1].platform # UEFI
  /\ Rewrite([platform |-> UEFI, rba |-> et.uefi[1].rba, count |-> et.uefi[1].count])
  /\ UNCHANGED chosen

RetargetElToritoUEFI(path) ==
  LET found == FindUDFFile(image, path)
      vol == Volume(image)
  IN  /\ iso = "done" /\ InspectElTorito(image).present
      /\ found # <<>> /\ found[1].extents = 1
      /\ VirtualSectors(found[1].size) <= CountLimit
      /\ Rewrite(BootEntry(UEFI, vol.part + found[1].first, found[1].size))
      /\ chosen' = found[1].path
=============================================================================
