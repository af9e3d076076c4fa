-------------------------------- MODULE UsbMedia -------------------------------
(***************************************************************************)
(* pkg/usb: WriteMedia plans the files of a media tree, erases the disk    *)
(* and copies them, in any order; on FAT32 a large install.wim becomes a   *)
(* set of parts, and without an EFI loader one is taken from install.wim.  *)
(* A call may be cancelled or fail after the disk was erased, and the tree *)
(* may change after it was planned.                                        *)
(***************************************************************************)
EXTENDS IsoBuilder

CONSTANTS
  FatLimit,     \* the largest file of FAT32
  SliceSize,    \* the size a part is to stay below
  ResourceStarts, \* what the resources of a WIM, which no part divides, begin with
  Parts,        \* install.swm, install2.swm, ...: as many as are bound to be enough
  Loaders,      \* the loaders planMedia looks for, as lower-case paths
  Fallback,     \* the loader written for each architecture
  LoaderData,   \* bootmgfw.efi of the editions, <<>> if they have none
  Disks,        \* [removable, size]
  UsbOptions    \* [fs, force]

\* The files a media tree may hold.
Places == Outputs \cup FilesOf(SetupTree)

\* The size of a part and the loader are no larger than a file may be; nothing
\* in the tree has the name of a part; the loader that is made up is one that
\* planMedia looks for, or (bootarm64.efi) has a name that no file of the tree has.
ASSUME UsbAssumption ==
  /\ SliceSize \in Nat \ {0} /\ FatLimit \in Nat /\ SliceSize < FatLimit
  /\ ResourceStarts \subseteq Nat
  /\ LoaderData \in Seq(Nat) /\ Len(LoaderData) <= FatLimit
  /\ Parts \in Seq(Seq(Nat)) /\ \A j, k \in DOMAIN Parts : Parts[j] = Parts[k] => j = k
  /\ \A k \in DOMAIN Parts : Parts[k] \notin Places /\ \A a \in DOMAIN Fallback : Parts[k] # Fallback[a]
  /\ InstallWim # <<>> /\ InstallWim \notin Loaders /\ <<>> \notin Loaders
  /\ \A o \in BuildOptions : /\ o.arch \in DOMAIN Fallback
                              /\ \/ LowerPath(Fallback[o.arch]) \in Loaders
                                 \/ Fallback[o.arch] \notin Places

VARIABLES
  usb,      \* "idle", "copying", "split", "done" or "failed"
  plan,     \* the plan and the file system
  pending,  \* the files still to be copied
  medium,   \* the files on the disk
  planned,  \* history: the tree that was planned
  touched   \* history: the files that have changed since

usbVars == <<usb, plan, pending, medium, planned, touched>>

SizeOf(p) == Len(media[p].data)
Over(fs, size) == fs = "fat32" /\ size > FatLimit

\* planMedia: a file over the limit is refused unless it is install.wim.
SplitWim(fs) == LET p == Indexed(media, InstallWim) IN IF p # <<>> /\ Over(fs, SizeOf(p)) THEN p ELSE <<>>
NeedsLoader == \A l \in Loaders : Indexed(media, l) = <<>>
Plan(fs) == [fs |-> fs, split |-> SplitWim(fs), fallback |-> NeedsLoader]
TotalBytes == FoldSet(LAMBDA p, n : n + SizeOf(p), 0, FilesOf(media))
\* The WIM planMedia reads the architecture from.
ArchWim == IF Indexed(media, InstallWim) # <<>> THEN Indexed(media, InstallWim) ELSE Indexed(media, BootWim)
\* A WIM whose header was never written cannot be opened.
Opens(path) == path \in DOMAIN media /\ media[path].data # <<>> /\ media[path].data[1] # 0
CanWrite(fs) ==
  /\ \A p \in FilesOf(media) \ {SplitWim(fs)} : ~Over(fs, SizeOf(p))
  /\ NeedsLoader => ArchWim # <<>> /\ Opens(ArchWim)

UsbInit ==
  /\ usb = "idle" /\ plan = Plan("exfat") /\ pending = {} /\ medium = <<>> /\ planned = Empty
  /\ touched = {}

\* A disk whose size is not known is taken to be large enough.  prepare erases
\* the disk, and may fail.
WriteMedia(disk, o) ==
  /\ pc = "idle" /\ usb = "idle" /\ builds > 0
  /\ disk.removable \/ o.force
  /\ CanWrite(o.fs)
  /\ disk.size = 0 \/ TotalBytes + TotalBytes \div 20 <= disk.size
  /\ plan' = Plan(o.fs) /\ planned' = media
  /\ pending' = FilesOf(media) \ {SplitWim(o.fs)}
  /\ medium' = <<>> /\ touched' = {}
  /\ usb' \in {"copying", "failed"}
  /\ UNCHANGED <<media, isoVars, builderVars>>

OnDisk(p, data) == medium' = Overlay(Only(p, data), medium)

CopyFile(p) ==
  /\ usb = "copying" /\ p \in pending /\ p \in DOMAIN media
  /\ OnDisk(p, media[p].data) /\ pending' = pending \ {p}
  /\ UNCHANGED <<usb, plan, planned, touched>>

\* packParts: the resources one after another, a new part when the next would
\* fill the one before.  The metadata of the images count as one byte of the
\* first part; the header every part has, with its table and catalog, for none.
PackParts(W) ==
  LET Starts(i) == i = 1 \/ W[i] \in ResourceStarts
      End(i) == Min({j \in (i + 1)..(Len(W) + 1) : j = Len(W) + 1 \/ Starts(j)})
      Size(parts) == Len(Last(parts)) + (IF Len(parts) = 1 THEN 1 ELSE 0)
      packed[i \in 0..Len(W)] ==
        IF i = 0 THEN <<<<>>>>
        ELSE LET parts == packed[i - 1]
             IN  IF Starts(i) /\ Size(parts) + End(i) - i >= SliceSize
                 THEN Append(parts, <<W[i]>>)
                 ELSE [parts EXCEPT ![Len(parts)] = Append(@, W[i])]
  IN  packed[Len(W)]

\* All but the last, as if the part begun were never appended.
FinishedParts(data) ==
  LET parts == Front(PackParts(Tail(data))) IN [k \in DOMAIN parts |-> <<data[1]>> \o parts[k]]
Split(data) ==
  LET parts == PackParts(Tail(data)) IN [k \in DOMAIN parts |-> <<data[1]>> \o parts[k]]

\* The parts are written from what install.wim is now.
SplitInstall ==
  /\ usb = "copying" /\ pending = {} /\ plan.split # <<>> /\ Opens(plan.split)
  /\ LET swm == Split(media[plan.split].data)
     IN  /\ DOMAIN swm \subseteq DOMAIN Parts
         /\ medium' = Overlay([p \in {Parts[k] : k \in DOMAIN swm} |->
                                 swm[CHOOSE k \in DOMAIN swm : Parts[k] = p]], medium)
  /\ usb' = "split"
  /\ UNCHANGED <<plan, pending, planned, touched>>

Written == usb = "split" \/ (usb = "copying" /\ pending = {} /\ plan.split = <<>>)

\* writeEFIFallback reads sources/install.wim, by this very name.
WriteFallback ==
  /\ Written /\ plan.fallback /\ Opens(InstallWim) /\ LoaderData # <<>>
  /\ OnDisk(Fallback[opts.arch], LoaderData)
  /\ usb' = "done"
  /\ UNCHANGED <<plan, pending, planned, touched>>

EndWrite == Written /\ ~plan.fallback /\ usb' = "done" /\ UNCHANGED <<plan, pending, medium, planned, touched>>

\* Cancelled between two files, or a step fails: what is written stays.
FailWrite ==
  /\ usb \in {"copying", "split"}
  /\ usb' = "failed"
  /\ \/ UNCHANGED medium
     \/ \E p \in pending \cap DOMAIN media : OnDisk(p, <<>>)
  /\ UNCHANGED <<plan, pending, planned, touched>>

UsbNext ==
  \/ (\E p \in pending : CopyFile(p)) \/ SplitInstall \/ WriteFallback \/ EndWrite \/ FailWrite
=============================================================================
