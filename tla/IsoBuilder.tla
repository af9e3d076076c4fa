------------------------------- MODULE IsoBuilder ------------------------------
(***************************************************************************)
(* pkg/builder: BuildISOFromWIM, which fills a media tree in a work        *)
(* directory from the images of an ESD and the caller's files, and masters *)
(* it.  A build may fail or be killed at any step; the work directory, if  *)
(* the caller gave one, keeps what was there and the next build uses it    *)
(* again, maybe with other options.                                        *)
(***************************************************************************)
EXTENDS IsoBridge

CONSTANTS
  Esd,          \* the images of the ESD: [role, data], in the order of its catalog
  SetupTree,    \* what the "Windows Setup Media" image holds
  Sources,      \* the directory sources
  BootWim,      \* sources/boot.wim
  InstallWim,   \* sources/install.wim
  KeyPath,      \* where each key of ExtraFiles is put: the path it is cleaned to
  AutoKey,      \* the key "autounattend.xml"
  ExtraData,    \* what the caller gives under each key
  AnswerData,   \* the generated autounattend.xml
  BuildOptions, \* the options of builds: [extras, answer, server, fresh, arch]
  MaxBuilds,    \* bound of the builds
  MaxFaults     \* bound of the steps that fail

ASSUME BuilderAssumption ==
  /\ IsFiniteSet(DOMAIN SetupTree)
  /\ \A p \in DOMAIN SetupTree : p \in Seq(Nat) /\ SetupTree[p] \in Node
  /\ Esd \in Seq([role : STRING, data : Seq(Nat)])
  /\ {Sources, BootWim, InstallWim} \subseteq Seq(Nat)
  /\ KeyPath \in [DOMAIN KeyPath -> Seq(Nat)] /\ ExtraData \in [DOMAIN KeyPath -> Seq(Nat)]
  /\ AutoKey \in DOMAIN KeyPath /\ AnswerData \in Seq(Nat)
  /\ BuildOptions \subseteq [extras : SUBSET DOMAIN KeyPath, answer : BOOLEAN, server : BOOLEAN,
                            fresh : BOOLEAN, arch : STRING]

\* The files a build writes, besides those of the setup tree.
Outputs == {BootWim, InstallWim} \cup {KeyPath[k] : k \in DOMAIN KeyPath}

\* The WIMs are two files that the setup tree does not have; no file of the
\* tree is, by another's path, a directory; and the caller's own answer file
\* is not the generated one.
ASSUME LayoutAssumption ==
  /\ BootWim # InstallWim /\ DOMAIN SetupTree \cap {BootWim, InstallWim} = {}
  /\ \A q \in Outputs : Ancestors(q) \cap (Outputs \cup FilesOf(SetupTree)) = {}
  /\ \A k \in DOMAIN ExtraData : ExtraData[k] # AnswerData

\* The setup tree is a tree, with the directory that sources is put in; no file
\* of a build is one of its directories; and all names are known.
ASSUME TreeAssumption ==
  /\ <<>> \in DOMAIN SetupTree /\ SetupTree[<<>>].dir
  /\ \A p \in DOMAIN SetupTree \ {<<>>} : Parent(p) \in DOMAIN SetupTree /\ SetupTree[Parent(p)].dir
  /\ Len(Sources) = 1 /\ Sources \in Ancestors(BootWim)
  /\ \A q \in Outputs \cap DOMAIN SetupTree : ~SetupTree[q].dir
  /\ DOMAIN SetupTree \cup Outputs \subseteq Seq(DOMAIN NameRunes)

VARIABLES
  pc,      \* the step the build is at, or "idle"
  opts,    \* its options
  inject,  \* the keys of the extra files still to be written
  extras,  \* the extra files: a function of keys
  leftover, \* history: what the work directory held when the build began
  builds, faults

builderVars == <<pc, opts, inject, extras, leftover, builds, faults>>

Empty == Only(<<>>, Dir)

\* classify: a role for each image.
ImagesOf(roles) ==
  LET found == {k \in DOMAIN Esd : Esd[k].role \in roles}
  IN  [i \in 1..Cardinality(found) |-> CHOOSE k \in found : Cardinality({j \in found : j <= k}) = i]
BootImagesOf == ImagesOf({"windows pe", "windows setup"})
Editions == ImagesOf({"edition"})

\* A WIM is a header, with the boot index and INSTALLATIONTYPE, and images.
Header(bootIndex, server) == 100 + 10 * bootIndex + (IF server THEN 1 ELSE 0)
Wim(images, bootIndex, server) ==
  <<Header(bootIndex, server)>> \o FlattenSeq([k \in DOMAIN images |-> Esd[images[k]].data])

\* What a write that fails leaves: nothing, or all but the header.
Torn(data) == {<<>>, [data EXCEPT ![1] = 0]}

Above(paths) == [d \in UNION {Ancestors(p) : p \in paths} |-> Dir]
Write(path, data) == Overlay(Overlay(Only(path, File(data)), Above({path})), media)

Override(base, key, content) == Overlay(Only(key, content), base)
\* mergeExtras: the caller's file of the same key wins.
MergeExtras(base, key, content) == Overlay(base, Only(key, content))

BuilderInit ==
  /\ IsoInit /\ media = Empty
  /\ pc = "idle" /\ inject = {} /\ extras = <<>> /\ leftover = Empty /\ builds = 0 /\ faults = 0
  /\ opts \in BuildOptions

StartBuild(o) ==
  /\ pc = "idle" /\ builds < MaxBuilds
  /\ ImagesOf({"setup media"}) # <<>> /\ BootImagesOf # <<>>
  /\ builds' = builds + 1 /\ opts' = o /\ pc' = "extract"
  /\ media' = IF o.fresh THEN Empty ELSE media
  /\ leftover' = media'
  /\ UNCHANGED <<isoVars, inject, extras, faults>>

Goto(step) == pc' = step /\ UNCHANGED <<opts, leftover, builds, faults, isoVars>>

ExtractSetup ==
  /\ pc = "extract"
  /\ media' = Overlay(Overlay(SetupTree, Only(Sources, Dir)), media)
  /\ Goto("boot") /\ UNCHANGED <<inject, extras>>

\* buildWIM of boot.wim: the last of its images is the one to boot.
BuildBootWim ==
  /\ pc = "boot"
  /\ media' = Write(BootWim, Wim(BootImagesOf, Len(BootImagesOf), FALSE))
  /\ Goto("install") /\ UNCHANGED <<inject, extras>>

BuildInstallWim ==
  /\ pc = "install"
  /\ media' = IF Editions = <<>> THEN media ELSE Write(InstallWim, Wim(Editions, 0, FALSE))
  /\ Goto("bypass") /\ UNCHANGED <<inject, extras>>

\* applyServerInstallationType, and the files to inject.
ApplyBypass ==
  /\ pc = "bypass"
  /\ media' = IF opts.server /\ Editions # <<>> THEN Write(InstallWim, Wim(Editions, 0, TRUE)) ELSE media
  /\ extras' = LET given == [k \in opts.extras |-> ExtraData[k]]
               IN  IF opts.answer THEN MergeExtras(given, AutoKey, AnswerData) ELSE given
  /\ inject' = DOMAIN extras'
  /\ Goto("extras")

\* injectExtraFiles ranges over a map: in any order.
InjectExtra ==
  /\ pc = "extras"
  /\ \E k \in inject : media' = Write(KeyPath[k], extras[k]) /\ inject' = inject \ {k}
  /\ Goto("extras") /\ UNCHANGED extras

Master ==
  /\ pc = "extras" /\ inject = {}
  /\ IndexISO
  /\ pc' = "mastering" /\ leftover' = Empty
  /\ UNCHANGED <<media, opts, inject, extras, builds, faults>>

\* A directory of the builder's own is removed when it returns.
Return == pc' = "idle" /\ media' = (IF opts.fresh THEN Empty ELSE media)

MasterTree == BeginISO /\ UNCHANGED <<media, builderVars>>
MasterNode == WriteISONode /\ UNCHANGED <<media, builderVars>>
MasterEnds == (EndISO \/ FailISO) /\ Return /\ UNCHANGED <<opts, inject, extras, leftover, builds, faults>>

\* What a step that fails, or a crash during it, leaves in the media tree.
Halfway ==
  CASE pc = "extract" -> {<<>>} \cup
                         {[q \in {p \in DOMAIN SetupTree : p \in Ancestors(f) \/ p = f} |->
                             IF q = f THEN File(<<>>) ELSE Dir] : f \in {p \in DOMAIN SetupTree : ~SetupTree[p].dir}}
    [] pc = "boot" -> {Only(BootWim, File(d)) : d \in Torn(Wim(BootImagesOf, Len(BootImagesOf), FALSE))}
    [] pc = "install" -> {Only(InstallWim, File(d)) : d \in Torn(Wim(Editions, 0, FALSE))}
    [] pc = "bypass" -> {Only(InstallWim, File(Wim(Editions, 0, FALSE)))}
    [] pc = "extras" -> {Only(KeyPath[k], File(<<>>)) : k \in inject}
    [] OTHER -> {}

FailBuild ==
  /\ pc \notin {"idle", "mastering"} /\ faults < MaxFaults
  /\ faults' = faults + 1 /\ pc' = "idle" /\ leftover' = Empty
  /\ \E left \in Halfway :
        media' = IF opts.fresh THEN Empty
                 ELSE Overlay(Overlay(left, Above(DOMAIN left)), media)
  /\ UNCHANGED <<isoVars, opts, inject, extras, builds>>

BuilderNext ==
  \/ \E o \in BuildOptions : StartBuild(o)
  \/ ExtractSetup \/ BuildBootWim \/ BuildInstallWim \/ ApplyBypass \/ InjectExtra
  \/ Master \/ MasterTree \/ MasterNode \/ MasterEnds \/ FailBuild
=============================================================================
