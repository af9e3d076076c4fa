--------------------------------- MODULE MCDisc --------------------------------
(***************************************************************************)
(* Names: 1 EFI, 2 autounattend.xml, 3 boot, 4 boot.wim, 5 bootaa64.efi,   *)
(* 6 bootx64.efi, 7 efi, 8 efisys.bin, 9 efisys_noprompt.bin,              *)
(* 10 etfsboot.com, 11 install.swm, 12 install.wim, 13 install2.swm,       *)
(* 14 sources, 15 bootarm64.efi, 16 install3.swm.                          *)
(***************************************************************************)
EXTENDS Disc

MCNameRunes == <<1, 5, 2, 3, 3, 4, 1, 3, 6, 4, 4, 4, 5, 3, 4, 5>>
MCNameBytes == MCNameRunes
MCWideNames == {9}
MCLowerCase == [n \in 1..16 |-> IF n = 1 THEN 7 ELSE n]

Bytes(n, v) == [k \in 1..n |-> v + k]
MCEsd == <<[role |-> "setup media", data |-> <<>>],
           [role |-> "windows pe", data |-> Bytes(4, 20)], [role |-> "windows setup", data |-> Bytes(5, 30)],
           [role |-> "edition", data |-> Bytes(10, 40)], [role |-> "edition", data |-> Bytes(19, 100)]>>
MCSetupTree == (<<>> :> Dir) @@ (<<1>> :> Dir) @@ (<<1, 8>> :> File(Bytes(5, 1))) @@ (<<1, 9>> :> File(Bytes(8, 10)))
                 @@ (<<3>> :> Dir) @@ (<<3, 10>> :> File(Bytes(3, 1)))
MCSources == <<14>>
MCBootWim == <<14, 4>>
MCInstallWim == <<14, 12>>
MCBiosBoot == <<3, 10>>
MCUefiBoot == <<7, 8>>
MCArm64Loader == <<7, 5>>
MCLoaders == {<<7, 5>>, <<7, 6>>}
MCFallback == [x64 |-> <<7, 6>>, arm64 |-> <<7, 15>>]
MCParts == <<<<14, 11>>, <<14, 13>>, <<14, 16>>>>
MCResourceStarts == {41, 45, 75, 90, 101}
MCKeyPath == [auto |-> <<2>>, rooted |-> <<2>>, loader |-> <<7, 6>>, arm |-> <<7, 5>>, big |-> <<1, 8>>]
MCExtraData == [auto |-> <<5>>, rooted |-> <<6, 6>>, loader |-> <<7, 7>>, arm |-> <<8>>, big |-> Bytes(9, 1)]
MCAnswerData == Bytes(9, 50)
Option(e, a, s, f, arch) == [extras |-> e, answer |-> a, server |-> s, fresh |-> f, arch |-> arch]
MCBuildOptions == {Option({"auto", "rooted"}, TRUE, TRUE, FALSE, "x64"), Option({"loader"}, TRUE, FALSE, FALSE, "x64"),
                   Option({"arm", "rooted"}, TRUE, FALSE, TRUE, "arm64"), Option({}, FALSE, FALSE, FALSE, "arm64"),
                   Option({"big"}, FALSE, FALSE, TRUE, "x64")}
MCLoaderData == <<9, 9>>
MCDisks == {[removable |-> r, size |-> s] : r \in BOOLEAN, s \in {0, 48, 200}}
MCUsbOptions == {[fs |-> "fat32", force |-> FALSE], [fs |-> "exfat", force |-> TRUE]}
MCChanges == {[path |-> <<3, 10>>, data |-> Bytes(20, 70)], [path |-> <<1, 8>>, data |-> Bytes(2, 70)],
              [path |-> <<14, 4>>, data |-> Bytes(19, 70)], [path |-> <<14, 12>>, data |-> Bytes(25, 70)]}
MCRemovals == {<<1, 8>>, <<1, 9>>}
MCTargets == {<<7, 8>>, <<7, 9>>, <<14, 12>>, <<14, 4>>}
=============================================================================
