------------------------------- MODULE FileCatalog -----------------------------
(***************************************************************************)
(* What the Windows Update services make of the answers they get: the      *)
(* requests' attributes, the two parsers, the lists of files and their     *)
(* filters, the comparison of two builds, the verification of a download,  *)
(* and the selection from the ESD catalog.  Pure definitions; a file name  *)
(* is a record of the parts that the patterns and filters tell apart, and  *)
(* a digest says in which form it is held.                                 *)
(***************************************************************************)
EXTENDS Integers, Sequences, FiniteSets, SequencesExt, TLC

CONSTANT
  SizeOf   \* the size of each content, a sequence

Digest(form, alg, of) == [form |-> form, alg |-> alg, of |-> of]
NoDigest == Digest("none", "", 0)

\* The digests a record may hold: none, one that does not decode, or that of a
\* content in either form.
Contents == DOMAIN SizeOf
Digests(alg) == {NoDigest, Digest("junk", "", 0)} \cup {Digest("base64", alg, c) : c \in Contents}
                                                 \cup {Digest("hex", alg, c) : c \in Contents}

ASSUME SizesAssumption == SizeOf \in Seq(Nat)

\* The elements of s at the positions in keep, in the order of s.
SelectAt(s, keep) == [i \in 1..Cardinality(keep) |-> s[CHOOSE k \in keep : Cardinality({j \in keep : j <= k}) = i]]

\* "" for what is empty or does not decode.
base64ToHex(d) == IF d.form = "base64" THEN [d EXCEPT !.form = "hex"] ELSE NoDigest

shouldExclude(n) == n.kind \in {"diff", "baseless", "express"} \/ n.ext = "psf"

--------------------------------------------------------------------------------
\* The attributes of a request that differ between calls.

ringToFlightBranch == [Canary |-> "CanaryChannel", Experimental |-> "Dev", Beta |-> "WIS",
                       ReleasePreview |-> "RP", Retail |-> "", MSIT |-> "MSIT"]

ServerSKUs == {7, 8, 12, 13, 79, 80, 120, 145, 146, 147, 148, 159, 160, 406, 407, 408}

skuToProduct(sku) ==
  CASE sku \in ServerSKUs -> "Server.OS"
    [] sku = 180 -> "WCOSDevice2.OS"
    [] sku = 184 -> "WCOSDevice1.OS"
    [] sku = 189 -> "WCOSDevice0.OS"
    [] sku = 210 -> "WNC.OS"
    [] OTHER -> "Client.OS"

BranchSteps == <<<<27000, "ge_prerelease">>, <<26100, "ge_release">>, <<25398, "zn_release">>, <<22621, "ni_release">>,
                 <<22000, "co_release">>, <<20348, "fe_release">>, <<19041, "vb_release">>, <<18362, "19h1_release">>,
                 <<17763, "rs5_release">>>>
branchFromBuild(build) ==
  LET steps == SelectSeq(BranchSteps, LAMBDA s : build >= s[1])
  IN  IF steps = <<>> THEN "rs_prerelease" ELSE steps[1][2]

DefaultCheckBuild(ring) == IF ringToFlightBranch[ring] # "" THEN 9600 ELSE 26100

BuildDeviceAttributes(arch, ring, build, sku) ==
  [arch      |-> arch,
   version   |-> build,
   branch    |-> branchFromBuild(build),
   sku       |-> sku,
   family    |-> IF sku \in ServerSKUs THEN "Windows.Server" ELSE "Windows.Desktop",
   block     |-> sku \in ServerSKUs \cup {125, 126},
   retail    |-> ring = "Retail",
   flighting |-> ring # "Retail",
   flight    |-> CASE ring = "Experimental" -> "Dev" [] ring = "Beta" -> "WIS" [] ring = "ReleasePreview" -> "RP"
                   [] ring = "Canary" -> "CanaryChannel" [] ring = "MSIT" -> "MSIT" [] OTHER -> "",
   ring      |-> CASE ring = "Retail" -> "Retail" [] ring = "MSIT" -> "Internal" [] OTHER -> "External"]

BuildProductsString(arch, ring, build, sku) ==
  [product |-> skuToProduct(sku), arch |-> arch, version |-> build,
   branch  |-> IF ringToFlightBranch[ring] = "" THEN branchFromBuild(build) ELSE ringToFlightBranch[ring]]

--------------------------------------------------------------------------------
\* SyncUpdates: updates and, by numeric ID, the blobs that describe them.

isLeafUpdate(u) == u.leaf = "true"

FileMetadata(f) == [name |-> f.name, size |-> f.size, sha1 |-> base64ToHex(f.digest), sha256 |-> base64ToHex(f.sha256)]
BlobFiles(e) == LET kept == SelectAt(e.files, {k \in DOMAIN e.files : ~shouldExclude(e.files[k].name)})
                IN  [k \in DOMAIN kept |-> FileMetadata(kept[k])]

\* A blob that is empty or does not parse adds nothing.
BlobsOf(resp, id) == SelectAt(resp.ext, {k \in DOMAIN resp.ext : resp.ext[k].id = id /\ resp.ext[k].state = "ok"})
TitleOf(resp, id) ==
  LET titled == SelectSeq(BlobsOf(resp, id), LAMBDA e : e.title # "")
  IN  IF titled = <<>> THEN "" ELSE titled[1].title
\* As FilesOf, of one blob only.
LastBlob(resp, id) == LET blobs == BlobsOf(resp, id) IN IF blobs = <<>> THEN <<>> ELSE BlobFiles(blobs[Len(blobs)])
FilesOf(resp, id) == LET blobs == BlobsOf(resp, id) IN FlattenSeq([k \in DOMAIN blobs |-> BlobFiles(blobs[k])])

productNameToArch(product) == IF product.suffix \in {"amd64", "x86", "arm64"} THEN product.suffix ELSE "amd64"

UpdateID(u) == IF u.uuid = "" THEN ToString(u.id) ELSE u.uuid
UpdateResult(resp, u) ==
  [uuid     |-> UpdateID(u),
   revision |-> IF u.blobRevision = 0 THEN u.revision ELSE u.blobRevision,
   title    |-> TitleOf(resp, u.id),
   files    |-> FilesOf(resp, u.id),
   version  |-> u.version,
   arch     |-> productNameToArch(u.product)]

ParseSyncUpdatesResponse(resp) ==
  LET leaves == SelectAt(resp.new, {k \in DOMAIN resp.new : isLeafUpdate(resp.new[k]) /\ resp.new[k].state = "ok"})
  IN  [k \in DOMAIN leaves |-> UpdateResult(resp, leaves[k])]

--------------------------------------------------------------------------------
\* GetExtendedUpdateInfo2: the places of the files, one per digest.

FileURL(l) == [name |-> l.name, size |-> 0, sha1 |-> base64ToHex(l.digest), sha256 |-> NoDigest,
               url |-> l.url, content |-> l.content]
Usable(l) == l.url /\ l.name.base # "" /\ ~shouldExclude(l.name)

\* Of the places with one digest the first of the largest is kept.  The order
\* is that of a Go map: any; nothing downstream depends on it.
Best(locations, rivals) ==
  CHOOSE k \in rivals : \A j \in rivals : LET f == FileURL(locations[k])
                                             g == FileURL(locations[j])
                                         IN  g.size <= f.size /\ (g.size = f.size => k <= j)
ParseFileURLs(locations) ==
  LET usable == {k \in DOMAIN locations : Usable(locations[k])}
      DigestAt(k) == FileURL(locations[k]).sha1
  IN  SetToSeq({FileURL(locations[Best(locations, {k \in usable : DigestAt(k) = h})]) : h \in {DigestAt(k) : k \in usable}})

--------------------------------------------------------------------------------
\* Filters on names.  A name with the token "professionaln" contains
\* "_professional" as well.
LongerToken == {<<"professionaln", "professional">>, <<"coren", "core">>, <<"enterprisen", "enterprise">>,
                <<"educationn", "education">>, <<"serverstandard", "server">>, <<"serverdatacenter", "server">>}
HasPart(token, part) == token = part \/ <<token, part>> \in LongerToken

HasUnderscore(n) == n.edition # "" \/ (n.lang # "" /\ n.sep = "_")
isNeutral(n) == n.lang = "neutral" \/ ~HasUnderscore(n)
hasEditionMarker(n) == \E m \in {"professional", "core", "enterprise", "education", "server"} : HasPart(n.edition, m)

Passes(n, cfg) ==
  /\ cfg.ext # "" => n.ext = cfg.ext
  /\ cfg.lang # "" => isNeutral(n) \/ n.lang = cfg.lang
  /\ cfg.edition # "" => ~hasEditionMarker(n) \/ HasPart(n.edition, cfg.edition)
applyFileFilters(files, cfg) == SelectAt(files, {k \in DOMAIN files : Passes(files[k].name, cfg)})

buildFileList(urls, cfg) == applyFileFilters(urls, cfg)

\* The records of the first update of that UUID; of none, an empty list.
MetadataOf(results, uuid) ==
  LET first == SelectInSeq(results, LAMBDA r : r.uuid = uuid)
      Plain(f) == [name |-> f.name, size |-> f.size, sha1 |-> f.sha1, sha256 |-> f.sha256, url |-> FALSE, content |-> 0]
  IN  IF first = 0 THEN <<>> ELSE [k \in DOMAIN results[first].files |-> Plain(results[first].files[k])]

--------------------------------------------------------------------------------
\* Two builds compared.

\* As fileChanged, without a look at whether both have the digest.
AnyDigest(a, b) == a.sha256 # b.sha256
fileChanged(a, b) ==
  IF a.sha256 # NoDigest /\ b.sha256 # NoDigest THEN a.sha256 # b.sha256
  ELSE IF a.sha1 # NoDigest /\ b.sha1 # NoDigest THEN a.sha1 # b.sha1
  ELSE a.size # b.size

Names(files) == {f.name : f \in ToSet(files)}
IndexByName(files) == [n \in Names(files) |-> files[CHOOSE k \in DOMAIN files :
                          files[k].name = n /\ \A j \in DOMAIN files : files[j].name = n => j <= k]]

diffFileSets(filesA, filesB) ==
  LET a == IndexByName(filesA)
      b == IndexByName(filesB)
      both == DOMAIN a \cap DOMAIN b
      changed == {n \in both : fileChanged(a[n], b[n])}
  IN  [added     |-> {b[n] : n \in DOMAIN b \ DOMAIN a},
       removed   |-> {a[n] : n \in DOMAIN a \ DOMAIN b},
       changed   |-> {[name |-> n, base |-> a[n], target |-> b[n]] : n \in changed},
       unchanged |-> Cardinality(both \ changed)]

--------------------------------------------------------------------------------
\* A file on disk against its record.  Hexadecimal digits are base64 too, of
\* other and more bytes than the digest has.
Decoded(d) == [ok |-> d.form # "junk", value |-> IF d.form = "base64" THEN <<d.alg, d.of>> ELSE <<"other", d.of>>]
computeHashes(content) == [sha256 |-> <<"sha256", content>>, sha1 |-> <<"sha1", content>>]

Verdict(ok, reason) == [ok |-> ok, reason |-> reason]
Compare(d, actual, reason) ==
  CASE ~Decoded(d).ok -> Verdict(FALSE, "invalid digest")
    [] Decoded(d).ok /\ Decoded(d).value # actual -> Verdict(FALSE, reason)
    [] OTHER -> Verdict(TRUE, "")

\* As verifyOne, with no look at the size.
DigestsOnly(f, dir) ==
  IF f.name \notin DOMAIN dir THEN Verdict(FALSE, "missing")
  ELSE IF f.sha256 # NoDigest THEN Compare(f.sha256, computeHashes(dir[f.name]).sha256, "sha256 mismatch")
  ELSE IF f.sha1 # NoDigest THEN Compare(f.sha1, computeHashes(dir[f.name]).sha1, "sha1 mismatch")
  ELSE Verdict(TRUE, "")
verifyOne(f, dir) ==
  CASE f.name \notin DOMAIN dir -> Verdict(FALSE, "missing")
    [] f.name \in DOMAIN dir /\ f.size > 0 /\ SizeOf[dir[f.name]] # f.size -> Verdict(FALSE, "size mismatch")
    [] OTHER -> LET actual == computeHashes(dir[f.name])
                IN  CASE f.sha256 # NoDigest -> Compare(f.sha256, actual.sha256, "sha256 mismatch")
                      [] f.sha256 = NoDigest /\ f.sha1 # NoDigest -> Compare(f.sha1, actual.sha1, "sha1 mismatch")
                      [] OTHER -> Verdict(TRUE, "")

--------------------------------------------------------------------------------
\* The ESD catalog; the token in a file's name outranks its Architecture.

IsARM64(img) == IF img.token # "" THEN img.token = "ARM64" ELSE img.arch = "ARM64"
EsdFilter(images, edition, arch, lang) ==
  SelectAt(images, {k \in DOMAIN images : /\ edition = "" \/ images[k].edition = edition
                                          /\ arch = "" \/ images[k].arch = arch
                                          /\ lang = "" \/ images[k].lang = lang})
FilterBuildMajor(images, build, edition, arch, lang) ==
  LET of == EsdFilter(images, edition, arch, lang)
  IN  SelectAt(of, {k \in DOMAIN of : build = 0 \/ of[k].major = build})
FilterARM64BuildMajor(images, build, edition, lang) ==
  LET of == FilterBuildMajor(images, build, edition, "", lang)
  IN  SelectAt(of, {k \in DOMAIN of : IsARM64(of[k])})

\* Its digest is not taken along.
AsFile(img) == [name |-> img.name, size |-> img.size, sha1 |-> NoDigest, sha256 |-> NoDigest, url |-> TRUE, content |-> img.content]
================================================================================
