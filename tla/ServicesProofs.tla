----------------------------- MODULE ServicesProofs ----------------------------
(***************************************************************************)
(* The properties of Services, for every list of offers and any number of  *)
(* operations, callers and tries.  The two clients share nothing: IsoInv   *)
(* is the inductive invariant of the one, UpdateInv that of the other.     *)
(***************************************************************************)
EXTENDS Services, SequenceLemmas, TLAPS

(* What the definitions of FileCatalog compute, for every answer of the      *)
(* services: the elements of the lists they make, one lemma for a list.      *)

\* SelectAt is the selected elements, each once, and in their order: place
\* tells where each of them stood.
LEMMA SelectAtIsOrdered ==
  ASSUME NEW s, s \in Seq(ToSet(s)), NEW keep \in SUBSET DOMAIN s
  PROVE  /\ SelectAt(s, keep) \in Seq({s[k] : k \in keep})
         /\ ToSet(SelectAt(s, keep)) = {s[k] : k \in keep}
         /\ \E place \in [DOMAIN SelectAt(s, keep) -> keep] :
              /\ \A i \in DOMAIN SelectAt(s, keep) : SelectAt(s, keep)[i] = s[place[i]]
              /\ \A k \in keep : \E i \in DOMAIN SelectAt(s, keep) : place[i] = k
              /\ \A i, j \in DOMAIN SelectAt(s, keep) : i < j => place[i] < place[j]
<1> DEFINE c == Cardinality(keep)
           Rank(k) == Cardinality({j \in keep : j <= k})
           At(i) == CHOOSE k \in keep : Rank(k) = i
           place == [i \in 1..c |-> At(i)]
<1>1. Len(s) \in Nat /\ DOMAIN s = 1..Len(s)
  BY LenProperties
<1>2. /\ IsFiniteSet(keep) /\ c \in Nat
      /\ \A k \in keep : Rank(k) \in 1..c
      /\ \A k, m \in keep : k < m => Rank(k) < Rank(m)
      /\ \A i \in 1..c : \E k \in keep : Rank(k) = i
  BY <1>1, Ranks
<1>3. SelectAt(s, keep) = [i \in 1..c |-> s[place[i]]]
  BY DEF SelectAt
<1> HIDE DEF Rank, c
<1>4. \A i \in 1..c : place[i] \in keep /\ Rank(place[i]) = i
  BY <1>2
<1> HIDE DEF place
<1>5. \A k, m \in keep : k \in Int /\ m \in Int /\ Rank(k) \in Int /\ Rank(m) \in Int
  BY <1>1, <1>2
<1>6. \A k, m \in keep : Rank(k) = Rank(m) => k = m
  BY <1>2, <1>5
<1>7. \A k \in keep : Rank(k) \in 1..c /\ place[Rank(k)] = k
  BY <1>2, <1>4, <1>6
<1>8. \A i, j \in 1..c : i < j => place[i] < place[j]
  <2>1. TAKE i, j \in 1..c
  <2>2. HAVE i < j
  <2>3. ~(place[j] < place[i]) /\ place[i] # place[j]
    BY <1>2, <1>4, <2>2
  <2>4. QED BY <1>4, <1>5, <2>3
<1>9. SelectAt(s, keep) \in Seq({s[k] : k \in keep}) /\ DOMAIN SelectAt(s, keep) = 1..c
  BY <1>2, <1>3, <1>4, IsASeq
<1>10. ToSet(SelectAt(s, keep)) = {s[k] : k \in keep}
  BY <1>3, <1>4, <1>7 DEF ToSet
<1>11. place \in [1..c -> keep]
  BY <1>4 DEF place
<1>12. /\ place \in [DOMAIN SelectAt(s, keep) -> keep]
       /\ \A i \in DOMAIN SelectAt(s, keep) : SelectAt(s, keep)[i] = s[place[i]]
       /\ \A k \in keep : \E i \in DOMAIN SelectAt(s, keep) : place[i] = k
       /\ \A i, j \in DOMAIN SelectAt(s, keep) : i < j => place[i] < place[j]
  BY <1>3, <1>7, <1>8, <1>9, <1>11
<1>13. QED BY <1>9, <1>10, <1>12

\* Digests: hexadecimal digits tell the base64 digests of one algorithm apart,
\* and only they are not empty.
LEMMA HexTellsApart ==
  ASSUME NEW alg, NEW d \in Digests(alg), NEW e \in Digests(alg)
  PROVE  /\ base64ToHex(d) \in Digests(alg)
         /\ d.form = "base64" => base64ToHex(d) # NoDigest
         /\ d.form = "base64" /\ base64ToHex(e) = base64ToHex(d) => e = d
<1>1. ASSUME NEW x \in Digests(alg), x.form = "base64"
      PROVE  /\ x = Digest("base64", alg, x.of) /\ x.of \in Contents
             /\ base64ToHex(x) = Digest("hex", alg, x.of)
  <2>1. PICK form \in {"base64", "hex"}, c \in Contents : x = Digest(form, alg, c)
    <3>1. NoDigest.form = "none" /\ Digest("junk", "", 0).form = "junk"
      BY DEF NoDigest, Digest
    <3>2. x # NoDigest /\ x # Digest("junk", "", 0)
      BY <1>1, <3>1
    <3>3. QED BY <1>1, <3>2 DEF Digests
  <2>2. form = "base64" /\ x.of = c
    BY <1>1, <2>1 DEF Digest
  <2>3. QED BY <2>1, <2>2 DEF base64ToHex, Digest
<1>2. \A x \in Digests(alg) : x.form # "base64" => base64ToHex(x) = NoDigest
  BY DEF base64ToHex
<1>3. \A c : Digest("hex", alg, c) # NoDigest
  BY DEF Digest, NoDigest
<1>4. \A c, b : Digest("hex", alg, c) = Digest("hex", alg, b) => c = b
  BY DEF Digest
<1>5. base64ToHex(d) \in Digests(alg)
  <2>1. \A c \in Contents : Digest("hex", alg, c) \in Digests(alg)
    BY DEF Digests
  <2>2. NoDigest \in Digests(alg)
    BY DEF Digests
  <2>3. QED BY <1>1, <1>2, <2>1, <2>2
<1>6. d.form = "base64" => base64ToHex(d) # NoDigest
  BY <1>1, <1>3
<1>7. ASSUME d.form = "base64", base64ToHex(e) = base64ToHex(d) PROVE e = d
  <2>1. e.form = "base64"
    BY <1>2, <1>6, <1>7
  <2>2. d.of = e.of
    BY <1>1, <1>4, <1>7, <2>1
  <2>3. QED BY <1>1, <1>7, <2>1, <2>2
<1>8. QED BY <1>5, <1>6, <1>7

\* A record of a file as the services hold it, and a list of them.
RecordOK(r) == r.size \in Nat /\ r.sha1 \in Digests("sha1") /\ r.sha256 \in Digests("sha256")
ListOK(list) == list \in Seq(ToSet(list)) /\ \A r \in ToSet(list) : RecordOK(r)

\* A file as a SyncUpdates blob describes it, and a blob.
DescribedOK(f) == f.size \in Nat /\ f.digest \in Digests("sha1") /\ f.sha256 \in Digests("sha256")
BlobOK(e) == e.files \in Seq(ToSet(e.files)) /\ \A f \in ToSet(e.files) : DescribedOK(f)
RespOK(resp) ==
  /\ resp.new \in Seq(ToSet(resp.new)) /\ resp.ext \in Seq(ToSet(resp.ext))
  /\ \A e \in ToSet(resp.ext) : BlobOK(e)

\* The filters keep exactly the records that pass, and never repeat one.
LEMMA FiltersKeep ==
  ASSUME NEW files, files \in Seq(ToSet(files)), NEW cfg
  PROVE  LET kept == applyFileFilters(files, cfg) IN
         /\ kept \in Seq(ToSet(kept))
         /\ ToSet(kept) = {r \in ToSet(files) : Passes(r.name, cfg)}
         /\ \E place \in [DOMAIN kept -> DOMAIN files] :
              /\ \A i \in DOMAIN kept : kept[i] = files[place[i]]
              /\ \A i, j \in DOMAIN kept : place[i] = place[j] => i = j
<1> DEFINE keep == {k \in DOMAIN files : Passes(files[k].name, cfg)}
           kept == SelectAt(files, keep)
<1>1. /\ kept \in Seq({files[k] : k \in keep})
      /\ ToSet(kept) = {files[k] : k \in keep}
      /\ \E place \in [DOMAIN kept -> keep] :
           /\ \A i \in DOMAIN kept : kept[i] = files[place[i]]
           /\ \A k \in keep : \E i \in DOMAIN kept : place[i] = k
           /\ \A i, j \in DOMAIN kept : i < j => place[i] < place[j]
  BY SelectAtIsOrdered
<1>2. /\ DOMAIN files = 1..Len(files) /\ Len(files) \in Nat /\ ToSet(files) = {files[k] : k \in DOMAIN files}
      /\ Len(kept) \in Nat /\ DOMAIN kept = 1..Len(kept)
  BY <1>1, Elements
<1> HIDE DEF kept
<1>3. PICK place \in [DOMAIN kept -> keep] :
        /\ \A i \in DOMAIN kept : kept[i] = files[place[i]]
        /\ \A i, j \in DOMAIN kept : i < j => place[i] < place[j]
  BY <1>1
<1>4. place \in [DOMAIN kept -> DOMAIN files]
  BY <1>3
<1>5. \A i, j \in DOMAIN kept : place[i] = place[j] => i = j
  <2>1. TAKE i, j \in DOMAIN kept
  <2>2. i \in Int /\ j \in Int /\ place[i] \in Int /\ place[j] \in Int
    BY <1>2, <1>4
  <2>3. QED BY <1>3, <2>2
<1>6. ToSet(kept) = {r \in ToSet(files) : Passes(r.name, cfg)}
  <2>1. \A r \in ToSet(kept) : r \in ToSet(files) /\ Passes(r.name, cfg)
    BY <1>1, <1>2
  <2>2. \A r \in ToSet(files) : Passes(r.name, cfg) => r \in ToSet(kept)
    BY <1>1, <1>2
  <2>3. QED BY <2>1, <2>2
<1>7. kept \in Seq(ToSet(kept))
  BY <1>1
<1>8. QED BY <1>3, <1>4, <1>5, <1>6, <1>7 DEF applyFileFilters, kept

\* A blob of SyncUpdates lists its files, less the excluded ones.
LEMMA BlobFilesAre ==
  ASSUME NEW e, BlobOK(e)
  PROVE  LET kept == {f \in ToSet(e.files) : ~shouldExclude(f.name)} IN
         /\ BlobFiles(e) \in Seq({FileMetadata(f) : f \in kept})
         /\ ToSet(BlobFiles(e)) = {FileMetadata(f) : f \in kept}
<1> DEFINE keep == {k \in DOMAIN e.files : ~shouldExclude(e.files[k].name)}
           kept == {f \in ToSet(e.files) : ~shouldExclude(f.name)}
           s == SelectAt(e.files, keep)
           t == [k \in DOMAIN s |-> FileMetadata(s[k])]
<1>1. s \in Seq({e.files[k] : k \in keep}) /\ ToSet(s) = {e.files[k] : k \in keep}
  <2>1. e.files \in Seq(ToSet(e.files)) /\ keep \in SUBSET DOMAIN e.files
    BY DEF BlobOK
  <2> HIDE DEF keep
  <2>2. QED BY <2>1, SelectAtIsOrdered
<1>2. ToSet(e.files) = {e.files[k] : k \in DOMAIN e.files}
  BY DEF ToSet
<1>3. {e.files[k] : k \in keep} = kept
  BY <1>2
<1>4. s \in Seq(kept) /\ ToSet(s) = kept
  BY <1>1, <1>3
<1> HIDE DEF s, kept
<1>5. Len(s) \in Nat /\ DOMAIN s = 1..Len(s) /\ ToSet(s) = {s[k] : k \in DOMAIN s}
  BY <1>4, Elements
<1>6. \A k \in 1..Len(s) : FileMetadata(s[k]) \in {FileMetadata(f) : f \in kept}
  BY <1>4, <1>5
<1>7. [k \in 1..Len(s) |-> FileMetadata(s[k])] \in Seq({FileMetadata(f) : f \in kept})
  BY <1>5, <1>6, IsASeq
<1>8. t \in Seq({FileMetadata(f) : f \in kept})
  BY <1>5, <1>7
<1>9. ToSet(t) = {FileMetadata(f) : f \in kept}
  <2>1. ToSet(t) = {FileMetadata(s[k]) : k \in DOMAIN s}
    BY DEF ToSet
  <2>2. \A x : x \in {FileMetadata(s[k]) : k \in DOMAIN s} <=> x \in {FileMetadata(f) : f \in kept}
    BY <1>4, <1>5
  <2>3. QED BY <2>1, <2>2
<1>10. t = BlobFiles(e)
  BY DEF BlobFiles, s
<1>11. QED BY <1>8, <1>9, <1>10 DEF kept

\* The files that the blobs of an update's numeric ID describe, wherever they
\* stand in the answer.
Described(resp, id) ==
  UNION {ToSet(resp.ext[i].files) : i \in {k \in DOMAIN resp.ext : resp.ext[k].id = id /\ resp.ext[k].state = "ok"}}

\* FilesOf gathers the files of every such blob.
LEMMA FilesOfAre ==
  ASSUME NEW resp, RespOK(resp), NEW id
  PROVE  LET kept == {f \in Described(resp, id) : ~shouldExclude(f.name)} IN
         /\ FilesOf(resp, id) \in Seq({FileMetadata(f) : f \in kept})
         /\ ToSet(FilesOf(resp, id)) = {FileMetadata(f) : f \in kept}
<1> DEFINE keep == {k \in DOMAIN resp.ext : resp.ext[k].id = id /\ resp.ext[k].state = "ok"}
           kept == {f \in Described(resp, id) : ~shouldExclude(f.name)}
           M == {FileMetadata(f) : f \in kept}
           blobs == BlobsOf(resp, id)
           ss == [k \in DOMAIN blobs |-> BlobFiles(blobs[k])]
<1>1. blobs \in Seq({resp.ext[k] : k \in keep}) /\ ToSet(blobs) = {resp.ext[k] : k \in keep}
  <2>1. resp.ext \in Seq(ToSet(resp.ext)) /\ keep \in SUBSET DOMAIN resp.ext
    BY DEF RespOK
  <2> HIDE DEF keep
  <2>2. /\ SelectAt(resp.ext, keep) \in Seq({resp.ext[k] : k \in keep})
        /\ ToSet(SelectAt(resp.ext, keep)) = {resp.ext[k] : k \in keep}
    BY <2>1, SelectAtIsOrdered
  <2>3. QED BY <2>2 DEF BlobsOf, keep
<1>2. \A k \in keep : BlobOK(resp.ext[k])
  <2>1. \A k \in keep : resp.ext[k] \in ToSet(resp.ext)
    BY DEF ToSet
  <2>2. QED BY <2>1 DEF RespOK
<1>3. Described(resp, id) = UNION {ToSet(resp.ext[k].files) : k \in keep}
  BY DEF Described
<1> HIDE DEF keep, blobs
<1>4. Len(blobs) \in Nat /\ DOMAIN blobs = 1..Len(blobs) /\ ToSet(blobs) = {blobs[k] : k \in DOMAIN blobs}
  BY <1>1, Elements
<1>5. \A k \in keep : /\ BlobFiles(resp.ext[k]) \in Seq(M)
                      /\ ToSet(BlobFiles(resp.ext[k])) \subseteq M
  <2>1. TAKE k \in keep
  <2> DEFINE own == {f \in ToSet(resp.ext[k].files) : ~shouldExclude(f.name)}
  <2>2. BlobFiles(resp.ext[k]) \in Seq({FileMetadata(f) : f \in own})
    BY <1>2, BlobFilesAre
  <2>3. {FileMetadata(f) : f \in own} \subseteq M
    BY <1>3
  <2> HIDE DEF own, M
  <2>4. /\ Len(BlobFiles(resp.ext[k])) \in Nat /\ ToSet(BlobFiles(resp.ext[k])) \subseteq M
        /\ BlobFiles(resp.ext[k]) \in Seq(M)
    BY <2>2, <2>3, Elements
  <2>5. QED BY <2>4
<1>6. \A i \in DOMAIN blobs : \E k \in keep : blobs[i] = resp.ext[k]
  BY <1>1, <1>4
<1>7. \A k \in keep : \E i \in DOMAIN blobs : blobs[i] = resp.ext[k]
  BY <1>1, <1>4
<1>8. ss \in Seq(Seq(M))
  <2>1. \A i \in 1..Len(blobs) : BlobFiles(blobs[i]) \in Seq(M)
    BY <1>4, <1>5, <1>6
  <2> HIDE DEF M
  <2>2. [i \in 1..Len(blobs) |-> BlobFiles(blobs[i])] \in Seq(Seq(M))
    BY <1>4, <2>1, IsASeq
  <2>3. QED BY <1>4, <2>2
<1>9. DOMAIN ss = DOMAIN blobs /\ \A i \in DOMAIN blobs : ss[i] = BlobFiles(blobs[i])
  OBVIOUS
<1>10. FilesOf(resp, id) = FlattenSeq(ss)
  BY DEF FilesOf, blobs
<1> HIDE DEF ss, M
<1>11. /\ FilesOf(resp, id) \in Seq(M)
       /\ ToSet(FilesOf(resp, id)) = UNION {ToSet(ss[i]) : i \in DOMAIN ss}
  BY <1>8, <1>10, FlattenIsUnion
<1>12. UNION {ToSet(ss[i]) : i \in DOMAIN ss} = M
  <2>1. ASSUME NEW r \in M PROVE r \in UNION {ToSet(ss[i]) : i \in DOMAIN ss}
    <3>1. PICK f \in kept : r = FileMetadata(f)
      BY DEF M
    <3>2. PICK k \in keep : f \in ToSet(resp.ext[k].files)
      BY <1>3
    <3>3. r \in ToSet(BlobFiles(resp.ext[k]))
      BY <1>2, <3>1, <3>2, BlobFilesAre
    <3>4. PICK i \in DOMAIN blobs : blobs[i] = resp.ext[k]
      BY <1>7
    <3>5. QED BY <1>9, <3>3, <3>4
  <2>2. ASSUME NEW r, r \in UNION {ToSet(ss[i]) : i \in DOMAIN ss} PROVE r \in M
    <3>1. PICK i \in DOMAIN blobs : r \in ToSet(BlobFiles(blobs[i]))
      BY <1>9, <2>2
    <3>2. QED BY <1>5, <1>6, <3>1
  <2>3. QED BY <2>1, <2>2
<1>13. QED BY <1>11, <1>12 DEF M

\* The positions of the updates of that UUID among those that are parsed.
NamedAt(resp, uuid) ==
  {k \in DOMAIN resp.new : resp.new[k].leaf = "true" /\ resp.new[k].state = "ok" /\ uuid = UpdateID(resp.new[k])}
\* A record of GetFiles without places.
Listed(f) == [name |-> f.name, size |-> f.size, sha1 |-> base64ToHex(f.digest), sha256 |-> base64ToHex(f.sha256),
              url |-> FALSE, content |-> 0]

\* The parsed updates keep their order, so that the first of a UUID is the
\* first that was sent.
LEMMA FirstOfUUID ==
  ASSUME NEW resp, RespOK(resp), NEW uuid
  PROVE  LET results == ParseSyncUpdatesResponse(resp)
             first == SelectInSeq(results, LAMBDA r : r.uuid = uuid)
             id == resp.new[CHOOSE k \in NamedAt(resp, uuid) : \A j \in NamedAt(resp, uuid) : k <= j].id
         IN  /\ first = 0 <=> NamedAt(resp, uuid) = {}
             /\ first # 0 => results[first].files = FilesOf(resp, id)
<1> DEFINE keep == {k \in DOMAIN resp.new : isLeafUpdate(resp.new[k]) /\ resp.new[k].state = "ok"}
           leaves == SelectAt(resp.new, keep)
           results == ParseSyncUpdatesResponse(resp)
           I == {i \in 1..Len(results) : results[i].uuid = uuid}
           named == NamedAt(resp, uuid)
<1>1. resp.new \in Seq(ToSet(resp.new)) /\ keep \in SUBSET DOMAIN resp.new
  BY DEF RespOK
<1>2. Len(resp.new) \in Nat /\ DOMAIN resp.new = 1..Len(resp.new)
  BY <1>1, Elements
<1>3. /\ leaves \in Seq({resp.new[k] : k \in keep})
      /\ \E place \in [DOMAIN leaves -> keep] :
           /\ \A i \in DOMAIN leaves : leaves[i] = resp.new[place[i]]
           /\ \A k \in keep : \E i \in DOMAIN leaves : place[i] = k
           /\ \A i, j \in DOMAIN leaves : i < j => place[i] < place[j]
  <2> DEFINE new == resp.new
  <2>1. new \in Seq(ToSet(new)) /\ keep \in SUBSET DOMAIN new
    BY <1>1
  <2> HIDE DEF keep, new
  <2>2. /\ SelectAt(new, keep) \in Seq({new[k] : k \in keep})
        /\ ToSet(SelectAt(new, keep)) = {new[k] : k \in keep}
        /\ \E place \in [DOMAIN SelectAt(new, keep) -> keep] :
             /\ \A i \in DOMAIN SelectAt(new, keep) : SelectAt(new, keep)[i] = new[place[i]]
             /\ \A k \in keep : \E i \in DOMAIN SelectAt(new, keep) : place[i] = k
             /\ \A i, j \in DOMAIN SelectAt(new, keep) : i < j => place[i] < place[j]
    BY <2>1, SelectAtIsOrdered
  <2>3. QED BY <2>2 DEF new
<1>4. Len(leaves) \in Nat /\ DOMAIN leaves = 1..Len(leaves)
  BY <1>3, Elements
<1>5. results = [k \in 1..Len(leaves) |-> UpdateResult(resp, leaves[k])]
  BY <1>4 DEF ParseSyncUpdatesResponse
<1>6. named = {k \in keep : uuid = UpdateID(resp.new[k])}
  BY DEF NamedAt, isLeafUpdate
<1> HIDE DEF keep, leaves, results, named
<1>7. PICK place \in [1..Len(leaves) -> keep] :
        /\ \A i \in 1..Len(leaves) : leaves[i] = resp.new[place[i]]
        /\ \A k \in keep : \E i \in 1..Len(leaves) : place[i] = k
        /\ \A i, j \in 1..Len(leaves) : i < j => place[i] < place[j]
  BY <1>3, <1>4
<1>8. Len(results) = Len(leaves)
  <2>1. results \in Seq({results[k] : k \in 1..Len(leaves)})
    BY <1>4, <1>5, IsASeq
  <2>2. DOMAIN results = 1..Len(results) /\ Len(results) \in Nat
    BY <2>1, LenProperties
  <2>3. DOMAIN results = 1..Len(leaves)
    BY <1>5
  <2>4. \A a, b \in Nat : 1..a = 1..b => a <= b
    <3>1. TAKE a, b \in Nat
    <3>2. a = 0 \/ a \in 1..a
      OBVIOUS
    <3>3. QED BY <3>2
  <2>5. \A a, b \in Nat : 1..a = 1..b => a = b
    BY <2>4
  <2>6. QED BY <1>4, <2>2, <2>3, <2>5
<1>9. \A i \in 1..Len(leaves) : /\ results[i].uuid = UpdateID(resp.new[place[i]])
                                /\ results[i].files = FilesOf(resp, resp.new[place[i]].id)
  BY <1>5, <1>7 DEF UpdateResult
<1>10. \A i \in 1..Len(leaves) : i \in I <=> place[i] \in named
  BY <1>6, <1>7, <1>8, <1>9
<1>11. I \in SUBSET Nat /\ \A i \in I : i \in 1..Len(leaves)
  BY <1>4, <1>8
<1>12. \A k \in named : \E i \in I : place[i] = k
  BY <1>6, <1>7, <1>10
<1>13. SelectInSeq(results, LAMBDA r : r.uuid = uuid) = IF I # {} THEN Min(I) ELSE 0
  BY DEF SelectInSeq
<1> HIDE DEF I
<1>14. CASE I = {}
  <2>1. named = {}
    BY <1>12, <1>14
  <2>2. QED BY <1>13, <1>14, <2>1 DEF named, results
<1>15. CASE I # {}
  <2> DEFINE i == Min(I)
  <2>1. i \in I /\ \A j \in I : i <= j
    BY <1>11, <1>15, MinIsIn
  <2> HIDE DEF i
  <2>2. i \in 1..Len(leaves) /\ i # 0 /\ place[i] \in named
    BY <1>10, <1>11, <2>1
  <2>3. \A k \in named : k \in Int
    BY <1>1, <1>2, <1>6
  <2>4. \A k \in named : place[i] <= k
    <3>1. TAKE k \in named
    <3>2. PICK j \in I : place[j] = k
      BY <1>12
    <3>3. i <= j /\ j \in 1..Len(leaves) /\ i \in Int /\ j \in Int
      BY <1>11, <2>1, <2>2
    <3>4. i = j \/ i < j
      BY <3>3
    <3>5. i = j \/ place[i] < k
      BY <1>7, <2>2, <3>2, <3>3, <3>4
    <3>6. QED BY <2>2, <2>3, <3>2, <3>5
  <2>5. \A k \in named : (\A j \in named : k <= j) => k = place[i]
    BY <2>2, <2>3, <2>4
  <2>6. (CHOOSE k \in named : \A j \in named : k <= j) = place[i]
    BY <2>2, <2>4, <2>5
  <2>7. named # {} /\ (IF I # {} THEN Min(I) ELSE 0) = i
    BY <1>15, <2>2 DEF i
  <2>8. QED BY <1>9, <1>13, <2>2, <2>6, <2>7 DEF named, results
<1>16. QED BY <1>14, <1>15

\* Without places, the list is of the files described for the first update of
\* that UUID (files.go, from the result of SyncUpdates).
LEMMA MetadataAre ==
  ASSUME NEW resp, RespOK(resp), NEW uuid
  PROVE  LET list == MetadataOf(ParseSyncUpdatesResponse(resp), uuid)
             id == resp.new[CHOOSE k \in NamedAt(resp, uuid) : \A j \in NamedAt(resp, uuid) : k <= j].id
             kept == IF NamedAt(resp, uuid) = {} THEN {} ELSE {f \in Described(resp, id) : ~shouldExclude(f.name)}
         IN  list \in Seq(ToSet(list)) /\ ToSet(list) = {Listed(f) : f \in kept}
<1> DEFINE results == ParseSyncUpdatesResponse(resp)
           first == SelectInSeq(results, LAMBDA r : r.uuid = uuid)
           id == resp.new[CHOOSE k \in NamedAt(resp, uuid) : \A j \in NamedAt(resp, uuid) : k <= j].id
           described == {f \in Described(resp, id) : ~shouldExclude(f.name)}
           files == FilesOf(resp, id)
           Plain(f) == [name |-> f.name, size |-> f.size, sha1 |-> f.sha1, sha256 |-> f.sha256, url |-> FALSE, content |-> 0]
           list == MetadataOf(results, uuid)
<1>1. /\ first = 0 <=> NamedAt(resp, uuid) = {}
      /\ first # 0 => results[first].files = files
  BY FirstOfUUID
<1>2. list = IF first = 0 THEN <<>> ELSE [k \in DOMAIN results[first].files |-> Plain(results[first].files[k])]
  BY DEF MetadataOf
<1>3. files \in Seq({FileMetadata(f) : f \in described}) /\ ToSet(files) = {FileMetadata(f) : f \in described}
  BY FilesOfAre
<1> HIDE DEF first, results, files, described, id, list
<1>4. CASE first = 0
  <2>1. list = <<>>
    BY <1>2, <1>4
  <2>2. list \in Seq(ToSet(list)) /\ ToSet(list) = {}
    BY <2>1, EmptySeq DEF ToSet
  <2>3. QED BY <1>1, <1>4, <2>2 DEF list, results, id, described
<1>5. CASE first # 0
  <2>1. list = [k \in DOMAIN files |-> Plain(files[k])]
    BY <1>1, <1>2, <1>5
  <2>2. Len(files) \in Nat /\ DOMAIN files = 1..Len(files) /\ ToSet(files) = {files[k] : k \in DOMAIN files}
    BY <1>3, Elements
  <2>3. \A f : Plain(FileMetadata(f)) = Listed(f)
    BY DEF FileMetadata, Listed
  <2> HIDE DEF Plain
  <2>4. ToSet(list) = {Plain(files[k]) : k \in DOMAIN files}
    BY <2>1 DEF ToSet
  <2>5. \A x : x \in ToSet(list) <=> \E r \in ToSet(files) : x = Plain(r)
    BY <2>2, <2>4
  <2>6. \A x : x \in ToSet(list) <=> x \in {Listed(f) : f \in described}
    BY <1>3, <2>3, <2>5
  <2>7. [k \in 1..Len(files) |-> Plain(files[k])] \in Seq(ToSet(list))
    BY <2>2, <2>4, IsASeq
  <2>8. list \in Seq(ToSet(list)) /\ ToSet(list) = {Listed(f) : f \in described}
    BY <2>1, <2>2, <2>6, <2>7
  <2>9. QED BY <1>1, <1>5, <2>8 DEF list, results, id, described
<1>6. QED BY <1>4, <1>5

--------------------------------------------------------------------------------
\* The places Microsoft gives for a build's files.
PlacesOK(locations) ==
  /\ locations \in Seq(ToSet(locations))
  /\ \A l \in ToSet(locations) : l.content \in Contents /\ l.digest \in Digests("sha1")

\* Among places with one digest there is one that ParseFileURLs keeps.
LEMMA BestIsOne ==
  ASSUME NEW locations, NEW rivals \in SUBSET Nat, rivals # {}
  PROVE  Best(locations, rivals) \in rivals
<1>1. PICK k \in rivals : \A j \in rivals : k <= j
  BY LeastExists
<1>2. \A j \in rivals : FileURL(locations[j]).size = 0
  BY DEF FileURL
<1>3. \A j \in rivals : LET f == FileURL(locations[k])
                           g == FileURL(locations[j])
                       IN  g.size <= f.size /\ (g.size = f.size => k <= j)
  BY <1>1, <1>2
<1>4. QED BY <1>3 DEF Best

\* ParseFileURLs returns usable places only, one for every digest that a
\* usable place has, and no two of one digest (fileurl.go ParseFileURLs).
LEMMA UrlsAre ==
  ASSUME NEW locations, PlacesOK(locations)
  PROVE  LET list == ParseFileURLs(locations)
             places == {l \in ToSet(locations) : Usable(l)}
         IN  /\ list \in Seq(ToSet(list))
             /\ \A r \in ToSet(list) : \E l \in places : r = FileURL(l)
             /\ \A l \in places : \E r \in ToSet(list) : r.sha1 = base64ToHex(l.digest)
             /\ \A j, k \in DOMAIN list : list[j].sha1 = list[k].sha1 => j = k
<1> DEFINE list == ParseFileURLs(locations)
           places == {l \in ToSet(locations) : Usable(l)}
           usable == {k \in DOMAIN locations : Usable(locations[k])}
           DigestAt(k) == FileURL(locations[k]).sha1
           H == {DigestAt(k) : k \in usable}
           Of(h) == Best(locations, {k \in usable : DigestAt(k) = h})
           T == {FileURL(locations[Of(h)]) : h \in H}
<1>1. list = SetToSeq(T)
  BY DEF ParseFileURLs
<1>2. Len(locations) \in Nat /\ DOMAIN locations = 1..Len(locations)
  BY Elements DEF PlacesOK
<1>3. ToSet(locations) = {locations[k] : k \in DOMAIN locations}
  BY DEF ToSet
<1>4. \A k \in usable : DigestAt(k) = base64ToHex(locations[k].digest)
  BY DEF FileURL
<1>5. \A h \in H : Of(h) \in usable /\ DigestAt(Of(h)) = h
  <2>1. TAKE h \in H
  <2> DEFINE rivals == {k \in usable : DigestAt(k) = h}
  <2>2. rivals \in SUBSET Nat
    BY <1>2
  <2>3. rivals # {}
    OBVIOUS
  <2> HIDE DEF rivals
  <2>4. Best(locations, rivals) \in rivals
    BY <2>2, <2>3, BestIsOne
  <2>5. QED BY <2>4 DEF rivals
<1>6. IsFiniteSet(T)
  <2> DEFINE U == {FileURL(locations[k]) : k \in usable}
             f == [k \in usable |-> FileURL(locations[k])]
  <2>1. IsFiniteSet(1..Len(locations))
    BY <1>2, FS_Interval
  <2>2. IsFiniteSet(usable)
    BY <1>2, <2>1, FS_Subset
  <2> HIDE DEF usable
  <2>3. f \in [usable -> U] /\ \A u \in U : \E k \in usable : f[k] = u
    OBVIOUS
  <2>4. f \in Surjection(usable, U)
    BY <2>3 DEF Surjection
  <2> HIDE DEF f, U
  <2>5. IsFiniteSet(U)
    BY <2>2, <2>4, FS_Surjection
  <2>6. T \in SUBSET U
    BY <1>5 DEF U
  <2>7. QED BY <2>5, <2>6, FS_Subset
<1>7. \A t \in T : \E k \in usable : t = FileURL(locations[k])
  BY <1>5
<1>8. \A s, t \in T : s.sha1 = t.sha1 => s = t
  <2> HIDE DEF H, Of
  <2>1. \A h \in H : FileURL(locations[Of(h)]).sha1 = h
    BY <1>5
  <2>2. QED BY <2>1
<1>9. \A k \in usable : \E t \in T : t.sha1 = DigestAt(k)
  <2>1. TAKE k \in usable
  <2>2. DigestAt(k) \in H
    OBVIOUS
  <2> HIDE DEF H, Of
  <2>3. FileURL(locations[Of(DigestAt(k))]) \in T
    BY <2>2
  <2>4. FileURL(locations[Of(DigestAt(k))]).sha1 = DigestAt(k)
    BY <1>5, <2>2
  <2>5. QED BY <2>3, <2>4
<1> HIDE DEF T, H, Of
<1>10. /\ list \in Seq(T) /\ ToSet(list) = T
       /\ \A j, k \in DOMAIN list : list[j] = list[k] => j = k
  BY <1>1, <1>6, SetToSeqIs
<1> HIDE DEF list
<1>11. \A j, k \in DOMAIN list : list[j].sha1 = list[k].sha1 => j = k
  <2>1. \A j \in DOMAIN list : list[j] \in T
    BY <1>10, Elements
  <2>2. QED BY <1>8, <1>10, <2>1
<1>12. \A k \in usable : locations[k] \in places
  BY <1>3
<1>13. \A l \in places : \E k \in usable : l = locations[k]
  BY <1>3
<1> HIDE DEF places, usable
<1>14. \A r \in ToSet(list) : \E l \in places : r = FileURL(l)
  BY <1>7, <1>10, <1>12
<1>15. \A l \in places : \E r \in ToSet(list) : r.sha1 = base64ToHex(l.digest)
  BY <1>4, <1>9, <1>10, <1>13
<1>16. QED BY <1>10, <1>11, <1>14, <1>15 DEF list, places

\* IndexByName holds one record of the list for every name in it.
LEMMA IndexIs ==
  ASSUME NEW files, files \in Seq(ToSet(files))
  PROVE  /\ IsFiniteSet(Names(files))
         /\ DOMAIN IndexByName(files) = Names(files)
         /\ \A n \in Names(files) : IndexByName(files)[n] \in ToSet(files) /\ IndexByName(files)[n].name = n
<1>1. Len(files) \in Nat /\ DOMAIN files = 1..Len(files) /\ ToSet(files) = {files[k] : k \in DOMAIN files}
  BY Elements
<1>2. Names(files) = {files[k].name : k \in 1..Len(files)}
  BY <1>1 DEF Names
<1>3. IsFiniteSet(Names(files))
  <2> DEFINE f == [k \in 1..Len(files) |-> files[k].name]
  <2>1. f \in Surjection(1..Len(files), Names(files))
    BY <1>2 DEF Surjection
  <2> HIDE DEF f
  <2>2. IsFiniteSet(1..Len(files))
    BY <1>1, FS_Interval
  <2>3. QED BY <2>1, <2>2, FS_Surjection
<1>4. ASSUME NEW n \in Names(files)
      PROVE  IndexByName(files)[n] \in ToSet(files) /\ IndexByName(files)[n].name = n
  <2> DEFINE T == {k \in 1..Len(files) : files[k].name = n}
             last == CHOOSE k \in DOMAIN files : files[k].name = n /\ \A j \in DOMAIN files : files[j].name = n => j <= k
  <2>1. T \in SUBSET (1..Len(files)) /\ T # {}
    BY <1>2
  <2>2. PICK k \in T : \A j \in T : j <= k
    BY <1>1, <2>1, GreatestExists
  <2>3. last \in DOMAIN files /\ files[last].name = n
    BY <1>1, <2>2
  <2>4. IndexByName(files)[n] = files[last]
    BY DEF IndexByName
  <2>5. QED BY <1>1, <2>3, <2>4
<1>5. DOMAIN IndexByName(files) = Names(files)
  BY DEF IndexByName
<1>6. QED BY <1>3, <1>4, <1>5

\* A digest that a record holds agrees with a content exactly when it is the
\* base64 digest of that content.
LEMMA CompareIs ==
  ASSUME NEW alg \in {"sha1", "sha256"}, NEW d \in Digests(alg), d # NoDigest, NEW c \in Contents, NEW reason
  PROVE  Compare(d, <<alg, c>>, reason).ok <=> d = Digest("base64", d.alg, c)
<1>1. Compare(d, <<alg, c>>, reason).ok <=> Decoded(d).ok /\ Decoded(d).value = <<alg, c>>
  <2>1. \A x, y : Verdict(x, y).ok = x
    BY DEF Verdict
  <2>2. CASE ~Decoded(d).ok
    BY <2>1, <2>2 DEF Compare
  <2>3. CASE Decoded(d).ok /\ Decoded(d).value # <<alg, c>>
    BY <2>1, <2>3 DEF Compare
  <2>4. CASE Decoded(d).ok /\ Decoded(d).value = <<alg, c>>
    BY <2>1, <2>4 DEF Compare
  <2>5. QED BY <2>2, <2>3, <2>4
<1>2. \A x, y, z : Digest(x, y, z).form = x /\ Digest(x, y, z).alg = y /\ Digest(x, y, z).of = z
  BY DEF Digest
<1>3. \A x : <<"other", x>> # <<alg, c>>
  BY <1>1
<1>4. \A x : <<alg, x>> = <<alg, c>> <=> x = c
  OBVIOUS
<1>5. CASE d = Digest("junk", "", 0)
  <2>1. d.form = "junk"
    BY <1>2, <1>5
  <2>2. QED BY <1>1, <1>2, <2>1 DEF Decoded
<1>6. ASSUME NEW x \in Contents, d = Digest("base64", alg, x)
      PROVE  Compare(d, <<alg, c>>, reason).ok <=> d = Digest("base64", d.alg, c)
  <2>1. d.form = "base64" /\ d.alg = alg /\ d.of = x
    BY <1>2, <1>6
  <2>2. Decoded(d).ok /\ Decoded(d).value = <<alg, x>>
    BY <2>1 DEF Decoded
  <2>3. d = Digest("base64", d.alg, c) <=> x = c
    BY <1>2, <1>6, <2>1
  <2>4. QED BY <1>1, <1>4, <2>2, <2>3
<1>7. ASSUME NEW x \in Contents, d = Digest("hex", alg, x)
      PROVE  Compare(d, <<alg, c>>, reason).ok <=> d = Digest("base64", d.alg, c)
  <2>1. d.form = "hex"
    BY <1>2, <1>7
  <2>2. Decoded(d).value = <<"other", d.of>>
    BY <2>1 DEF Decoded
  <2>3. d # Digest("base64", d.alg, c)
    BY <1>2, <2>1
  <2>4. QED BY <1>1, <1>3, <2>2, <2>3
<1>8. QED BY <1>5, <1>6, <1>7 DEF Digests

\* What verifyOne accepts: a digest held in base64, or none (verify.go verifyOne).
LEMMA VerdictOfFile ==
  ASSUME NEW f, RecordOK(f), NEW files, \A n \in DOMAIN files : files[n] \in Contents
  PROVE  LET content == IF f.name \in DOMAIN files THEN files[f.name] ELSE 0
             strongest == IF f.sha256 # NoDigest THEN f.sha256 ELSE f.sha1
         IN  verifyOne(f, files).ok <=> /\ content # 0
                                        /\ f.size \in {0, SizeOf[content]}
                                        /\ strongest \in {NoDigest, Digest("base64", strongest.alg, content)}
<1> DEFINE content == files[f.name]
           strongest == IF f.sha256 # NoDigest THEN f.sha256 ELSE f.sha1
<1>1. \A x, y : Verdict(x, y).ok = x
  BY DEF Verdict
<1>2. CASE f.name \notin DOMAIN files
  BY <1>1, <1>2 DEF verifyOne
<1>3. CASE f.name \in DOMAIN files
  <2>1. content \in Contents
    BY <1>3
  <2>2. content # 0 /\ SizeOf[content] \in Nat /\ f.size \in Nat
    <3>1. Len(SizeOf) \in Nat /\ DOMAIN SizeOf = 1..Len(SizeOf)
      BY SizesAssumption, LenProperties
    <3>2. content \in 1..Len(SizeOf)
      BY <2>1, <3>1 DEF Contents
    <3>3. SizeOf[content] \in Nat
      BY <3>2, SizesAssumption, ElementOfSeq
    <3>4. QED BY <3>1, <3>2, <3>3 DEF RecordOK
  <2>3. f.sha256 # NoDigest => (Compare(f.sha256, <<"sha256", content>>, "sha256 mismatch").ok
                                  <=> f.sha256 = Digest("base64", f.sha256.alg, content))
    BY <2>1, CompareIs DEF RecordOK
  <2>4. f.sha1 # NoDigest => (Compare(f.sha1, <<"sha1", content>>, "sha1 mismatch").ok
                                <=> f.sha1 = Digest("base64", f.sha1.alg, content))
    BY <2>1, CompareIs DEF RecordOK
  <2>5. /\ computeHashes(content).sha256 = <<"sha256", content>>
        /\ computeHashes(content).sha1 = <<"sha1", content>>
    BY DEF computeHashes
  <2> HIDE DEF content
  <2>6. CASE f.size > 0 /\ SizeOf[content] # f.size
    <3>1. ~verifyOne(f, files).ok
      BY <1>1, <1>3, <2>6 DEF verifyOne, content
    <3>2. f.size \notin {0, SizeOf[content]}
      BY <2>2, <2>6
    <3>3. QED BY <1>3, <3>1, <3>2 DEF content
  <2>7. CASE ~(f.size > 0 /\ SizeOf[content] # f.size)
    <3>1. f.size \in {0, SizeOf[content]}
      BY <2>2, <2>7
    <3>2. CASE f.sha256 # NoDigest
      <4>1. verifyOne(f, files) = Compare(f.sha256, computeHashes(content).sha256, "sha256 mismatch")
        BY <1>3, <2>7, <3>2 DEF verifyOne, content
      <4>2. QED BY <1>3, <2>2, <2>3, <2>5, <3>1, <3>2, <4>1 DEF content
    <3>3. CASE f.sha256 = NoDigest /\ f.sha1 # NoDigest
      <4>1. verifyOne(f, files) = Compare(f.sha1, computeHashes(content).sha1, "sha1 mismatch")
        BY <1>3, <2>7, <3>3 DEF verifyOne, content
      <4>2. QED BY <1>3, <2>2, <2>4, <2>5, <3>1, <3>3, <4>1 DEF content
    <3>4. CASE f.sha256 = NoDigest /\ f.sha1 = NoDigest
      <4>1. verifyOne(f, files) = Verdict(TRUE, "")
        BY <1>3, <2>7, <3>4 DEF verifyOne, content
      <4>2. QED BY <1>1, <1>3, <2>2, <3>1, <3>4, <4>1 DEF content
    <3>5. QED BY <3>2, <3>3, <3>4
  <2>8. QED BY <2>6, <2>7
<1>4. QED BY <1>2, <1>3

--------------------------------------------------------------------------------
(* The clients of Services. *)

\* The lists a caller may be in the middle of.
Products == UNION {ToSet(page.products) : page \in ToSet(Pages)}
Skus == UNION {ToSet(skus) : skus \in SkuLists}
Asked == Products \cup {[edition |-> r.edition, labels |-> {}, arch |-> r.arch] : r \in Requests}
Arches == {link.token : link \in Links} \cup {p.arch : p \in Asked}
Errors == {"", "fetch page", "no product", "vlscppe tag", "resolve language", "language", "fetch link", "other arch",
           "expired", "download", "stream"}
Files == {link.file : link \in Links}

\* selectSKU returns a SKU of the list that carries the language, and one that
\* is exactly the language when the list has one (resolve.go selectSKU).
LEMMA SelectSkuIsExact ==
  ASSUME NEW skus \in SkuLists, NEW lang, selectSKU(skus, lang) # <<>>
  PROVE  LET sku == selectSKU(skus, lang) IN
         /\ sku \in Seq(Skus)
         /\ lang \in sku[1].exact \cup sku[1].part
         /\ (\E s \in ToSet(skus) : lang \in s.exact) => lang \in sku[1].exact
<1> DEFINE E == {k \in 1..Len(skus) : lang \in skus[k].exact}
           P == {k \in 1..Len(skus) : lang \in skus[k].part}
<1>1. skus \in Seq(ToSet(skus)) /\ ToSet(skus) \subseteq Skus
  BY IsoResolverAssumption DEF Skus
<1>2. /\ E \in SUBSET Nat /\ \A k \in E : k # 0 /\ lang \in skus[k].exact /\ skus[k] \in Skus
      /\ P \in SUBSET Nat /\ \A k \in P : k # 0 /\ lang \in skus[k].part /\ skus[k] \in Skus
  BY <1>1 DEF ToSet
<1>3. selectSKU(skus, lang) = IF (IF E # {} THEN Min(E) ELSE 0) # 0 THEN <<skus[IF E # {} THEN Min(E) ELSE 0]>>
                              ELSE IF (IF P # {} THEN Min(P) ELSE 0) # 0 THEN <<skus[IF P # {} THEN Min(P) ELSE 0]>> ELSE <<>>
  BY DEF selectSKU, SelectInSeq
<1>4. E = {} => \A s \in ToSet(skus) : lang \notin s.exact
  BY <1>1 DEF ToSet
<1> HIDE DEF E, P
<1>5. CASE E # {}
  <2>1. Min(E) \in E
    BY <1>2, <1>5, MinIsIn
  <2>2. PICK s \in Skus : lang \in s.exact /\ selectSKU(skus, lang) = <<s>>
    BY <1>2, <1>3, <1>5, <2>1
  <2>3. QED BY <2>2
<1>6. CASE E = {}
  <2>1. P # {}
    BY <1>3, <1>6
  <2>2. Min(P) \in P
    BY <1>2, <2>1, MinIsIn
  <2>3. PICK s \in Skus : lang \in s.part /\ selectSKU(skus, lang) = <<s>>
    BY <1>2, <1>3, <1>6, <2>1, <2>2
  <2>4. QED BY <1>4, <1>6, <2>3
<1>7. QED BY <1>5, <1>6

--------------------------------------------------------------------------------
Calls == [pc : {"idle", "scrape", "tag", "ovdf", "sku", "link", "open", "body", "done"}, req : Requests \cup {NoRequest},
          page : Nat \ {0}, found : Seq(Products), product : Seq(Asked), session : Nat, attempt : Nat,
          skus : SkuLists \cup {<<>>}, sku : Seq(Skus), link : Links \cup {NoLink}, arch : {""} \cup Arches,
          opened : Nat \cup {-1}, path : {""} \cup Files, err : Errors]

IsoTypeOK ==
  /\ call \in [Callers -> Calls]
  /\ now \in Nat /\ calls \in Nat
  /\ temps \subseteq Callers

\* What a call knows at each point.
Resolving(k) == k.pc \in {"scrape", "tag", "ovdf", "sku", "link"}
Attempted(k) ==
  /\ k.pc \in {"scrape", "tag", "ovdf"} => k.attempt = 0
  /\ k.pc = "sku" => k.attempt < skuInfoMaxAttempts
  /\ k.attempt <= skuInfoMaxAttempts
Tagged(k, sessions) ==
  k.pc \in {"ovdf", "sku", "link"} \/ (k.req.by \in {"id", "name"} /\ k.link # NoLink) => k.session \in sessions
Chosen(k) ==
  /\ k.pc \in {"tag", "ovdf", "sku", "link"} => k.product # <<>>
  /\ (k.product # <<>> /\ k.req.arch # "") => k.product[1].arch \in {"", k.req.arch}
  /\ k.pc = "link" => k.sku # <<>>
  /\ k.sku # <<>> => /\ k.req.lang \in k.sku[1].exact \cup k.sku[1].part
                     /\ (\E s \in ToSet(k.skus) : k.req.lang \in s.exact) => k.req.lang \in k.sku[1].exact
Linked(k) ==
  /\ Resolving(k) => k.req.by \in {"id", "name"} /\ k.link = NoLink
  /\ k.pc \in {"open", "body"} => k.link \in Links
  /\ k.req.by \in {"id", "name"} /\ k.link # NoLink =>
       /\ k.product # <<>> /\ k.sku # <<>>
       /\ k.arch # "" => k.req.arch \in {"", k.arch} /\ k.link.token \in {"", k.arch}
Opened(k) ==
  /\ k.pc \notin {"body", "done"} => k.opened = -1
  /\ k.pc = "body" => k.opened >= 0
  /\ k.opened >= 0 => k.link.expires = 0 \/ k.opened <= k.link.expires
Delivered(k, names) ==
  /\ k.pc # "done" => k.path = ""
  /\ k.path # "" => k.path \in names /\ (k.opened < 0 => k.req.size > 0)

CallOK(k, sessions, names) ==
  Attempted(k) /\ Tagged(k, sessions) /\ Chosen(k) /\ Linked(k) /\ Opened(k) /\ Delivered(k, names)

Whole(files) == \A n \in DOMAIN files : files[n] \in {link.content : link \in {l \in Links : l.file = n}}

IsoInv ==
  /\ IsoTypeOK
  /\ \A c \in Callers : CallOK(call[c], tagged, DOMAIN isos)
  /\ \A c \in temps : call[c].pc = "body"
  /\ Whole(isos)

\* What a step of one caller has to establish: its own record.  The others
\* keep theirs, sessions stay tagged and files stay where they are.
LEMMA OneCall ==
  ASSUME IsoInv, NEW c \in Callers, NEW r \in Calls, call' = [call EXCEPT ![c] = r],
         now' \in Nat, calls' \in Nat, tagged \subseteq tagged',
         DOMAIN isos \subseteq DOMAIN isos', Whole(isos'),
         temps' \subseteq temps \cup {c}, c \in temps' => r.pc = "body",
         CallOK(r, tagged', DOMAIN isos')
  PROVE  IsoInv'
<1>1. IsoTypeOK'
  BY DEF IsoInv, IsoTypeOK
<1>2. \A d \in Callers : CallOK(call'[d], tagged', DOMAIN isos')
  <2>1. TAKE d \in Callers
  <2>2. CASE d = c
    BY <2>2 DEF IsoInv, IsoTypeOK
  <2>3. CASE d # c
    <3>1. call'[d] = call[d] /\ CallOK(call[d], tagged, DOMAIN isos)
      BY <2>3 DEF IsoInv, IsoTypeOK
    <3>2. QED BY <3>1 DEF CallOK, Tagged, Delivered
  <2>4. QED BY <2>2, <2>3
<1>3. \A d \in temps' : call'[d].pc = "body"
  BY DEF IsoInv, IsoTypeOK
<1>4. QED BY <1>1, <1>2, <1>3 DEF IsoInv

\* A call that fails keeps what it knows.
LEMMA FailsIsOK ==
  ASSUME IsoInv, NEW c \in Callers, NEW what \in Errors, Fails(c, what), UNCHANGED <<tagged, now, isos, calls>>,
         temps' \subseteq temps \ {c}
  PROVE  IsoInv'
<1> DEFINE r == [call[c] EXCEPT !.pc = "done", !.err = what]
<1>1. call[c] \in Calls /\ CallOK(call[c], tagged, DOMAIN isos)
  BY DEF IsoInv, IsoTypeOK
<1>2. r \in Calls
  BY <1>1 DEF Calls
<1>3. CallOK(r, tagged, DOMAIN isos)
  <2>1. Attempted(r) /\ Opened(r)
    BY <1>1 DEF Calls, CallOK, Attempted, Opened
  <2>2. Tagged(r, tagged)
    BY <1>1 DEF Calls, CallOK, Tagged
  <2>3. Chosen(r)
    BY <1>1 DEF Calls, CallOK, Chosen
  <2>4. Linked(r)
    BY <1>1 DEF Calls, CallOK, Linked, Resolving
  <2>5. Delivered(r, DOMAIN isos)
    BY <1>1 DEF Calls, CallOK, Delivered
  <2>6. QED BY <2>1, <2>2, <2>3, <2>4, <2>5 DEF CallOK
<1>4. QED
  BY <1>2, <1>3, OneCall DEF Fails, Becomes, IsoInv, IsoTypeOK

\* The bound on tries, with its consequences for comparisons.
LEMMA AttemptsPositive == skuInfoMaxAttempts \in Nat /\ 0 < skuInfoMaxAttempts /\ 0 <= skuInfoMaxAttempts
<1>1. skuInfoMaxAttempts \in Nat \ {0}
  BY IsoResolverAssumption
<1>2. QED BY <1>1

\* A call that has not begun.
LEMMA FreshIsOK ==
  Fresh \in Calls /\ Attempted(Fresh) /\ Fresh.opened = -1
<1>1. Fresh \in Calls
  BY DEF Fresh, Calls, Errors
<1>2. Attempted(Fresh) /\ Fresh.opened = -1
  BY AttemptsPositive DEF Fresh, Attempted
<1>3. QED BY <1>1, <1>2

\* Each step of a call keeps the invariant: it begins, by ID, by name or with a
\* link of the caller's,
LEMMA BeginIsOK ==
  ASSUME IsoInv, NEW c \in Callers, NEW r \in Requests, Begin(c, r)
  PROVE  IsoInv'
<1> DEFINE old == call[c]
           product == [edition |-> r.edition, labels |-> {}, arch |-> r.arch]
           byName == [Fresh EXCEPT !.pc = "scrape", !.req = r, !.session = calls + 1]
           byId == [Fresh EXCEPT !.pc = "tag", !.req = r, !.session = calls + 1, !.product = <<product>>]
           given == [Fresh EXCEPT !.pc = "open", !.req = r, !.link = old.link, !.arch = old.arch, !.session = old.session]
<1>1. old \in Calls /\ CallOK(old, tagged, DOMAIN isos) /\ calls \in Nat /\ calls + 1 \in Nat
  BY DEF IsoInv, IsoTypeOK
<1>2. c \notin temps
  BY DEF Begin, IsoInv
<1>3. skuInfoMaxAttempts \in Nat /\ 0 < skuInfoMaxAttempts /\ 0 <= skuInfoMaxAttempts
  BY AttemptsPositive
<1>4. CASE r.by = "name" /\ call' = [call EXCEPT ![c] = byName]
  <2>1. \A k \in Calls : [k EXCEPT !.pc = "scrape", !.req = r, !.session = calls + 1] \in Calls
    BY ZenonT(60), <1>1 DEF Calls
  <2>2. byName \in Calls
    BY <2>1, FreshIsOK
  <2>3. CallOK(byName, tagged, DOMAIN isos)
    BY <1>3, <1>4 DEF Fresh, CallOK, Attempted, Tagged, Chosen, Linked, Resolving, Opened, Delivered
  <2>4. QED BY <1>1, <1>2, <1>4, <2>2, <2>3, OneCall DEF Begin, IsoInv, IsoTypeOK
<1>5. CASE r.by = "id" /\ call' = [call EXCEPT ![c] = byId]
  <2>1. <<product>> \in Seq(Asked)
    <3>1. product \in Asked
      BY DEF Asked
    <3>2. QED BY <3>1
  <2>2. \A k \in Calls : [k EXCEPT !.pc = "tag", !.req = r, !.session = calls + 1, !.product = <<product>>] \in Calls
    BY ZenonT(60), <1>1, <2>1 DEF Calls
  <2>3. byId \in Calls
    BY <2>2, FreshIsOK
  <2>4. byId.product = <<product>> /\ byId.sku = <<>> /\ byId.req = r /\ byId.pc = "tag"
    BY DEF Fresh
  <2>5. <<product>> # <<>> /\ <<product>>[1].arch = r.arch
    OBVIOUS
  <2>6. Chosen(byId)
    BY <2>4, <2>5 DEF Chosen
  <2>7. CallOK(byId, tagged, DOMAIN isos)
    BY <1>3, <1>5, <2>6 DEF Fresh, CallOK, Attempted, Tagged, Linked, Resolving, Opened, Delivered
  <2>8. QED BY <1>1, <1>2, <1>5, <2>3, <2>7, OneCall DEF Begin, IsoInv, IsoTypeOK
<1>6. CASE r.by \notin {"name", "id"} /\ old.link # NoLink /\ call' = [call EXCEPT ![c] = given]
  <2>1. \A k \in Calls, link \in Links \cup {NoLink}, arch \in {""} \cup Arches, session \in Nat :
          [k EXCEPT !.pc = "open", !.req = r, !.link = link, !.arch = arch, !.session = session] \in Calls
    BY ZenonT(60) DEF Calls
  <2>2. given \in Calls
    <3>1. old.link \in Links \cup {NoLink} /\ old.arch \in {""} \cup Arches /\ old.session \in Nat
      BY <1>1 DEF Calls
    <3>2. QED BY <2>1, <3>1, FreshIsOK
  <2>3. /\ given.pc = "open" /\ given.req = r /\ given.link = old.link /\ given.product = <<>> /\ given.sku = <<>>
        /\ given.attempt = 0 /\ given.opened = -1 /\ given.path = ""
    BY DEF Fresh
  <2> HIDE DEF given
  <2>4. given.link \in Links
    BY <1>1, <1>6, <2>3 DEF Calls
  <2>5. ~(0 <= -1) /\ ~(-1 >= 0)
    OBVIOUS
  <2>6. Attempted(given) /\ Opened(given)
    <3>1. Attempted(given)
      <4>1. 0 <= skuInfoMaxAttempts
        BY <1>3
      <4>2. QED BY <2>3, <4>1 DEF Attempted
    <3>2. Opened(given)
      BY <2>3, <2>5 DEF Opened
    <3>3. QED BY <3>1, <3>2
  <2>7. Tagged(given, tagged) /\ Linked(given) /\ Chosen(given) /\ Delivered(given, DOMAIN isos)
    BY <1>6, <2>3, <2>4 DEF Tagged, Chosen, Linked, Resolving, Delivered
  <2>8. QED BY <1>1, <1>2, <1>6, <2>2, <2>6, <2>7, OneCall DEF Begin, IsoInv, IsoTypeOK, CallOK
<1>7. QED BY <1>4, <1>5, <1>6 DEF Begin, Becomes

\* reads the product page,
LEMMA ScrapeIsOK ==
  ASSUME IsoInv, NEW c \in Callers, Scrape(c)
  PROVE  IsoInv'
<1> DEFINE old == call[c]
           want == old.req.arch
           page == Pages[old.page]
           Other(a) == want # "" /\ a # "" /\ a # want
           more == IF Other(page.arch) THEN <<>> ELSE page.products
           all == old.found \o more
           first == SelectInSeq(all, LAMBDA p : ~Other(p.arch) /\ old.req.name \in p.labels)
           next == [old EXCEPT !.found = all, !.page = @ + 1]
           picked == [next EXCEPT !.pc = "tag", !.product = <<all[first]>>]
<1>1. old \in Calls /\ CallOK(old, tagged, DOMAIN isos) /\ old.pc = "scrape" /\ c \notin temps
  BY DEF IsoInv, IsoTypeOK, Scrape
<1>2. ASSUME old.page \in 1..Len(Pages)
      PROVE  all \in Seq(Products) /\ next \in Calls
  <2>1. page \in ToSet(Pages)
    BY <1>2, IsoResolverAssumption DEF ToSet
  <2>2. page.products \in Seq(ToSet(page.products)) /\ ToSet(page.products) \subseteq Products
    BY <2>1, IsoResolverAssumption DEF Products
  <2>3. page.products \in Seq(Products)
    BY <2>2, SeqMonotonic
  <2>4. old.found \in Seq(Products)
    BY <1>1 DEF Calls
  <2>5. all \in Seq(Products)
    <3>1. more = <<>> \/ more = page.products
      OBVIOUS
    <3> HIDE DEF more
    <3>2. more \in Seq(Products)
      BY <2>3, <3>1, EmptySeq
    <3>3. QED BY <2>4, <3>2, ConcatProperties
  <2> HIDE DEF all
  <2>6. \A k \in Calls : [k EXCEPT !.found = all, !.page = @ + 1] \in Calls
    <3>1. \A k \in Calls, n \in Nat \ {0} : [k EXCEPT !.found = all, !.page = n] \in Calls
      BY <2>5 DEF Calls
    <3>2. \A k \in Calls : k.page \in Nat \ {0}
      BY DEF Calls
    <3>3. \A n \in Nat \ {0} : n + 1 \in Nat \ {0}
      OBVIOUS
    <3>4. QED BY <3>1, <3>2, <3>3
  <2>7. QED BY <1>1, <2>5, <2>6
<1>3. CallOK(next, tagged, DOMAIN isos)
  BY <1>1 DEF Calls, CallOK, Attempted, Tagged, Chosen, Linked, Resolving, Opened, Delivered
<1>4. CASE Fails(c, "fetch page") \/ Fails(c, "no product")
  BY <1>1, <1>4, FailsIsOK DEF Scrape, Errors
<1>5. old.page < Len(Pages) \/ old.page = Len(Pages) => old.page \in 1..Len(Pages)
  <2>1. Len(Pages) \in Nat
    BY IsoResolverAssumption, LenProperties
  <2>2. old.page \in Nat \ {0}
    BY <1>1 DEF Calls
  <2>3. QED BY <2>1, <2>2
<1>6. CASE call' = [call EXCEPT ![c] = next] /\ old.page < Len(Pages)
  <2>1. next \in Calls
    BY <1>2, <1>5, <1>6
  <2> HIDE DEF next
  <2>2. QED BY <1>1, <1>3, <1>6, <2>1, OneCall DEF Scrape, IsoInv, IsoTypeOK
<1>7. CASE call' = [call EXCEPT ![c] = picked] /\ old.page = Len(Pages) /\ first # 0
  <2>1. all \in Seq(Products) /\ next \in Calls
    BY <1>2, <1>5, <1>7
  <2> DEFINE matching == {k \in 1..Len(all) : ~Other(all[k].arch) /\ old.req.name \in all[k].labels}
  <2>2. first = IF matching # {} THEN Min(matching) ELSE 0
    BY DEF SelectInSeq
  <2>3. matching \in SUBSET Nat /\ \A k \in matching : all[k] \in Products /\ ~Other(all[k].arch)
    <3> HIDE DEF all, Other
    <3>1. QED BY <2>1, ElementOfSeq
  <2> HIDE DEF matching
  <2>4. first \in matching
    BY <1>7, <2>2, <2>3, MinIsIn
  <2>5. PICK p \in Products : ~Other(p.arch) /\ picked = [next EXCEPT !.pc = "tag", !.product = <<p>>]
    BY <2>3, <2>4
  <2> HIDE DEF picked, first
  <2>6. <<p>> \in Seq(Asked) /\ <<p>> # <<>> /\ <<p>>[1] = p
    BY DEF Asked
  <2>7. picked \in Calls
    BY ZenonT(60), <2>1, <2>5, <2>6 DEF Calls
  <2>8. next.pc = "scrape" /\ next.req.arch = want
    BY <1>1 DEF Calls
  <2> HIDE DEF next
  <2>9. CallOK(picked, tagged, DOMAIN isos)
    <3>1. Chosen(picked)
      BY <1>3, <2>1, <2>5, <2>6, <2>8 DEF Calls, Chosen, CallOK
    <3>2. QED BY <1>3, <2>1, <2>5, <2>8, <3>1
              DEF Calls, CallOK, Attempted, Tagged, Linked, Resolving, Opened, Delivered
  <2>10. QED BY <1>1, <1>7, <2>7, <2>9, OneCall DEF Scrape, IsoInv, IsoTypeOK
<1>8. QED BY <1>4, <1>6, <1>7 DEF Scrape, Becomes

\* A step of one caller between its tag and its temporary file, which leaves
\* the files alone.
LEMMA TagIsOK ==
  ASSUME IsoInv, NEW c \in Callers, Tag(c)
  PROVE  IsoInv'
<1> DEFINE old == call[c]
           next == [old EXCEPT !.pc = "ovdf"]
<1>1. old \in Calls /\ CallOK(old, tagged, DOMAIN isos) /\ old.pc = "tag" /\ c \notin temps
  BY DEF IsoInv, IsoTypeOK, Tag
<1>2. CASE Fails(c, "vlscppe tag") /\ UNCHANGED tagged
  BY <1>1, <1>2, FailsIsOK DEF Tag, Errors
<1>3. CASE call' = [call EXCEPT ![c] = next] /\ tagged' = tagged \cup {old.session}
  <2>1. next \in Calls
    BY <1>1 DEF Calls
  <2>2. CallOK(next, tagged \cup {old.session}, DOMAIN isos)
    BY <1>1 DEF Calls, CallOK, Attempted, Tagged, Chosen, Linked, Resolving, Opened, Delivered
  <2> HIDE DEF next
  <2>3. QED BY <1>1, <1>3, <2>1, <2>2, OneCall DEF Tag, IsoInv, IsoTypeOK
<1>4. QED BY <1>2, <1>3 DEF Tag, Becomes

\* completes the session at ov-df,
LEMMA CompleteOVDFIsOK ==
  ASSUME IsoInv, NEW c \in Callers, CompleteOVDF(c)
  PROVE  IsoInv'
<1> DEFINE old == call[c]
           next == [old EXCEPT !.pc = "sku"]
<1>1. old \in Calls /\ CallOK(old, tagged, DOMAIN isos) /\ old.pc = "ovdf" /\ c \notin temps
  BY DEF IsoInv, IsoTypeOK, CompleteOVDF
<1>2. skuInfoMaxAttempts \in Nat /\ 0 < skuInfoMaxAttempts /\ 0 <= skuInfoMaxAttempts
  BY AttemptsPositive
<1>3. next \in Calls
  BY <1>1 DEF Calls
<1>4. CallOK(next, tagged, DOMAIN isos)
  <2>1. Attempted(next)
    <3>1. 0 < skuInfoMaxAttempts /\ 0 <= skuInfoMaxAttempts
      BY <1>2
    <3>2. next.attempt = 0 /\ next.pc = "sku"
      BY <1>1 DEF Calls, CallOK, Attempted
    <3>3. QED BY <3>1, <3>2 DEF Attempted
  <2>2. Tagged(next, tagged) /\ Chosen(next) /\ Linked(next)
    BY <1>1 DEF Calls, CallOK, Tagged, Chosen, Linked, Resolving
  <2>3. Opened(next) /\ Delivered(next, DOMAIN isos)
    BY <1>1 DEF Calls, CallOK, Opened, Delivered
  <2>4. QED BY <2>1, <2>2, <2>3 DEF CallOK
<1> HIDE DEF next
<1>5. QED BY <1>1, <1>3, <1>4, OneCall DEF CompleteOVDF, Becomes, IsoInv, IsoTypeOK, next

\* tries again after a bad answer, up to skuInfoMaxAttempts times,
LEMMA SkuBadIsOK ==
  ASSUME IsoInv, NEW c \in Callers, SkuBad(c)
  PROVE  IsoInv'
<1> DEFINE old == call[c]
           n == old.attempt + 1
           again == [old EXCEPT !.attempt = n]
           last == [old EXCEPT !.attempt = n, !.pc = "done", !.err = "resolve language"]
<1>1. old \in Calls /\ CallOK(old, tagged, DOMAIN isos) /\ old.pc = "sku" /\ c \notin temps
  BY DEF IsoInv, IsoTypeOK, SkuBad
<1>2. skuInfoMaxAttempts \in Nat /\ n \in Nat /\ n <= skuInfoMaxAttempts
  <2>1. old.attempt \in Nat
    BY <1>1 DEF Calls
  <2>2. old.attempt < skuInfoMaxAttempts
    BY <1>1 DEF CallOK, Attempted
  <2>3. QED BY <2>1, <2>2, AttemptsPositive
<1>3. \/ n < skuInfoMaxAttempts /\ call' = [call EXCEPT ![c] = again]
      \/ call' = [call EXCEPT ![c] = last]
  BY DEF SkuBad, Becomes
<1> HIDE DEF n
<1>4. again \in Calls /\ last \in Calls
  BY ZenonT(60), <1>1, <1>2 DEF Calls, Errors
<1>5. /\ again.attempt = n /\ again.pc = "sku"
      /\ last.attempt = n /\ last.pc = "done"
  BY <1>1 DEF Calls
<1>6. /\ Tagged(again, tagged) /\ Linked(again) /\ Chosen(again)
      /\ Tagged(last, tagged) /\ Linked(last) /\ Chosen(last)
  BY <1>1 DEF Calls, CallOK, Tagged, Chosen, Linked, Resolving
<1>7. /\ Opened(again) /\ Delivered(again, DOMAIN isos)
      /\ Opened(last) /\ Delivered(last, DOMAIN isos)
  BY <1>1 DEF Calls, CallOK, Opened, Delivered
<1> HIDE DEF again, last
<1>8. Attempted(last) /\ (n < skuInfoMaxAttempts => Attempted(again))
  BY <1>2, <1>5 DEF Attempted
<1>9. CASE n < skuInfoMaxAttempts /\ call' = [call EXCEPT ![c] = again]
  BY <1>1, <1>4, <1>6, <1>7, <1>8, <1>9, OneCall DEF SkuBad, IsoInv, IsoTypeOK, CallOK
<1>10. CASE call' = [call EXCEPT ![c] = last]
  BY <1>1, <1>4, <1>6, <1>7, <1>8, <1>10, OneCall DEF SkuBad, IsoInv, IsoTypeOK, CallOK
<1>11. QED BY <1>3, <1>9, <1>10

\* picks a SKU from the answer,
LEMMA SkuAnsweredIsOK ==
  ASSUME IsoInv, NEW c \in Callers, SkuAnswered(c)
  PROVE  IsoInv'
<1> DEFINE old == call[c]
           n == old.attempt + 1
<1>1. old \in Calls /\ CallOK(old, tagged, DOMAIN isos) /\ old.pc = "sku" /\ c \notin temps
  BY DEF IsoInv, IsoTypeOK, SkuAnswered
<1>2. PICK skus \in SkuLists :
        LET sku == selectSKU(skus, old.req.lang)
            next == [old EXCEPT !.attempt = n, !.skus = skus, !.sku = sku]
        IN  call' = [call EXCEPT ![c] = IF sku = <<>> THEN [next EXCEPT !.pc = "done", !.err = "language"]
                                        ELSE [next EXCEPT !.pc = "link"]]
  BY DEF SkuAnswered, Becomes
<1> DEFINE sku == selectSKU(skus, old.req.lang)
           next == [old EXCEPT !.attempt = n, !.skus = skus, !.sku = sku]
           none == [next EXCEPT !.pc = "done", !.err = "language"]
           some == [next EXCEPT !.pc = "link"]
<1>3. /\ sku \in Seq(Skus)
      /\ sku # <<>> => /\ old.req.lang \in sku[1].exact \cup sku[1].part
                       /\ (\E s \in ToSet(skus) : old.req.lang \in s.exact) => old.req.lang \in sku[1].exact
  <2>1. CASE sku = <<>>
    BY <2>1, EmptySeq
  <2>2. CASE sku # <<>>
    BY <2>2, SelectSkuIsExact
  <2>3. QED BY <2>1, <2>2
<1>4. skuInfoMaxAttempts \in Nat /\ n \in Nat /\ n <= skuInfoMaxAttempts
  <2>1. old.attempt \in Nat
    BY <1>1 DEF Calls
  <2>2. old.attempt < skuInfoMaxAttempts
    BY <1>1 DEF CallOK, Attempted
  <2>3. QED BY <2>1, <2>2, AttemptsPositive
<1>5. IF sku = <<>> THEN call' = [call EXCEPT ![c] = none] ELSE call' = [call EXCEPT ![c] = some]
  BY <1>2
<1> HIDE DEF sku, n
<1>6. next \in Calls
  BY <1>1, <1>3, <1>4 DEF Calls
<1>7. /\ next.pc = "sku" /\ next.req = old.req /\ next.sku = sku /\ next.skus = skus /\ next.attempt = n
      /\ next.product = old.product
  BY <1>1 DEF Calls
<1>8. Tagged(next, tagged) /\ Linked(next) /\ Opened(next) /\ Delivered(next, DOMAIN isos)
  BY <1>1 DEF Calls, CallOK, Tagged, Linked, Resolving, Opened, Delivered
<1>9. next.product # <<>> /\ (next.req.arch # "" => next.product[1].arch \in {"", next.req.arch})
  BY <1>1, <1>7 DEF CallOK, Chosen
<1> HIDE DEF next
<1>10. none \in Calls /\ some \in Calls
  <2>1. none \in Calls
    BY ZenonT(60), <1>6 DEF Calls, Errors
  <2>2. some \in Calls
    BY <1>6 DEF Calls
  <2>3. QED BY <2>1, <2>2
<1>11. CallOK(none, tagged, DOMAIN isos)
  <2>1. Attempted(none) /\ Opened(none)
    BY <1>4, <1>6, <1>7, <1>8 DEF Calls, Attempted, Opened
  <2>2. Tagged(none, tagged) /\ Linked(none) /\ Delivered(none, DOMAIN isos)
    BY <1>6, <1>7, <1>8 DEF Calls, Tagged, Linked, Resolving, Delivered
  <2>3. Chosen(none)
    BY <1>3, <1>6, <1>7, <1>9 DEF Calls, Chosen
  <2>4. QED BY <2>1, <2>2, <2>3 DEF CallOK
<1>12. CallOK(some, tagged, DOMAIN isos) \/ sku = <<>>
  <2>1. Attempted(some) /\ Opened(some)
    BY <1>4, <1>6, <1>7, <1>8 DEF Calls, Attempted, Opened
  <2>2. Tagged(some, tagged) /\ Linked(some) /\ Delivered(some, DOMAIN isos)
    BY <1>6, <1>7, <1>8 DEF Calls, Tagged, Linked, Resolving, Delivered
  <2>3. Chosen(some) \/ sku = <<>>
    BY <1>3, <1>6, <1>7, <1>9 DEF Calls, Chosen
  <2>4. QED BY <2>1, <2>2, <2>3 DEF CallOK
<1> HIDE DEF none, some
<1>13. QED BY <1>1, <1>5, <1>10, <1>11, <1>12, OneCall DEF SkuAnswered, IsoInv, IsoTypeOK

\* takes a link of the architecture,
LEMMA ResolveLinkIsOK ==
  ASSUME IsoInv, NEW c \in Callers, ResolveLink(c)
  PROVE  IsoInv'
<1> DEFINE old == call[c]
<1>1. old \in Calls /\ CallOK(old, tagged, DOMAIN isos) /\ old.pc = "link" /\ c \notin temps
  BY DEF IsoInv, IsoTypeOK, ResolveLink
<1>2. CASE Fails(c, "fetch link") \/ Fails(c, "other arch")
  BY <1>1, <1>2, FailsIsOK DEF ResolveLink, Errors
<1>3. ASSUME NEW link \in Links, NEW pc \in {"open", "done"},
             LET arch == ArchOfLink(old.product[1], link)
             IN  /\ ~(old.req.arch # "" /\ arch # "" /\ arch # old.req.arch)
                 /\ call' = [call EXCEPT ![c] = [old EXCEPT !.link = link, !.arch = arch, !.pc = pc]]
      PROVE  IsoInv'
  <2> DEFINE arch == ArchOfLink(old.product[1], link)
             next == [old EXCEPT !.link = link, !.arch = arch, !.pc = pc]
  <2>1. old.product \in Seq(Asked) /\ old.product # <<>> /\ old.sku # <<>> /\ old.opened = -1 /\ old.path = ""
    BY <1>1 DEF Calls, CallOK, Chosen, Opened, Delivered
  <2>2. old.product[1] \in Asked
    <3>1. Len(old.product) \in Nat /\ Len(old.product) # 0
      BY <2>1, LenProperties, EmptySeq
    <3>2. 1 \in 1..Len(old.product)
      BY <3>1
    <3>3. QED BY <2>1, <3>2, ElementOfSeq
  <2>3. arch \in Arches /\ (link.token # "" => arch = link.token)
    BY <2>2 DEF ArchOfLink, Arches
  <2>4. arch # "" => old.req.arch \in {"", arch} /\ link.token \in {"", arch}
    BY <1>3, <2>3
  <2>5. call' = [call EXCEPT ![c] = next]
    BY <1>3
  <2> HIDE DEF arch
  <2>6. next \in Calls
    BY <1>1, <2>3 DEF Calls
  <2>7. /\ next.pc = pc /\ next.link = link /\ next.arch = arch /\ next.req = old.req /\ next.product = old.product
        /\ next.sku = old.sku /\ next.skus = old.skus /\ next.session = old.session /\ next.attempt = old.attempt
        /\ next.opened = old.opened /\ next.path = old.path
    BY <1>1 DEF Calls
  <2> HIDE DEF next
  <2>8. Attempted(next) /\ Tagged(next, tagged)
    BY <1>1, <2>7 DEF CallOK, Attempted, Tagged
  <2>9. Chosen(next) /\ Linked(next)
    BY <1>1, <2>1, <2>4, <2>7 DEF CallOK, Chosen, Linked, Resolving
  <2>10. Opened(next) /\ Delivered(next, DOMAIN isos)
    <3>1. ~(-1 >= 0)
      OBVIOUS
    <3>2. QED BY <2>1, <2>7, <3>1 DEF Opened, Delivered
  <2>11. QED BY <1>1, <2>5, <2>6, <2>8, <2>9, <2>10, OneCall DEF ResolveLink, IsoInv, IsoTypeOK, CallOK
<1>4. QED BY <1>2, <1>3 DEF ResolveLink, Becomes

\* finds the file there already, or opens the link while it is valid,
LEMMA OpenIsOK ==
  ASSUME IsoInv, NEW c \in Callers, Open(c)
  PROVE  IsoInv'
<1> DEFINE old == call[c]
           taken == [old EXCEPT !.pc = "done", !.path = old.link.file]
           body == [old EXCEPT !.pc = "body", !.opened = now]
<1>1. /\ old \in Calls /\ CallOK(old, tagged, DOMAIN isos) /\ old.pc = "open" /\ c \notin temps
      /\ now \in Nat
  BY DEF IsoInv, IsoTypeOK, Open
<1>2. old.link \in Links /\ old.link.file \in Files /\ old.link.expires \in Nat
  BY <1>1, IsoResolverAssumption DEF CallOK, Linked, Files
<1>3. CASE (Fails(c, "expired") \/ Fails(c, "download")) /\ UNCHANGED temps
  BY <1>1, <1>3, FailsIsOK DEF Open, Errors
<1>4. CASE /\ old.link.file \in DOMAIN isos /\ old.req.size > 0
           /\ call' = [call EXCEPT ![c] = taken] /\ UNCHANGED temps
  <2>1. taken \in Calls
    BY <1>1, <1>2 DEF Calls
  <2>2. CallOK(taken, tagged, DOMAIN isos)
    BY <1>1, <1>4 DEF Calls, CallOK, Attempted, Tagged, Chosen, Linked, Resolving, Opened, Delivered
  <2> HIDE DEF taken
  <2>3. QED BY <1>1, <1>4, <2>1, <2>2, OneCall DEF Open, IsoInv, IsoTypeOK
<1>5. CASE ~Expired(c) /\ call' = [call EXCEPT ![c] = body] /\ temps' = temps \cup {c}
  <2>1. body \in Calls
    BY <1>1 DEF Calls
  <2>2. CallOK(body, tagged, DOMAIN isos)
    <3>1. old.link.expires = 0 \/ now <= old.link.expires
      BY <1>1, <1>2, <1>5 DEF Expired
    <3>2. body.opened = now /\ body.link = old.link /\ body.pc = "body"
      BY <1>1 DEF Calls
    <3>3. now >= 0
      BY <1>1
    <3>4. Attempted(body) /\ Tagged(body, tagged) /\ Chosen(body) /\ Linked(body) /\ Delivered(body, DOMAIN isos)
      BY <1>1 DEF Calls, CallOK, Attempted, Tagged, Chosen, Linked, Resolving, Delivered
    <3> HIDE DEF body
    <3>5. Opened(body)
      BY <3>1, <3>2, <3>3 DEF Opened
    <3>6. QED BY <3>4, <3>5 DEF CallOK
  <2>3. body.pc = "body"
    BY <1>1 DEF Calls
  <2> HIDE DEF body
  <2>4. QED BY <1>1, <1>5, <2>1, <2>2, <2>3, OneCall DEF Open, IsoInv, IsoTypeOK
<1>6. QED BY <1>3, <1>4, <1>5 DEF Open, Becomes

\* and renames the whole body to its name, or removes its temporary file.
LEMMA BodyIsOK ==
  ASSUME IsoInv, NEW c \in Callers, Body(c)
  PROVE  IsoInv'
<1> DEFINE old == call[c]
           link == old.link
           done == [old EXCEPT !.pc = "done", !.path = link.file]
<1>1. old \in Calls /\ CallOK(old, tagged, DOMAIN isos) /\ old.pc = "body" /\ Whole(isos)
  BY DEF IsoInv, IsoTypeOK, Body
<1>2. link \in Links /\ link.file \in Files /\ ~(old.opened < 0)
  <2>1. link \in Links /\ old.opened >= 0
    BY <1>1 DEF CallOK, Linked, Opened
  <2>2. old.opened \in Nat \cup {-1}
    BY <1>1 DEF Calls
  <2>3. link.file \in Files
    BY <2>1 DEF Files
  <2>4. QED BY <2>1, <2>2, <2>3
<1>3. CASE Fails(c, "stream") /\ UNCHANGED isos
  <2>1. temps' = temps \ {c} /\ UNCHANGED <<tagged, now, calls>>
    BY DEF Body
  <2>2. QED BY <1>3, <2>1, FailsIsOK DEF Errors
<1>4. CASE /\ isos' = [n \in DOMAIN isos \cup {link.file} |-> IF n = link.file THEN link.content ELSE isos[n]]
           /\ call' = [call EXCEPT ![c] = done]
  <2>1. done \in Calls
    BY <1>1, <1>2 DEF Calls
  <2>2. Whole(isos') /\ DOMAIN isos' = DOMAIN isos \cup {link.file}
    BY <1>1, <1>2, <1>4 DEF Whole
  <2>3. CallOK(done, tagged, DOMAIN isos')
    <3>1. Attempted(done) /\ Tagged(done, tagged) /\ Chosen(done) /\ Linked(done)
      BY <1>1, <1>2 DEF Calls, CallOK, Attempted, Tagged, Chosen, Linked, Resolving
    <3>2. Opened(done)
      BY <1>1, <1>2 DEF Calls, CallOK, Opened
    <3>3. Delivered(done, DOMAIN isos')
      <4>1. done.path = link.file /\ done.pc = "done" /\ done.opened = old.opened
        BY <1>1 DEF Calls
      <4> HIDE DEF done
      <4>2. QED BY <1>2, <2>2, <4>1 DEF Delivered
    <3>4. QED BY <3>1, <3>2, <3>3 DEF CallOK
  <2> HIDE DEF done
  <2>4. QED BY <1>4, <2>1, <2>2, <2>3, OneCall DEF Body, IsoInv, IsoTypeOK
<1>5. QED BY <1>3, <1>4 DEF Body, Becomes

--------------------------------------------------------------------------------
\* The inductive invariant of the software-download callers.
LEMMA IsoInvariant == Spec => []IsoInv
<1>1. Init => IsoInv
  <2>1. ASSUME IsoInit PROVE IsoInv
    <3>1. \A c \in Callers : call[c] = Fresh
      BY <2>1 DEF IsoInit
    <3>2. CallOK(Fresh, tagged, DOMAIN isos)
      <4>1. ~(-1 >= 0)
        OBVIOUS
      <4>2. QED BY <4>1, FreshIsOK DEF CallOK, Fresh, Tagged, Chosen, Linked, Resolving, Opened, Delivered, NoRequest
    <3>3. Whole(isos)
      BY <2>1 DEF IsoInit, Whole
    <3>4. IsoTypeOK
      BY <2>1, FreshIsOK DEF IsoInit, IsoTypeOK
    <3>5. QED BY <2>1, <3>1, <3>2, <3>3, <3>4 DEF IsoInit, IsoInv
  <2>2. QED BY <2>1 DEF Init
<1>2. IsoInv /\ [Next]_vars => IsoInv'
  <2> SUFFICES ASSUME IsoInv, [Next]_vars PROVE IsoInv'
    OBVIOUS
  <2>1. ASSUME UNCHANGED isoVars PROVE IsoInv'
    BY <2>1 DEF isoVars, IsoInv, IsoTypeOK
  <2>2. ASSUME Tick PROVE IsoInv'
    BY <2>2 DEF Tick, IsoInv, IsoTypeOK
  <2>3. ASSUME NEW c \in Callers, CallStep(c) PROVE IsoInv'
    BY <2>3, BeginIsOK, ScrapeIsOK, TagIsOK, CompleteOVDFIsOK, SkuBadIsOK, SkuAnsweredIsOK, ResolveLinkIsOK, OpenIsOK, BodyIsOK
       DEF CallStep
  <2>4. QED BY <2>1, <2>2, <2>3 DEF Next, IsoNext, vars
<1>3. QED BY <1>1, <1>2, PTL DEF Spec

\* For any number of callers, calls and tries: a resolved link is of the
\* architecture and language asked for and out of a tagged session, a returned
\* path is of a whole file fetched under a live link, and no call that ended
\* leaves its temporary file (resolve.go, download.go).
THEOREM IsoAsRequestedTheorem == Spec => []IsoAsRequested
<1>1. IsoInv => IsoAsRequested
  <2> SUFFICES ASSUME IsoInv, NEW c \in Callers
               PROVE  LET k == call[c] IN
                      /\ k.attempt <= skuInfoMaxAttempts
                      /\ k.pc = "done" => c \notin temps
                      /\ k.req.by \in {"id", "name"} /\ k.link # NoLink =>
                           /\ k.session \in tagged
                           /\ k.arch # "" => k.req.arch \in {"", k.arch} /\ k.link.token \in {"", k.arch}
                           /\ (\E s \in ToSet(k.skus) : k.req.lang \in s.exact) => k.req.lang \in k.sku[1].exact
                           /\ k.req.lang \in k.sku[1].exact \cup k.sku[1].part
                           /\ k.req.arch # "" => k.product[1].arch \in {"", k.req.arch}
                      /\ k.path # "" =>
                           /\ k.path \in DOMAIN isos
                           /\ isos[k.path] \in {link.content : link \in {l \in Links : l.file = k.path}}
                           /\ k.opened >= 0 => k.link.expires = 0 \/ k.opened <= k.link.expires
                           /\ k.opened < 0 => k.req.size > 0
    BY DEF IsoAsRequested
  <2> DEFINE k == call[c]
  <2>1. CallOK(k, tagged, DOMAIN isos)
    BY DEF IsoInv
  <2>2. k.attempt <= skuInfoMaxAttempts
    BY <2>1 DEF CallOK, Attempted
  <2>3. k.pc = "done" => c \notin temps
    BY DEF IsoInv
  <2>4. k.req.by \in {"id", "name"} /\ k.link # NoLink =>
          /\ k.session \in tagged
          /\ k.arch # "" => k.req.arch \in {"", k.arch} /\ k.link.token \in {"", k.arch}
          /\ (\E s \in ToSet(k.skus) : k.req.lang \in s.exact) => k.req.lang \in k.sku[1].exact
          /\ k.req.lang \in k.sku[1].exact \cup k.sku[1].part
          /\ k.req.arch # "" => k.product[1].arch \in {"", k.req.arch}
    BY <2>1 DEF CallOK, Tagged, Linked, Chosen
  <2>5. k.path # "" =>
          /\ k.path \in DOMAIN isos
          /\ isos[k.path] \in {link.content : link \in {l \in Links : l.file = k.path}}
          /\ k.opened >= 0 => k.link.expires = 0 \/ k.opened <= k.link.expires
          /\ k.opened < 0 => k.req.size > 0
    BY <2>1 DEF CallOK, Delivered, Opened, IsoInv, Whole
  <2>6. QED BY <2>2, <2>3, <2>4, <2>5
<1>2. QED BY <1>1, IsoInvariant, PTL

--------------------------------------------------------------------------------
\* Two records of one name are alike exactly when fileChanged sees no change.
LEMMA ChangedIsNotAlike ==
  ASSUME NEW f, NEW g
  PROVE  fileChanged(f, g) <=> ~Alike(f, g)
BY DEF fileChanged, Alike

\* A comparison of two lists replays the one into the other.
LEMMA DiffOfLists ==
  ASSUME NEW listA, NEW listB, listA \in Seq(ToSet(listA)), listB \in Seq(ToSet(listB))
  PROVE  LET d == diffFileSets(listA, listB)
             Named(files, n) == {f \in files : f.name = n}
             base == {f \in ToSet(listA) : f.name \notin {g.name : g \in d.removed \cup {c.target : c \in d.changed}}}
             patched == base \cup d.added \cup {c.target : c \in d.changed}
         IN  /\ {f.name : f \in patched} = Names(listB)
             /\ \A n \in Names(listB) :
                  \E f \in Named(patched, n), g \in Named(ToSet(listB), n) : Alike(f, g)
             /\ \A c \in d.changed : ~Alike(c.base, c.target) /\ c.base \in ToSet(listA)
             /\ Cardinality(d.added) + Cardinality(d.changed) + d.unchanged = Cardinality(Names(listB))
<1> DEFINE a == IndexByName(listA)
           b == IndexByName(listB)
           NA == Names(listA)
           NB == Names(listB)
           both == NA \cap NB
           changed == {n \in both : fileChanged(a[n], b[n])}
           d == diffFileSets(listA, listB)
           targets == {c.target : c \in d.changed}
           base == {f \in ToSet(listA) : f.name \notin {g.name : g \in d.removed \cup targets}}
           patched == base \cup d.added \cup targets
<1>1. /\ IsFiniteSet(NA) /\ DOMAIN a = NA
      /\ \A n \in NA : a[n] \in ToSet(listA) /\ a[n].name = n
      /\ IsFiniteSet(NB) /\ DOMAIN b = NB
      /\ \A n \in NB : b[n] \in ToSet(listB) /\ b[n].name = n
  BY IndexIs
<1>2. \A f \in ToSet(listA) : f.name \in NA
  BY DEF Names
<1>3. /\ d.added = {b[n] : n \in NB \ NA}
      /\ d.removed = {a[n] : n \in NA \ NB}
      /\ d.changed = {[name |-> n, base |-> a[n], target |-> b[n]] : n \in changed}
      /\ d.unchanged = Cardinality(both \ changed)
  BY <1>1 DEF diffFileSets
<1> HIDE DEF a, b, NA, NB, d
<1>4. targets = {b[n] : n \in changed}
  <2>1. \A n : [name |-> n, base |-> a[n], target |-> b[n]].target = b[n]
    OBVIOUS
  <2> DEFINE C(n) == [name |-> n, base |-> a[n], target |-> b[n]]
  <2> HIDE DEF changed
  <2>2. d.changed = {C(n) : n \in changed}
    BY <1>3
  <2> HIDE DEF C
  <2>3. \A t : t \in targets <=> \E n \in changed : t = C(n).target
    BY <2>2
  <2>4. \A n : C(n).target = b[n]
    BY <2>1 DEF C
  <2>5. QED BY <2>3, <2>4
<1> HIDE DEF targets
<1>5. changed \subseteq both /\ both \subseteq NA /\ both \subseteq NB
  OBVIOUS
<1>6. \A n \in both : n \notin changed => Alike(a[n], b[n])
  BY ChangedIsNotAlike
<1>7. \A n \in changed : ~Alike(a[n], b[n])
  BY ChangedIsNotAlike
<1> HIDE DEF changed
<1>8. {g.name : g \in d.removed \cup targets} = (NA \ NB) \cup changed
  <2>1. \A g \in d.removed : g.name \in NA \ NB
    BY <1>1, <1>3
  <2>2. \A g \in targets : g.name \in changed
    BY <1>1, <1>4, <1>5
  <2>3. \A n \in NA \ NB : a[n] \in d.removed /\ a[n].name = n
    BY <1>1, <1>3
  <2>4. \A n \in changed : b[n] \in targets /\ b[n].name = n
    BY <1>1, <1>4, <1>5
  <2>5. QED BY <2>1, <2>2, <2>3, <2>4
<1>9. \A f \in base : f \in ToSet(listA) /\ f.name \in both \ changed
  BY <1>2, <1>8
<1>10. \A n \in both \ changed : a[n] \in base /\ a[n].name = n
  BY <1>1, <1>8
<1>11. \A f \in d.added : f.name \in NB
  BY <1>1, <1>3
<1>12. \A f \in targets : f.name \in NB
  BY <1>1, <1>4, <1>5
<1> HIDE DEF base
<1>13. \A n \in NB : \E f \in patched, g \in ToSet(listB) : f.name = n /\ g.name = n /\ Alike(f, g)
  <2>1. TAKE n \in NB
  <2>2. b[n] \in ToSet(listB) /\ b[n].name = n
    BY <1>1
  <2>3. Alike(b[n], b[n])
    BY DEF Alike
  <2>4. CASE n \notin NA
    <3>1. b[n] \in d.added
      BY <1>3, <2>4
    <3>2. QED BY <2>2, <2>3, <3>1
  <2>5. CASE n \in changed
    <3>1. b[n] \in targets
      BY <1>4, <2>5
    <3>2. QED BY <2>2, <2>3, <3>1
  <2>6. CASE n \in NA /\ n \notin changed
    BY <1>6, <1>10, <2>2, <2>6
  <2>7. QED BY <2>4, <2>5, <2>6
<1>14. {f.name : f \in patched} = NB
  <2>1. \A f \in patched : f.name \in NB
    BY <1>9, <1>11, <1>12
  <2>2. QED BY <1>13, <2>1
<1>15. \A c \in d.changed : ~Alike(c.base, c.target) /\ c.base \in ToSet(listA)
  BY <1>1, <1>3, <1>5, <1>7
<1>16. Cardinality(d.added) = Cardinality(NB \ NA)
  <2> DEFINE g == [n \in NB \ NA |-> b[n]]
  <2>1. IsFiniteSet(NB \ NA)
    BY <1>1, FS_Subset
  <2>2. g \in [NB \ NA -> d.added] /\ \A t \in d.added : \E x \in NB \ NA : g[x] = t
    BY <1>3
  <2>3. \A x, y \in NB \ NA : g[x] = g[y] => x = y
    BY <1>1
  <2> HIDE DEF g
  <2>4. QED BY <2>1, <2>2, <2>3, SameSize
<1>17. Cardinality(d.changed) = Cardinality(changed)
  <2> DEFINE g == [n \in changed |-> [name |-> n, base |-> a[n], target |-> b[n]]]
  <2>1. IsFiniteSet(changed)
    BY <1>1, <1>5, FS_Subset
  <2>2. g \in [changed -> d.changed] /\ \A t \in d.changed : \E x \in changed : g[x] = t
    BY <1>3
  <2>3. \A x, y \in changed : g[x] = g[y] => x = y
    OBVIOUS
  <2> HIDE DEF g
  <2>4. QED BY <2>1, <2>2, <2>3, SameSize
<1>18. Cardinality(NB \ NA) + Cardinality(changed) + Cardinality(both \ changed) = Cardinality(NB)
  <2>1. IsFiniteSet(NB \ NA) /\ IsFiniteSet(changed) /\ IsFiniteSet(both \ changed) /\ IsFiniteSet(both)
    BY <1>1, <1>5, FS_Subset
  <2>2. both = changed \cup (both \ changed) /\ changed \cap (both \ changed) = {}
    BY <1>5
  <2>3. NB = (NB \ NA) \cup both /\ (NB \ NA) \cap both = {}
    BY <1>5
  <2>4. Cardinality({}) = 0
    BY FS_EmptySet
  <2>5. /\ Cardinality(NB \ NA) \in Nat /\ Cardinality(changed) \in Nat /\ Cardinality(both \ changed) \in Nat
        /\ Cardinality(both) \in Nat
    BY <2>1, FS_CardinalityType
  <2> HIDE DEF both
  <2>6. Cardinality(both) = Cardinality(changed) + Cardinality(both \ changed) - 0
    BY <2>1, <2>2, <2>4, FS_Union
  <2>7. Cardinality(NB) = Cardinality(NB \ NA) + Cardinality(both) - 0
    BY <2>1, <2>3, <2>4, FS_Union
  <2>8. QED BY <2>5, <2>6, <2>7
<1>19. QED BY <1>3, <1>13, <1>14, <1>15, <1>16, <1>17, <1>18 DEF d, NB, base, targets

--------------------------------------------------------------------------------
\* The filters let through every name they are documented to keep, and only
\* names with the asked extension.
LEMMA FiltersAreSound ==
  ASSUME NEW n, NEW cfg
  PROVE  /\ Passes(n, cfg) => cfg.ext \in {"", n.ext}
         /\ Wanted(n, cfg) => Passes(n, cfg)
<1>1. \A m \in {"professional", "core", "enterprise", "education", "server"} : ~HasPart("", m)
  BY DEF HasPart, LongerToken
<1>2. n.edition = "" => ~hasEditionMarker(n)
  BY <1>1 DEF hasEditionMarker
<1>3. HasPart(n.edition, n.edition)
  BY DEF HasPart
<1>4. ASSUME Passes(n, cfg) PROVE cfg.ext \in {"", n.ext}
  BY <1>4 DEF Passes
<1>5. ASSUME Wanted(n, cfg) PROVE Passes(n, cfg)
  <2>1. cfg.ext # "" => n.ext = cfg.ext
    BY <1>5 DEF Wanted
  <2>2. cfg.lang # "" => isNeutral(n) \/ n.lang = cfg.lang
    BY <1>5 DEF Wanted, isNeutral
  <2>3. cfg.edition # "" => ~hasEditionMarker(n) \/ HasPart(n.edition, cfg.edition)
    BY <1>2, <1>3, <1>5 DEF Wanted
  <2>4. QED BY <2>1, <2>2, <2>3 DEF Passes
<1>6. QED BY <1>4, <1>5

\* What the services send is well formed.
LEMMA OffersAreOK ==
  ASSUME NEW o \in DOMAIN Offers
  PROVE  /\ RespOK(Offers[o].sync)
         /\ \A uuid \in DOMAIN Offers[o].locations : PlacesOK(Offers[o].locations[uuid])
<1>1. RespOK(Offers[o].sync)
  BY ServicesAssumption DEF RespOK, BlobOK, DescribedOK
<1>2. \A uuid \in DOMAIN Offers[o].locations : PlacesOK(Offers[o].locations[uuid])
  BY ServicesAssumption DEF PlacesOK
<1>3. QED BY <1>1, <1>2

\* What was published under a UUID is what its first update describes.
LEMMA PublishedIs ==
  ASSUME NEW o \in DOMAIN Offers, NEW uuid
  PROVE  LET resp == Offers[o].sync
             id == resp.new[CHOOSE k \in NamedAt(resp, uuid) : \A j \in NamedAt(resp, uuid) : k <= j].id
         IN  /\ PublishedOf(o, uuid) = IF NamedAt(resp, uuid) = {} THEN {} ELSE Described(resp, id)
             /\ \A f \in PublishedOf(o, uuid) : DescribedOK(f)
<1> DEFINE resp == Offers[o].sync
           id == resp.new[CHOOSE k \in NamedAt(resp, uuid) : \A j \in NamedAt(resp, uuid) : k <= j].id
<1>1. PublishedOf(o, uuid) = IF NamedAt(resp, uuid) = {} THEN {} ELSE Described(resp, id)
  BY DEF PublishedOf, NamedAt, Described
<1>2. RespOK(resp)
  BY OffersAreOK
<1> HIDE DEF resp, id
<1>3. \A k \in DOMAIN resp.ext : resp.ext[k] \in ToSet(resp.ext)
  BY DEF ToSet
<1>4. \A f \in Described(resp, id) : DescribedOK(f)
  <2>1. TAKE f \in Described(resp, id)
  <2>2. PICK k \in DOMAIN resp.ext : f \in ToSet(resp.ext[k].files)
    BY DEF Described
  <2>3. QED BY <1>2, <1>3, <2>2 DEF RespOK, BlobOK
<1>5. QED BY <1>1, <1>4 DEF resp, id

\* What OfferAgrees says of a list that GetFiles returned.
ListAgrees(o, uuid, cfg, given, list) ==
  LET published == {f \in PublishedOf(o, uuid) : ~shouldExclude(f.name)}
      places == {l \in ToSet(given) : Usable(l)}
      Of(f, r) == r.name = f.name /\ r.sha1 = base64ToHex(f.digest)
      Alone(l) == l.digest.form = "base64" /\ \A m \in places : m.digest = l.digest => m.name = l.name
  IN  /\ \A r \in ToSet(list) : cfg.ext \in {"", r.name.ext}
      /\ ~cfg.urls =>
            /\ \A r \in ToSet(list) : \E f \in published : Of(f, r)
            /\ \A f \in published : Wanted(f.name, cfg) =>
                 \E r \in ToSet(list) : Of(f, r) /\ r.size = f.size /\ r.sha256 = base64ToHex(f.sha256)
      /\ cfg.urls =>
            /\ \A r \in ToSet(list) : \E l \in places : Of(l, r) /\ r.url /\ r.content = l.content
            /\ \A j, k \in DOMAIN list : list[j].sha1 = list[k].sha1 => j = k
            /\ \A l \in places : Wanted(l.name, cfg) /\ Alone(l) => \E r \in ToSet(list) : Of(l, r)

Placed(list) == \A r \in ToSet(list) : r.content \in Contents

\* Without places.
LEMMA MetadataAgrees ==
  ASSUME NEW o \in DOMAIN Offers, NEW uuid, NEW cfg, NEW given, ~cfg.urls
  PROVE  LET list == applyFileFilters(MetadataOf(ParseSyncUpdatesResponse(Offers[o].sync), uuid), cfg)
         IN  ListOK(list) /\ ListAgrees(o, uuid, cfg, given, list)
<1> DEFINE resp == Offers[o].sync
           all == MetadataOf(ParseSyncUpdatesResponse(resp), uuid)
           list == applyFileFilters(all, cfg)
           published == {f \in PublishedOf(o, uuid) : ~shouldExclude(f.name)}
<1>1. all \in Seq(ToSet(all)) /\ ToSet(all) = {Listed(f) : f \in published}
  <2> DEFINE id == resp.new[CHOOSE k \in NamedAt(resp, uuid) : \A j \in NamedAt(resp, uuid) : k <= j].id
             kept == IF NamedAt(resp, uuid) = {} THEN {} ELSE {f \in Described(resp, id) : ~shouldExclude(f.name)}
  <2>1. all \in Seq(ToSet(all)) /\ ToSet(all) = {Listed(f) : f \in kept}
    BY OffersAreOK, MetadataAre
  <2>2. PublishedOf(o, uuid) = IF NamedAt(resp, uuid) = {} THEN {} ELSE Described(resp, id)
    BY PublishedIs
  <2> HIDE DEF resp, id, all
  <2>3. kept = published
    BY <2>2
  <2>4. QED BY <2>1, <2>3
<1>2. \A f \in published : DescribedOK(f)
  BY PublishedIs
<1> HIDE DEF all, resp, published
<1>3. list \in Seq(ToSet(list)) /\ ToSet(list) = {r \in ToSet(all) : Passes(r.name, cfg)}
  BY <1>1, FiltersKeep
<1> HIDE DEF list
<1>4. \A f : /\ Listed(f).name = f.name /\ Listed(f).size = f.size
             /\ Listed(f).sha1 = base64ToHex(f.digest) /\ Listed(f).sha256 = base64ToHex(f.sha256)
  BY DEF Listed
<1>5. ListOK(list)
  <2>1. ASSUME NEW r \in ToSet(list) PROVE RecordOK(r)
    <3>1. PICK f \in published : r = Listed(f)
      BY <1>1, <1>3
    <3>2. f.size \in Nat /\ f.digest \in Digests("sha1") /\ f.sha256 \in Digests("sha256")
      BY <1>2 DEF DescribedOK
    <3>3. base64ToHex(f.digest) \in Digests("sha1") /\ base64ToHex(f.sha256) \in Digests("sha256")
      BY <3>2, HexTellsApart
    <3>4. QED BY <1>4, <3>1, <3>2, <3>3 DEF RecordOK
  <2>2. QED BY <1>3, <2>1 DEF ListOK
<1>6. \A r \in ToSet(list) : cfg.ext \in {"", r.name.ext} /\ \E f \in published : r.name = f.name /\ r.sha1 = base64ToHex(f.digest)
  <2>1. TAKE r \in ToSet(list)
  <2>2. cfg.ext \in {"", r.name.ext}
    BY <1>3, FiltersAreSound
  <2>3. PICK f \in published : r = Listed(f)
    BY <1>1, <1>3
  <2>4. QED BY <1>4, <2>2, <2>3
<1>7. \A f \in published : Wanted(f.name, cfg) => \E r \in ToSet(list) :
         r.name = f.name /\ r.sha1 = base64ToHex(f.digest) /\ r.size = f.size /\ r.sha256 = base64ToHex(f.sha256)
  <2>1. TAKE f \in published
  <2>2. HAVE Wanted(f.name, cfg)
  <2>3. Passes(Listed(f).name, cfg)
    BY <1>4, <2>2, FiltersAreSound
  <2>4. Listed(f) \in ToSet(list)
    BY <1>1, <1>3, <2>3
  <2>5. QED BY <1>4, <2>4
<1>8. ListAgrees(o, uuid, cfg, given, list)
  BY <1>6, <1>7 DEF ListAgrees, published
<1>9. QED BY <1>5, <1>8 DEF list, all, resp

\* With places, whatever they are.
LEMMA UrlsAgree ==
  ASSUME NEW locations, PlacesOK(locations), NEW o, NEW uuid, NEW cfg, cfg.urls
  PROVE  LET list == applyFileFilters(ParseFileURLs(locations), cfg)
         IN  ListOK(list) /\ Placed(list) /\ ListAgrees(o, uuid, cfg, locations, list)
<1> DEFINE all == ParseFileURLs(locations)
           list == applyFileFilters(all, cfg)
           places == {l \in ToSet(locations) : Usable(l)}
<1>2. /\ all \in Seq(ToSet(all))
      /\ \A r \in ToSet(all) : \E l \in places : r = FileURL(l)
      /\ \A l \in places : \E r \in ToSet(all) : r.sha1 = base64ToHex(l.digest)
      /\ \A j, k \in DOMAIN all : all[j].sha1 = all[k].sha1 => j = k
  BY UrlsAre
<1>4. \A l \in places : l.content \in Contents /\ l.digest \in Digests("sha1") /\ l.url
  BY DEF PlacesOK, Usable
<1> HIDE DEF all, places
<1>5. /\ list \in Seq(ToSet(list))
      /\ ToSet(list) = {r \in ToSet(all) : Passes(r.name, cfg)}
      /\ \E place \in [DOMAIN list -> DOMAIN all] :
           /\ \A i \in DOMAIN list : list[i] = all[place[i]]
           /\ \A i, j \in DOMAIN list : place[i] = place[j] => i = j
  BY <1>2, FiltersKeep
<1> HIDE DEF list
<1>6. \A l : /\ FileURL(l).name = l.name /\ FileURL(l).size = 0 /\ FileURL(l).sha1 = base64ToHex(l.digest)
             /\ FileURL(l).sha256 = NoDigest /\ FileURL(l).url = l.url /\ FileURL(l).content = l.content
  BY DEF FileURL
<1>7. ListOK(list) /\ Placed(list)
  <2>1. ASSUME NEW r \in ToSet(list) PROVE RecordOK(r) /\ r.content \in Contents
    <3>1. PICK l \in places : r = FileURL(l)
      BY <1>2, <1>5
    <3>2. base64ToHex(l.digest) \in Digests("sha1")
      BY <1>4, HexTellsApart
    <3>3. NoDigest \in Digests("sha256")
      BY DEF Digests
    <3>4. QED BY <1>4, <1>6, <3>1, <3>2, <3>3 DEF RecordOK
  <2>2. QED BY <1>5, <2>1 DEF ListOK, Placed
<1>8. \A r \in ToSet(list) : cfg.ext \in {"", r.name.ext}
  BY <1>5, FiltersAreSound
<1>8a. \A r \in ToSet(list) : \E l \in places :
         r.name = l.name /\ r.sha1 = base64ToHex(l.digest) /\ r.url /\ r.content = l.content
  <2>1. TAKE r \in ToSet(list)
  <2>3. PICK l \in places : r = FileURL(l)
    BY <1>2, <1>5
  <2>5. QED BY <1>4, <1>6, <2>3
<1>9. \A j, k \in DOMAIN list : list[j].sha1 = list[k].sha1 => j = k
  <2>1. PICK place \in [DOMAIN list -> DOMAIN all] :
          /\ \A i \in DOMAIN list : list[i] = all[place[i]]
          /\ \A i, j \in DOMAIN list : place[i] = place[j] => i = j
    BY <1>5
  <2>2. TAKE j, k \in DOMAIN list
  <2>3. HAVE list[j].sha1 = list[k].sha1
  <2>4. place[j] \in DOMAIN all /\ place[k] \in DOMAIN all
    BY <2>1
  <2>5. place[j] = place[k]
    BY <1>2, <2>1, <2>3, <2>4
  <2>6. QED BY <2>1, <2>5
<1>10. ASSUME NEW f \in places, Wanted(f.name, cfg), f.digest.form = "base64",
              \A g \in places : g.digest = f.digest => g.name = f.name
       PROVE  \E r \in ToSet(list) : r.name = f.name /\ r.sha1 = base64ToHex(f.digest)
  <2>2. PICK r \in ToSet(all) : r.sha1 = base64ToHex(f.digest)
    BY <1>2
  <2>3. PICK m \in places : r = FileURL(m)
    BY <1>2
  <2>4. m.digest = f.digest
    <3>1. base64ToHex(m.digest) = base64ToHex(f.digest)
      BY <1>6, <2>2, <2>3
    <3>2. f.digest \in Digests("sha1") /\ m.digest \in Digests("sha1")
      BY <1>4
    <3>3. QED BY <1>10, <3>1, <3>2, HexTellsApart
  <2>5. m.name = f.name
    BY <1>10, <2>4
  <2>6. Passes(r.name, cfg)
    BY <1>6, <1>10, <2>3, <2>5, FiltersAreSound
  <2>7. r \in ToSet(list)
    BY <1>5, <2>6
  <2>8. QED BY <1>6, <2>2, <2>3, <2>5, <2>7
<1>11. ListAgrees(o, uuid, cfg, locations, list)
  BY <1>8, <1>8a, <1>9, <1>10 DEF ListAgrees, places
<1>12. QED BY <1>7, <1>11 DEF list, all

\* What GetFiles returns for any build: of the offer of the moment.
LEMMA FilesNowAgree ==
  ASSUME offer \in DOMAIN Offers, NEW b, NEW cfg
  PROVE  /\ ListOK(FilesNow(b, cfg))
         /\ cfg.urls => Placed(FilesNow(b, cfg))
         /\ ListAgrees(offer, b.uuid, cfg, PlacesNow(b, cfg), FilesNow(b, cfg))
<1> DEFINE given == PlacesNow(b, cfg)
<1>1. FilesNow(b, cfg) = IF cfg.urls THEN applyFileFilters(ParseFileURLs(given), cfg)
                         ELSE applyFileFilters(MetadataOf(ParseSyncUpdatesResponse(Offers[offer].sync), b.uuid), cfg)
  BY DEF FilesNow, buildFileList
<1>2. PlacesOK(given)
  <2>1. PlacesOK(<<>>)
    BY EmptySeq DEF PlacesOK, ToSet
  <2>2. given = <<>> \/ (b.uuid \in DOMAIN Offers[offer].locations /\ given = Offers[offer].locations[b.uuid])
    <3> DEFINE attrs == BuildDeviceAttributes(b.arch, b.ring, b.version, b.sku)
    <3>1. given = <<>> \/ given = Answers(b, attrs)
      BY DEF PlacesNow
    <3> HIDE DEF attrs, given
    <3>2. QED BY <3>1 DEF Answers
  <2> HIDE DEF given
  <2>3. QED BY <2>1, <2>2, OffersAreOK
<1> HIDE DEF given
<1>3. CASE ~cfg.urls
  BY <1>1, <1>3, MetadataAgrees DEF given
<1>4. CASE cfg.urls
  BY <1>1, <1>2, <1>4, UrlsAgree DEF given
<1>5. QED BY <1>3, <1>4

--------------------------------------------------------------------------------
\* What is asked, answered, kept between two requests, and on disk.
AskedOK(request) == request # <<>> => \E d \in Devices : request = Asks(d)
AnswerOK(a) ==
  /\ ListOK(a.list)
  /\ a.kind = "files" => ListAgrees(a.offer, a.build[1].uuid, a.cfg, a.given, a.list)
  /\ a.kind = "diff" => ListOK(a.other) /\ a.diff = <<diffFileSets(a.list, a.other)>>
OpOK(o) ==
  /\ o.name = "diff" => ListOK(o.list)
  /\ o.name = "latest" => o.cfg \in DownloadOptions
DirOK(files) == \A n \in DOMAIN files : files[n] \in Contents
VerdictOK(v) ==
  LET d == Strongest(v.file)
  IN  v.verdict.ok <=> SizeAgrees(v.file, v.content) /\ d \in {NoDigest, Digest("base64", d.alg, v.content)}

UpdateInv ==
  /\ offer \in DOMAIN Offers
  /\ AskedOK(asked)
  /\ AnswerOK(answer)
  /\ OpOK(op)
  /\ DirOK(dir)
  /\ \A v \in verdicts : VerdictOK(v)

\* Every answer the actions make.
LEMMA AnswersAreOK ==
  /\ AnswerOK(NoAnswer) /\ OpOK(NoOp)
  /\ \A list : ListOK(list) => AnswerOK([NoAnswer EXCEPT !.kind = "esd", !.list = list])
  /\ \A o, b, cfg, given, list : ListOK(list) /\ ListAgrees(o, b.uuid, cfg, given, list) =>
       AnswerOK([NoAnswer EXCEPT !.kind = "files", !.build = <<b>>, !.cfg = cfg, !.offer = o, !.given = given, !.list = list])
  /\ \A o, build, list, other : ListOK(list) /\ ListOK(other) =>
       AnswerOK([NoAnswer EXCEPT !.kind = "diff", !.build = build, !.offer = o, !.list = list, !.other = other,
                                 !.diff = <<diffFileSets(list, other)>>])
<1>1. ListOK(<<>>)
  <2>1. ToSet(<<>>) = {} /\ <<>> \in Seq({})
    BY EmptySeq DEF ToSet
  <2>2. QED BY <2>1 DEF ListOK
<1>2. AnswerOK(NoAnswer) /\ OpOK(NoOp)
  BY <1>1 DEF AnswerOK, NoAnswer, OpOK, NoOp
<1>3. ASSUME NEW list, ListOK(list)
      PROVE  AnswerOK([NoAnswer EXCEPT !.kind = "esd", !.list = list])
  BY <1>3 DEF AnswerOK, NoAnswer
<1>4. ASSUME NEW o, NEW b, NEW cfg, NEW given, NEW list, ListOK(list), ListAgrees(o, b.uuid, cfg, given, list)
      PROVE  AnswerOK([NoAnswer EXCEPT !.kind = "files", !.build = <<b>>, !.cfg = cfg, !.offer = o, !.given = given, !.list = list])
  BY <1>4 DEF AnswerOK, NoAnswer
<1>5. ASSUME NEW o, NEW build, NEW list, NEW other, ListOK(list), ListOK(other)
      PROVE  AnswerOK([NoAnswer EXCEPT !.kind = "diff", !.build = build, !.offer = o, !.list = list, !.other = other,
                                       !.diff = <<diffFileSets(list, other)>>])
  BY <1>5 DEF AnswerOK, NoAnswer
<1>6. QED BY <1>2, <1>3, <1>4, <1>5

\* A download leaves contents of the places it was given, or what was there.
LEMMA DownloadIsOK ==
  ASSUME DirOK(dir), NEW list, Placed(list), Download(list)
  PROVE  DirOK(dir')
<1>1. PICK files \in SUBSET Names(list) : Stored(files, list)
  BY DEF Download
<1> DEFINE arrived == {f \in ToSet(list) : f.name \in files}
           Skips(f) == f.size > 0 /\ f.name \in DOMAIN dir /\ SizeOf[dir[f.name]] = f.size
<1>2. PICK new \in [files -> {f.content : f \in arrived} \cup {dir[n] : n \in DOMAIN dir}] :
        dir' = [n \in DOMAIN dir \cup files |-> IF n \in files THEN new[n] ELSE dir[n]]
  BY <1>1 DEF Stored
<1>3. \A n \in files : new[n] \in Contents
  BY DEF Placed, DirOK
<1>4. QED BY <1>2, <1>3 DEF DirOK

\* A selection from the ESD catalog is of the catalog.
LEMMA EsdIs ==
  ASSUME NEW build, NEW edition, NEW lang
  PROVE  LET picked == FilterARM64BuildMajor(EsdImages, build, edition, lang)
             list == [k \in DOMAIN picked |-> AsFile(picked[k])]
         IN  ListOK(list) /\ Placed(list)
<1> DEFINE first == {k \in DOMAIN EsdImages : /\ edition = "" \/ EsdImages[k].edition = edition
                                              /\ "" = "" \/ EsdImages[k].arch = ""
                                              /\ lang = "" \/ EsdImages[k].lang = lang}
           some == SelectAt(EsdImages, first)
           second == {k \in DOMAIN some : build = 0 \/ some[k].major = build}
           fewer == SelectAt(some, second)
           third == {k \in DOMAIN fewer : IsARM64(fewer[k])}
           picked == SelectAt(fewer, third)
           list == [k \in DOMAIN picked |-> AsFile(picked[k])]
<1>1. FilterARM64BuildMajor(EsdImages, build, edition, lang) = picked
  BY DEF FilterARM64BuildMajor, FilterBuildMajor, EsdFilter
<1>2. \A s, keep : s \in Seq(ToSet(s)) /\ keep \in SUBSET DOMAIN s =>
        SelectAt(s, keep) \in Seq(ToSet(SelectAt(s, keep))) /\ ToSet(SelectAt(s, keep)) \subseteq ToSet(s)
  <2>1. TAKE s, keep
  <2>2. HAVE s \in Seq(ToSet(s)) /\ keep \in SUBSET DOMAIN s
  <2>3. /\ SelectAt(s, keep) \in Seq({s[k] : k \in keep})
        /\ ToSet(SelectAt(s, keep)) = {s[k] : k \in keep}
    BY <2>2, SelectAtIsOrdered
  <2>4. QED BY <2>2, <2>3 DEF ToSet
<1>3. EsdImages \in Seq(ToSet(EsdImages)) /\ \A i \in ToSet(EsdImages) : i.size \in Nat /\ i.content \in Contents
  BY ServicesAssumption
<1>4. some \in Seq(ToSet(some)) /\ ToSet(some) \subseteq ToSet(EsdImages)
  <2>1. first \in SUBSET DOMAIN EsdImages
    OBVIOUS
  <2> HIDE DEF first
  <2>2. QED BY <1>2, <1>3, <2>1
<1> HIDE DEF some
<1>5. fewer \in Seq(ToSet(fewer)) /\ ToSet(fewer) \subseteq ToSet(some)
  <2>1. second \in SUBSET DOMAIN some
    OBVIOUS
  <2> HIDE DEF second
  <2>2. QED BY <1>2, <1>4, <2>1
<1> HIDE DEF fewer
<1>6. picked \in Seq(ToSet(picked)) /\ ToSet(picked) \subseteq ToSet(fewer)
  <2>1. third \in SUBSET DOMAIN fewer
    OBVIOUS
  <2> HIDE DEF third
  <2>2. QED BY <1>2, <1>5, <2>1
<1> HIDE DEF picked
<1>7. Len(picked) \in Nat /\ DOMAIN picked = 1..Len(picked) /\ ToSet(picked) = {picked[k] : k \in DOMAIN picked}
  BY <1>6, Elements
<1>8. \A k \in DOMAIN picked : picked[k].size \in Nat /\ picked[k].content \in Contents
  BY <1>3, <1>4, <1>5, <1>6, <1>7
<1>9. \A i : /\ AsFile(i).size = i.size /\ AsFile(i).sha1 = NoDigest /\ AsFile(i).sha256 = NoDigest
             /\ AsFile(i).content = i.content
  BY DEF AsFile
<1>10. NoDigest \in Digests("sha1") /\ NoDigest \in Digests("sha256")
  BY DEF Digests
<1>11. ToSet(list) = {AsFile(picked[k]) : k \in DOMAIN picked}
  BY DEF ToSet
<1>12. \A r \in ToSet(list) : RecordOK(r) /\ r.content \in Contents
  BY <1>8, <1>9, <1>10, <1>11 DEF RecordOK
<1>13. [k \in 1..Len(picked) |-> AsFile(picked[k])] \in Seq(ToSet(list))
  BY <1>7, <1>11, IsASeq
<1>14. list \in Seq(ToSet(list))
  BY <1>7, <1>13
<1> HIDE DEF list
<1>15. ListOK(list) /\ Placed(list)
  BY <1>12, <1>14 DEF ListOK, Placed
<1>16. QED BY <1>1, <1>15 DEF list

\* FetchBuilds keeps what was asked with what was found.
LEMMA FetchBuildsIsOK ==
  ASSUME UpdateInv, NEW d \in Devices, NEW next, OpOK(next), FetchBuilds(d, next)
  PROVE  UpdateInv'
<1>1. answer' = NoAnswer /\ verdicts' = {} /\ UNCHANGED <<dir, offer>>
  BY DEF FetchBuilds, Kept
<1>2. AskedOK(asked') /\ OpOK(op')
  <2>1. CASE op' = NoOp /\ UNCHANGED asked
    BY <2>1, AnswersAreOK DEF UpdateInv
  <2>2. CASE asked' = Asks(d) /\ op' = IF BuildsNow(d) = <<>> THEN NoOp ELSE next
    BY <2>2, AnswersAreOK DEF AskedOK
  <2>3. QED BY <2>1, <2>2 DEF FetchBuilds
<1>3. QED BY <1>1, <1>2, AnswersAreOK DEF UpdateInv

\* DownloadBuild answers with the places it downloads from.
LEMMA DownloadBuildIsOK ==
  ASSUME UpdateInv, NEW b, NEW cfg \in DownloadOptions, DownloadBuild(b, cfg), OpOK(op')
  PROVE  UpdateInv'
<1> DEFINE given == [cfg EXCEPT !.urls = TRUE]
           list == FilesNow(b, given)
<1>1. given.urls
  BY ServicesAssumption
<1> HIDE DEF given
<1>2. ListOK(list) /\ Placed(list) /\ ListAgrees(offer, b.uuid, given, PlacesNow(b, given), list)
  BY <1>1, FilesNowAgree DEF UpdateInv
<1>3. /\ answer' = [NoAnswer EXCEPT !.kind = "files", !.build = <<b>>, !.cfg = given, !.offer = offer,
                                    !.given = PlacesNow(b, given), !.list = list]
      /\ Download(list)
      /\ verdicts' = {} /\ UNCHANGED <<asked, offer>>
  BY DEF DownloadBuild, Kept, given
<1> HIDE DEF list
<1>4. AnswerOK(answer')
  BY <1>2, <1>3, AnswersAreOK
<1>5. DirOK(dir')
  BY <1>2, <1>3, DownloadIsOK DEF UpdateInv
<1>6. QED BY <1>3, <1>4, <1>5 DEF UpdateInv

\* Every verdict is right at the moment it is given.
LEMMA VerifyFilesIsOK ==
  ASSUME UpdateInv, NEW list \in OwnRecords \cup {answer.list}, VerifyFiles(list)
  PROVE  UpdateInv'
<1>1. \A f \in ToSet(list) : RecordOK(f)
  BY ServicesAssumption DEF UpdateInv, AnswerOK, ListOK, RecordOK
<1>2. \A v \in verdicts' : VerdictOK(v)
  <2> DEFINE V(f) == [file |-> f, content |-> IF f.name \in DOMAIN dir THEN dir[f.name] ELSE 0, verdict |-> verifyOne(f, dir)]
  <2>1. verdicts' = {V(f) : f \in ToSet(list)}
    BY DEF VerifyFiles
  <2>2. ASSUME NEW f \in ToSet(list) PROVE VerdictOK(V(f))
    <3> DEFINE content == IF f.name \in DOMAIN dir THEN dir[f.name] ELSE 0
               strongest == IF f.sha256 # NoDigest THEN f.sha256 ELSE f.sha1
    <3>1. verifyOne(f, dir).ok <=> /\ content # 0
                                   /\ f.size \in {0, SizeOf[content]}
                                   /\ strongest \in {NoDigest, Digest("base64", strongest.alg, content)}
      BY <1>1, VerdictOfFile DEF UpdateInv, DirOK
    <3>2. V(f).file = f /\ V(f).content = content /\ V(f).verdict = verifyOne(f, dir)
      OBVIOUS
    <3> HIDE DEF V, content
    <3>3. QED BY <3>1, <3>2 DEF VerdictOK, Strongest, SizeAgrees
  <2>3. QED BY <2>1, <2>2
<1>3. answer' = NoAnswer /\ UNCHANGED <<offer, asked, op, dir>>
  BY DEF VerifyFiles, Kept
<1>4. QED BY <1>2, <1>3, AnswersAreOK DEF UpdateInv

\* The inductive invariant of the Windows Update caller.
LEMMA UpdateInvariant == Spec => []UpdateInv
<1>1. Init => UpdateInv
  <2> SUFFICES ASSUME Init PROVE UpdateInv
    OBVIOUS
  <2>1. AskedOK(asked) /\ offer \in DOMAIN Offers
    BY ServicesAssumption DEF Init, AskedOK
  <2>2. DirOK(dir)
    <3>1. DOMAIN <<>> = {}
      BY EmptySeq
    <3>2. QED BY <3>1 DEF Init, DirOK
  <2>3. QED BY <2>1, <2>2, AnswersAreOK DEF Init, UpdateInv
<1>2. UpdateInv /\ [Next]_vars => UpdateInv'
  <2> SUFFICES ASSUME UpdateInv, [Next]_vars PROVE UpdateInv'
    OBVIOUS
  <2>1. ASSUME UNCHANGED updateVars PROVE UpdateInv'
    BY <2>1 DEF updateVars, UpdateInv
  <2>2. ASSUME NEW d \in Devices, FetchBuilds(d, NoOp) PROVE UpdateInv'
    BY <2>2, AnswersAreOK, FetchBuildsIsOK
  <2>3. ASSUME NEW d \in Devices, NEW cfg \in DownloadOptions, FetchBuilds(d, [NoOp EXCEPT !.name = "latest", !.cfg = cfg])
        PROVE  UpdateInv'
    <3>1. OpOK([NoOp EXCEPT !.name = "latest", !.cfg = cfg])
      BY DEF OpOK, NoOp
    <3>2. QED BY <2>3, <3>1, FetchBuildsIsOK
  <2>4. ASSUME NEW b, NEW cfg, GetFiles(b, cfg) PROVE UpdateInv'
    <3>1. ListOK(FilesNow(b, cfg)) /\ ListAgrees(offer, b.uuid, cfg, PlacesNow(b, cfg), FilesNow(b, cfg))
      BY FilesNowAgree DEF UpdateInv
    <3>2. AnswerOK(answer')
      BY <2>4, <3>1, AnswersAreOK DEF GetFiles
    <3>3. QED BY <2>4, <3>2 DEF GetFiles, Kept, UpdateInv
  <2>5. ASSUME NEW b, NEW cfg \in DownloadOptions, DownloadBuild(b, cfg), UNCHANGED op PROVE UpdateInv'
    BY <2>5, DownloadBuildIsOK DEF UpdateInv
  <2>6. ASSUME NEW a, NEW b, DiffBase(a, b) PROVE UpdateInv'
    <3>1. ListOK(FilesNow(a, NoCfg))
      BY FilesNowAgree DEF UpdateInv
    <3>2. OpOK(op')
      BY <2>6, <3>1 DEF DiffBase, OpOK
    <3>3. QED BY <2>6, <3>2, AnswersAreOK DEF DiffBase, Kept, UpdateInv
  <2>7. ASSUME DiffTarget PROVE UpdateInv'
    <3>1. ListOK(op.list) /\ ListOK(FilesNow(op.build[1], NoCfg))
      BY <2>7, FilesNowAgree DEF DiffTarget, UpdateInv, OpOK
    <3> DEFINE build == op.build
               base == op.list
               list == FilesNow(op.build[1], NoCfg)
               made == [NoAnswer EXCEPT !.kind = "diff", !.build = build, !.offer = offer, !.list = base, !.other = list,
                                        !.diff = <<diffFileSets(base, list)>>]
    <3>2. AnswerOK(answer')
      <4>1. answer' = answer \/ answer' = made
        BY <2>7 DEF DiffTarget
      <4> HIDE DEF base, list, build
      <4>2. ListOK(base) /\ ListOK(list)
        BY <3>1 DEF base, list
      <4>3. AnswerOK(made)
        BY <4>2, AnswersAreOK
      <4>4. QED BY <4>1, <4>3 DEF UpdateInv
    <3>3. QED BY <2>7, <3>2, AnswersAreOK DEF DiffTarget, Kept, UpdateInv
  <2>8. ASSUME DownloadLatest PROVE UpdateInv'
    <3>1. op.cfg \in DownloadOptions /\ op' = NoOp
      BY <2>8 DEF DownloadLatest, UpdateInv, OpOK
    <3>2. QED BY <2>8, <3>1, AnswersAreOK, DownloadBuildIsOK DEF DownloadLatest
  <2>9. ASSUME NEW q, FetchEsd(q) PROVE UpdateInv'
    <3> DEFINE picked == FilterARM64BuildMajor(EsdImages, q.build, q.edition, q.lang)
               list == [k \in DOMAIN picked |-> AsFile(picked[k])]
    <3>1. ListOK(list) /\ Placed(list)
      BY EsdIs
    <3>2. /\ answer' = [NoAnswer EXCEPT !.kind = "esd", !.list = list] /\ Download(list) /\ verdicts' = {}
          /\ UNCHANGED <<asked, op, offer>>
      BY <2>9 DEF FetchEsd, Kept
    <3> HIDE DEF list
    <3>3. AnswerOK(answer') /\ DirOK(dir')
      BY <3>1, <3>2, AnswersAreOK, DownloadIsOK DEF UpdateInv
    <3>4. QED BY <3>2, <3>3 DEF UpdateInv
  <2>10. ASSUME NEW list \in OwnRecords \cup {answer.list}, VerifyFiles(list) PROVE UpdateInv'
    BY <2>10, VerifyFilesIsOK
  <2>11. ASSUME Publish PROVE UpdateInv'
    BY <2>11 DEF Publish, UpdateInv
  <2>12. ASSUME Damage PROVE UpdateInv'
    <3>1. PICK n \in DOMAIN dir, c \in DOMAIN SizeOf : dir' = [dir EXCEPT ![n] = c]
      BY <2>12 DEF Damage
    <3>2. DirOK(dir')
      BY <3>1 DEF UpdateInv, DirOK, Contents
    <3>3. QED BY <2>12, <3>2 DEF Damage, UpdateInv
  <2>13. ASSUME UpdateNext PROVE UpdateInv'
    BY <2>2, <2>3, <2>4, <2>5, <2>6, <2>7, <2>8, <2>9, <2>10, <2>11, <2>12, <2>13 DEF UpdateNext
  <2>14. QED BY <2>1, <2>13 DEF Next, vars
<1>3. QED BY <1>1, <1>2, PTL DEF Spec

\* However Microsoft spreads a build's files over its answer, whatever places
\* it gives and whatever it publishes in between: what GetFiles returns is what
\* that answer says of the build, with every file the filters are documented to
\* keep, and a request names one branch in both halves (soap/fetch.go
\* ParseSyncUpdatesResponse, fileurl.go ParseFileURLs, files.go).
THEOREM OfferAgreesTheorem == Spec => []OfferAgrees
<1>1. UpdateInv => OfferAgrees
  <2> SUFFICES ASSUME UpdateInv PROVE OfferAgrees
    OBVIOUS
  <2>1. ASSUME asked # <<>>
        PROVE  asked[1].products.branch = IF asked[1].attrs.flight = "" THEN asked[1].attrs.branch ELSE asked[1].attrs.flight
    <3>1. PICK d \in Devices : asked = Asks(d)
      BY <2>1 DEF UpdateInv, AskedOK
    <3> DEFINE attrs == BuildDeviceAttributes(d.arch, d.ring, DeviceBuild(d), d.sku)
               products == BuildProductsString(d.arch, d.ring, DeviceBuild(d), d.sku)
    <3>2. asked[1].attrs = attrs /\ asked[1].products = products
      BY <3>1 DEF Asks
    <3>3. d.ring \in {"Canary", "Experimental", "Beta", "ReleasePreview", "Retail", "MSIT"}
      BY ServicesAssumption DEF ringToFlightBranch
    <3>4. ringToFlightBranch[d.ring] = attrs.flight
      <4>1. attrs.flight = CASE d.ring = "Experimental" -> "Dev" [] d.ring = "Beta" -> "WIS"
                             [] d.ring = "ReleasePreview" -> "RP" [] d.ring = "Canary" -> "CanaryChannel"
                             [] d.ring = "MSIT" -> "MSIT" [] OTHER -> ""
        BY DEF BuildDeviceAttributes
      <4> HIDE DEF attrs
      <4>2. CASE d.ring = "Experimental"
        BY <4>1, <4>2 DEF ringToFlightBranch
      <4>3. CASE d.ring = "Beta"
        BY <4>1, <4>3 DEF ringToFlightBranch
      <4>4. CASE d.ring = "ReleasePreview"
        BY <4>1, <4>4 DEF ringToFlightBranch
      <4>5. CASE d.ring = "Canary"
        BY <4>1, <4>5 DEF ringToFlightBranch
      <4>6. CASE d.ring = "MSIT"
        BY <4>1, <4>6 DEF ringToFlightBranch
      <4>7. CASE d.ring = "Retail"
        <5>1. attrs.flight = ""
          BY <4>1, <4>7
        <5>2. ringToFlightBranch["Retail"] = ""
          BY DEF ringToFlightBranch
        <5>3. QED BY <4>7, <5>1, <5>2
      <4>8. QED BY <3>3, <4>2, <4>3, <4>4, <4>5, <4>6, <4>7
    <3>5. attrs.branch = branchFromBuild(DeviceBuild(d))
      BY DEF BuildDeviceAttributes
    <3>6. products.branch = IF ringToFlightBranch[d.ring] = "" THEN branchFromBuild(DeviceBuild(d)) ELSE ringToFlightBranch[d.ring]
      BY DEF BuildProductsString
    <3>7. QED BY <3>2, <3>4, <3>5, <3>6
  <2>2. answer.kind = "files" => ListAgrees(answer.offer, answer.build[1].uuid, answer.cfg, answer.given, answer.list)
    BY DEF UpdateInv, AnswerOK
  <2>3. QED BY <2>1, <2>2 DEF OfferAgrees, ListAgrees
<1>2. QED BY <1>1, UpdateInvariant, PTL

\* For any two builds, even if what is published changes between the two
\* requests, the comparison replays the one list into the other
\* (api/diff/diff.go diffFileSets).
THEOREM DiffReplaysTheorem == Spec => []DiffReplays
<1>1. UpdateInv => DiffReplays
  <2> SUFFICES ASSUME UpdateInv, answer.kind = "diff" PROVE DiffReplays
    BY DEF DiffReplays
  <2>1. ListOK(answer.list) /\ ListOK(answer.other) /\ answer.diff[1] = diffFileSets(answer.list, answer.other)
    BY DEF UpdateInv, AnswerOK
  <2>2. answer.list \in Seq(ToSet(answer.list)) /\ answer.other \in Seq(ToSet(answer.other))
    BY <2>1 DEF ListOK
  <2>3. QED BY <2>1, <2>2, DiffOfLists DEF DiffReplays
<1>2. QED BY <1>1, UpdateInvariant, PTL

\* For any records, contents and damage to the directory, VerifyFiles accepts
\* no file that is not what the strongest digest of its record says, and every
\* file that is, when that digest is in base64 (api/download/verify.go
\* verifyOne).
THEOREM VerdictRightTheorem == Spec => []VerdictRight
<1>1. UpdateInv => VerdictRight
  <2> SUFFICES ASSUME UpdateInv, NEW v \in verdicts
               PROVE  LET d == Strongest(v.file) IN
                      /\ v.verdict.ok => SizeAgrees(v.file, v.content) /\ d.form # "junk" /\ (d # NoDigest => d.of = v.content)
                      /\ SizeAgrees(v.file, v.content) /\ d \in {NoDigest, Digest("base64", d.alg, v.content)} => v.verdict.ok
    BY DEF VerdictRight
  <2> DEFINE d == Strongest(v.file)
  <2>1. v.verdict.ok <=> SizeAgrees(v.file, v.content) /\ d \in {NoDigest, Digest("base64", d.alg, v.content)}
    BY DEF UpdateInv, VerdictOK
  <2> HIDE DEF d
  <2>2. ASSUME d = NoDigest PROVE d.form # "junk"
    BY <2>2 DEF NoDigest, Digest
  <2>3. ASSUME d = Digest("base64", d.alg, v.content) PROVE d.form # "junk" /\ d.of = v.content
    <3>1. \A x, y, z : Digest(x, y, z).form = x /\ Digest(x, y, z).of = z
      BY DEF Digest
    <3>2. QED BY <2>3, <3>1
  <2>4. QED BY <2>1, <2>2, <2>3 DEF d
<1>2. QED BY <1>1, UpdateInvariant, PTL
================================================================================
