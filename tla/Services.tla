-------------------------------- MODULE Services -------------------------------
(***************************************************************************)
(* The services above the transport.  One caller of the Windows Update     *)
(* client looks for builds, asks for their files with and without places   *)
(* on the CDN, compares builds, downloads and verifies, while Microsoft    *)
(* publishes something else; callers of the software-download client       *)
(* resolve and fetch ISOs.  The two clients share nothing, so a behaviour  *)
(* uses one of them.  Cookies, the HTTP client's retries and the           *)
(* goroutines of a download are in Session and DownloadFiles: here a       *)
(* request succeeds or fails, and a download leaves some of its files.     *)
(***************************************************************************)
EXTENDS FileCatalog, IsoResolver

CONSTANTS
  Offers,        \* what Microsoft may publish: [sync, locations]
  Devices,       \* the options of FetchBuilds: [arch, ring, sku, build, checkBuild]
  FileOptions,   \* the options of GetFiles: [urls, lang, edition, ext]
  DownloadOptions,
  EsdImages,     \* the Media Creation Tool catalog
  EsdQueries,    \* [build, edition, lang]
  OwnRecords,    \* lists of file records a caller made up from another source
  MaxRequests,   \* bound: operations
  MaxOutside     \* bound: changes by others, of what is published or of a file on disk

VARIABLES
  client,     \* the client this behaviour uses
  offer,      \* what is published now
  asked,      \* the attributes of the request that found the builds
  builds,     \* the last result of FetchBuilds
  op,         \* the operation between two requests: [name, ...]
  answer,     \* the result of the last operation
  dir,        \* the download directory: name -> content
  verdicts,   \* that of VerifyFiles
  requests, outside

\* What Microsoft, the catalog and the callers deal in: lists are sequences,
\* sizes are natural numbers, digests and contents are those of files.
ASSUME ServicesAssumption ==
  /\ 1 \in DOMAIN Offers
  /\ \A o \in DOMAIN Offers :
       /\ Offers[o].sync.new \in Seq(ToSet(Offers[o].sync.new))
       /\ Offers[o].sync.ext \in Seq(ToSet(Offers[o].sync.ext))
       /\ \A e \in ToSet(Offers[o].sync.ext) :
            /\ e.files \in Seq(ToSet(e.files))
            /\ \A f \in ToSet(e.files) : f.size \in Nat /\ f.digest \in Digests("sha1") /\ f.sha256 \in Digests("sha256")
       /\ \A uuid \in DOMAIN Offers[o].locations :
            /\ Offers[o].locations[uuid] \in Seq(ToSet(Offers[o].locations[uuid]))
            /\ \A l \in ToSet(Offers[o].locations[uuid]) : l.content \in Contents /\ l.digest \in Digests("sha1")
  /\ \A d \in Devices : d.ring \in DOMAIN ringToFlightBranch
  /\ \A cfg \in DownloadOptions : DOMAIN cfg = {"urls", "lang", "edition", "ext"}
  /\ EsdImages \in Seq(ToSet(EsdImages))
  /\ \A i \in ToSet(EsdImages) : i.size \in Nat /\ i.content \in Contents
  /\ \A list \in OwnRecords : \A f \in ToSet(list) :
       f.size \in Nat /\ f.sha1 \in Digests("sha1") /\ f.sha256 \in Digests("sha256")

updateVars == <<offer, asked, builds, op, answer, dir, verdicts, requests, outside>>
vars == <<client, updateVars, isoVars>>

NoCfg == [urls |-> FALSE, lang |-> "", edition |-> "", ext |-> ""]
NoAnswer == [kind |-> "none", build |-> <<>>, cfg |-> NoCfg, offer |-> 0, given |-> <<>>, list |-> <<>>, other |-> <<>>,
             diff |-> <<>>]
NoOp == [name |-> "", build |-> <<>>, cfg |-> NoCfg, list |-> <<>>]

Init ==
  /\ client \in {"windowsuup", "softwaredownload"}
  /\ offer = 1 /\ asked = <<>> /\ builds = <<>>
  /\ op = NoOp /\ answer = NoAnswer
  /\ dir = <<>> /\ verdicts = {}
  /\ requests = 0 /\ outside = 0
  /\ IsoInit

--------------------------------------------------------------------------------
\* What the service sends to a request for places.  It gives none to a device
\* other than the one it offered the build to.
Answers(b, attrs) ==
  IF /\ \A k \in {"arch", "sku", "family", "flight", "ring", "retail"} : attrs[k] = asked[1].attrs[k]
     /\ b.uuid \in DOMAIN Offers[offer].locations
  THEN Offers[offer].locations[b.uuid] ELSE <<>>

PlacesNow(b, cfg) ==
  IF cfg.urls THEN Answers(b, BuildDeviceAttributes(b.arch, b.ring, b.version, b.sku)) ELSE <<>>

\* The list GetFiles returns for a build now: with places, or from SyncUpdates.
FilesNow(b, cfg) ==
  buildFileList(IF cfg.urls THEN ParseFileURLs(PlacesNow(b, cfg))
                ELSE MetadataOf(ParseSyncUpdatesResponse(Offers[offer].sync), b.uuid), cfg)

BuildsNow(d) ==
  LET results == ParseSyncUpdatesResponse(Offers[offer].sync)
  IN  [k \in DOMAIN results |->
         [uuid |-> results[k].uuid, revision |-> results[k].revision, title |-> results[k].title,
          version |-> results[k].version, arch |-> results[k].arch, ring |-> d.ring, sku |-> d.sku]]

DeviceBuild(d) == IF d.build # 0 THEN d.build ELSE IF d.checkBuild # 0 THEN d.checkBuild ELSE DefaultCheckBuild(d.ring)
Asks(d) == <<[attrs    |-> BuildDeviceAttributes(d.arch, d.ring, DeviceBuild(d), d.sku),
              products |-> BuildProductsString(d.arch, d.ring, DeviceBuild(d), d.sku)]>>

Idle == op = NoOp
Counted == requests < MaxRequests /\ requests' = requests + 1
Kept == UNCHANGED <<offer, outside>>

FetchBuilds(d, next) ==
  /\ Idle /\ Counted
  /\ \/ op' = NoOp /\ UNCHANGED <<asked, builds>>
     \/ asked' = Asks(d) /\ builds' = BuildsNow(d) /\ op' = IF BuildsNow(d) = <<>> THEN NoOp ELSE next
  /\ answer' = NoAnswer /\ verdicts' = {}
  /\ UNCHANGED dir /\ Kept

GetFiles(b, cfg) ==
  /\ Idle /\ Counted
  /\ answer' = [NoAnswer EXCEPT !.kind = "files", !.build = <<b>>, !.cfg = cfg, !.offer = offer,
                                !.given = PlacesNow(b, cfg), !.list = FilesNow(b, cfg)]
  /\ verdicts' = {}
  /\ UNCHANGED <<asked, builds, op, dir>> /\ Kept

\* Diff is two calls of GetFiles; what is published may change in between.
DiffBase(a, b) ==
  /\ Idle /\ Counted
  /\ op' = [name |-> "diff", build |-> <<b>>, cfg |-> NoCfg, list |-> FilesNow(a, NoCfg)]
  /\ answer' = NoAnswer /\ verdicts' = {}
  /\ UNCHANGED <<asked, builds, dir>> /\ Kept

DiffTarget ==
  /\ op.name = "diff"
  /\ \/ UNCHANGED answer
     \/ LET list == FilesNow(op.build[1], NoCfg)
        IN  answer' = [NoAnswer EXCEPT !.kind = "diff", !.build = op.build, !.offer = offer, !.list = op.list, !.other = list,
                                       !.diff = <<diffFileSets(op.list, list)>>]
  /\ op' = NoOp
  /\ UNCHANGED <<asked, builds, dir, verdicts, requests>> /\ Kept

\* DownloadFiles: some of the files arrive, a file of the recorded size is
\* taken as it is, and of two places for one name either may come last.
Stored(files, list) ==
  LET arrived == {f \in ToSet(list) : f.name \in files}
      Skips(f) == f.size > 0 /\ f.name \in DOMAIN dir /\ SizeOf[dir[f.name]] = f.size
  IN  \E new \in [files -> {f.content : f \in arrived} \cup {dir[n] : n \in DOMAIN dir}] :
        /\ \A n \in files : \E f \in arrived : f.name = n /\ new[n] = IF Skips(f) THEN dir[n] ELSE f.content
        /\ dir' = [n \in DOMAIN dir \cup files |-> IF n \in files THEN new[n] ELSE dir[n]]

Download(list) == \E files \in SUBSET Names(list) : Stored(files, list)

\* DownloadBuild asks for the places with the caller's filters and downloads.
DownloadBuild(b, cfg) ==
  LET placed == [cfg EXCEPT !.urls = TRUE]
      list == FilesNow(b, placed)
  IN  /\ answer' = [NoAnswer EXCEPT !.kind = "files", !.build = <<b>>, !.cfg = placed, !.offer = offer,
                                    !.given = PlacesNow(b, placed), !.list = list]
      /\ Download(list)
      /\ verdicts' = {}
      /\ UNCHANGED <<asked, builds>> /\ Kept

\* FetchLatestAndDownload: the first build that was found, whatever its version.
DownloadLatest ==
  /\ op.name = "latest"
  /\ DownloadBuild(builds[1], op.cfg)
  /\ op' = NoOp /\ UNCHANGED requests

\* An ESD of the catalog by the download service.
FetchEsd(q) ==
  LET picked == FilterARM64BuildMajor(EsdImages, q.build, q.edition, q.lang)
      list == [k \in DOMAIN picked |-> AsFile(picked[k])]
  IN  /\ Idle /\ Counted
      /\ answer' = [NoAnswer EXCEPT !.kind = "esd", !.list = list]
      /\ Download(list)
      /\ verdicts' = {}
      /\ UNCHANGED <<asked, builds, op>> /\ Kept

VerifyFiles(list) ==
  /\ Idle /\ Counted
  /\ verdicts' = {[file |-> f, content |-> IF f.name \in DOMAIN dir THEN dir[f.name] ELSE 0, verdict |-> verifyOne(f, dir)] :
                   f \in ToSet(list)}
  /\ answer' = NoAnswer
  /\ UNCHANGED <<asked, builds, op, dir>> /\ Kept

--------------------------------------------------------------------------------
Outside == outside < MaxOutside /\ outside' = outside + 1

Publish ==
  /\ Outside
  /\ offer' \in DOMAIN Offers \ {offer}
  /\ UNCHANGED <<asked, builds, op, answer, dir, verdicts, requests>>

\* Somebody replaces a file that was downloaded.
Damage ==
  /\ Outside
  /\ \E n \in DOMAIN dir, c \in DOMAIN SizeOf : c # dir[n] /\ dir' = [dir EXCEPT ![n] = c]
  /\ UNCHANGED <<offer, asked, builds, op, answer, verdicts, requests>>

UpdateNext ==
  \/ \E d \in Devices : \/ FetchBuilds(d, NoOp)
                        \/ \E cfg \in DownloadOptions : FetchBuilds(d, [NoOp EXCEPT !.name = "latest", !.cfg = cfg])
  \/ \E b \in ToSet(builds) : \/ \E cfg \in FileOptions : GetFiles(b, cfg)
                              \/ \E cfg \in DownloadOptions : Idle /\ Counted /\ DownloadBuild(b, cfg) /\ UNCHANGED op
                              \/ \E a \in ToSet(builds) : DiffBase(a, b)
  \/ DiffTarget
  \/ DownloadLatest
  \/ \E q \in EsdQueries : FetchEsd(q)
  \/ \E list \in OwnRecords \cup {answer.list} : list # <<>> /\ VerifyFiles(list)
  \/ Publish
  \/ Damage

Next ==
  \/ client = "windowsuup" /\ UpdateNext /\ UNCHANGED <<client, isoVars>>
  \/ client = "softwaredownload" /\ IsoNext /\ UNCHANGED <<client, updateVars>>

Spec == Init /\ [][Next]_vars

--------------------------------------------------------------------------------
\* Where the files of the first update of a UUID stand in a SyncUpdates answer.
PublishedOf(o, uuid) ==
  LET resp == Offers[o].sync
      named == {k \in DOMAIN resp.new : resp.new[k].leaf = "true" /\ resp.new[k].state = "ok" /\ uuid = UpdateID(resp.new[k])}
      id == resp.new[CHOOSE k \in named : \A j \in named : k <= j].id
  IN  IF named = {} THEN {}
      ELSE UNION {ToSet(resp.ext[i].files) : i \in {k \in DOMAIN resp.ext : resp.ext[k].id = id /\ resp.ext[k].state = "ok"}}

\* The names the filters' documentation promises to keep.
Wanted(n, cfg) ==
  /\ cfg.ext \in {"", n.ext}
  /\ cfg.lang # "" => n.lang \in {cfg.lang, "neutral"}
  /\ cfg.edition # "" => n.edition \in {"", cfg.edition}

\* A request names one branch in both of its halves.  What GetFiles returns
\* for a build is what the answer of the service says of it, however the files
\* are spread over that answer: only files of that update that installing
\* needs, with the asked extension; without places, each file the filters are
\* documented to keep, with its size and its digests; with places, name,
\* digest and URL of one and the same place, one record for every digest, and
\* each file to be kept whose digest no other file shares.  It does not say
\* that the filters keep nothing else: names without "_" and editions whose
\* token they do not know or that begins with the asked one get through
\* (pkg/wuproto/soap/fetch.go ParseSyncUpdatesResponse, fileurl.go
\* ParseFileURLs, files.go applyFileFilters).
OfferAgrees ==
  /\ asked # <<>> =>
       asked[1].products.branch = IF asked[1].attrs.flight = "" THEN asked[1].attrs.branch ELSE asked[1].attrs.flight
  /\ answer.kind = "files" =>
       LET published == {f \in PublishedOf(answer.offer, answer.build[1].uuid) : ~shouldExclude(f.name)}
           places == {l \in ToSet(answer.given) : Usable(l)}
           Of(f, r) == r.name = f.name /\ r.sha1 = base64ToHex(f.digest)
           Alone(l) == l.digest.form = "base64" /\ \A m \in places : m.digest = l.digest => m.name = l.name
       IN  /\ \A r \in ToSet(answer.list) : answer.cfg.ext \in {"", r.name.ext}
           /\ ~answer.cfg.urls =>
                 /\ \A r \in ToSet(answer.list) : \E f \in published : Of(f, r)
                 /\ \A f \in published : Wanted(f.name, answer.cfg) =>
                      \E r \in ToSet(answer.list) : Of(f, r) /\ r.size = f.size /\ r.sha256 = base64ToHex(f.sha256)
           /\ answer.cfg.urls =>
                 /\ \A r \in ToSet(answer.list) : \E l \in places : Of(l, r) /\ r.url /\ r.content = l.content
                 /\ \A j, k \in DOMAIN answer.list : answer.list[j].sha1 = answer.list[k].sha1 => j = k
                 /\ \A l \in places : Wanted(l.name, answer.cfg) /\ Alone(l) => \E r \in ToSet(answer.list) : Of(l, r)

\* Two records that agree in the strongest thing both have.
Alike(f, g) ==
  \/ f.sha256 = g.sha256 /\ f.sha256 # NoDigest
  \/ NoDigest \in {f.sha256, g.sha256} /\ f.sha1 = g.sha1 /\ f.sha1 # NoDigest
  \/ NoDigest \in {f.sha256, g.sha256} /\ NoDigest \in {f.sha1, g.sha1} /\ f.size = g.size

\* A comparison of two builds is enough to get from the files of the one to
\* the files of the other: with the removed names dropped and the added and
\* changed records put in, every name is that of the target and its record is
\* alike, and the counts are of all of the target's names
\* (api/diff/diff.go diffFileSets).
DiffReplays ==
  answer.kind = "diff" =>
    LET d == answer.diff[1]
        Named(files, n) == {f \in files : f.name = n}
        base == {f \in ToSet(answer.list) : f.name \notin {g.name : g \in d.removed \cup {c.target : c \in d.changed}}}
        patched == base \cup d.added \cup {c.target : c \in d.changed}
    IN  /\ {f.name : f \in patched} = Names(answer.other)
        /\ \A n \in Names(answer.other) :
             \E f \in Named(patched, n), g \in Named(ToSet(answer.other), n) : Alike(f, g)
        /\ \A c \in d.changed : ~Alike(c.base, c.target) /\ c.base \in ToSet(answer.list)
        /\ Cardinality(d.added) + Cardinality(d.changed) + d.unchanged = Cardinality(Names(answer.other))

Strongest(f) == IF f.sha256 # NoDigest THEN f.sha256 ELSE f.sha1
SizeAgrees(f, content) == content # 0 /\ f.size \in {0, SizeOf[content]}

\* VerifyFiles accepts no file that is missing, has another size than the
\* record knows or another content than its strongest digest is of; and it
\* accepts every file of the right size and content when that digest is held
\* in base64, the form its comment names, or when there is none: a record
\* without digests says yes to whatever has its size, one without a size too to
\* anything (api/download/verify.go verifyOne).
VerdictRight ==
  \A v \in verdicts :
    LET d == Strongest(v.file) IN
    /\ v.verdict.ok => SizeAgrees(v.file, v.content) /\ d.form # "junk" /\ (d # NoDigest => d.of = v.content)
    /\ SizeAgrees(v.file, v.content) /\ d \in {NoDigest, Digest("base64", d.alg, v.content)} => v.verdict.ok

\* "Hashes stored in models.File are base64-encoded (as returned by the SOAP
\* API) and are decoded before comparison" (api/download/verify.go:25-27): so a
\* file that has the size and the digest of its record is accepted, whichever
\* service the record came from.
WholeIsAccepted ==
  \A v \in verdicts :
    SizeAgrees(v.file, v.content) /\ Strongest(v.file).of = v.content => v.verdict.ok

\* A link that was resolved is of the architecture asked for and of the
\* language as exactly as the list allowed, came out of a session that was
\* tagged, after no more than skuInfoMaxAttempts tries; a path that was
\* returned is of a file that is whole there, fetched under a link that had
\* not expired, and no call that has ended leaves a temporary file
\* (api/softwaredownload resolve.go, download.go).
IsoAsRequested ==
  \A c \in Callers :
    LET k == call[c] IN
    /\ k.attempt <= skuInfoMaxAttempts
    /\ k.pc = "done" => c \notin temps
    /\ k.req.by \in {"id", "name"} /\ k.link # NoLink =>
         /\ k.session \in tagged
         /\ k.arch # "" => k.req.arch \in {"", k.arch} /\ k.link.token \in {"", k.arch}
         /\ (\E s \in ToSet(k.skus) : k.req.lang \in s.exact) => k.req.lang \in k.sku[1].exact
         /\ k.req.lang \in k.sku[1].exact \cup k.sku[1].part
         /\ k.req.arch # "" => k.product[1].arch \in {"", k.req.arch}
    /\ k.path # "" =>
         /\ k.path \in DOMAIN isos
         /\ isos[k.path] \in {link.content : link \in {l \in Links : l.file = k.path}}
         /\ k.opened >= 0 => k.link.expires = 0 \/ k.opened <= k.link.expires
         /\ k.opened < 0 => k.req.size > 0
================================================================================
