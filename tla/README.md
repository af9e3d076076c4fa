# go-sdk-winmediafoundry: formal specifications

TLA+ models of this repository: its concurrent and crash-sensitive parts, its
file formats and codecs, the media it builds and the services it asks; TLC
configurations that check them on small instances, and TLAPS proofs that hold for
every instance. The Go code is the reference: each definition
is a translation of the lines that `PROJECT.json` gives for it under `map`.

    tlc -workers 2 -config MCSession.cfg MCSession     # one run
    tlapm SessionProofs.tla                            # one proof module

## 1. The system

The SDK finds Windows media on Microsoft's services, downloads it, and turns it
into WIM, ISO and USB media. Paths below are relative to the repository.

| Component | State it keeps | Operations |
|---|---|---|
| Cookie manager, `pkg/wuproto/soap/auth.go` | one cached cookie and its expiry under an RWMutex | `Get`, `acquire`, `Invalidate` |
| HTTP transports, `windowsuup/client`, `esd/client`, `softwaredownload/client` | semaphore, counters, one HTTP client with retries; the Windows Update one owns a cookie manager | `Get`, `Post`, ... through `executeRequest` |
| Builds and files services, `windowsuup/api/{builds,files}` | nothing of their own; loop variables | `FetchBuilds`, `resolveFileURLs`, `fetchFileMetadata`, file filters |
| File download, `windowsuup/api/download` | a channel of jobs, a shared context, the first error under a mutex, files on disk | `DownloadFiles`, `DownloadFile`, `VerifyFiles` |
| Build diff and versions, `windowsuup/api/diff`, `builds/version.go` | none | `diffFileSets`, `CompareBuilds` |
| Workflows, `windowsuup/workflows.go` | none | `DownloadBuild`, `FetchLatestAndDownload` |
| SOAP parsers, `pkg/wuproto/soap` | none | `ParseFileURLs`, `ParseSyncUpdatesResponse`, `IsCookieError` |
| ESD catalog, `esd/api` | none | fetch, parse and filter the catalog |
| Software download, `softwaredownload/api` | a whitelisted session id | resolve language, SKU and link, download |
| WIM updater, `pkg/wim/modify*.go` | staged edits, a header, the open file | `OpenForUpdate`, `AddFile`, `RemoveFile`, `SetProperty`, `Commit`, `Close` |
| WIM writer, splitter, joiner, `pkg/wim/{writer,writer_copy,split,join}.go` | blobs seen, write position | `AddImage`, `AddImageFromWIM`, `Close`, `Split`, `Join` |
| WIM reader and codecs, `pkg/wim` | blob table read on demand, a cache of decoded chunks | `OpenImage`, `ReadFile`, `Extract` |
| UDF and ISO writers, `pkg/udf`, `pkg/iso` | block assignment, write position | `WriteTree`, `BuildWindowsUDF` |
| ISO builder, `pkg/builder` | a work directory | `BuildISO`, `BuildISOFromWIM` |
| USB media, `pkg/usb` | a disk | `planMedia`, `execute` |
| Codecs, `pkg/wim/{lzx,xpress,lzms}` and CAB reader, `pkg/cab` | bit position, window, codes, recent offsets | `Compress`, `Decompress`, `Extract` |
| ISO inspector, `pkg/isoinspect` | none; rewrites the boot catalog of a file in place | `Inspect`, `ExtractElToritoEFIImage`, `SetElToritoUEFIOnly`, `RetargetElToritoUEFI` |
| CLI, progress bars, text of answer files | none worth modelling | |

**How they interact.** A service call of the Windows Update client takes a
cookie from the cookie manager, posts through the transport (which waits for a
slot of the semaphore and retries), and on a cookie error invalidates the cookie
and goes round once more. `DownloadBuild` does that, then hands the resolved
URLs to `DownloadFiles`, whose goroutines use the same transport for the
headers of each file and read the body afterwards on their own. The builder
reads an ESD with the WIM reader, writes `boot.wim` and `install.wim` with the
WIM writer, edits them with the updater, and passes the tree to the UDF writer
or the USB media code, which split a large WIM.

**Where it is hard**, and what makes each part correct:

* *Interleavings*: callers that find no cookie at once; an `Invalidate` while
  somebody refreshes; goroutines that fail together. Correct means: one refresh
  at a time, never an older cookie, a retry with a newer cookie, the first error
  is the root cause.
* *Resources*: semaphore slots over retries, deadlines, cancellations. Correct
  means balanced on every way out, and a bounded number of requests per call.
* *Failure and crash*: half a download, half a commit of a WIM. Correct means
  that what readers see changes in one step or not at all.
* *Repetition*: a second call after an error, a second `Commit` on one Updater.
* *Waiting*: stalled bodies, locks held over the network. Correct means that
  cancellation gets everybody out.
* *Layout*: two walks over one tree, tables that name places in a file, resources
  shared by images, sets of parts. Correct means that a reader, written apart
  from the writer, finds what was put in, whatever the order, sizes and sharing.
* *Bit streams*: raw bytes between code words, codes rebuilt on the fly, windows
  and recent offsets kept over cuts. Correct means that the decoder is never out
  of step with the compressor.
* *Answers* in pieces, from two requests at two moments, filtered by name.
  Correct means: every file the answer has that was asked for, as the answer has it.

`PROJECT.json` lists the hazards line by line, with the property that covers
each; where the property leaves a part of one out, or none covers it, a note says why.

## 2. Modules

```
Goroutines                         the goroutines of one client
  CookieManager   -- implements -->  CookieCache
  Transport
    Session       = CookieManager + Transport + the retry loop      MCSession
    DownloadFiles = Transport + jobs, files on disk, crashes        MCDownloadFiles
WimTree                            directory trees and edits of them
  ImageStore                       abstract: images that change at once
  WimUpdate       -- implements -->  ImageStore                     MCWimUpdate
WimFormat                          what a WIM is made of and how it is read
  WimWriter                        images added, copied, closed
  WimSpan                          parts: Split and Join
    WimMedia      = WimWriter + WimSpan                             MCWimMedia
Huffman, MatchFinder               what the codecs share
  Xpress, LzxReader, LzxWriter, Cabinet, Lzms
    Codecs        = a job for each of them                          MCCodecs
UdfFormat                          sectors, descriptors, names
  UdfWriter, UdfReader             the two walks; the strict reader, the inspector
    IsoBridge                      boot catalog: made, inspected, rewritten
      IsoBuilder                   builds in a work directory
        UsbMedia                   plan, erased disk, execution
          Disc    = all of these and somebody who changes files     MCDisc
FileCatalog                        answers, filters, comparison, verdicts
IsoResolver                        the software-download service
  Services        = both, and what Microsoft publishes meanwhile    MCServices
SequenceLemmas                     numbers, finite sets, sequences
*Proofs                            theorems about the module named before
```

**CookieManager**: `cookie` is `cached`, `writer` the holder of the write lock,
`get[c]` where a caller is in `Get`. A read section is one step, taken while
nobody holds the write lock (nothing changes during one). `GetSlow` stands for
the gap between the two locks, `GetRecheck` and `GetRefresh` for the second
look, `ServerIssue`, `GetStore` and `GetFail` for the exchange. Cookies are
numbered in the order the server issues them. `CookieCache` is the promise: one
current cookie, a new one only when there is none, and only newer ones.

**Transport**: `slots` is the number of tokens in the semaphore's channel,
`req[c]` where the request of a caller is: waiting for a slot, trying, pausing
(the delays after an answer, slept with the slot held), returned. `Retry`,
`Reject`, `Accept`, `Abort`, `Overrun` are the ways an attempt ends. It owns no
specification: the modules that compose it say who submits and what becomes of
the answer. The transports of `esd` and `softwaredownload` are copies of this
one without cookies.

**Session**: the loop of `FetchBuilds`, `resolveFileURLs` and
`fetchFileMetadata`, which differ only in what they post. `sent` and `rejected`
are the numbers of cookies, `asks` and `tries` the attempts the HTTP client makes
for `GetCookie` and for the request, `rounds` how often the call has asked for a
cookie. `GetCookie` goes through the same HTTP client and its retries (`AskAgain`),
but not through the semaphore.

**DownloadFiles**: `taken` is the channel, `st[w]` a goroutine's place in
`downloadOne`, `disk` what each name of the destination holds (nothing, a file
of the list, something of another size, or `Lookalike`: other bytes of the right
size, which the size comparison cannot tell apart), `url` the CDN URLs with
their expiry. `Crash` drops everything but the disk; `Call` may follow any end.
`Return` is `wg.Wait`; temporary files of a crashed process stay on disk under
random names and are not modelled further.

**WimTree, WimUpdate, ImageStore**: the file behind the header is a sequence of
resources that only grows and an offset is an index into it. `head` is the
header on disk, `hdr` is `u.hdr` (changed before it is written, so the two can
differ), `base` the table of the read view `u.w`, which stays at what it was
when the file was opened. `Commit` is one action per write: blobs, metadata,
table, catalog, header, sync. `CommitFails` is an error at any read or append,
with or without part of the data written, `HeaderFails` one at the header, and
`Quit` is `Close` or the death of the process between any two writes. `drafts`
is a history of each image after each staged edit; it says what the result
should be without saying how `Commit` gets there. Trees record, for each path,
which entries bear its name in directory order, since the code adds by name and
kind and removes the first of a name; `With` and `CanRemove` are those lookups.

**WimFormat, WimWriter, WimSpan, WimMedia**: a WIM file is a sequence of cells, a
cell being a byte of content, a table entry, a directory entry, the header or the
catalog, so that every offset and size is the code's with smaller numbers; the
hash of a content is the content. `WimFormat` is the reader: `LoadOffsetTable` with
its runs of solid resources, chunk tables whose entries widen with the size,
`ReadDir` over the offsets of the directory entries, `OpenImage`, `ReadFile`.
`WimWriter` has one action per write of `AddImage`, `AddImageFromWIM` and `Close`;
`seen` and `blobs` are the fields of the Writer, `added` and `unpacked` histories. A
write may fail, with part of its data written, and the caller may go on, add
other images, and close again, also after a header that could not be written
(`HeaderFails`): the file's position (`cursor`) then is at its start and `w.pos` at its
end, which `rewound` remembers. Calls after a `Close` that returned nil are not
modelled. `Reopen` says whether he opens a source again that
could not be read. Compressing goroutines take chunks in any order
(`Workers`). `WimSpan` packs and joins; `WimMedia` splits a closed WIM into a folder,
again with another size perhaps, over what the first Split left, and joins any
set of the parts it finds.

**Codecs** runs one job in each behaviour. `Xpress` and `LzxWriter` are the
compressors of the repository, with the greedy parse over the hash chains of
`MatchFinder`, the length-limited codes of `Huffman` and the bit writers; they are
read by `XpressDecompress` of the repository and by `LzxReader`, which is both
go-winio's reader of WIM chunks (external) and, with another block header, the
one of `pkg/cab`. `Cabinet` makes a folder step by step, as its unknown maker might:
blocks of the three types, matches, cuts into data blocks anywhere between two
items, and reads it back as LZX, MSZIP and stored. `Lzms` follows the decoder item
by item next to a compressor with lists of its own, and may refuse an item
(`invalid` is `ErrInvalid`), and, in jobs of their own, the
adaptive code and the range decoder; the filter of x86 code comes after them.

**UdfFormat ... Disc**: an image is a function from sector numbers, the real ones,
to descriptors or bytes. `UdfWriter` is `WriteTree`: the walk that sizes the tree,
`AssignBlocks`, then one action per node that writes its entry and its data, while
`Change` of `Disc` may make a file longer or shorter or delete it. `UdfReader` has the
strict reader of `pkg/udf`, which refuses what Windows refuses, and the inspector,
which reports. `IsoBridge` finds the boot images by their lower-case paths in a walk
of its own (`IndexISO`) before `WriteTree` begins its own (`BeginISO`), writes the catalog, and has the inspector's view and its two calls that rewrite it.
`IsoBuilder` is `BuildISOFromWIM` with one action per step over `media`, the tree in
the work directory, which the next build finds as the last one left it; `leftover`
is what it held when the build began.
`UsbMedia` plans, erases and copies in any order; `planned` and `touched` are the tree
that was planned and the files that have changed since. `install.wim` is a sequence of
resources, which begin with the bytes of `ResourceStarts`, and `PackParts` puts them
into parts as `packParts` does, none divided.

**FileCatalog, IsoResolver, Services**: a file name is a record of the parts that
patterns and filters look at, a digest a content with the form it is held in
(base64, hexadecimal, junk or none). `FileCatalog` has the two parsers, the filters,
`diffFileSets`, `verifyOne` and the selection from the ESD catalog as pure
definitions; `IsoResolver` has the actions of a caller of the software-download
service from page to renamed file. `Services` makes operations of requests, between
which `Publish` may put up something else and `Damage` may change a file on disk.

## 3. Runs

| Run | Instance | Distinct states | Checks |
|---|---|---|---|
| `session` | 2 callers with a call each, 1 slot, 1 retry, TTL 2, exchange 1, clock 2, 3 cookies | 328,010 | types, `RetryIsFresh`, `SlotAccounting`, `RequestBudget`, `GetReturnsValid`, `IsCache`, `CallsEnd` |
| `download` | 2 goroutines, 3 files of which 2 share a name and 1 has no size, 1 slot, 1 retry, 2 calls | 388,607 | types, `SlotAccounting`, `NilMeansAll`, `RootCause`, `NoLitter`, `DestAtomic`, `CancelReturns` |
| `wim_update` | 2 images (the second bootable), 2 paths, 2 contents and the empty one, 2 Updaters, 2 edits, 2 commits | 505,709 | types, `Readable`, `OkMeansApplied`, `IsAtomic` |
| `wim_media` | a tree with shared contents, a solid source of 2 images, 2 images added, 1 failing write, parts of 2 sizes, 2 splits | 24,494 | types, `WrittenReadsBack`, `ChunksOnce`, `PartsPacked`, `JoinedReadsBack` |
| `codecs` | all short texts over 2 letters, periodic ones, texts and programs with calls, counts of 5 symbols, cabinets of up to 4 events and some of 7, LZMS texts of a few items | 37,752 | `ChunkReadsBack`, `LzxReadsBack`, `LengthsDecodable`, `CabReadsBack`, `LzmsReadsBack`, `AdaptiveCodeOptimal`, `RangeHasRoom` |
| `disc` | 5 sets of build options, 2 builds, 1 failing step, 1 change by others, 2 rewritten catalogs, disks of 3 sizes and 2 file systems | 106,609 | `ImageReadsBack`, `LinksClosed`, `InspectorAgrees`, `BootsChosen`, `BuiltFromOptions`, `MediumComplete` |
| `services` | 2 things published, 3 devices, 6 sets of file options, 3 operations, 1 change by others; 2 callers with 2 calls over one directory, 3 links, clock 2 | 256,771 | `OfferAgrees`, `DiffReplays`, `VerdictRight`, `IsoAsRequested` |
| `lzx_calls` | as `codecs` | | finds `CallsRestored` violated |
| `services_verify` | as `services` | | finds `WholeIsAccepted` violated |
| `download_budget` | as `download`, 1 call, `TotalRetryDuration` set | | finds `RootCause` violated |
| `download_cap` | as `download`, 1 call | | finds `InFlightCapped` violated |
| `wim_packed` | as `wim_update`, compressed metadata, 1 Updater, 1 commit | | finds `UnmodifiedKeepEntry` violated |

What the properties say:

* `RetryIsFresh`: the second round of a call carries a cookie newer than the one
  the server rejected, whatever other callers do in between. It rests on the
  write lock being held from the POST to the store.
* `SlotAccounting`: the tokens in the semaphore are those of the requests under
  way; `release` drops a token silently, so nothing in the code would notice.
* `RequestBudget`: at most `4 * (RetryCount + 1)` HTTP attempts for one call, those
  of `GetCookie` included: two rounds, each with a cookie to get and a request to post.
* `GetReturnsValid`, `IsCache`: what `Get` returns has not expired, if no exchange
  takes as long as a cookie lives (`AcquireMax < TTL`), and the
  manager with its locks, clock and network is the abstract cache.
* `CallsEnd`: every service call ends; nobody keeps a lock or a slot.
* `NilMeansAll`: nil from `DownloadFiles` means every file is there, unless the
  caller has cancelled its context: a goroutine that finds the context cancelled
  between two files leaves without an error, and nil is then returned with files
  missing. The property excludes that case because the caller knows of it.
* `RootCause`: "context canceled" is returned only to a caller that cancelled.
* `NoLitter`, `DestAtomic`: no temporary file survives its goroutine, and a name
  in the destination changes only to a whole file of that name. Of two files of
  one name either may be the one that stays.
* `CancelReturns`: after an error or a cancellation the call returns, even when
  every connection has stalled.
* `Readable`: at every moment the header leads to a complete table, the table to
  every blob and to metadata whose files all have blobs, and the boot metadata
  pointer to the boot image.
* `OkMeansApplied`: nil from `Commit` means that the file holds every staged
  edit, applied once, also after earlier commits that failed or succeeded.
* `IsAtomic`: `WimUpdate` implements `ImageStore`: images and catalog change in
  one step, to all that was staged, and never if an edit cannot be applied.
* `WrittenReadsBack`: what `Close` finished extracts to the trees that were added,
  in order, also when images were abandoned, a write had failed, or `Close` was
  called again after an error at the table, the catalog, the boot index or the seek.
  A `Close` after a header that was not written is excepted: the model shows that
  its file cannot be read although it returns nil. And one thing may be missing, a
  content whose own write failed: `addFileBlob` has marked it as seen by then, and a later
  file of that content refers to nothing.
* `ChunksOnce`: copying an image unpacks no chunk of a solid source twice.
* `PartsPacked`: parts stay below the part size but for single resources and the
  metadata; nothing is left out or in two parts.
* `JoinedReadsBack`: a joined WIM has no wrong content, and all of it if the parts
  are those of one Split; with parts missing `Join` succeeds and contents are
  missing, which the property allows because the code does not look for it.
* `ChunkReadsBack`, `LzxReadsBack`, `CabReadsBack`, `LzmsReadsBack`: decoders give back
  the text and refuse nothing. LZX leaves out two kinds of chunks that the code does
  not give back: calls that do not jump forward, and a main or length tree of a
  single symbol. `CabReadsBack` leaves out an odd raw block that goes on over a cut
  and is not the last (all three in section 4).
* `LengthsDecodable`, `AdaptiveCodeOptimal`, `RangeHasRoom`: the codes made for counts
  are complete or at least decodable after their repair, the one made in place
  is optimal, and the range never runs out.
* `ImageReadsBack`, `LinksClosed`: the second walk writes what the first assigned; the
  strict reader finds every name and size, and each file that had not become
  shorter. A file that grew overwrites what comes after it, and that is written
  later again, so only its own tail is lost.
* `InspectorAgrees`, `BootsChosen`: two packages agree on one layout, and the boot
  catalog loads the chosen file whole after any number of rewrites, if that file was
  there, and not empty, when `WriteTree` walked.
* `BuiltFromOptions`: when the tree is mastered, each file this build is to write holds
  what its options and the ESD give it, whatever an earlier build left; any other
  file is a leftover of the work directory, unchanged, and in a directory of the
  build's own there is none. Leftovers are mastered too: nothing cleans them away.
* `MediumComplete`: a disk written without an error has every file planned, with its
  bytes unless the file has changed since; `install.wim` in one piece or in parts
  that add up to it; only parts of a single resource over the limit; and a loader
  that `planMedia` looks for, or the one it made up, which on ARM64 has another name.
* `OfferAgrees`: a list of files is what the service's answer says of that build, with
  size and digests, or with places of which each record names one; the asked
  extension is kept to, and each file the filters are documented to keep is there,
  but for places whose digest another file shares. That nothing else is there is not
  so, and not said (section 4). `DiffReplays`: a comparison leads from one build to the
  other, also where two files have one name. `VerdictRight`: verification accepts
  nothing wrong, and everything right whose digest is in base64 or that has none;
  `IsoAsRequested`: language, architecture, session, expiry and file of an ISO, with
  two callers that end in one file name, where each may find the other's content.

**Bounds.** Two goroutines and one slot give every conflict over the lock, the
slot, the mutex and the first error; a third only queues behind the second. In
`session`, TTL 2 and an exchange of at most 1 let cookies expire while in use,
and the clock stops at 2, which is enough for one cookie to expire and another to
be fetched; three cookies are enough for one caller to be rejected and to go round
while the other is refreshing, or for an attempt of `GetCookie` to be lost.
In `download`, three files make one goroutine take a second job while the other
fails, the two that share a name collide, and two calls let the second find what
a crash or an error of the first left. In `wim_update`, two edits and two commits,
shared by up to two Updaters, give a second commit after a success, after a
failure at any write and after a crash; two images give an edited and an unedited
one, or two edited ones in either order; the trees start with a directory in one
image where the other has a file of that name. The counters are bounded by
`MaxTime`, `MaxCookies`, `MaxCalls`, `MaxRounds`, `MaxOpens`, `MaxEdits`,
`MaxCommits`, `MaxImages`, `MaxFailures`, `MaxSplits`, `MaxEvents`, `MaxBuilds`,
`MaxFaults`, `MaxChanges`, `MaxRewrites`, `MaxRequests` and `MaxOutside`, each a guard
of one action. `LongShapes` adds cabinets of seven events to those of up to `MaxEvents`:
a block, a cut inside it, and another block, after which the state kept over the cut
shows. `Parts`, the names of the parts of `install.wim`, bounds how many a
disk may need. Deadlock checking is off because the models stop there. The
theorems hold whatever these bounds are.

*Widths.* Formats are checked with smaller numbers, so that their limits are within
reach of small data: WIM chunks of 2 cells, with wide chunk table entries from 3;
bytes of 2 bits and words of 4 in XPRESS, LZX offsets in 5 to 9 slots, matches of at
most 9, frames of 10 bytes, calls with operands of 3 bytes of 2 bits, translated up to offset `MaxE8Offset`, 15, LZMS shifts of
3 bits and probabilities of 2; sectors of 8 bytes, lengths of UDF that wrap at 24 and
extents of at most 16, descriptors of 5 bytes and their names, virtual sectors of 2
with counts up to 4, files of at most 18 on FAT32 and parts of 12, of resources of 4 to
19 (`ResourceStarts`). The code's values
are the constants' comments; sector numbers are the real ones. `wim_media` adds a
tree that has a content twice, an empty file and contents of one to three chunks,
and a source whose solid run, order of files and streams differ from what the
Writer makes. `codecs` takes every text of up to 7 letters, and periodic ones that
are long enough for every escape of the match lengths. In `disc` one failing step
and one change meet every step; once an image's catalog is rewritten nothing else
is made, and a disk is written from an image nobody has changed. In `services` the
two things published differ in every way the parsers and filters look at;
the two clients share nothing, so a behaviour uses one.

**Symmetry** of the goroutines is used in the two short `download_*` runs and, for
the compressing goroutines, in `wim_media`: these check invariants only; the runs
with liveness properties do without.

**Fairness.** `Session!FairSpec`: a goroutine that can run does, and every HTTP
exchange ends (the client has a request timeout of two minutes). Weak fairness is
enough for the locks because each goroutine makes finitely many calls. The clock,
new calls and cancellations are not fair. `DownloadFiles!FairSpec` is weaker,
because downloads use `SetTimeout(0)`: only the steps of a goroutine that wait for
nobody outside the process are fair (`LocalStep`) and the return of
`DownloadFiles`; answers and bodies may never come. The other specifications state
none: what they model are sequential calls, and their properties are about what
has been made when one returns.

## 4. Disagreements the runs show

1. `services_verify`: `verify.go:25` says that hashes are base64-encoded and are decoded
   before comparison; `GetFiles` makes them hexadecimal, a hexadecimal digest is
   valid base64 of other bytes, and `VerifyFiles` refuses every file downloaded with
   one of its records.
2. `download_budget`: with `TotalRetryDuration` set, `executeRequest` cancels the
   context of the request on return, while the body is still to be read under it;
   a download fails with "context canceled" that nobody cancelled.
3. `download_cap`: `MaxConcurrentRequests` "caps parallel in-flight requests", but
   the slot of a streamed download is given back when the headers have arrived.
4. `wim_packed`: "Unmodified images keep their original entry", but the flags of
   a metadata entry are replaced by `resFlagMetadata`. When metadata is compressed,
   as in Microsoft's media, a commit that edits one image leaves the entries of
   the others saying that it is not, and they can no longer be read. The Writer of
   this package does not compress metadata, and for such files the properties hold.

5. `lzx_calls`: `encodeE8` "must apply the inverse transform so that the round-trip
   is lossless"; it does not for a call with a negative displacement, for one at
   the last place it looks at, and for one within reach of the translation size.

Met while modelling, and part of the models as the code has it:

* `DownloadFiles`: "Files whose CDN URL has expired are skipped with an error logged"
  (`download.go:82`); the code returns an error, which ends the whole call.
* An LZX chunk whose main or length tree has one symbol is refused by the decoder
  of which `lzx/compress.go:61-63` says that it can decompress the output: one byte
  repeated makes one. `LzxReadsBack` leaves these chunks out.
* `resetReader` of `pkg/cab/lzx.go` clears the note that a byte of padding follows an odd
  raw block, so a folder in which a cut divides such a block and another block
  follows is misread (`PaddingForgotten` in `Cabinet`).
* A `Close` of the Writer after one whose header could not be written begins at the
  start of the file, names places at `w.pos`, where nothing was written, and returns
  nil (`writer.go:125-150`, `268-273`).
* `swmSliceSize`: "a part never crosses" the limit of FAT32 (`usb.go:56-58`), but
  `packParts` never divides a resource, so a large one makes a part that does.
* `injectExtraFiles` ranges over a map, so of two keys that are cleaned to one path the
  caller's file may be replaced by the generated answer file, where `builder.go:55-57`
  says that it is not overwritten. `BuiltFromOptions` says so for the same key only.
* `BuildWindowsUDF` finds the boot images in its first walk; one that is gone when
  `WriteTree` walks is booted from sector 0 without an error.
* `DownloadBuild`: "files already present at the correct size are skipped"
  (`windowsuup/workflows.go:20`), but `resolveFileURLs` leaves the size 0, so none is.
* `WithLanguage` and `WithEdition` "filter files to those matching" (`files/options.go:26-34`)
  but let others through: a language filter keeps each name without an underscore
  (`files.go:186`) and drops files with an edition marker and no language; an edition
  filter keeps names of editions whose marker it does not know, and of those whose
  name begins with the asked one (`files.go:200`); `PPIPRO` files pass every edition filter;
  places are deduplicated by digest before the names are filtered, so that a wanted
  name may be lost to an unwanted one of the same content.
* A build string of two parts ("26100.4061") takes the branch of a build that is
  not known.
* `GetFiles` of a build that is no longer published returns no files and no error,
  and `Diff` then says that everything was removed.
* `CompareBuilds` is not an order when versions that parse and versions that do not
  are mixed; nothing in the repository sorts by it.
* `writeEFIFallback` writes `bootarm64.efi`, while firmware and `planMedia` look for
  `bootaa64.efi` (`MediumComplete` excepts it); and it opens `sources/install.wim`
  after the disk is erased, where `planMedia` was content with `boot.wim`.
* Split, Join: a set with a part missing joins without an error.

## 5. Proofs

| Module | Theorems | Assumes |
|---|---|---|
| `SequenceLemmas` | lemmas: least elements, ranks, `FlattenSeq`, `SetToSeq`, slices, division, orders | |
| `TransportProofs` | lemmas: each step of a request keeps the types and `SlotAccounting` | |
| `SessionProofs` | `CookieInvariant`, `ReturnedCookiesAreValid` (`GetReturnsValid`), `ManagerIsCache` (`IsCache`); `SessionInvariant`, `TypeCorrect`, `RetriesAreFresh`, `SlotsAreAccounted`, `CallsStayInBudget`, `SessionCookiesAreValid`, `SessionSharesCache` | `AcquireMax < TTL` |
| `DownloadFilesProofs` | `DownloadInvariant`, `DownloadTypeCorrect`, `NothingIsLost`, `NothingIsLeft`, `DownloadSlots`, `FirstErrorIsRoot`, `InstallIsAtomic` | `~Budget` for `FirstErrorIsRoot` |
| `WimUpdateProofs` | `Invariant`, `TypeCorrect`, `AlwaysReadable`, `NilMeansApplied`, `Atomic` (the refinement `IsAtomic`) | `Packed = FALSE` |
| `WimMediaProofs` | `MediaInvariant`, `TypeOKTheorem`, `WrittenReadsBackTheorem`, `PartsPackedTheorem`, `ChunksOnceTheorem`, `JoinedReadsBackTheorem` | `Reopen`; `WriterAssumption`, `TreesAssumption`, `SourceAssumption`, `SolidAssumption`, `MediaAssumption` |
| `ServicesProofs` | `OfferAgreesTheorem`, `DiffReplaysTheorem`, `VerdictRightTheorem`, `IsoAsRequestedTheorem`; lemmas `UpdateInvariant`, `IsoInvariant`, and what the filters, the parsers, `diffFileSets` and `verifyOne` return | `ServicesAssumption`, `SizesAssumption`, `IsoResolverAssumption` |
| `DiscProofs` | `DiscInvariant`, `BuiltFromOptionsTheorem`, `MediumCompleteTheorem`; `LinksClosedTheorem`, `ImageReadsBackTheorem` | `BuilderAssumption`, `LayoutAssumption`, `UsbAssumption`, `ChangesAssumption`, `TreeAssumption`, `UdfAssumption`; `NamesFit` for the last two |

They hold for any number of goroutines, files, retries, images, paths, contents,
edits, commits, crashes, callers, answers, builds and failing steps. The named
assumptions are conjuncts of the modules that declare the constants, and TLC
evaluates them on the instances of the runs.

* **Cookies.** Validity is not inductive: it needs that whoever is between the
  POST and the store holds the write lock, so there is at most one; that the time
  it read before the POST is at most `AcquireMax` ago; and that its reply is newer
  than `newest`. The last also gives the refinement. `AcquireMax < TTL` is what
  the defaults give (four attempts of two minutes and three waits of at most half a
  minute, against the 14 minutes of `cookieTTL`); the code does not enforce it for
  other settings.
* **Session.** The invariant is that of the cookie manager and of the transport,
  and what ties the loop to both: once a cookie was rejected, neither the cache nor
  anything the call gets from it is that cookie or an older one (`FreshInv`), and
  a call has asked for a cookie once in each of its rounds (`RoundInv`); that neither
  `asks` nor `tries` passes the HTTP client's attempts is part of the two other invariants. `TransportProofs` serves this proof and the next one.
* **DownloadFiles.** The jobs up to `taken` are each held by one goroutine,
  delivered, or accounted for by an error or a cancellation; a cancelled context
  has a reason (an error recorded, the caller, or the end of the call); a
  temporary file belongs to a goroutine that is streaming or renaming.
* **WimUpdate.** The file only grows, so what is complete stays complete. `Tables`
  says that the tables of the header, of `u.hdr` and of the read view are
  complete and that the later ones have every blob of the one read at open time,
  which is why a tree rebuilt from old metadata finds its blobs in the new table;
  `Building`, `Editing` and `Tabled` carry the drafts through a commit;
  `Published` keeps what was written true until there are new edits. The refinement
  follows: every action but the header's write, the opening and the staging of
  edits leaves the abstract state alone.

* **WIM writer.** That a closed WIM reads back is seen only when it is read, so
  `MediaInv` says all along what reading will need. `BlobsInv`: every content written
  has, where its descriptor says, the chunk table and the chunks of that content
  (`ResourceOf`), once, and what is `seen` is written, being written, or `lost`.
  `ImagesInv`: the metadata of each image are in the file and the contents of its files
  seen. `JobInv`: the same of the image under way but for the contents to come.
  `PoolInv`: whatever the goroutines do in which order, a chunk is empty or the one
  it is to be. `PlaceInv`: the file ends where the Writer is, so a write, or what a
  failing one leaves, disturbs nothing before it. `CloseInv`: what Close has written
  describes all this. From there `ContentRead` follows the reader through the chunk table:
  `ChunkOffsets` says that each entry, wide or not, is the length of the chunks before,
  `ChunkOpens` that a chunk as long as its content was stored as it is, `RawsJoin` that the
  chunks put together are the content; `OpenedIs` follows `LoadOffsetTable`.
  `TreesAssumption` says of the given trees, whose depth is arbitrary, that they are
  finite: that the metadata made of each is read as that tree, and that its walk
  meets every file; `SourceAssumption` that the source is a WIM of its trees. `Reopen`
  is the caller's: one who uses on a source that failed to open finds the images of it
  shifted, and the theorem does not hold for him.
* **Split.** `PartsPacked` is about a function, `PackParts`, and its proof is an
  induction over the blobs placed (`PackedAll`): of the parts made so far (`Packed`)
  each is below the limit, holds one resource or is the first with the metadata alone,
  and together they hold the metadata and the blobs placed, and no more of them.
  `FlattenLast` and `RunningGrows` are what an append to the last part does to the
  whole and to the size; `ItemsAre` finds the metadata and the blobs in the table.
* **Join.** What Split and Join copy is tied to the content that was first written by
  `Stored`: an entry is `Known` (a blob of its own content, or the metadata of image
  `i` as the Writer left it) and the file holds at its descriptor what the entry stands
  for. The closed WIM has it (`MediaInv`); a part has it because its resources are
  moved as they are (`Carries`, `PartCarried`); the joined file has it because the plan
  of Join takes entries of parts, each content once and the metadata of the first part
  (`Planned`, `Listed`). Then `OpensAs` follows the reader through the new table: the images
  come in their order because the metadata stand first in it, and the boot metadata
  is the one of the same place, for which no two images may share a place (`ApartInv`).
  That nothing is missing when the parts are those of one Split is `PartsPacked` again;
  which parts are in the folder, after Splits that failed half way or used another
  size, is what `FilesInv` and `FolderInv` say.
* **Solid sources.** That no chunk is unpacked twice needs the order of the plan:
  `SortBlobsBySource` puts the contents of one solid resource one behind the other
  (`PlanInTurn`), each of them still unread starts in the last chunk unpacked of its
  resource or behind it (`Ahead` in `OnceInv`), and that chunk is the one the reader
  keeps. `SolidAssumption` says that the contents of one solid resource do not overlap.
* **Services.** The two clients share nothing, so each has an invariant of its own.
  `IsoInv` says what a call knows at each point: the product and the SKU it chose
  come from lists of its own page, the session it uses went through vlscppe, the
  attempts are counted, and the link is of the architecture asked for; and every
  file of the directory has a content published under its name, whichever of two
  calls put it there.
  `UpdateInv` says that what is stored between operations is the outcome of one of
  them. The rest is about operators. The parsers and filters are concatenations
  and selections, so the lemmas say which elements a list has and that the order
  is kept; `FilesOfAre` and `UrlsAre` take an answer apart down to the published
  file, and `DiffOfLists` reads a comparison as an instruction. The assumptions
  are those on what a service sends: lists are finite, sizes are numbers and a ring
  is one the table of branches has. The two answers about one build need not agree:
  a list with places is compared with the answer the places came in.
* **Builds.** `LaidInv` and `ExtrasInv` collect what each step has put into the tree.
  They are inductive because no path a build writes is a directory above another
  or above a file of the setup tree (`LayoutAssumption`): a write makes the
  directories above its path, and these then are directories already. `LeftInv` says of every
  other file that it is one of `leftover`, unchanged: each step writes only files of
  this build (`LeftBuild`, `LeftStep`). `ExtrasInv` lets the caller's file stand where a
  step's was, and of two keys that are cleaned to one path either.
* **Disks.** `PlanInv` relates the plan to the tree it was made from and to what has
  been touched since, `CopyInv` the files that are not pending to the disk, and
  `StageInv` the parts and the loader, which come last and must not meet a file
  that was copied. `PackedIs` follows
  `PackParts` resource by resource: the parts made so far join to the prefix read so
  far, and one that is as long as the limit holds a single resource (`Packing`);
  `SplitIs` adds the header that each part has. That `indexTree` finds a loader or `install.wim` whenever some file
  has that name in any case needs that the walk's order is total and transitive
  (`BeforeTotal`, `BeforeTransitive`). `UsbAssumption` excludes trees with a file named
  like a part or, on ARM64, like the loader that is made up: either would be
  overwritten.

* **Images.** `ImageInv` says of an image, from the first node written to the last
  rewrite of its catalog: `Walked`, the nodes are those of a closed tree in the
  order of the walk, numbered and laid one behind the other, each directory with
  room for just its descriptors (`Laid`); `Structured`, the volume's descriptors lead
  to the root; and for every node written so far `NodeOn`, its File Entry with its
  links and extents and the cells of its descriptors, or of the file as it was when
  it was copied, are where the walk put them. The second walk keeps this because nodes
  are apart (`NodesApart`): a file that has grown only writes over nodes that come
  later (`NodeKept`, `WrittenOver`). A rewrite of the catalog writes the catalog's
  sector and no other, because the boot record still leads there (`Bootable`). That
  trees are closed is an invariant of the builder, `Shaped`: `TreeAssumption` says that the setup tree is one and that a
  file of a build is none of its directories. From `ImageInv` at the end,
  `FidsName` follows the strict reader through a directory (`DirectoryIs`: the stream is
  as long as the first walk counted; `ParseIs`: its heads are found again; `ExtentsAre`
  and `EntryDataIs`: the extents join to the whole), `WhoNames` finds which descriptors
  name a node, and `Resolved` goes down a path of any length.
  `NamesFit` is a limit of the code: `dcharsLen` counts the characters of a
  name, `encodeDChars` (`pkg/udf/descriptors.go`) writes its UTF-8 bytes when all
  characters are below 256, so a name with a letter from U+0080 to U+00FF is longer
  than its descriptor says, and one of 255 bytes or more wraps the length byte. For
  such names the theorems claim nothing.

Induction over the length of a sequence or the size of a set is done by taking a
least counterexample (`LeastExists`), since the induction theorems of the library
take operators, which the provers here do not instantiate.

Model-checked only: the properties of `codecs`; of `disc`, `InspectorAgrees` and
`BootsChosen`, which are about what the inspector's recursive walk returns and in
which order; and `CallsEnd` and `CancelReturns`, which are liveness under fairness.
The codecs are recursive and their properties are inductions over the data, which is out of the prover's reach, as liveness is.

## 6. Not modelled, and why

* The medium: `WimUpdate` assumes that data the system has taken survives, so a
  process may die anywhere but power may not fail between the appends and the
  header with the writes reordered; and that the 208 bytes of the header are
  written whole or not at all. Two Updaters on one file at once are not modelled,
  the code does not lock the file.
* Editing solid WIMs, which `Commit` rejects; the text of the XML catalog; times,
  security data and reparse points of tree nodes.
* A WIM reader used on after its first call failed in the middle of the table
  (`image_open.go:32`) is in the model (`OpenFails` without `Reopen`) but in no run: the
  callers of the runs open the source again, and the code promises nothing else.
* Names: paths are taken as the edits normalise them, equal up to case; on disc a
  name is a number with its count of characters and of bytes, and is wide or not; the
  names of the run have as many bytes as characters (see `NamesFit`).
* HTTP redirects, headers, the counters of rate limits; resty is modelled by how
  the transport configures it, and whether it repeats a POST is left open. The
  transports of `esd` and `softwaredownload` are copies of the one modelled.
* LZMS: how its layers share one stream, from both ends; the tables of codes other
  than their order. DEFLATE, which is Go's.
* The XML of SOAP envelopes and of catalogs, certificates and signatures, the HTML of
  the download pages: what they contain is taken as parsed, or not.
* The free-space estimate of the builder, the text of the answer file, the ISO 9660
  listing of the inspector (the ISO 9660 tree this repository writes is empty),
  its sniffing of FAT images, volume checksums and times.
* `CompareBuilds`, which nothing depends on; the introspection calls of the client.
* Disk tools of the platforms (diskpart, diskutil, sgdisk), terminal output, the
  CLI, mocks, examples.

## 7. Plan

All the modules of the plan are written, and of what they check the sessions, the
downloads, the updater, the writer, the services, the builds, the disks and the images are
proved. What is left to prove, in this order:

1. `UdfReader`: what the inspector's walk returns for an image of `ImageInv`
   (`InspectorAgrees`), which is a recursion over the tree it finds.
2. `IsoBridge`: with it, the file `RetargetElToritoUEFI` finds, and what a rewrite leaves
   in the catalog (`BootsChosen`).
