----------------------------- MODULE DownloadFiles -----------------------------
(***************************************************************************)
(* windowsuup/api/download: DownloadFiles drains a channel filled with the *)
(* files to fetch, using several goroutines (Callers) that share one       *)
(* context.  Each fetches a file through the transport, streams the body   *)
(* into a temporary file of the destination directory, and renames it.     *)
(* The first error is recorded and cancels the context.                    *)
(*                                                                         *)
(* The body is streamed after executeRequest has returned, so without a    *)
(* semaphore slot; with Budget, executeRequest's deferred cancel has by    *)
(* then ended the context the body is read under, and whether the bytes    *)
(* still to come arrive is a race.                                         *)
(*                                                                         *)
(* The caller may cancel, URLs expire, the process may crash at any point, *)
(* and the call may be made again afterwards on what it left on disk.      *)
(***************************************************************************)
EXTENDS Transport

CONSTANTS
  NumFiles,    \* the files to download are 1..NumFiles, in the order of the slice
  NameOf,      \* the name of each; names need not differ
  SizeKnown,   \* the files with SizeBytes > 0
  MaxRounds    \* bound of the calls of DownloadFiles

Files == 1..NumFiles

\* A concurrency of 0 or less becomes 4.
ASSUME FilesAssumption ==
  /\ Callers # {}
  /\ NumFiles \in Nat
  /\ DOMAIN NameOf = Files
  /\ SizeKnown \subseteq Files
  /\ MaxRounds \in Nat

Names == {NameOf[f] : f \in Files}

\* What a name may hold: nothing, one of the files whole, something of another
\* size, or something else of exactly the size of the file to download.
Absent    == 0
Stale     == NumFiles + 1
Lookalike == NumFiles + 2
Contents  == 0..(NumFiles + 2)

VARIABLES
  phase,        \* "idle", "running", "returned", or "crashed"
  taken,        \* jobs received from the channel
  st,           \* where each goroutine is
  job,          \* the file it works on, or 0
  temp,         \* it has a temporary file on disk
  firstErr,     \* firstErr, what DownloadFiles returns
  callerDone,   \* the caller has cancelled its own context
  url,          \* each file's CDN URL: "none", "live" or "expired"
  disk,         \* what each name of the destination directory holds
  rounds        \* calls of DownloadFiles

callVars == <<phase, taken, firstErr, callerDone, rounds>>
workVars == <<st, job, temp>>
vars == <<reqVars, ctxDone, callVars, workVars, url, disk>>

Init ==
  /\ TransportInit
  /\ ctxDone = [w \in Callers |-> FALSE]
  /\ phase = "idle" /\ taken = 0 /\ firstErr = "none" /\ callerDone = FALSE /\ rounds = 0
  /\ st = [w \in Callers |-> "exited"]
  /\ job = [w \in Callers |-> 0]
  /\ temp = [w \in Callers |-> FALSE]
  /\ url \in [Files -> {"none", "live"}]
  /\ disk \in [Names -> {Absent, Stale, Lookalike}]

--------------------------------------------------------------------------------
EndContext == ctxDone' = [w \in Callers |-> TRUE]

BeginRound(ph, s) ==
  /\ phase # "running" /\ rounds < MaxRounds
  /\ phase' = ph /\ rounds' = rounds + 1
  /\ taken' = 0 /\ callerDone' = FALSE
  /\ st' = [w \in Callers |-> s]
  /\ ctxDone' = [w \in Callers |-> FALSE]
  /\ url' \in {url, [f \in Files |-> "live"]}
  /\ UNCHANGED <<reqVars, job, temp, disk>>

\* DownloadFiles is called, perhaps with URLs resolved anew: the channel is
\* filled and closed, the goroutines start.
Call == BeginRound("running", "taking") /\ firstErr' = "none"

\* The destination directory cannot be made.
CallRefused == BeginRound("returned", "exited") /\ firstErr' = "failed"

Goto(w, s, j) ==
  /\ st' = [st EXCEPT ![w] = s]
  /\ job' = [job EXCEPT ![w] = j]

HasTemp(w, b) == temp' = [temp EXCEPT ![w] = b]

\* The next file; if the context has ended the goroutine exits with it.
TakeJob(w) ==
  /\ st[w] = "taking" /\ taken < NumFiles
  /\ taken' = taken + 1
  /\ IF ctxDone[w] THEN Goto(w, "exited", 0) ELSE Goto(w, "checking", taken + 1)
  /\ UNCHANGED <<reqVars, ctxDone, phase, firstErr, callerDone, rounds, temp, url, disk>>

\* The channel is empty and closed.
Drained(w) ==
  /\ st[w] = "taking" /\ taken = NumFiles
  /\ Goto(w, "exited", 0)
  /\ UNCHANGED <<reqVars, ctxDone, callVars, temp, url, disk>>

\* The error recorded whether or not there is one already.
FailLast(w, err) ==
  /\ Goto(w, "exited", 0)
  /\ HasTemp(w, FALSE)
  /\ firstErr' = err /\ EndContext
  /\ UNCHANGED <<phase, taken, callerDone, rounds, url, disk>>

\* The error recorded, the context left alone.
FailQuietly(w, err) ==
  /\ Goto(w, "exited", 0)
  /\ HasTemp(w, FALSE)
  /\ firstErr' = (IF firstErr = "none" THEN err ELSE firstErr)
  /\ UNCHANGED <<ctxDone, phase, taken, callerDone, rounds, url, disk>>

\* The temporary file left behind.
FailDirty(w, err) ==
  /\ Goto(w, "exited", 0)
  /\ UNCHANGED temp
  /\ firstErr' = (IF firstErr = "none" THEN err ELSE firstErr)
  /\ EndContext
  /\ UNCHANGED <<phase, taken, callerDone, rounds, url, disk>>

\* downloadOne returns an error: its temporary file is removed, and under mu
\* the first error is kept and cancels the others.
Fail(w, err) ==
  /\ Goto(w, "exited", 0)
  /\ HasTemp(w, FALSE)
  /\ IF firstErr = "none" THEN firstErr' = err /\ EndContext
                          ELSE UNCHANGED <<firstErr, ctxDone>>
  /\ UNCHANGED <<phase, taken, callerDone, rounds, url, disk>>

\* The file has no URL, or one that has expired.
Refuse(w) ==
  /\ st[w] = "checking" /\ url[job[w]] # "live"
  /\ Fail(w, IF url[job[w]] = "none" THEN "noURL" ELSE "expired")
  /\ UNCHANGED reqVars

HasSize(f, content) == content \in {f, Lookalike}

OnDisk(f) == f \in SizeKnown /\ HasSize(f, disk[NameOf[f]])

\* The size not compared.
SkipNamed(w) ==
  /\ st[w] = "checking" /\ url[job[w]] = "live"
  /\ disk[NameOf[job[w]]] # Absent
  /\ Goto(w, "taking", 0)
  /\ UNCHANGED <<reqVars, ctxDone, callVars, temp, url, disk>>

\* A file of that name and size is there already.
Skip(w) ==
  /\ st[w] = "checking" /\ url[job[w]] = "live"
  /\ OnDisk(job[w])
  /\ Goto(w, "taking", 0)
  /\ UNCHANGED <<reqVars, ctxDone, callVars, temp, url, disk>>

\* Get is called.
Fetch(w) ==
  /\ st[w] = "checking" /\ url[job[w]] = "live"
  /\ ~OnDisk(job[w])
  /\ Submit(w)
  /\ Goto(w, "requesting", job[w])
  /\ UNCHANGED <<ctxDone, callVars, temp, url, disk>>

\* executeRequest runs; a CDN knows no cookies.
Requesting(w) ==
  /\ st[w] = "requesting"
  /\ RequestStep(w)
  /\ outcome'[w] # "cookieFault"
  /\ UNCHANGED <<ctxDone, callVars, workVars, url, disk>>

Unanswered(w) ==
  /\ st[w] = "requesting" /\ outcome[w] # "ok"
  /\ Collect(w)
  /\ Fail(w, outcome[w])

\* An answer: the temporary file is created.
Open(w) ==
  /\ st[w] = "requesting" /\ outcome[w] = "ok"
  /\ Collect(w)
  /\ Goto(w, "streaming", job[w])
  /\ HasTemp(w, TRUE)
  /\ UNCHANGED <<ctxDone, callVars, url, disk>>

\* Or cannot be.
OpenFails(w) ==
  /\ st[w] = "requesting" /\ outcome[w] = "ok"
  /\ Collect(w)
  /\ Fail(w, "failed")

\* Streaming into the file itself.
StreamInPlace(w) ==
  /\ st[w] = "streaming"
  /\ Goto(w, "renaming", job[w])
  /\ disk' = [disk EXCEPT ![NameOf[job[w]]] = Stale]
  /\ UNCHANGED <<reqVars, ctxDone, callVars, temp, url>>

\* io.Copy reaches the end of the body, and Close succeeds.
Stream(w) ==
  /\ st[w] = "streaming"
  /\ Goto(w, "renaming", job[w])
  /\ UNCHANGED <<reqVars, ctxDone, callVars, temp, url, disk>>

\* The connection breaks, or the disk is full.
StreamFails(w) ==
  /\ st[w] = "streaming"
  /\ Fail(w, "failed")
  /\ UNCHANGED reqVars

\* The context of the request is cancelled while its body is read.
StreamCut(w) ==
  /\ st[w] = "streaming"
  /\ ctxDone[w] \/ Budget
  /\ Fail(w, "cancelled")
  /\ UNCHANGED reqVars

\* The file appears under its name in one step.
Rename(w) ==
  /\ st[w] = "renaming"
  /\ disk' = [disk EXCEPT ![NameOf[job[w]]] = job[w]]
  /\ HasTemp(w, FALSE)
  /\ Goto(w, "taking", 0)
  /\ UNCHANGED <<reqVars, ctxDone, callVars, url>>

RenameFails(w) ==
  /\ st[w] = "renaming"
  /\ Fail(w, "failed")
  /\ UNCHANGED reqVars

\* wg.Wait returns, and the deferred cancel runs.
Return ==
  /\ phase = "running"
  /\ \A w \in Callers : st[w] = "exited"
  /\ phase' = "returned"
  /\ EndContext
  /\ UNCHANGED <<reqVars, taken, firstErr, callerDone, rounds, workVars, url, disk>>

CallerCancels ==
  /\ phase = "running" /\ ~callerDone
  /\ callerDone' = TRUE
  /\ EndContext
  /\ UNCHANGED <<reqVars, phase, taken, firstErr, rounds, workVars, url, disk>>

\* ExpiresAt passes.
Expire(f) ==
  /\ phase = "running" /\ url[f] = "live"
  /\ url' = [url EXCEPT ![f] = "expired"]
  /\ UNCHANGED <<reqVars, ctxDone, callVars, workVars, disk>>

\* The process dies: what it held in memory is gone, its temporary files stay
\* behind under names no later call uses.
Crash ==
  /\ phase = "running"
  /\ phase' = "crashed"
  /\ slots' = 0
  /\ req' = [w \in Callers |-> "none"]
  /\ tries' = [w \in Callers |-> 0]
  /\ outcome' = [w \in Callers |-> "none"]
  /\ st' = [w \in Callers |-> "exited"]
  /\ job' = [w \in Callers |-> 0]
  /\ temp' = [w \in Callers |-> FALSE]
  /\ EndContext
  /\ UNCHANGED <<taken, firstErr, callerDone, rounds, url, disk>>

WorkerStep(w) ==
  \/ TakeJob(w) \/ Drained(w) \/ Refuse(w) \/ Skip(w) \/ Fetch(w)
  \/ Requesting(w) \/ Unanswered(w) \/ Open(w) \/ OpenFails(w)
  \/ Stream(w) \/ StreamFails(w) \/ StreamCut(w) \/ Rename(w) \/ RenameFails(w)

Next ==
  \/ Call \/ CallRefused \/ Return \/ CallerCancels \/ Crash
  \/ \E f \in Files : Expire(f)
  \/ \E w \in Callers : WorkerStep(w)

Spec == Init /\ [][Next]_vars

\* The steps of a goroutine that wait for nobody outside the process.
LocalStep(w) ==
  \/ TakeJob(w) \/ Drained(w) \/ Refuse(w) \/ Skip(w) \/ Fetch(w)
  \/ Requesting(w) /\ (Enter(w) \/ GiveUp(w) \/ Finish(w) \/ Abort(w))
  \/ Unanswered(w) \/ Open(w) \/ OpenFails(w)
  \/ StreamCut(w) \/ Rename(w) \/ RenameFails(w)

(* Goroutines that can run do.  Nothing is assumed of the CDN: the requests *)
(* carry SetTimeout(0), and a body may stall for ever.                      *)
FairSpec == Spec /\ WF_vars(Return) /\ \A w \in Callers : WF_vars(LocalStep(w))

--------------------------------------------------------------------------------
TypeOK ==
  /\ TransportTypeOK
  /\ phase \in {"idle", "running", "returned", "crashed"}
  /\ taken \in 0..NumFiles
  /\ st \in [Callers ->
       {"exited", "taking", "checking", "requesting", "streaming", "renaming"}]
  /\ job \in [Callers -> 0..NumFiles]
  /\ temp \in [Callers -> BOOLEAN]
  /\ firstErr \in {"none", "noURL", "expired", "failed", "cancelled", "overrun"}
  /\ callerDone \in BOOLEAN
  /\ url \in [Files -> {"none", "live", "expired"}]
  /\ disk \in [Names -> Contents]
  /\ rounds \in 0..MaxRounds

(* A name of the destination directory only ever changes from what was      *)
(* there to a whole file of that name, in the face of errors, cancelled     *)
(* contexts, crashes and second calls ("The file is written atomically").   *)
DestAtomic ==
  [][\A n \in Names :
       disk'[n] = disk[n] \/ (disk'[n] \in Files /\ NameOf[disk'[n]] = n)]_vars

\* A file the caller may take for downloaded.
Delivered(f) ==
  \E g \in Files : /\ NameOf[g] = NameOf[f]
                   /\ disk[NameOf[g]] = g \/ OnDisk(g)

(* When DownloadFiles returns nil and its caller has not cancelled it,      *)
(* every file is there: no job is lost between the channel, the goroutines  *)
(* that exit early and the error they exit with.                            *)
NilMeansAll ==
  (phase = "returned" /\ firstErr = "none" /\ ~callerDone) =>
    \A f \in Files : Delivered(f)

(* The error returned is the reason, not its consequence: "context          *)
(* canceled" is returned only to a caller that has cancelled its context,   *)
(* never because another goroutine's error cancelled the shared one first.  *)
RootCause == firstErr = "cancelled" => callerDone

(* Whatever way a goroutine leaves downloadOne, it leaves no temporary file *)
(* behind.                                                                  *)
NoLitter == \A w \in Callers : temp[w] => st[w] \in {"streaming", "renaming"}

(* Once an error is recorded or the caller cancels, DownloadFiles returns,  *)
(* even when every CDN connection has stalled.                              *)
CancelReturns ==
  (phase = "running" /\ (firstErr # "none" \/ callerDone)) ~> phase # "running"

--------------------------------------------------------------------------------
(* MaxConcurrentRequests "caps parallel in-flight requests": a request is   *)
(* in flight until its answer has arrived.                                  *)
InFlight == Holding \cup {w \in Callers : st[w] = "streaming"}

InFlightCapped == MaxInFlight > 0 => Cardinality(InFlight) <= MaxInFlight
================================================================================
