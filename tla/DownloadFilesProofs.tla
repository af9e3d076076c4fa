-------------------------- MODULE DownloadFilesProofs --------------------------
(***************************************************************************)
(* What holds of DownloadFiles for any number of goroutines, files and     *)
(* slots, whatever fails, expires, is cancelled or crashes.                *)
(***************************************************************************)
EXTENDS DownloadFiles, TransportProofs

WorkTypeOK ==
  /\ phase \in {"idle", "running", "returned", "crashed"}
  /\ taken \in 0..NumFiles
  /\ st \in [Callers ->
       {"exited", "taking", "checking", "requesting", "streaming", "renaming"}]
  /\ job \in [Callers -> 0..NumFiles]
  /\ temp \in [Callers -> BOOLEAN]
  /\ firstErr \in {"none", "noURL", "expired", "failed", "cancelled", "overrun"}
  /\ callerDone \in BOOLEAN
  /\ url \in [Files -> {"none", "live", "expired"}]
  /\ disk \in [Names -> Contents]
  /\ rounds \in 0..MaxRounds

\* Where a goroutine is tells whether it has a job, a request and a file.
PlaceInv ==
  \A w \in Callers :
    /\ st[w] \in {"checking", "requesting", "streaming", "renaming"} <=> job[w] # 0
    /\ st[w] # "requesting" => req[w] = "none"
    /\ req[w] = "returned" <=> outcome[w] # "none"
    /\ temp[w] => st[w] \in {"streaming", "renaming"}
    /\ phase # "running" => st[w] = "exited"

\* While the call runs its context ends for a reason, and at once for everyone.
ContextInv ==
  \A w \in Callers :
    /\ phase = "running" /\ ctxDone[w] => callerDone \/ firstErr # "none"
    /\ outcome[w] = "cancelled" => ctxDone[w]
    /\ outcome[w] # "cookieFault"

\* Without an error or a cancelled caller, a job that has left the channel is
\* done or with a goroutine, and goroutines exit only when the channel is empty.
ProgressInv ==
  phase \in {"running", "returned"} /\ firstErr = "none" /\ ~callerDone =>
    /\ \A f \in 1..taken : Delivered(f) \/ \E w \in Callers : job[w] = f
    /\ \A w \in Callers : st[w] = "exited" => taken = NumFiles

DownloadInv ==
  /\ TransportInv /\ WorkTypeOK /\ PlaceInv /\ ContextInv /\ ProgressInv

--------------------------------------------------------------------------------
LEMMA DownloadInitInv == Init => DownloadInv
  <1> SUFFICES ASSUME Init PROVE DownloadInv
    OBVIOUS
  <1>1. TransportInv
    BY TransportInitInv DEF Init
  <1>2. WorkTypeOK
    <2>1. {Absent, Stale, Lookalike} \subseteq Contents
      BY FilesAssumption DEF Absent, Stale, Lookalike, Contents
    <2>2. disk \in [Names -> Contents]
      BY <2>1 DEF Init
    <2>3. url \in [Files -> {"none", "live", "expired"}]
      BY DEF Init
    <2>4. callerDone \in BOOLEAN /\ temp \in [Callers -> BOOLEAN]
      BY DEF Init
    <2>5. QED
      BY <2>2, <2>3, <2>4, FilesAssumption DEF Init, WorkTypeOK
  <1>3. PlaceInv /\ ContextInv /\ ProgressInv
    BY DEF Init, TransportInit, PlaceInv, ContextInv, ProgressInv
  <1>4. QED
    BY <1>1, <1>2, <1>3 DEF DownloadInv

LEMMA NameOfFile == ASSUME NEW f \in Files PROVE NameOf[f] \in Names
  BY DEF Names

\* The transport and the context, in every step.
LEMMA FailContext ==
  ASSUME TransportInv, NEW w \in Callers, NEW err, Fail(w, err)
  PROVE  ctxDone' \in [Callers -> BOOLEAN]
  BY DEF Fail, EndContext, TransportInv, TransportTypeOK

LEMMA CrashTransport ==
  ASSUME TransportInv, Crash PROVE TransportInv'
  <1>1. Holding' = {}
    BY DEF Crash, Holding
  <1>2. QED
    BY <1>1, FS_EmptySet, TransportAssumption, RetryAssumption
    DEF Crash, EndContext, TransportInv, TransportTypeOK, SlotAccounting, TriesInv

LEMMA DownloadTransportInv == DownloadInv /\ [Next]_vars => TransportInv'
  <1> SUFFICES ASSUME DownloadInv, [Next]_vars PROVE TransportInv'
    OBVIOUS
  <1>0. TransportInv /\ ctxDone \in [Callers -> BOOLEAN]
    BY DEF DownloadInv, TransportInv, TransportTypeOK
  <1>1. ASSUME NEW w \in Callers,
               TakeJob(w) \/ Drained(w) \/ Skip(w) \/ Stream(w) \/ Rename(w)
        PROVE  TransportInv'
    BY <1>0, <1>1, TransportStutterInv DEF TakeJob, Drained, Skip, Stream, Rename
  <1>2. ASSUME NEW w \in Callers,
               Refuse(w) \/ StreamFails(w) \/ StreamCut(w) \/ RenameFails(w)
        PROVE  TransportInv'
    <2>1. UNCHANGED reqVars /\ \E err : Fail(w, err)
      BY <1>2 DEF Refuse, StreamFails, StreamCut, RenameFails
    <2>2. QED
      BY <1>0, <2>1, FailContext, TransportStutterInv
  <1>3. ASSUME NEW w \in Callers, Unanswered(w) \/ OpenFails(w) PROVE TransportInv'
    <2>1. Collect(w) /\ \E err : Fail(w, err)
      BY <1>3 DEF Unanswered, OpenFails
    <2>2. QED
      BY <1>0, <2>1, FailContext, TransportStepInv
  <1>4. ASSUME NEW w \in Callers, Fetch(w) \/ Requesting(w) \/ Open(w) PROVE TransportInv'
    <2>1. (Submit(w) \/ RequestStep(w) \/ Collect(w)) /\ UNCHANGED ctxDone
      BY <1>4 DEF Fetch, Requesting, Open
    <2>2. QED
      BY <1>0, <2>1, TransportStepInv
  <1>5. CASE Call \/ CallRefused \/ Return \/ CallerCancels
    <2>1. UNCHANGED reqVars /\ ctxDone' \in [Callers -> BOOLEAN]
      BY <1>5 DEF Call, CallRefused, BeginRound, Return, CallerCancels, EndContext
    <2>2. QED
      BY <1>0, <2>1, TransportStutterInv
  <1>6. ASSUME NEW f \in Files, Expire(f) PROVE TransportInv'
    BY <1>0, <1>6, TransportStutterInv DEF Expire
  <1>7. CASE Crash
    BY <1>0, <1>7, CrashTransport
  <1>8. CASE UNCHANGED vars
    BY <1>0, <1>8, TransportStutterInv DEF vars
  <1>9. QED
    BY <1>1, <1>2, <1>3, <1>4, <1>5, <1>6, <1>7, <1>8 DEF Next, WorkerStep

--------------------------------------------------------------------------------
LEMMA DownloadTypeOK == DownloadInv /\ [Next]_vars => WorkTypeOK'
  <1> SUFFICES ASSUME DownloadInv, [Next]_vars PROVE WorkTypeOK'
    OBVIOUS
  <1> USE FilesAssumption DEF DownloadInv, WorkTypeOK, callVars, workVars
  <1>1. ASSUME NEW w \in Callers, TakeJob(w) \/ Drained(w) \/ Skip(w) \/ Stream(w)
        PROVE  WorkTypeOK'
    BY <1>1 DEF TakeJob, Drained, Skip, Stream, Goto
  <1>2. ASSUME NEW w \in Callers,
               NEW err \in {"noURL", "expired", "failed", "cancelled", "overrun"}, Fail(w, err)
        PROVE  WorkTypeOK'
    BY <1>2 DEF Fail, Goto, HasTemp
  <1>3. ASSUME NEW w \in Callers, Unanswered(w) PROVE WorkTypeOK'
    <2>1. outcome[w] \in {"failed", "cancelled", "overrun"} /\ Fail(w, outcome[w])
      BY <1>3 DEF Unanswered, Collect, TransportInv, TransportTypeOK, PlaceInv, ContextInv
    <2>2. QED
      BY <2>1, <1>2
  <1>4. ASSUME NEW w \in Callers,
               Refuse(w) \/ StreamFails(w) \/ StreamCut(w) \/ RenameFails(w) \/ OpenFails(w)
        PROVE  WorkTypeOK'
    <2>1. \E err \in {"noURL", "expired", "failed", "cancelled"} : Fail(w, err)
      BY <1>4 DEF Refuse, StreamFails, StreamCut, RenameFails, OpenFails
    <2>2. QED
      BY <2>1, <1>2
  <1>5. ASSUME NEW w \in Callers, Fetch(w) \/ Requesting(w) \/ Open(w) PROVE WorkTypeOK'
    BY ZenonT(30), <1>5 DEF Fetch, Requesting, Open, Goto, HasTemp
  <1>6. ASSUME NEW w \in Callers, Rename(w) PROVE WorkTypeOK'
    <2>1. job[w] \in Files /\ job[w] \in Contents
      BY <1>6 DEF Rename, PlaceInv, Files, Contents
    <2>2. disk' \in [Names -> Contents]
      BY <1>6, <2>1 DEF Rename
    <2>3. QED
      BY <1>6, <2>2 DEF Rename, Goto, HasTemp
  <1>7. CASE Call \/ CallRefused
    <2>1. callerDone' \in BOOLEAN
      BY <1>7 DEF Call, CallRefused, BeginRound
    <2>2. url' \in [Files -> {"none", "live", "expired"}]
      BY <1>7 DEF Call, CallRefused, BeginRound
    <2>3. QED
      BY <1>7, <2>1, <2>2 DEF Call, CallRefused, BeginRound
  <1>8. CASE Return \/ CallerCancels \/ Crash
    <2>1. callerDone' \in BOOLEAN
      BY <1>8 DEF Return, CallerCancels, Crash
    <2>2. temp' \in [Callers -> BOOLEAN]
      BY <1>8 DEF Return, CallerCancels, Crash
    <2>3. QED
      BY <1>8, <2>1, <2>2 DEF Return, CallerCancels, Crash
  <1>9. ASSUME NEW f \in Files, Expire(f) PROVE WorkTypeOK'
    BY <1>9 DEF Expire
  <1>10. CASE UNCHANGED vars
    BY <1>10 DEF vars
  <1>11. QED
    BY <1>1, <1>3, <1>4, <1>5, <1>6, <1>7, <1>8, <1>9, <1>10 DEF Next, WorkerStep

LEMMA DownloadPlaceInv == DownloadInv /\ [Next]_vars => PlaceInv'
  <1> SUFFICES ASSUME DownloadInv, [Next]_vars PROVE PlaceInv'
    OBVIOUS
  <1> USE DEF DownloadInv, WorkTypeOK, PlaceInv, TransportInv, TransportTypeOK,
              callVars, workVars, reqVars
  <1>0. NumFiles \in Nat
    BY FilesAssumption
  <1>1. ASSUME NEW w \in Callers, TakeJob(w) \/ Drained(w) \/ Skip(w) PROVE PlaceInv'
    BY <1>0, <1>1 DEF TakeJob, Drained, Skip, Goto
  <1>2. ASSUME NEW w \in Callers,
               Refuse(w) \/ StreamFails(w) \/ StreamCut(w) \/ RenameFails(w)
        PROVE  PlaceInv'
    <2>1. UNCHANGED reqVars /\ st[w] \notin {"exited", "requesting"} /\ \E err : Fail(w, err)
      BY <1>2 DEF Refuse, StreamFails, StreamCut, RenameFails
    <2>2. QED
      BY <2>1 DEF Fail, Goto, HasTemp
  <1>3. ASSUME NEW w \in Callers, Unanswered(w) \/ OpenFails(w) PROVE PlaceInv'
    <2>1. Collect(w) /\ \E err : Fail(w, err)
      BY <1>3 DEF Unanswered, OpenFails
    <2>2. QED
      BY <2>1 DEF Fail, Goto, HasTemp, Collect, Move
  <1>4. ASSUME NEW w \in Callers, Fetch(w) PROVE PlaceInv'
    BY <1>4 DEF Fetch, Goto, Submit, Move
  <1>5. ASSUME NEW w \in Callers, Requesting(w) PROVE PlaceInv'
    BY <1>5 DEF Requesting, RequestStep, Enter, GiveUp, Retry, Reject, LastAnswer,
       Accept, Finish, Abort, Overrun, ReturnWith, Move
  <1>6. ASSUME NEW w \in Callers, Open(w) PROVE PlaceInv'
    BY <1>6 DEF Open, Goto, HasTemp, Collect, Move
  <1>7. ASSUME NEW w \in Callers, Stream(w) \/ Rename(w) PROVE PlaceInv'
    BY <1>7 DEF Stream, Rename, Goto, HasTemp
  <1>8. CASE Call \/ CallRefused
    BY <1>8 DEF Call, CallRefused, BeginRound
  <1>9. CASE Return \/ CallerCancels \/ Crash
    BY <1>9 DEF Return, CallerCancels, Crash
  <1>10. ASSUME NEW f \in Files, Expire(f) PROVE PlaceInv'
    BY <1>10 DEF Expire
  <1>11. CASE UNCHANGED vars
    BY <1>11 DEF vars
  <1>12. QED
    BY <1>1, <1>2, <1>3, <1>4, <1>5, <1>6, <1>7, <1>8, <1>9, <1>10, <1>11
    DEF Next, WorkerStep

\* Fail records an error and ends the context, or one was recorded before.
LEMMA FailRecords ==
  ASSUME DownloadInv, NEW w \in Callers, NEW err, err # "none", Fail(w, err)
  PROVE  firstErr' # "none" /\ \A v \in Callers : ctxDone[v] => ctxDone'[v]
  BY DEF Fail, EndContext

LEMMA DownloadContextInv == DownloadInv /\ [Next]_vars => ContextInv'
  <1> SUFFICES ASSUME DownloadInv, [Next]_vars PROVE ContextInv'
    OBVIOUS
  <1> USE DEF DownloadInv, WorkTypeOK, PlaceInv, ContextInv, TransportInv, TransportTypeOK,
              callVars, reqVars
  <1>1. ASSUME NEW w \in Callers,
               TakeJob(w) \/ Drained(w) \/ Skip(w) \/ Stream(w) \/ Rename(w)
        PROVE  ContextInv'
    <2>1. UNCHANGED <<phase, firstErr, callerDone, ctxDone, outcome>>
      BY <1>1 DEF TakeJob, Drained, Skip, Stream, Rename
    <2>2. QED
      BY <2>1
  <1>2. ASSUME NEW w \in Callers,
               Refuse(w) \/ StreamFails(w) \/ StreamCut(w) \/ RenameFails(w)
        PROVE  ContextInv'
    <2>1. UNCHANGED reqVars /\ \E err : err # "none" /\ Fail(w, err)
      BY <1>2 DEF Refuse, StreamFails, StreamCut, RenameFails
    <2>2. QED
      BY <2>1, FailRecords
  <1>3. ASSUME NEW w \in Callers, Unanswered(w) \/ OpenFails(w) PROVE ContextInv'
    <2>1. Collect(w) /\ \E err : err # "none" /\ Fail(w, err)
      BY <1>3 DEF Unanswered, OpenFails, Collect
    <2>2. QED
      BY <2>1, FailRecords DEF Collect
  <1>4. ASSUME NEW w \in Callers, Fetch(w) \/ Open(w) PROVE ContextInv'
    <2>1. /\ UNCHANGED <<phase, firstErr, callerDone, ctxDone>>
          /\ \A v \in Callers : outcome'[v] \in {outcome[v], "none"}
      BY <1>4 DEF Fetch, Open, Submit, Collect
    <2>2. QED
      BY <2>1
  <1>5. ASSUME NEW w \in Callers, Requesting(w) PROVE ContextInv'
    BY <1>5 DEF Requesting, RequestStep, Enter, GiveUp, Retry, Reject, LastAnswer,
       Accept, Finish, Abort, Overrun, ReturnWith, Move
  <1>6. CASE Call \/ CallRefused
    BY <1>6 DEF Call, CallRefused, BeginRound
  <1>7. CASE Return \/ CallerCancels \/ Crash
    BY <1>7 DEF Return, CallerCancels, Crash, EndContext
  <1>8. ASSUME NEW f \in Files, Expire(f) PROVE ContextInv'
    BY <1>8 DEF Expire
  <1>9. CASE UNCHANGED vars
    BY <1>9 DEF vars
  <1>10. QED
    BY <1>1, <1>2, <1>3, <1>4, <1>5, <1>6, <1>7, <1>8, <1>9 DEF Next, WorkerStep

\* What has been delivered stays delivered.
LEMMA DeliveredStays ==
  ASSUME NEW f \in Files, Delivered(f), NEW g \in Files,
         disk \in [Names -> Contents],
         disk' = disk \/ disk' = [disk EXCEPT ![NameOf[g]] = g]
  PROVE  Delivered(f)'
  BY NameOfFile DEF Delivered, OnDisk, HasSize

LEMMA DownloadProgressInv == DownloadInv /\ [Next]_vars => ProgressInv'
  <1> SUFFICES ASSUME DownloadInv, [Next]_vars,
                      phase' \in {"running", "returned"}, firstErr' = "none", ~callerDone'
               PROVE  /\ \A f \in 1..taken' : Delivered(f)' \/ \E w \in Callers : job'[w] = f
                      /\ \A w \in Callers : st'[w] = "exited" => taken' = NumFiles
    BY DEF ProgressInv
  <1> DEFINE Goal == /\ \A f \in 1..taken' : Delivered(f)' \/ \E w \in Callers : job'[w] = f
                     /\ \A w \in Callers : st'[w] = "exited" => taken' = NumFiles
  <1> USE DEF DownloadInv, WorkTypeOK, callVars, workVars
  <1>0. NumFiles \in Nat /\ 1..taken \subseteq Files /\ Files = 1..NumFiles
    BY FilesAssumption DEF Files
  <1>1. ASSUME NEW w \in Callers, TakeJob(w) PROVE Goal
    <2>1. ~ctxDone[w] /\ ProgressInv
      BY <1>1 DEF TakeJob, PlaceInv, ContextInv
    <2>a. \A f : Delivered(f) => Delivered(f)'
      BY <1>1 DEF TakeJob, Delivered, OnDisk
    <2>b. \A v \in Callers : job[v] # 0 => job'[v] = job[v]
      BY <1>1 DEF TakeJob, PlaceInv, Goto
    <2>c. \A f \in 1..taken : Delivered(f) \/ \E v \in Callers : job[v] = f
      BY <1>1, <2>1 DEF TakeJob, ProgressInv
    <2>2. \A f \in 1..taken : Delivered(f)' \/ \E v \in Callers : job'[v] = f
      BY <2>a, <2>b, <2>c, <1>0
    <2>3. job'[w] = taken' /\ taken' = taken + 1
      BY <1>1, <2>1 DEF TakeJob, Goto
    <2>4. \A v \in Callers : st'[v] = "exited" => taken' = NumFiles
      BY <1>1, <2>1, <1>0 DEF TakeJob, Goto, ProgressInv
    <2>5. QED
      BY <2>2, <2>3, <2>4
  <1>2. ASSUME NEW w \in Callers, Drained(w) PROVE Goal
    BY <1>2, <1>0 DEF Drained, Goto, ProgressInv, PlaceInv, Delivered, OnDisk
  <1>3. ASSUME NEW w \in Callers, NEW err, err # "none", Fail(w, err) PROVE Goal
    BY <1>3, FailRecords
  <1>4. ASSUME NEW w \in Callers,
               Refuse(w) \/ StreamFails(w) \/ StreamCut(w) \/ RenameFails(w) \/ OpenFails(w)
        PROVE  Goal
    <2>1. \E err : err # "none" /\ Fail(w, err)
      BY <1>4 DEF Refuse, StreamFails, StreamCut, RenameFails, OpenFails
    <2>2. QED
      BY <2>1, <1>3
  <1>5. ASSUME NEW w \in Callers, Unanswered(w) PROVE Goal
    <2>1. outcome[w] # "none" /\ Fail(w, outcome[w])
      BY <1>5 DEF Unanswered, Collect, PlaceInv
    <2>2. QED
      BY <2>1, <1>3
  <1>6. ASSUME NEW w \in Callers, Skip(w) PROVE Goal
    <2>1. job[w] \in Files /\ Delivered(job[w])
      BY <1>6, <1>0 DEF Skip, PlaceInv, Delivered
    <2>2. \A f : Delivered(f)' <=> Delivered(f)
      BY <1>6 DEF Skip, Delivered, OnDisk, HasSize
    <2>3. QED
      BY <1>6, <2>1, <2>2, <1>0 DEF Skip, Goto, ProgressInv
  <1>7. ASSUME NEW w \in Callers, Fetch(w) \/ Open(w) \/ Stream(w) PROVE Goal
    <2>1. job' = job /\ UNCHANGED <<callVars, disk>>
      BY <1>7 DEF Fetch, Open, Stream, Goto
    <2>2. \A v \in Callers : st'[v] = "exited" => st[v] = "exited"
      BY <1>7 DEF Fetch, Open, Stream, Goto
    <2>3. QED
      BY <2>1, <2>2 DEF ProgressInv, Delivered, OnDisk
  <1>8. ASSUME NEW w \in Callers, Requesting(w) PROVE Goal
    BY <1>8, <1>0 DEF Requesting, ProgressInv, Delivered, OnDisk
  <1>9. ASSUME NEW w \in Callers, Rename(w) PROVE Goal
    <2>1. PICK j \in Files : j = job[w]
      BY <1>9, <1>0 DEF Rename, PlaceInv
    <2>2. disk' = [disk EXCEPT ![NameOf[j]] = j] /\ NameOf[j] \in Names
      BY <1>9, <2>1, NameOfFile DEF Rename
    <2>3. Delivered(j)'
      BY <2>2 DEF Delivered
    <2>4. \A f \in Files : Delivered(f) => Delivered(f)'
      BY <2>2, DeliveredStays
    <2>5. \A v \in Callers : job[v] # j => job'[v] = job[v]
      BY <1>9, <2>1 DEF Rename, Goto
    <2>6. \A f \in 1..taken : Delivered(f) \/ \E v \in Callers : job[v] = f
      BY <1>9 DEF Rename, ProgressInv
    <2>7. \A f \in 1..taken : Delivered(f)' \/ \E v \in Callers : job'[v] = f
      BY <2>3, <2>4, <2>5, <2>6, <1>0
    <2>8. taken' = taken /\ \A v \in Callers : st'[v] = "exited" => taken' = NumFiles
      BY <1>9 DEF Rename, Goto, ProgressInv
    <2>9. QED
      BY <2>7, <2>8
  <1>10. CASE Call \/ CallRefused
    BY <1>10 DEF Call, CallRefused, BeginRound
  <1>11. CASE Return \/ CallerCancels \/ Crash
    BY <1>11, <1>0 DEF Return, CallerCancels, Crash, ProgressInv, Delivered, OnDisk
  <1>12. ASSUME NEW f \in Files, Expire(f) PROVE Goal
    BY <1>12, <1>0 DEF Expire, ProgressInv, Delivered, OnDisk
  <1>13. CASE UNCHANGED vars
    BY <1>13, <1>0 DEF vars, ProgressInv, Delivered, OnDisk
  <1>14. QED
    BY <1>1, <1>2, <1>4, <1>5, <1>6, <1>7, <1>8, <1>9, <1>10, <1>11, <1>12, <1>13
    DEF Next, WorkerStep

LEMMA DownloadNextInv == DownloadInv /\ [Next]_vars => DownloadInv'
  BY DownloadTransportInv, DownloadTypeOK, DownloadPlaceInv, DownloadContextInv,
     DownloadProgressInv DEF DownloadInv

--------------------------------------------------------------------------------
(* The inductive invariant of DownloadFiles.                                 *)
THEOREM DownloadInvariant == Spec => []DownloadInv
  BY DownloadInitInv, DownloadNextInv, PTL DEF Spec

(* DownloadFiles stays within the states its variables are declared for.     *)
THEOREM DownloadTypeCorrect == Spec => []TypeOK
  <1>1. DownloadInv => TypeOK
    BY DEF DownloadInv, TransportInv, WorkTypeOK, TypeOK
  <1>2. QED
    BY <1>1, DownloadInvariant, PTL

(* No nil return with a file missing, for any number of goroutines and files,*)
(* of which any may share a name.                                            *)
THEOREM NothingIsLost == Spec => []NilMeansAll
  <1>1. DownloadInv => NilMeansAll
    <2> SUFFICES ASSUME DownloadInv, phase = "returned", firstErr = "none", ~callerDone,
                        NEW f \in Files
                 PROVE  Delivered(f)
      BY DEF NilMeansAll
    <2>1. \A w \in Callers : st[w] = "exited" /\ job[w] = 0
      BY DEF DownloadInv, PlaceInv, WorkTypeOK
    <2>2. taken = NumFiles
      BY <2>1, FilesAssumption DEF DownloadInv, ProgressInv
    <2>3. f \in 1..taken /\ f # 0
      BY <2>2, FilesAssumption DEF Files
    <2>4. QED
      BY <2>1, <2>3 DEF DownloadInv, ProgressInv
  <1>2. QED
    BY <1>1, DownloadInvariant, PTL

(* No goroutine leaves its temporary file behind.                            *)
THEOREM NothingIsLeft == Spec => []NoLitter
  <1>1. DownloadInv => NoLitter
    BY DEF DownloadInv, PlaceInv, NoLitter
  <1>2. QED
    BY <1>1, DownloadInvariant, PTL

(* The semaphore is right in a download too, through cancellation and crash. *)
THEOREM DownloadSlots == Spec => []SlotAccounting
  <1>1. DownloadInv => SlotAccounting
    BY DEF DownloadInv, TransportInv
  <1>2. QED
    BY <1>1, DownloadInvariant, PTL

LEMMA FailKeepsRoot ==
  ASSUME RootCause, NEW w \in Callers, NEW err,
         err = "cancelled" /\ firstErr = "none" => callerDone, Fail(w, err)
  PROVE  RootCause'
  BY DEF RootCause, Fail

LEMMA StepKeepsRoot ==
  ASSUME Budget = FALSE, DownloadInv, RootCause, [Next]_vars
  PROVE  RootCause'
  <1> USE DEF DownloadInv, WorkTypeOK, PlaceInv, ContextInv, callVars
  <1>1. ASSUME NEW w \in Callers,
               TakeJob(w) \/ Drained(w) \/ Skip(w) \/ Fetch(w) \/ Requesting(w) \/ Open(w)
               \/ Stream(w) \/ Rename(w)
        PROVE  RootCause'
    BY <1>1 DEF TakeJob, Drained, Skip, Fetch, Requesting, Open, Stream, Rename, RootCause
  <1>2. ASSUME NEW w \in Callers,
               Refuse(w) \/ OpenFails(w) \/ StreamFails(w) \/ RenameFails(w)
        PROVE  RootCause'
    <2>1. \E err : err # "cancelled" /\ Fail(w, err)
      BY <1>2 DEF Refuse, OpenFails, StreamFails, RenameFails
    <2>2. QED
      BY <2>1, FailKeepsRoot
  <1>3. ASSUME NEW w \in Callers, Unanswered(w) PROVE RootCause'
    <2>1. Fail(w, outcome[w]) /\ st[w] = "requesting"
      BY <1>3 DEF Unanswered
    <2>2. outcome[w] = "cancelled" /\ firstErr = "none" => callerDone
      BY <2>1
    <2>3. QED
      BY <2>1, <2>2, FailKeepsRoot
  <1>4. ASSUME NEW w \in Callers, StreamCut(w) PROVE RootCause'
    <2>1. Fail(w, "cancelled") /\ st[w] = "streaming" /\ ctxDone[w]
      BY <1>4 DEF StreamCut
    <2>2. firstErr = "none" => callerDone
      BY <2>1
    <2>3. QED
      BY <2>1, <2>2, FailKeepsRoot
  <1>5. CASE Call \/ CallRefused
    BY <1>5 DEF Call, CallRefused, BeginRound, RootCause
  <1>6. CASE Return \/ CallerCancels \/ Crash
    BY <1>6 DEF Return, CallerCancels, Crash, RootCause
  <1>7. ASSUME NEW f \in Files, Expire(f) PROVE RootCause'
    BY <1>7 DEF Expire, RootCause
  <1>8. CASE UNCHANGED vars
    BY <1>8 DEF vars, RootCause
  <1>9. QED
    BY <1>1, <1>2, <1>3, <1>4, <1>5, <1>6, <1>7, <1>8 DEF Next, WorkerStep

(* Without TotalRetryDuration, DownloadFiles reports a cancelled context only*)
(* to a caller that cancelled it, however many goroutines fail at once.      *)
THEOREM FirstErrorIsRoot ==
  ASSUME Budget = FALSE
  PROVE  Spec => []RootCause
  <1>1. Init => RootCause
    BY DEF Init, RootCause
  <1>2. DownloadInv /\ RootCause /\ [Next]_vars => RootCause'
    BY StepKeepsRoot
  <1>3. QED
    BY <1>1, <1>2, DownloadInvariant, PTL DEF Spec

InstallsWhole ==
  \A n \in Names : disk'[n] = disk[n] \/ (disk'[n] \in Files /\ NameOf[disk'[n]] = n)

LEMMA StepInstallsWhole == DownloadInv /\ [Next]_vars => InstallsWhole
  <1> SUFFICES ASSUME DownloadInv, [Next]_vars PROVE InstallsWhole
    OBVIOUS
  <1>1. ASSUME NEW w \in Callers, Rename(w) PROVE InstallsWhole
    <2>1. job[w] \in Files
      BY <1>1, FilesAssumption DEF Rename, DownloadInv, PlaceInv, WorkTypeOK, Files
    <2>2. QED
      BY <1>1, <2>1 DEF Rename, InstallsWhole, DownloadInv, WorkTypeOK
  <1>2. ASSUME NEW w \in Callers, WorkerStep(w), ~Rename(w) PROVE disk' = disk
    BY <1>2 DEF WorkerStep, TakeJob, Drained, Refuse, Skip, Fetch, Requesting, Unanswered,
       Open, OpenFails, Stream, StreamFails, StreamCut, RenameFails, Fail
  <1>3. ASSUME Next, ~\E w \in Callers : WorkerStep(w) PROVE disk' = disk
    BY <1>3 DEF Next, Call, CallRefused, BeginRound, Return, CallerCancels, Crash, Expire
  <1>4. QED
    BY <1>1, <1>2, <1>3 DEF Next, vars, InstallsWhole

(* A destination name never holds part of a file, whatever happens.          *)
THEOREM InstallIsAtomic == Spec => DestAtomic
  <1>1. DownloadInv /\ [Next]_vars => [InstallsWhole]_vars
    BY StepInstallsWhole
  <1>2. DestAtomic <=> [][InstallsWhole]_vars
    BY DEF DestAtomic, InstallsWhole
  <1>3. QED
    BY <1>1, <1>2, DownloadInvariant, PTL DEF Spec
================================================================================
