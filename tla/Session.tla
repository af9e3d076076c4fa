-------------------------------- MODULE Session --------------------------------
(***************************************************************************)
(* The cookie-aware service calls of windowsuup/api/builds and             *)
(* windowsuup/api/files (FetchBuilds, resolveFileURLs, fetchFileMetadata)  *)
(* over one client: goroutines that share its CookieManager and its        *)
(* Transport.  Each call gets a cookie, posts a SOAP request carrying it   *)
(* through the transport, and when the answer is a cookie error clears the *)
(* cache and goes round once more.  The three loops differ only in what    *)
(* they post.  GetCookie itself does not pass the semaphore.               *)
(*                                                                         *)
(* The server may reject any cookie at any time, and callers may be        *)
(* cancelled at any time.                                                  *)
(***************************************************************************)
EXTENDS CookieManager, Transport

CONSTANT MaxCalls   \* bound of the calls one goroutine makes

ASSUME MaxCallsAssumption == MaxCalls \in Nat

\* maxCookieRetries
MaxCookieRetries == 1

VARIABLES
  pc,         \* where the loop of each caller is, or how its last call ended
  attempt,    \* the loop variable
  sent,       \* number of the cookie in the request under way
  rejected,   \* history: number of the cookie this call was told is bad, or 0
  calls,      \* calls begun
  rounds      \* history: how often this call has asked for a cookie

loopVars == <<pc, attempt, sent, rejected, calls, rounds>>
vars == <<cmVars, reqVars, ctxDone, loopVars>>

Init ==
  /\ CookieInit /\ TransportInit
  /\ ctxDone = [c \in Callers |-> FALSE]
  /\ pc = [c \in Callers |-> "idle"]
  /\ attempt = [c \in Callers |-> 0]
  /\ sent = [c \in Callers |-> 0]
  /\ rejected = [c \in Callers |-> 0]
  /\ calls = [c \in Callers |-> 0]
  /\ rounds = [c \in Callers |-> 0]

--------------------------------------------------------------------------------
Goto(c, l) == pc' = [pc EXCEPT ![c] = l]

\* The call returns and its locals are gone.
End(c, l) ==
  /\ Goto(c, l)
  /\ attempt' = [attempt EXCEPT ![c] = 0]
  /\ sent' = [sent EXCEPT ![c] = 0]
  /\ rejected' = [rejected EXCEPT ![c] = 0]
  /\ rounds' = [rounds EXCEPT ![c] = 0]
  /\ ctxDone' = [ctxDone EXCEPT ![c] = FALSE]
  /\ UNCHANGED calls

\* A service method is called, with a context of its own.
Start(c) ==
  /\ pc[c] \in {"idle", "ok", "failed"}
  /\ calls[c] < MaxCalls
  /\ Goto(c, "acquiring")
  /\ calls' = [calls EXCEPT ![c] = @ + 1]
  /\ rounds' = [rounds EXCEPT ![c] = 1]
  /\ UNCHANGED <<cmVars, reqVars, ctxDone, attempt, sent, rejected>>

\* AcquireWUCookie runs; the HTTP client does not retry for a cancelled context.
Acquiring(c) ==
  /\ pc[c] = "acquiring"
  /\ GetStep(c)
  /\ ctxDone[c] => ~AskAgain(c)
  /\ UNCHANGED <<reqVars, ctxDone, loopVars>>

\* It fails, and so does the call.
AcquireFailed(c) ==
  /\ pc[c] = "acquiring" /\ get[c] = "failed"
  /\ GetReturn(c)
  /\ End(c, "failed")
  /\ UNCHANGED reqVars

\* The envelope is built around the cookie and posted.
Post(c) ==
  /\ pc[c] = "acquiring" /\ get[c] = "done"
  /\ GetReturn(c)
  /\ Submit(c)
  /\ Goto(c, "requesting")
  /\ sent' = [sent EXCEPT ![c] = got[c].id]
  /\ UNCHANGED <<ctxDone, attempt, rejected, calls, rounds>>

\* executeRequest runs.
Requesting(c) ==
  /\ pc[c] = "requesting"
  /\ RequestStep(c)
  /\ UNCHANGED <<cmVars, ctxDone, loopVars>>

IsCookieError(o) == o = "cookieFault"

\* The loop variable not advanced.
RefreshAgain(c) ==
  /\ pc[c] = "requesting" /\ IsCookieError(outcome[c])
  /\ attempt[c] < MaxCookieRetries
  /\ Collect(c)
  /\ Invalidate
  /\ Goto(c, "acquiring")
  /\ rejected' = [rejected EXCEPT ![c] = sent[c]]
  /\ rounds' = [rounds EXCEPT ![c] = @ + 1]
  /\ UNCHANGED <<ctxDone, attempt, sent, calls>>

\* A cookie error on the first round: InvalidateWUCookie, then continue.
CookieRejected(c) ==
  /\ pc[c] = "requesting" /\ IsCookieError(outcome[c])
  /\ attempt[c] < MaxCookieRetries
  /\ Collect(c)
  /\ Invalidate
  /\ Goto(c, "acquiring")
  /\ attempt' = [attempt EXCEPT ![c] = @ + 1]
  /\ rejected' = [rejected EXCEPT ![c] = sent[c]]
  /\ rounds' = [rounds EXCEPT ![c] = @ + 1]
  /\ UNCHANGED <<ctxDone, sent, calls>>

\* Any other error, a second cookie error, or an answer that does not parse.
CallFailed(c) ==
  /\ pc[c] = "requesting"
  /\ IsCookieError(outcome[c]) => attempt[c] = MaxCookieRetries
  /\ Collect(c)
  /\ End(c, "failed")
  /\ UNCHANGED cmVars

CallSucceeded(c) ==
  /\ pc[c] = "requesting" /\ outcome[c] = "ok"
  /\ Collect(c)
  /\ End(c, "ok")
  /\ UNCHANGED cmVars

Cancel(c) ==
  /\ pc[c] \in {"acquiring", "requesting"} /\ ~ctxDone[c]
  /\ ctxDone' = [ctxDone EXCEPT ![c] = TRUE]
  /\ UNCHANGED <<cmVars, reqVars, loopVars>>

Clock == Tick /\ UNCHANGED <<reqVars, ctxDone, loopVars>>

CallStep(c) ==
  \/ Acquiring(c) \/ AcquireFailed(c) \/ Post(c) \/ Requesting(c)
  \/ CookieRejected(c) \/ CallFailed(c) \/ CallSucceeded(c)

Next == Clock \/ \E c \in Callers : Start(c) \/ CallStep(c) \/ Cancel(c)

(* A goroutine that can run eventually does, and the HTTP timeouts end     *)
(* every exchange; nothing makes time pass, callers call or contexts end.  *)
(* Weak fairness is enough for the two locks as well, since each goroutine *)
(* makes finitely many calls and so cannot keep one of them for ever.      *)
Spec == Init /\ [][Next]_vars

FairSpec == Spec /\ \A c \in Callers : WF_vars(CallStep(c))

--------------------------------------------------------------------------------
TypeOK ==
  /\ CookieTypeOK
  /\ TransportTypeOK
  /\ pc \in [Callers -> {"idle", "acquiring", "requesting", "ok", "failed"}]
  /\ attempt \in [Callers -> 0..MaxCookieRetries]
  /\ sent \in [Callers -> Nat]
  /\ rejected \in [Callers -> Nat]
  /\ calls \in [Callers -> 0..MaxCalls]
  /\ rounds \in [Callers -> Nat]

(* The second round never carries the cookie that was just rejected nor an  *)
(* older one, whatever other callers do to the cache between the rejection  *)
(* and the second Get: any cookie stored after an Invalidate is newer than  *)
(* every cookie sent before it, because a refresh keeps the write lock from *)
(* its POST to its store.                                                   *)
RetryIsFresh ==
  \A c \in Callers : pc[c] = "requesting" => sent[c] > rejected[c]

(* One call makes at most 4 * (RetryCount + 1) HTTP attempts: it gets a     *)
(* cookie and posts at most twice, and neither Get nor the request makes    *)
(* more than RetryCount + 1 attempts of the HTTP client they share.  The    *)
(* cookie retry and the HTTP retries multiply, and no loop restarts the     *)
(* count of another.                                                        *)
RequestBudget ==
  \A c \in Callers :
    /\ rounds[c] <= MaxCookieRetries + 1
    /\ asks[c] <= RetryCount + 1
    /\ tries[c] <= RetryCount + 1

(* Every service call ends, whatever the other callers and the server do:   *)
(* nobody is left waiting for a lock or a slot somebody failed to give up.  *)
CallsEnd ==
  \A c \in Callers :
    pc[c] \in {"acquiring", "requesting"} ~> pc[c] \in {"ok", "failed"}
================================================================================
