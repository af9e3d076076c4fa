------------------------------- MODULE Transport -------------------------------
(***************************************************************************)
(* windowsuup/client: what one call of Transport.executeRequest does with  *)
(* the concurrency semaphore, the retries of the HTTP client and the       *)
(* deadline of TotalRetryDuration.  The requests of all callers share the  *)
(* semaphore; a caller makes one request at a time.                        *)
(*                                                                         *)
(* The module holds the variables and the steps of a request.  Modules     *)
(* that compose it (Session, DownloadFiles) say who submits requests, what *)
(* contexts they run under (ctxDone), and what becomes of the answers.     *)
(***************************************************************************)
EXTENDS Goroutines

CONSTANTS
  MaxInFlight,   \* MaxConcurrentRequests; 0 is the nil semaphore
  Budget         \* TotalRetryDuration > 0 and the caller's context has no deadline

ASSUME TransportAssumption ==
  /\ MaxInFlight \in Nat
  /\ Budget \in BOOLEAN

VARIABLES
  slots,     \* tokens in the semaphore's channel
  req,       \* where the request of each caller is
  tries,     \* attempts its request has sent
  outcome,   \* what executeRequest returned to it
  ctxDone    \* its context is cancelled

reqVars == <<slots, req, tries, outcome>>

Holding == {c \in Callers : req[c] \in {"trying", "pausing"}}

TransportInit ==
  /\ slots = 0
  /\ req = [c \in Callers |-> "none"]
  /\ tries = [c \in Callers |-> 0]
  /\ outcome = [c \in Callers |-> "none"]

--------------------------------------------------------------------------------
\* What an attempt meets: a 2xx answer; an HTTP 500 whose body names a cookie
\* error; a status that is final; a network error, 408, 500, 502, 503 or 504.
Answers == {"ok", "cookieFault", "refused", "transient"}

\* retryCondition: a cookie fault comes as a 500 and is retried like any other.
\* The HTTP library has the last word, and may not repeat a POST: so it may also
\* stop after any attempt.
Retryable(answer) == answer \in {"transient", "cookieFault"}

Move(c, st) == req' = [req EXCEPT ![c] = st]

\* The capacity of the channel not respected.
AcquireUnbounded == slots' = slots + 1

\* semaphore.acquire; a nil semaphore counts nothing.
Acquire ==
  IF MaxInFlight = 0 THEN UNCHANGED slots
                     ELSE slots < MaxInFlight /\ slots' = slots + 1

\* The receive that does not block.
Release == slots' = IF slots > 0 THEN slots - 1 ELSE slots

\* executeRequest is called.
Submit(c) ==
  /\ req[c] = "none"
  /\ Move(c, "waiting")
  /\ UNCHANGED <<slots, tries, outcome>>

\* A slot is free, and wins the select should the context be cancelled too: the
\* first attempt is sent.
Enter(c) ==
  /\ req[c] = "waiting"
  /\ Acquire
  /\ Move(c, "trying")
  /\ tries' = [tries EXCEPT ![c] = 1]
  /\ UNCHANGED outcome

ReturnWith(c, o) ==
  /\ Move(c, "returned")
  /\ outcome' = [outcome EXCEPT ![c] = o]

GiveUp(c) ==
  /\ req[c] = "waiting" /\ MaxInFlight > 0 /\ ctxDone[c]
  /\ ReturnWith(c, "cancelled")
  /\ UNCHANGED <<slots, tries>>

\* The HTTP client tries again, with the request unchanged.
Retry(c, answer) ==
  /\ req[c] = "trying" /\ ~ctxDone[c]
  /\ Retryable(answer) /\ tries[c] <= RetryCount
  /\ tries' = [tries EXCEPT ![c] = @ + 1]
  /\ UNCHANGED <<slots, req, outcome>>

LastAnswer(c, answer) ==
  /\ req[c] = "trying"
  /\ answer # "ok"
  /\ ReturnWith(c, IF answer = "cookieFault" THEN answer ELSE "failed")
  /\ UNCHANGED tries

\* The slot kept on the error path.
RejectHolding(c, answer) == LastAnswer(c, answer) /\ UNCHANGED slots

\* The last attempt fails: executeRequest returns the error and its deferred
\* release gives the slot back.
Reject(c, answer) == LastAnswer(c, answer) /\ Release

\* The context is cancelled while the request is under way.
Abort(c) ==
  /\ req[c] = "trying" /\ ctxDone[c]
  /\ ReturnWith(c, "cancelled")
  /\ Release
  /\ UNCHANGED tries

\* A 2xx answer: the mandatory and the adaptive delay are slept off with the
\* slot held.
Accept(c) ==
  /\ req[c] = "trying"
  /\ Move(c, "pausing")
  /\ UNCHANGED <<slots, tries, outcome>>

Finish(c) ==
  /\ req[c] = "pausing"
  /\ ReturnWith(c, "ok")
  /\ Release
  /\ UNCHANGED tries

\* The deadline of TotalRetryDuration passes before there is an answer.
Overrun(c) ==
  /\ Budget
  /\ req[c] \in {"waiting", "trying"}
  /\ req[c] = "waiting" => MaxInFlight > 0
  /\ ReturnWith(c, "overrun")
  /\ IF req[c] = "trying" THEN Release ELSE UNCHANGED slots
  /\ UNCHANGED tries

\* The caller takes what executeRequest returned.
Collect(c) ==
  /\ req[c] = "returned"
  /\ Move(c, "none")
  /\ tries' = [tries EXCEPT ![c] = 0]
  /\ outcome' = [outcome EXCEPT ![c] = "none"]
  /\ UNCHANGED slots

RequestStep(c) ==
  \/ Enter(c) \/ GiveUp(c)
  \/ \E answer \in Answers : Retry(c, answer) \/ Reject(c, answer)
  \/ Accept(c) \/ Finish(c) \/ Abort(c) \/ Overrun(c)

--------------------------------------------------------------------------------
TransportTypeOK ==
  /\ slots \in 0..MaxInFlight
  /\ req \in [Callers -> {"none", "waiting", "trying", "pausing", "returned"}]
  /\ tries \in [Callers -> 0..(RetryCount + 1)]
  /\ outcome \in [Callers ->
       {"none", "ok", "cookieFault", "failed", "cancelled", "overrun"}]
  /\ ctxDone \in [Callers -> BOOLEAN]

(* Every token in the semaphore belongs to a request that is under way, on  *)
(* every way a request can end: since release discards a token silently, a  *)
(* missing or an unbalanced release would lower or raise the limit of       *)
(* MaxConcurrentRequests for good.                                          *)
SlotAccounting == slots = IF MaxInFlight = 0 THEN 0 ELSE Cardinality(Holding)
================================================================================
