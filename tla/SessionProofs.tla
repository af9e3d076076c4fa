----------------------------- MODULE SessionProofs -----------------------------
(***************************************************************************)
(* What holds of the cookie manager for any number of callers, any         *)
(* lifetime and any exchange time shorter than it: its types, that Get     *)
(* returns only cookies that have not expired, and that it implements      *)
(* CookieCache.  Then what holds of the cookie-aware calls made through    *)
(* it, for any number of goroutines, of slots and of HTTP retries.         *)
(***************************************************************************)
EXTENDS Session, TransportProofs

\* The write lock is held exactly during an exchange, while there is no valid
\* cookie to find; an answer not stored yet is newer than everything stored.
LockInv ==
  \A c \in Callers :
    /\ InPost(c) <=> writer = c
    /\ InPost(c) => /\ ~IsValid(cookie)
                    /\ since[c] <= now /\ now <= since[c] + AcquireMax
    /\ get[c] \in {"idle", "locking"} => asks[c] = 0
    /\ get[c] = "answered" => newest < reply[c] /\ reply[c] <= issued

NewestInv ==
  /\ cookie.id \in {0, newest}
  /\ newest <= issued

CookieInv == CookieTypeOK /\ LockInv /\ NewestInv

LEMMA CookieInitInv == CookieInit => CookieInv
  BY CookieAssumption, RetryAssumption
  DEF CookieInit, CookieInv, CookieTypeOK, LockInv, NewestInv, InPost, IsValid, Cookie, NilCookie

LEMMA CookieNextInv == CookieInv /\ [CookieNext]_cmVars => CookieInv'
  <1> SUFFICES ASSUME CookieInv, [CookieNext]_cmVars
               PROVE  CookieInv'
    OBVIOUS
  <1> USE CookieAssumption, RetryAssumption
      DEF CookieInv, CookieTypeOK, LockInv, NewestInv, InPost, IsValid, Cookie, NilCookie
  <1>1. ASSUME NEW c \in Callers, GetFast(c) PROVE CookieInv'
    BY <1>1 DEF GetFast, Returns
  <1>2. ASSUME NEW c \in Callers, GetSlow(c) PROVE CookieInv'
    BY <1>2 DEF GetSlow
  <1>3. ASSUME NEW c \in Callers, GetRecheck(c) PROVE CookieInv'
    BY <1>3 DEF GetRecheck, Returns
  <1>4. ASSUME NEW c \in Callers, GetRefresh(c) PROVE CookieInv'
    BY <1>4 DEF GetRefresh, StartPost
  <1>5. ASSUME NEW c \in Callers, ServerIssue(c) PROVE CookieInv'
    BY <1>5 DEF ServerIssue
  <1>6. ASSUME NEW c \in Callers, GetStore(c) PROVE CookieInv'
    BY <1>6 DEF GetStore, Returns, LeavePost
  <1>7. ASSUME NEW c \in Callers, GetFail(c) PROVE CookieInv'
    BY <1>7 DEF GetFail, Returns, LeavePost
  <1>8. ASSUME NEW c \in Callers, GetReturn(c) PROVE CookieInv'
    BY <1>8 DEF GetReturn, Returns
  <1>9. CASE Invalidate
    BY <1>9 DEF Invalidate
  <1>10. CASE Tick
    BY <1>10 DEF Tick
  <1>11. CASE UNCHANGED cmVars
    BY <1>11 DEF cmVars
  <1>12. ASSUME NEW c \in Callers, AskAgain(c) PROVE CookieInv'
    BY <1>12 DEF AskAgain
  <1>13. QED
    BY <1>1, <1>2, <1>3, <1>4, <1>5, <1>6, <1>7, <1>8, <1>9, <1>10, <1>11, <1>12
    DEF CookieNext, GetStep

(* The invariant holds of the cookie manager however its callers interleave: *)
(* in particular at most one GetCookie exchange is ever under way.           *)
THEOREM CookieInvariant == CookieSpec => []CookieInv
  BY CookieInitInv, CookieNextInv, PTL DEF CookieSpec

ReturnsValid ==
  \A c \in Callers :
    (get[c] # "done" /\ get'[c] = "done") => (got'[c].id # 0 /\ now' < got'[c].expires)

LEMMA StepReturnsValid == CookieInv /\ [CookieNext]_cmVars => ReturnsValid
  <1> SUFFICES ASSUME CookieInv, [CookieNext]_cmVars, NEW d \in Callers,
                      get[d] # "done", get'[d] = "done"
               PROVE  got'[d].id # 0 /\ now' < got'[d].expires
    BY DEF ReturnsValid
  <1> USE DEF CookieInv, CookieTypeOK, InPost, IsValid, Cookie, NilCookie, Returns
  <1>1. ASSUME NEW c \in Callers, GetFast(c) \/ GetRecheck(c)
        PROVE  got'[d].id # 0 /\ now' < got'[d].expires
    BY <1>1 DEF GetFast, GetRecheck
  <1>2. ASSUME NEW c \in Callers, GetStore(c)
        PROVE  got'[d].id # 0 /\ now' < got'[d].expires
    BY <1>2, CookieAssumption DEF GetStore, LockInv
  <1>3. ASSUME NEW c \in Callers,
               \/ GetSlow(c) \/ GetRefresh(c) \/ ServerIssue(c) \/ AskAgain(c)
               \/ GetFail(c) \/ GetReturn(c)
        PROVE  FALSE
    BY <1>3 DEF GetSlow, GetRefresh, StartPost, ServerIssue, AskAgain, GetFail, GetReturn
  <1>4. CASE Invalidate \/ Tick \/ UNCHANGED cmVars
    BY <1>4 DEF Invalidate, Tick, cmVars
  <1>5. QED
    BY <1>1, <1>2, <1>3, <1>4 DEF CookieNext, GetStep

(* Every cookie Get returns is unexpired when it is returned, for every      *)
(* lifetime that exceeds the longest GetCookie exchange.                     *)
THEOREM ReturnedCookiesAreValid == CookieSpec => GetReturnsValid
  <1>1. CookieInv /\ [CookieNext]_cmVars => [ReturnsValid]_cmVars
    BY StepReturnsValid
  <1>2. GetReturnsValid <=> [][ReturnsValid]_cmVars
    BY DEF GetReturnsValid, ReturnsValid
  <1>3. QED
    BY <1>1, <1>2, CookieInvariant, PTL DEF CookieSpec

--------------------------------------------------------------------------------
\* The refinement mapping, in the form the provers rewrite with.
Current == IF IsValid(cookie) THEN cookie.id ELSE 0
Result  == [c \in Callers |-> IF get[c] \in {"done", "failed"} THEN got[c].id ELSE None]

LEMMA ResultDone ==
  ASSUME CookieTypeOK, NEW c \in Callers, NEW k,
         get' = [get EXCEPT ![c] = "done"], got' = [got EXCEPT ![c] = k]
  PROVE  Result' = [Result EXCEPT ![c] = k.id]
  BY DEF Result, CookieTypeOK

LEMMA CacheStep == CookieInv /\ [CookieNext]_cmVars => [Cache!Next]_(Cache!cacheVars)
  <1> SUFFICES ASSUME CookieInv, [CookieNext]_cmVars
               PROVE  Cache!Next \/ UNCHANGED <<Current, newest, Result>>
    BY DEF Cache!cacheVars, Current, Result
  <1>0. Cache!Next <=>
          \/ Current' = 0 /\ newest' = newest /\ Result' = Result
          \/ \E c \in Callers :
               \/ Current # 0 /\ Result' = [Result EXCEPT ![c] = Current]
                  /\ Current' = Current /\ newest' = newest
               \/ Current = 0 /\ newest' > newest /\ Current' = newest'
                  /\ Result' = [Result EXCEPT ![c] = newest']
               \/ Result' = [Result EXCEPT ![c] = 0] /\ Current' = Current /\ newest' = newest
               \/ Result' = [Result EXCEPT ![c] = None] /\ Current' = Current /\ newest' = newest
    BY DEF Cache!Next, Cache!Forget, Cache!Hit, Cache!Refresh, Cache!Fail, Cache!Call,
           Cache!Answers, Current, Result
  <1>1. ASSUME NEW c \in Callers, GetFast(c) \/ GetRecheck(c)
        PROVE  Cache!Next
    <2>1. Result' = [Result EXCEPT ![c] = cookie.id]
      BY <1>1, ResultDone DEF GetFast, GetRecheck, Returns, CookieInv
    <2>2. Current = cookie.id /\ Current # 0 /\ Current' = Current /\ newest' = newest
      BY <1>1 DEF GetFast, GetRecheck, IsValid, Current
    <2>3. QED
      BY <2>1, <2>2, <1>0
  <1>2. ASSUME NEW c \in Callers, GetSlow(c) \/ GetRefresh(c) \/ ServerIssue(c) \/ AskAgain(c)
        PROVE  UNCHANGED <<Current, newest, Result>>
    BY <1>2 DEF GetSlow, GetRefresh, StartPost, ServerIssue, AskAgain, InPost, IsValid, Current, Result,
                CookieInv, CookieTypeOK
  <1>3. ASSUME NEW c \in Callers, GetStore(c)
        PROVE  Cache!Next
    <2>1. Result' = [Result EXCEPT ![c] = newest']
      BY <1>3, ResultDone DEF GetStore, Returns, CookieInv
    <2>2. Current = 0
      BY <1>3 DEF GetStore, CookieInv, LockInv, InPost, Current
    <2>3. newest' > newest /\ Current' = newest'
      BY <1>3, CookieAssumption DEF GetStore, CookieInv, CookieTypeOK, LockInv, InPost, IsValid, Current
    <2>4. QED
      BY <2>1, <2>2, <2>3, <1>0
  <1>4. ASSUME NEW c \in Callers, GetFail(c)
        PROVE  Cache!Next
    <2>0. get' = [get EXCEPT ![c] = "failed"] /\ got' = [got EXCEPT ![c] = NilCookie]
      BY <1>4 DEF GetFail, Returns
    <2>1. Result' = [Result EXCEPT ![c] = 0]
      BY <2>0 DEF Result, NilCookie, CookieInv, CookieTypeOK
    <2>2. Current' = Current /\ newest' = newest
      BY <1>4 DEF GetFail, IsValid, Current
    <2>3. QED
      BY <2>1, <2>2, <1>0
  <1>5. ASSUME NEW c \in Callers, GetReturn(c)
        PROVE  Cache!Next
    <2>0. get' = [get EXCEPT ![c] = "idle"] /\ got' = [got EXCEPT ![c] = NilCookie]
      BY <1>5 DEF GetReturn, Returns
    <2>1. Result' = [Result EXCEPT ![c] = None]
      BY <2>0 DEF Result, CookieInv, CookieTypeOK
    <2>2. Current' = Current /\ newest' = newest
      BY <1>5 DEF GetReturn, IsValid, Current
    <2>3. QED
      BY <2>1, <2>2, <1>0
  <1>6. CASE Invalidate
    <2>1. Current' = 0 /\ newest' = newest /\ Result' = Result
      BY <1>6 DEF Invalidate, NilCookie, IsValid, Current, Result
    <2>2. QED
      BY <2>1, <1>0
  <1>7. CASE Tick
    <2>1. newest' = newest /\ Result' = Result /\ (Current' = 0 \/ Current' = Current)
      BY <1>7 DEF Tick, IsValid, Current, Result, CookieInv, CookieTypeOK, Cookie
    <2>2. QED
      BY <2>1, <1>0
  <1>8. CASE UNCHANGED cmVars
    BY <1>8 DEF cmVars, IsValid, Current, Result
  <1>9. QED
    BY <1>1, <1>2, <1>3, <1>4, <1>5, <1>6, <1>7, <1>8 DEF CookieNext, GetStep

(* The cookie manager implements the abstract cache: one refresh at a time   *)
(* and only when there is no valid cookie, cookies never going back to an    *)
(* older one, and every Get returning what the cache held during the call.   *)
THEOREM ManagerIsCache == CookieSpec => IsCache
  <1>1. CookieInit => Cache!Init
    BY DEF CookieInit, Cache!Init, NilCookie, IsValid
  <1>2. QED
    BY <1>1, CacheStep, CookieInvariant, PTL DEF CookieSpec, IsCache, Cache!Spec

--------------------------------------------------------------------------------
(* The calls. *)

LoopTypeOK ==
  /\ pc \in [Callers -> {"idle", "acquiring", "requesting", "ok", "failed"}]
  /\ attempt \in [Callers -> 0..MaxCookieRetries]
  /\ sent \in [Callers -> Nat]
  /\ rejected \in [Callers -> Nat]
  /\ calls \in [Callers -> 0..MaxCalls]
  /\ rounds \in [Callers -> Nat]

\* A caller is in Get, or in executeRequest, only where its loop is.
PlaceInv ==
  \A c \in Callers :
    /\ pc[c] # "requesting" => req[c] = "none"
    /\ pc[c] # "acquiring" => get[c] = "idle"

\* Once a call has been told its cookie is bad, neither the cache nor anything
\* the call gets from it is that cookie or an older one.
FreshInv ==
  \A c \in Callers :
    /\ rejected[c] <= newest
    /\ pc[c] \notin {"acquiring", "requesting"} => rejected[c] = 0
    /\ pc[c] = "acquiring" => cookie.id = 0 \/ cookie.id > rejected[c]
    /\ get[c] = "done" => got[c].id > rejected[c] /\ got[c].id <= newest
    /\ pc[c] = "requesting" => sent[c] > rejected[c] /\ sent[c] <= newest

\* A call has asked for a cookie once in each of its rounds.
RoundInv ==
  \A c \in Callers :
    IF pc[c] \in {"acquiring", "requesting"}
      THEN rounds[c] = attempt[c] + 1
      ELSE rounds[c] = 0 /\ attempt[c] = 0

SessionInv ==
  /\ CookieInv /\ TransportInv /\ LoopTypeOK
  /\ PlaceInv /\ FreshInv /\ RoundInv

--------------------------------------------------------------------------------
LEMMA SessionInitInv == Init => SessionInv
  <1> SUFFICES ASSUME Init PROVE SessionInv
    OBVIOUS
  <1>1. CookieInv
    BY CookieInitInv DEF Init
  <1>2. TransportInv
    BY TransportInitInv DEF Init
  <1>3. LoopTypeOK /\ PlaceInv /\ FreshInv /\ RoundInv
    BY MaxCallsAssumption
    DEF Init, CookieInit, TransportInit, LoopTypeOK, PlaceInv, FreshInv, RoundInv,
        MaxCookieRetries, NilCookie
  <1>4. QED
    BY <1>1, <1>2, <1>3 DEF SessionInv

\* Every step of a session is one of the cookie manager, or leaves it alone.
LEMMA SessionIsCookie == [Next]_vars => [CookieNext]_cmVars
  <1> SUFFICES ASSUME [Next]_vars PROVE [CookieNext]_cmVars
    OBVIOUS
  <1>1. ASSUME NEW c \in Callers, Acquiring(c) PROVE CookieNext
    BY <1>1 DEF Acquiring, CookieNext
  <1>2. ASSUME NEW c \in Callers, AcquireFailed(c) \/ Post(c) PROVE CookieNext
    BY <1>2 DEF AcquireFailed, Post, CookieNext
  <1>3. ASSUME NEW c \in Callers, CookieRejected(c) PROVE CookieNext
    BY <1>3 DEF CookieRejected, CookieNext
  <1>4. CASE Clock
    BY <1>4 DEF Clock, CookieNext
  <1>5. ASSUME NEW c \in Callers,
               Start(c) \/ Requesting(c) \/ CallFailed(c) \/ CallSucceeded(c) \/ Cancel(c)
        PROVE  UNCHANGED cmVars
    BY <1>5 DEF Start, Requesting, CallFailed, CallSucceeded, Cancel
  <1>6. CASE UNCHANGED vars
    BY <1>6 DEF vars
  <1>7. QED
    BY <1>1, <1>2, <1>3, <1>4, <1>5, <1>6 DEF Next, CallStep

LEMMA EndTypes ==
  ASSUME TransportInv, LoopTypeOK, NEW c \in Callers, NEW l \in {"ok", "failed"}, End(c, l)
  PROVE  LoopTypeOK' /\ ctxDone' \in [Callers -> BOOLEAN]
  BY DEF TransportInv, TransportTypeOK, LoopTypeOK, End, Goto, MaxCookieRetries

LEMMA SessionTransportInv ==
  SessionInv /\ [Next]_vars => TransportInv' /\ LoopTypeOK'
  <1> SUFFICES ASSUME SessionInv, [Next]_vars PROVE TransportInv' /\ LoopTypeOK'
    OBVIOUS
  <1> USE DEF SessionInv
  <1>0. ctxDone \in [Callers -> BOOLEAN]
    BY DEF TransportInv, TransportTypeOK
  <1>1. ASSUME NEW c \in Callers, Start(c) PROVE TransportInv' /\ LoopTypeOK'
    <2>1. LoopTypeOK' /\ UNCHANGED <<reqVars, ctxDone>>
      BY <1>1, MaxCallsAssumption DEF Start, LoopTypeOK, Goto
    <2>2. QED
      BY <2>1, <1>0, TransportStutterInv
  <1>2. ASSUME NEW c \in Callers, Acquiring(c) PROVE TransportInv' /\ LoopTypeOK'
    <2>1. LoopTypeOK' /\ UNCHANGED <<reqVars, ctxDone>>
      BY <1>2 DEF Acquiring, LoopTypeOK, loopVars
    <2>2. QED
      BY <2>1, <1>0, TransportStutterInv
  <1>3. ASSUME NEW c \in Callers, AcquireFailed(c) PROVE TransportInv' /\ LoopTypeOK'
    BY <1>3, EndTypes, TransportStutterInv DEF AcquireFailed
  <1>4. ASSUME NEW c \in Callers, Post(c) PROVE TransportInv' /\ LoopTypeOK'
    <2>1. LoopTypeOK' /\ UNCHANGED ctxDone
      BY <1>4 DEF Post, LoopTypeOK, Goto, CookieInv, CookieTypeOK, Cookie
    <2>2. Submit(c)
      BY <1>4 DEF Post
    <2>3. QED
      BY <2>1, <2>2, <1>0, TransportStepInv
  <1>5. ASSUME NEW c \in Callers, Requesting(c) PROVE TransportInv' /\ LoopTypeOK'
    <2>1. RequestStep(c) /\ UNCHANGED ctxDone
      BY <1>5 DEF Requesting
    <2>2. TransportInv'
      BY <2>1, <1>0, TransportStepInv
    <2>3. QED
      BY <1>5, <2>2 DEF Requesting, LoopTypeOK, loopVars
  <1>6. ASSUME NEW c \in Callers, CookieRejected(c) PROVE TransportInv' /\ LoopTypeOK'
    <2>1. LoopTypeOK' /\ UNCHANGED ctxDone
      BY <1>6 DEF CookieRejected, LoopTypeOK, Goto, MaxCookieRetries
    <2>2. Collect(c)
      BY <1>6 DEF CookieRejected
    <2>3. QED
      BY <2>1, <2>2, <1>0, TransportStepInv
  <1>7. ASSUME NEW c \in Callers, CallFailed(c) \/ CallSucceeded(c)
        PROVE  TransportInv' /\ LoopTypeOK'
    <2>1. Collect(c) /\ \E l \in {"ok", "failed"} : End(c, l)
      BY <1>7 DEF CallFailed, CallSucceeded
    <2>2. QED
      BY <2>1, EndTypes, TransportStepInv
  <1>8. ASSUME NEW c \in Callers, Cancel(c) PROVE TransportInv' /\ LoopTypeOK'
    <2>1. LoopTypeOK' /\ UNCHANGED reqVars /\ ctxDone' \in [Callers -> BOOLEAN]
      BY <1>8, <1>0 DEF Cancel, LoopTypeOK, loopVars
    <2>2. QED
      BY <2>1, TransportStutterInv
  <1>9. CASE Clock \/ UNCHANGED vars
    <2>1. LoopTypeOK' /\ UNCHANGED <<reqVars, ctxDone>>
      BY <1>9 DEF Clock, vars, LoopTypeOK, loopVars
    <2>2. QED
      BY <2>1, <1>0, TransportStutterInv
  <1>10. QED
    BY <1>1, <1>2, <1>3, <1>4, <1>5, <1>6, <1>7, <1>8, <1>9 DEF Next, CallStep

--------------------------------------------------------------------------------
LEMMA SessionPlaceInv == SessionInv /\ [Next]_vars => PlaceInv'
  <1> SUFFICES ASSUME SessionInv, [Next]_vars PROVE PlaceInv'
    OBVIOUS
  <1> USE DEF SessionInv, PlaceInv, LoopTypeOK, CookieInv, CookieTypeOK,
              TransportInv, TransportTypeOK
  <1>1. ASSUME NEW c \in Callers, Start(c) PROVE PlaceInv'
    BY <1>1 DEF Start, Goto, cmVars, reqVars
  <1>2. ASSUME NEW c \in Callers, Acquiring(c) PROVE PlaceInv'
    BY <1>2 DEF Acquiring, loopVars, reqVars, GetStep, GetFast, GetSlow, GetRecheck,
       GetRefresh, StartPost, ServerIssue, AskAgain, InPost, GetStore, GetFail, Returns
  <1>3. ASSUME NEW c \in Callers, AcquireFailed(c) PROVE PlaceInv'
    BY <1>3 DEF AcquireFailed, End, Goto, GetReturn, Returns, reqVars
  <1>4. ASSUME NEW c \in Callers, Post(c) PROVE PlaceInv'
    BY <1>4 DEF Post, Goto, GetReturn, Returns, Submit, Move
  <1>5. ASSUME NEW c \in Callers, Requesting(c) PROVE PlaceInv'
    BY <1>5 DEF Requesting, cmVars, loopVars, RequestStep, Enter, GiveUp, Retry, Reject, LastAnswer,
       Accept, Finish, Abort, Overrun, ReturnWith, Move
  <1>6. ASSUME NEW c \in Callers, CookieRejected(c) PROVE PlaceInv'
    BY <1>6 DEF CookieRejected, Collect, Invalidate, Goto, Move
  <1>7. ASSUME NEW c \in Callers, CallFailed(c) \/ CallSucceeded(c) PROVE PlaceInv'
    BY <1>7 DEF CallFailed, CallSucceeded, Collect, End, Goto, Move, cmVars
  <1>8. ASSUME NEW c \in Callers, Cancel(c) PROVE PlaceInv'
    BY <1>8 DEF Cancel, cmVars, reqVars, loopVars
  <1>9. CASE Clock \/ UNCHANGED vars
    BY <1>9 DEF Clock, Tick, vars, cmVars, reqVars, loopVars
  <1>10. QED
    BY <1>1, <1>2, <1>3, <1>4, <1>5, <1>6, <1>7, <1>8, <1>9 DEF Next, CallStep

LEMMA SessionRoundInv == SessionInv /\ [Next]_vars => RoundInv'
  <1> SUFFICES ASSUME SessionInv, [Next]_vars PROVE RoundInv'
    OBVIOUS
  <1> USE DEF SessionInv, RoundInv, LoopTypeOK, MaxCookieRetries, Goto
  <1>1. ASSUME NEW c \in Callers, Start(c) PROVE RoundInv'
    BY <1>1 DEF Start
  <1>2. ASSUME NEW c \in Callers, Acquiring(c) \/ Requesting(c) \/ Cancel(c) PROVE RoundInv'
    BY <1>2 DEF Acquiring, Requesting, Cancel, loopVars
  <1>3. ASSUME NEW c \in Callers, AcquireFailed(c) PROVE RoundInv'
    BY <1>3 DEF AcquireFailed, End
  <1>4. ASSUME NEW c \in Callers, Post(c) PROVE RoundInv'
    BY <1>4 DEF Post
  <1>5. ASSUME NEW c \in Callers, CookieRejected(c) PROVE RoundInv'
    BY <1>5 DEF CookieRejected
  <1>6. ASSUME NEW c \in Callers, CallFailed(c) \/ CallSucceeded(c) PROVE RoundInv'
    BY <1>6 DEF CallFailed, CallSucceeded, End
  <1>7. CASE Clock \/ UNCHANGED vars
    BY <1>7 DEF Clock, vars, loopVars
  <1>8. QED
    BY <1>1, <1>2, <1>3, <1>4, <1>5, <1>6, <1>7 DEF Next, CallStep

\* What one step of Get does to the cookies the other callers depend on: the
\* cache is unchanged or holds something newer than anything it ever held.
LEMMA GetStepCookies ==
  ASSUME CookieInv, NEW c \in Callers, GetStep(c)
  PROVE  /\ newest' >= newest
         /\ \/ cookie' = cookie
            \/ cookie'.id > newest /\ newest' = cookie'.id
         /\ \A d \in Callers \ {c} : get'[d] = get[d] /\ got'[d] = got[d]
         /\ get'[c] = "done" =>
              \/ get[c] = "done" /\ got'[c] = got[c]
              \/ got'[c] = cookie' /\ cookie'.id # 0 /\ cookie'.id <= newest'
  BY DEF CookieInv, CookieTypeOK, LockInv, NewestInv, InPost, IsValid, Cookie, NilCookie,
     GetStep, GetFast, GetSlow, GetRecheck, GetRefresh, StartPost, ServerIssue, AskAgain,
     GetStore, GetFail, Returns, LeavePost

LEMMA SessionFreshInv == SessionInv /\ [Next]_vars => FreshInv'
  <1> SUFFICES ASSUME SessionInv, [Next]_vars PROVE FreshInv'
    OBVIOUS
  <1>0. /\ cookie.id \in Nat /\ newest \in Nat
        /\ \A c \in Callers : got[c].id \in Nat /\ sent[c] \in Nat /\ rejected[c] \in Nat
    BY DEF SessionInv, LoopTypeOK, CookieInv, CookieTypeOK, Cookie
  <1>00. cookie'.id \in Nat /\ newest' \in Nat
    BY SessionIsCookie, CookieNextInv DEF SessionInv, CookieInv, CookieTypeOK, Cookie
  <1> USE DEF SessionInv, LoopTypeOK, PlaceInv, FreshInv
  <1>1. ASSUME NEW c \in Callers, Start(c) PROVE FreshInv'
    BY <1>1, <1>0 DEF Start, Goto, cmVars
  <1>2. ASSUME NEW c \in Callers, Acquiring(c) PROVE FreshInv'
    BY <1>2, <1>0, <1>00, GetStepCookies DEF Acquiring, loopVars
  <1>3. ASSUME NEW c \in Callers, AcquireFailed(c) PROVE FreshInv'
    BY <1>3, <1>0 DEF AcquireFailed, End, Goto, GetReturn, Returns, CookieInv, CookieTypeOK
  <1>4. ASSUME NEW c \in Callers, Post(c) PROVE FreshInv'
    BY <1>4, <1>0 DEF Post, Goto, GetReturn, Returns, CookieInv, CookieTypeOK
  <1>5. ASSUME NEW c \in Callers, CookieRejected(c) PROVE FreshInv'
    BY <1>5, <1>0 DEF CookieRejected, Invalidate, NilCookie, Goto
  <1>6. ASSUME NEW c \in Callers, CallFailed(c) \/ CallSucceeded(c) PROVE FreshInv'
    BY <1>6, <1>0 DEF CallFailed, CallSucceeded, End, Goto, cmVars
  <1>7. ASSUME NEW c \in Callers, Requesting(c) \/ Cancel(c) PROVE FreshInv'
    BY <1>7 DEF Requesting, Cancel, cmVars, loopVars
  <1>8. CASE Clock \/ UNCHANGED vars
    BY <1>8 DEF Clock, Tick, vars, cmVars, loopVars
  <1>9. QED
    BY <1>1, <1>2, <1>3, <1>4, <1>5, <1>6, <1>7, <1>8 DEF Next, CallStep

LEMMA SessionNextInv == SessionInv /\ [Next]_vars => SessionInv'
  <1>1. SessionInv /\ [Next]_vars => CookieInv'
    BY SessionIsCookie, CookieNextInv DEF SessionInv
  <1>2. QED
    BY <1>1, SessionTransportInv, SessionPlaceInv, SessionFreshInv, SessionRoundInv
    DEF SessionInv

(* The inductive invariant of a session.                                     *)
THEOREM SessionInvariant == Spec => []SessionInv
  BY SessionInitInv, SessionNextInv, PTL DEF Spec

(* A session never leaves the states its variables are declared for; with it *)
(* the semaphore never holds more tokens than it has room for.               *)
THEOREM TypeCorrect == Spec => []TypeOK
  <1>1. SessionInv => TypeOK
    BY DEF SessionInv, LoopTypeOK, TypeOK, CookieInv, TransportInv
  <1>2. QED
    BY <1>1, SessionInvariant, PTL

(* No second round carries a rejected cookie or an older one, for any number *)
(* of goroutines that refresh and invalidate the cookie.                     *)
THEOREM RetriesAreFresh == Spec => []RetryIsFresh
  <1>1. SessionInv => RetryIsFresh
    BY DEF SessionInv, FreshInv, RetryIsFresh
  <1>2. QED
    BY <1>1, SessionInvariant, PTL

(* The semaphore's tokens and the requests under way agree, for any number   *)
(* of goroutines, any limit and any number of HTTP retries.                  *)
THEOREM SlotsAreAccounted == Spec => []SlotAccounting
  <1>1. SessionInv => SlotAccounting
    BY DEF SessionInv, TransportInv
  <1>2. QED
    BY <1>1, SessionInvariant, PTL

(* One call makes at most two rounds of a Get and a request of at most       *)
(* RetryCount + 1 HTTP attempts each, for any number of HTTP retries.        *)
THEOREM CallsStayInBudget == Spec => []RequestBudget
  <1>1. SessionInv => RequestBudget
    <2> SUFFICES ASSUME SessionInv, NEW c \in Callers
                 PROVE  /\ rounds[c] <= MaxCookieRetries + 1
                        /\ asks[c] <= RetryCount + 1
                        /\ tries[c] <= RetryCount + 1
      BY DEF RequestBudget
    <2>1. asks[c] \in 0..(RetryCount + 1) /\ tries[c] \in 0..(RetryCount + 1)
      BY DEF SessionInv, CookieInv, CookieTypeOK, TransportInv, TransportTypeOK
    <2>2. attempt[c] \in 0..MaxCookieRetries
      BY DEF SessionInv, LoopTypeOK
    <2>3. rounds[c] <= MaxCookieRetries + 1
      BY <2>2 DEF SessionInv, RoundInv, MaxCookieRetries
    <2>4. QED
      BY <2>1, <2>3, RetryAssumption
  <1>2. QED
    BY <1>1, SessionInvariant, PTL

\* The cookie manager a session uses behaves as a cookie manager does.
LEMMA SessionUsesCookies == Spec => CookieSpec
  <1>1. Init => CookieInit
    BY DEF Init
  <1>2. QED
    BY <1>1, SessionIsCookie, PTL DEF Spec, CookieSpec

(* So its promises hold in a session: no call sends a cookie that had        *)
(* expired when Get returned it, and the goroutines of a client share one    *)
(* cache whose cookies only get newer.                                       *)
THEOREM SessionCookiesAreValid == Spec => GetReturnsValid
  BY SessionUsesCookies, ReturnedCookiesAreValid

THEOREM SessionSharesCache == Spec => IsCache
  BY SessionUsesCookies, ManagerIsCache
================================================================================
