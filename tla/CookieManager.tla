----------------------------- MODULE CookieManager -----------------------------
(***************************************************************************)
(* pkg/wuproto/soap/auth.go: the Windows Update session cookie, cached in  *)
(* process and shared by every goroutine that uses one client.             *)
(*                                                                         *)
(* Get looks at the cache under the read lock, gives that lock up, takes   *)
(* the write lock, looks again, and only then asks the server for a        *)
(* cookie, over the network and with the write lock held.  Invalidate      *)
(* clears the cache.  A read section changes nothing and nothing changes   *)
(* during one, so it is a single step taken while nobody holds the write   *)
(* lock; the write section is several steps.                               *)
(*                                                                         *)
(* Cookies are numbered in the order the server issues them; number 0 is   *)
(* the nil pointer.  Time is in abstract units, TTL of them being          *)
(* cookieTTL, and AcquireMax bounds what one GetCookie exchange may take,  *)
(* all of its HTTP retries included.                                       *)
(***************************************************************************)
EXTENDS Goroutines

CONSTANTS
  None,         \* nobody holds the write lock
  TTL,          \* cookieTTL
  AcquireMax,   \* the longest a GetCookie exchange may take
  MaxTime,      \* bound of the clock
  MaxCookies    \* bound of the cookies the server issues

\* With the defaults an exchange takes at most 4 attempts of 2 minutes and 3
\* waits of 30 seconds, nine and a half minutes; cookieTTL is 14 minutes.
ASSUME CookieAssumption ==
  /\ None \notin Callers
  /\ TTL \in Nat /\ AcquireMax \in Nat
  /\ MaxTime \in Nat /\ MaxCookies \in Nat
  /\ AcquireMax < TTL

VARIABLES
  cookie,   \* m.cookie
  writer,   \* the caller holding m.mu for writing
  now,      \* time.Now()
  issued,   \* how many cookies the server has issued
  newest,   \* history: number of the newest cookie ever stored in m.cookie
  get,      \* where each caller is in Get
  since,    \* the time each caller read before its GetCookie POST
  reply,    \* number of the cookie the server sent each caller
  got,      \* what each caller's Get returned, until the caller takes it
  asks      \* history: HTTP attempts each caller's Get has made

cmVars == <<cookie, writer, now, issued, newest, get, since, reply, got, asks>>

Cookie    == [id : Nat, expires : Nat]
NilCookie == [id |-> 0, expires |-> 0]

CookieInit ==
  /\ cookie = NilCookie
  /\ writer = None
  /\ now = 0
  /\ issued = 0
  /\ newest = 0
  /\ get = [c \in Callers |-> "idle"]
  /\ since = [c \in Callers |-> 0]
  /\ reply = [c \in Callers |-> 0]
  /\ got = [c \in Callers |-> NilCookie]
  /\ asks = [c \in Callers |-> 0]

--------------------------------------------------------------------------------
\* The expiry check forgotten.
IsPresent(k) == k.id # 0

IsValid(k) == k.id # 0 /\ now < k.expires

Returns(c, st, k) ==
  /\ get' = [get EXCEPT ![c] = st]
  /\ got' = [got EXCEPT ![c] = k]

\* The read section of Get finds a valid cookie.
GetFast(c) ==
  /\ get[c] = "idle" /\ writer = None
  /\ IsValid(cookie)
  /\ Returns(c, "done", cookie)
  /\ UNCHANGED <<cookie, writer, now, issued, newest, since, reply, asks>>

\* The read section finds none: Get goes on to ask for the write lock.
GetSlow(c) ==
  /\ get[c] = "idle" /\ writer = None
  /\ ~IsValid(cookie)
  /\ get' = [get EXCEPT ![c] = "locking"]
  /\ UNCHANGED <<cookie, writer, now, issued, newest, since, reply, got, asks>>

\* With the write lock: another caller has refreshed the cookie meanwhile.
GetRecheck(c) ==
  /\ get[c] = "locking" /\ writer = None
  /\ IsValid(cookie)
  /\ Returns(c, "done", cookie)
  /\ UNCHANGED <<cookie, writer, now, issued, newest, since, reply, asks>>

InPost(c) == get[c] \in {"posting", "answered"}

StartPost(c) ==
  /\ get' = [get EXCEPT ![c] = "posting"]
  /\ since' = [since EXCEPT ![c] = now]
  /\ asks' = [asks EXCEPT ![c] = @ + 1]
  /\ UNCHANGED <<cookie, now, issued, newest, reply, got>>

\* The second look left out.
RefreshUnchecked(c) ==
  /\ get[c] = "locking" /\ writer = None
  /\ writer' = c
  /\ StartPost(c)

\* The lock given up before the network call.
RefreshUnlocked(c) ==
  /\ get[c] = "locking" /\ writer = None
  /\ ~IsValid(cookie)
  /\ writer' = None
  /\ StartPost(c)

\* With the write lock: still no valid cookie, so acquire reads the time and
\* sends GetCookie.
GetRefresh(c) ==
  /\ get[c] = "locking" /\ writer = None
  /\ ~IsValid(cookie)
  /\ writer' = c
  /\ StartPost(c)

\* The server answers with a new cookie.
ServerIssue(c) ==
  /\ get[c] = "posting"
  /\ issued < MaxCookies
  /\ issued' = issued + 1
  /\ reply' = [reply EXCEPT ![c] = issued + 1]
  /\ get' = [get EXCEPT ![c] = "answered"]
  /\ UNCHANGED <<cookie, writer, now, newest, since, got, asks>>

\* The attempt fails on its way there or back and the HTTP client, which is the
\* transport's, makes another; a cookie the server issued for it is lost.
AskAgain(c) ==
  /\ InPost(c)
  /\ asks[c] <= RetryCount
  /\ asks' = [asks EXCEPT ![c] = @ + 1]
  /\ reply' = [reply EXCEPT ![c] = 0]
  /\ get' = [get EXCEPT ![c] = "posting"]
  /\ UNCHANGED <<cookie, writer, now, issued, newest, since, got>>

\* The locals of acquire go out of scope.
LeavePost(c) ==
  /\ since' = [since EXCEPT ![c] = 0]
  /\ reply' = [reply EXCEPT ![c] = 0]

\* The answer arrives: the lifetime counts from before the POST.
GetStore(c) ==
  LET fresh == [id |-> reply[c], expires |-> since[c] + TTL]
  IN  /\ get[c] = "answered"
      /\ cookie' = fresh
      /\ newest' = fresh.id
      /\ writer' = None
      /\ Returns(c, "done", fresh)
      /\ LeavePost(c)
      /\ UNCHANGED <<now, issued, asks>>

\* An error return that skips the deferred unlock.
FailLocked(c) ==
  /\ InPost(c)
  /\ Returns(c, "failed", NilCookie)
  /\ LeavePost(c)
  /\ UNCHANGED <<cookie, writer, now, issued, newest, asks>>

\* The POST fails, is not answered 200, does not parse or holds no
\* EncryptedData; a cookie the server issued is then lost.
GetFail(c) ==
  /\ InPost(c)
  /\ writer' = None
  /\ Returns(c, "failed", NilCookie)
  /\ LeavePost(c)
  /\ UNCHANGED <<cookie, now, issued, newest, asks>>

\* The caller takes what Get returned.
GetReturn(c) ==
  /\ get[c] \in {"done", "failed"}
  /\ Returns(c, "idle", NilCookie)
  /\ asks' = [asks EXCEPT ![c] = 0]
  /\ UNCHANGED <<cookie, writer, now, issued, newest, since, reply>>

\* Lock, clear, unlock.
Invalidate ==
  /\ writer = None
  /\ cookie' = NilCookie
  /\ UNCHANGED <<writer, now, issued, newest, get, since, reply, got, asks>>

\* Time passes, but not beyond what an exchange under way may still take.
Tick ==
  /\ now < MaxTime
  /\ \A c \in Callers : InPost(c) => now < since[c] + AcquireMax
  /\ now' = now + 1
  /\ UNCHANGED <<cookie, writer, issued, newest, get, since, reply, got, asks>>

GetStep(c) ==
  \/ GetFast(c) \/ GetSlow(c) \/ GetRecheck(c) \/ GetRefresh(c)
  \/ ServerIssue(c) \/ AskAgain(c) \/ GetStore(c) \/ GetFail(c)

CookieNext ==
  \/ \E c \in Callers : GetStep(c) \/ GetReturn(c)
  \/ Invalidate
  \/ Tick

CookieSpec == CookieInit /\ [][CookieNext]_cmVars

--------------------------------------------------------------------------------
CookieTypeOK ==
  /\ cookie \in Cookie
  /\ writer \in Callers \cup {None}
  /\ now \in Nat /\ issued \in Nat /\ newest \in Nat
  /\ get \in [Callers -> {"idle", "locking", "posting", "answered", "done", "failed"}]
  /\ since \in [Callers -> Nat]
  /\ reply \in [Callers -> Nat]
  /\ got \in [Callers -> Cookie]
  /\ asks \in [Callers -> 0..(RetryCount + 1)]

(* Whatever Get returns without an error can be used: it has not expired at *)
(* the moment Get returns it, on the fast path, after the second look and   *)
(* after a refresh that took as long as the HTTP settings allow (auth.go    *)
(* says of Get that it "returns a valid cookie, refreshing it if            *)
(* necessary").                                                             *)
GetReturnsValid ==
  [][\A c \in Callers :
       (get[c] # "done" /\ get'[c] = "done") => (got'[c].id # 0 /\ now' < got'[c].expires)]_cmVars

\* The manager as a cache: an expired cookie is no cookie.
Cache == INSTANCE CookieCache WITH
  Nil     <- None,
  current <- IF IsValid(cookie) THEN cookie.id ELSE 0,
  newest  <- newest,
  result  <- [c \in Callers |-> IF get[c] \in {"done", "failed"} THEN got[c].id ELSE None]

(* Many callers that find no cookie at once send GetCookie one after the    *)
(* other and only while there is still none; a refresh never puts back an   *)
(* older cookie than one the cache held; every Get returns what the cache   *)
(* held at some moment of the call.                                         *)
IsCache == Cache!Spec
================================================================================
