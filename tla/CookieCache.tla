------------------------------ MODULE CookieCache ------------------------------
(***************************************************************************)
(* What CookieManager promises its callers, without the locks, the clock   *)
(* or the network: one current cookie shared by everyone.  A Get returns   *)
(* the current cookie; only when there is none may it put a new one there, *)
(* and a new one is newer than every cookie the cache ever held.  A cookie *)
(* disappears when its lifetime ends or somebody invalidates it.           *)
(***************************************************************************)
EXTENDS Naturals

CONSTANTS Callers, Nil

VARIABLES
  current,   \* number of the cookie every Get returns now, 0 when there is none
  newest,    \* number of the newest cookie the cache ever held
  result     \* what the last Get of a caller returned, 0 for an error, Nil while it runs

cacheVars == <<current, newest, result>>

Init ==
  /\ current = 0
  /\ newest = 0
  /\ result = [c \in Callers |-> Nil]

Answers(c, v) == result' = [result EXCEPT ![c] = v]

Hit(c)     == current # 0 /\ Answers(c, current) /\ UNCHANGED <<current, newest>>

Refresh(c) ==
  /\ current = 0
  /\ newest' > newest
  /\ current' = newest'
  /\ Answers(c, newest')

Fail(c)    == Answers(c, 0) /\ UNCHANGED <<current, newest>>

Call(c)    == Answers(c, Nil) /\ UNCHANGED <<current, newest>>

Forget     == current' = 0 /\ UNCHANGED <<newest, result>>

Next == Forget \/ \E c \in Callers : Hit(c) \/ Refresh(c) \/ Fail(c) \/ Call(c)

Spec == Init /\ [][Next]_cacheVars
================================================================================
