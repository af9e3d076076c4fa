------------------------------ MODULE Goroutines ------------------------------
(***************************************************************************)
(* The goroutines that use one client, and how often its HTTP client       *)
(* retries for each of them.  Modules about different parts of the client  *)
(* extend this one, so that they can be composed.                          *)
(***************************************************************************)
EXTENDS FiniteSets, Naturals

CONSTANTS
  Callers,
  RetryCount   \* the HTTP client's retries after the first attempt

ASSUME CallersAssumption == IsFiniteSet(Callers)

\* NewTransport replaces 0 by MaxRetries.
ASSUME RetryAssumption == RetryCount \in Nat \ {0}
================================================================================
