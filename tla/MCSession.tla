------------------------------- MODULE MCSession -------------------------------
(***************************************************************************)
(* Two goroutines over one client, one semaphore slot between them.        *)
(***************************************************************************)
EXTENDS Session

CONSTANTS g1, g2

MCCallers == {g1, g2}
================================================================================
