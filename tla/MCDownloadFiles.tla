--------------------------- MODULE MCDownloadFiles ----------------------------
(***************************************************************************)
(* Two goroutines and three files, two of which have the same name and one *)
(* of which has no known size.                                             *)
(***************************************************************************)
EXTENDS DownloadFiles, TLC

CONSTANTS w1, w2

MCCallers   == {w1, w2}
MCNameOf    == <<"a", "b", "b">>
MCSizeKnown == {1, 2}
Symmetry    == Permutations(MCCallers)
===============================================================================
