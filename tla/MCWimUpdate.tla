------------------------------ MODULE MCWimUpdate ------------------------------
(***************************************************************************)
(* A WIM of two images, the second of them bootable: one holds a directory *)
(* with a file in it, the other a file of the directory's name with the    *)
(* same content.                                                           *)
(***************************************************************************)
EXTENDS WimUpdate

MCPaths == {<<"a">>, <<"a", "x">>}

MCTrees ==
  <<[p \in MCPaths |-> IF p = <<"a">> THEN [kinds |-> <<"dir">>, blob |-> 0]
                                      ELSE [kinds |-> <<"file">>, blob |-> 1]],
    [p \in MCPaths |-> IF p = <<"a">> THEN [kinds |-> <<"file">>, blob |-> 1]
                                      ELSE Nothing]>>

MCEntries == <<0, 0>>
================================================================================
