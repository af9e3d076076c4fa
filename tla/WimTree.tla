-------------------------------- MODULE WimTree --------------------------------
(***************************************************************************)
(* pkg/wim/modify_files.go: the directory tree of an image and what one    *)
(* AddFile or RemoveFile does to it.                                       *)
(*                                                                         *)
(* Contents are numbered 1..NumBlobs (equal contents have equal hashes);   *)
(* 0 is the empty file, which has the zero hash and no blob.  Names that   *)
(* differ in case only are the same name.  The code looks for files and    *)
(* directories separately when it adds and takes the first entry of the    *)
(* name when it removes, so a directory can come to hold a file and a      *)
(* directory of one name, in either order.                                 *)
(***************************************************************************)
EXTENDS Naturals, Sequences, FiniteSets

CONSTANTS
  Paths,      \* the paths of the images, sequences of names
  NumBlobs    \* the contents that files have

ASSUME TreeAssumption == NumBlobs \in Nat

\* What bears the name of a path, in directory order, and the content of the file.
Kinds == {<<>>, <<"file">>, <<"dir">>, <<"file", "dir">>, <<"dir", "file">>}
Node  == [kinds : Kinds, blob : 0..NumBlobs]
Trees == [Paths -> Node]

Nothing == [kinds |-> <<>>, blob |-> 0]

\* The directories a path goes through.
Parents(p) == {q \in Paths : Len(q) < Len(p) /\ q = SubSeq(p, 1, Len(q))}

Has(n, kind)  == \E i \in DOMAIN n.kinds : n.kinds[i] = kind

\* The name not looked for.
WithAnother(n, kind) == Append(n.kinds, kind)

With(n, kind) == IF Has(n, kind) THEN n.kinds ELSE Append(n.kinds, kind)

\* The directories made as needed, the file replaced or added.
SetFile(t, p, b) ==
  [q \in Paths |->
     IF q \in Parents(p) THEN [kinds |-> With(t[q], "dir"), blob |-> t[q].blob]
     ELSE IF q = p       THEN [kinds |-> With(t[q], "file"), blob |-> b]
     ELSE t[q]]

\* The first entry of each name on the way is a directory, and there is one of
\* the last name.
CanRemove(t, p) ==
  /\ t[p].kinds # <<>>
  /\ \A q \in Parents(p) : Head(t[q].kinds) = "dir"

\* A directory goes with all it holds.
RemoveFile(t, p) ==
  LET first == Head(t[p].kinds)
  IN  [q \in Paths |->
         IF q = p THEN [kinds |-> Tail(t[p].kinds),
                        blob  |-> IF first = "file" THEN 0 ELSE t[p].blob]
         ELSE IF first = "dir" /\ p \in Parents(q) THEN Nothing
         ELSE t[q]]

\* A pending fileOp.
Edits == [remove : {FALSE}, path : Paths, blob : 0..NumBlobs]
           \cup [remove : {TRUE}, path : Paths, blob : {0}]

CanEdit(t, e) == e.remove => CanRemove(t, e.path)
Edited(t, e)  == IF e.remove THEN RemoveFile(t, e.path) ELSE SetFile(t, e.path, e.blob)

\* The blobs a tree refers to.
Uses(t) == {t[p].blob : p \in Paths} \ {0}

\* Whatever has a name lies in directories.
WellFormed(t) == \A p \in Paths : t[p].kinds # <<>> => \A q \in Parents(p) : Has(t[q], "dir")
================================================================================
