------------------------------- MODULE ImageStore -------------------------------
(***************************************************************************)
(* What an Updater promises: the images and the catalog of a WIM change in *)
(* one step, from what they were to what they were when the Updater was    *)
(* opened with every edit made since applied once, in order; and they do   *)
(* not change at all when one of the edits cannot be applied.  A commit    *)
(* may be repeated.                                                        *)
(***************************************************************************)
EXTENDS WimTree

CONSTANTS Images, Values

VARIABLES
  images,     \* the tree of each image, as a reader sees it
  catalog,    \* the catalog, as a reader sees it
  draft,      \* the trees with the edits applied
  entries,    \* the catalog with the edits applied
  broken      \* an edit removes what is not there

storeVars == <<images, catalog, draft, entries, broken>>

Init ==
  /\ images \in [Images -> Trees]
  /\ catalog \in [Images -> Values]
  /\ draft = images /\ entries = catalog
  /\ broken = FALSE

Begin ==
  /\ draft' = images /\ entries' = catalog /\ broken' = FALSE
  /\ UNCHANGED <<images, catalog>>

Edit(i, e) ==
  /\ IF CanEdit(draft[i], e)
       THEN draft' = [draft EXCEPT ![i] = Edited(@, e)] /\ UNCHANGED broken
       ELSE broken' = TRUE /\ UNCHANGED draft
  /\ UNCHANGED <<images, catalog, entries>>

SetEntries ==
  /\ entries' \in [Images -> Values]
  /\ UNCHANGED <<images, catalog, draft, broken>>

Publish ==
  /\ ~broken
  /\ images' = draft /\ catalog' = entries
  /\ UNCHANGED <<draft, entries, broken>>

Next ==
  \/ Begin \/ SetEntries \/ Publish
  \/ \E i \in Images, e \in Edits : Edit(i, e)

Spec == Init /\ [][Next]_storeVars
================================================================================
