--------------------------- MODULE MCSourceLifecycle ---------------------------
(* One folder with one file, added, removed and added again. *)
EXTENDS SourceLifecycle, TLC
CONSTANTS i1
Edits == (i1 :> 1)
=============================================================================
