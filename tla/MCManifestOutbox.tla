-------------------------- MODULE MCManifestOutbox --------------------------
(* A folder of two files.  One appears, changes and goes, or comes back;   *)
(* the other appears and shares batches with it.                           *)
EXTENDS ManifestOutbox, TLC
CONSTANTS i1, i2, r1, r2
OneRejected == {<<i1, r2>>}
Edits == (i1 :> 2) @@ (i2 :> 1)
=============================================================================
