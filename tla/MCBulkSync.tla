------------------------------ MODULE MCBulkSync ------------------------------
(* A folder of two files, one of which changes or goes after it was sent. *)
EXTENDS BulkSync, TLC
CONSTANTS i1, i2, r1, r2
OneRejected == {<<i1, r2>>}
Edits == (i1 :> 2) @@ (i2 :> 1)
Symmetry == Permutations(Imports)
=============================================================================
