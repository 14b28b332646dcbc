---------------------------- MODULE MCBulkMerge ----------------------------
(* Finite instances of BulkMerge for TLC: a source with two items and one  *)
(* with one, so that an asset may lose or regain its last occurrence by    *)
(* either.                                                                 *)
EXTENDS BulkMerge, TLC
CONSTANTS s1, s2, i1, i2, i3
ItemSources == (i1 :> s1) @@ (i2 :> s1) @@ (i3 :> s2)
Symmetry == Permutations(Hashes)
=============================================================================
