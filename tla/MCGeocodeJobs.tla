--------------------------- MODULE MCGeocodeJobs ---------------------------
(* Finite instances of GeocodeJobs for TLC. *)
EXTENDS GeocodeJobs, TLC

Symmetry == Permutations(Photos) \cup Permutations(Workers)
=============================================================================
