---------------------------- MODULE MCSceneJobs ----------------------------
(* Finite instances of SceneJobs for TLC. *)
EXTENDS SceneJobs, TLC

Symmetry == Permutations(Photos) \cup Permutations(Messages)
              \cup Permutations(Workers)
=============================================================================
