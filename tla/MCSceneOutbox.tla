--------------------------- MODULE MCSceneOutbox ---------------------------
(* Finite instances of SceneOutbox for TLC. *)
EXTENDS SceneOutbox
=============================================================================
