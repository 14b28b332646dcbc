---------------------------- MODULE MCMediaRace ----------------------------
(* Two devices, each with one source and one copy of the same photo. *)
EXTENDS MediaRace, TLC
CONSTANTS s1, s2, i1, i2
ItemSources == (i1 :> s1) @@ (i2 :> s2)
=============================================================================
