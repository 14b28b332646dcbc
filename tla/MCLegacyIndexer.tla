---------------------------- MODULE MCLegacyIndexer ----------------------------
(* Two photos of one place, an import and a tagger. *)
EXTENDS LegacyIndexer, TLC
CONSTANTS f1, f2
GpsOfFiles == (f1 :> 1) @@ (f2 :> 1)
Itself == [p \in Places |-> p]
=============================================================================
