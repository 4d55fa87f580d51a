----------------------- MODULE MC_KarathressEncounter -----------------------
(* The Karathress encounter for TLC: the constants are given in the cfg. *)
EXTENDS KarathressEncounter
=============================================================================
