------------------------- MODULE MC_InstanceUldaman -------------------------
(* Instance of InstanceUldaman for TLC: the bounds are set in the cfg.    *)
EXTENDS InstanceUldaman
=============================================================================
