----------------------- MODULE MC_ArenaDalaranSewers -----------------------
(* Model-checking instance of ArenaDalaranSewers.  The durations keep the  *)
(* order of the code's BG_DS_* values (knockback 1500 < pipe delay and     *)
(* textures 3000 < first pipe delay and warning 5000 < waterfall duration  *)
(* and minimum 30000 < maximum 60000) in units small enough for TLC, and   *)
(* update diffs of one and two units let a timer run out exactly at an     *)
(* update and in the middle of one.                                        *)
EXTENDS ArenaDalaranSewers

=============================================================================
