------------------------- MODULE MC_MoveSplineFlag -------------------------
(* Model-checking instance of MoveSplineFlag: the default word and a word  *)
(* with Done set, the ~Mask_No_Monster_Move mask for &=, and masks outside *)
(* the exclusive groups (Done, Cyclic + Enter_Cycle, SmoothGroundPath).   *)
EXTENDS MoveSplineFlag

MCInitWord == {0, Done}

MCAndMask == {Complement(Done), Complement(Flying + Catmullrom)}

MCOrMask == {Done, Cyclic + Enter_Cycle, SmoothGroundPath}

=============================================================================
