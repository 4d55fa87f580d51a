------------------------------ MODULE MC_Curator ------------------------------
(* Model-checking instance of Curator.  The timers keep the order of the  *)
(* code's values (Hateful Bolt when enraged 7 s < AddTimer 10 s < Hateful *)
(* Bolt 15 s < Berserk 12 min) on a scale where a diff is 1 or 2 units.   *)
(* The maximum mana is 100, so a flare costs 10 and the tenth flare leaves *)
(* 0%.  The berserk timer is scaled down to 4 units: only its running out  *)
(* matters to BerserkCastOnce, not how many flares come before it.        *)
EXTENDS Curator

=============================================================================
