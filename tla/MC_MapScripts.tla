---------------------------- MODULE MC_MapScripts ----------------------------
(***************************************************************************)
(* MapScripts for TLC.  Script s1 calls s2 at once and then runs a        *)
(* command a second later; s2 runs a command now and one a second later.  *)
(* ScriptCommandStart is called with one command, due now or a second     *)
(* later.  Two outside calls and three seconds of game time are enough for *)
(* a call to land while the schedule holds steps of another, for steps     *)
(* with equal due times, and for delayed steps to fall due.              *)
(***************************************************************************)
EXTENDS MapScripts

CONSTANTS m, w, s1, s2

MCScripts ==
    (s1 :> << [delay |-> 0, cmd |-> Call(s2)], [delay |-> 1, cmd |-> Other] >>) @@
    (s2 :> << [delay |-> 0, cmd |-> Other], [delay |-> 1, cmd |-> Other] >>)

MCCommands == {Other}
====
