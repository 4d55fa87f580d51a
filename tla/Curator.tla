------------------------------- MODULE Curator -------------------------------
(***************************************************************************)
(* The Curator of Karazhan (boss_curator.cpp): one creature AI driven by   *)
(* UpdateAI(diff).  Three countdowns of uint32 milliseconds: AddTimer      *)
(* summons an Astral Flare and costs a tenth of the maximum mana, until    *)
(* the mana falls below 10% and the Curator channels Evocation;            *)
(* HatefulBoltTimer casts Hateful Bolt; BerserkTimer is the hard enrage.   *)
(* Below 15% health he enrages (Arcane Infusion) and stops summoning.      *)
(*                                                                         *)
(* The AI base classes and the spells are not in the repository and are    *)
(* used with their usual semantics: UpdateVictim returns false out of      *)
(* combat or without a victim; EnterEvadeMode leaves combat, restores       *)
(* health and mana and calls Reset; the Evocation aura ends on its own and *)
(* leaves the mana full.  Summons, texts and the casts that change no state *)
(* here (flare, Hateful Bolt, Arcane Infusion) are left out.  ai holds the *)
(* script's members with the Evocation aura and the mana they read.        *)
(***************************************************************************)
EXTENDS Naturals

CONSTANTS
    AddTime,          \* AddTimer reset value (10000 ms), scaled
    BoltTime,         \* HatefulBoltTimer reset value (15000 ms)
    BoltEnragedTime,  \* HatefulBoltTimer reset value once Enraged (7000 ms)
    BerserkTime,      \* BerserkTimer reset value (720000 ms)
    MaxMana,          \* GetMaxPower(POWER_MANA)
    Diffs,            \* the update diffs, on the same scale
    MaxPulls,         \* bound on the raid's pulls
    MaxCasts          \* bound on the counted Berserk casts

ASSUME MaxMana > 0 /\ Diffs \subseteq Nat \ {0}

VARIABLES
    ai,           \* [AddTimer, HatefulBoltTimer, BerserkTimer, Enraged,
                  \*  Evocating, aura, mana]
    inCombat,     \* the Curator is in combat with a victim (UpdateVictim)
    alive,
    lowHealth,    \* !HealthAbovePct(15)
    berserkCasts, \* DoCast(SPELL_BERSERK) calls since the pull (history)
    pulls

vars == <<ai, inCombat, alive, lowHealth, berserkCasts, pulls>>

(* Reset(), with the full mana the creature has when it is reset.         *)
Reset ==
    [AddTimer |-> AddTime, HatefulBoltTimer |-> BoltTime,
     BerserkTimer |-> BerserkTime, Enraged |-> FALSE, Evocating |-> FALSE,
     aura |-> FALSE, mana |-> MaxMana]

Init ==
    /\ ai = Reset
    /\ inCombat = FALSE
    /\ alive = TRUE
    /\ lowHealth = FALSE
    /\ berserkCasts = 0
    /\ pulls = 0

-----------------------------------------------------------------------------
(* The phases of UpdateAI, each a function of the members.                *)

(* "always decrease BerserkTimer": once it has run out, break Evocation,  *)
(* cast Berserk and set Enraged.                                           *)
BerserkRunsOut(s, d) == s.BerserkTimer <= d

BerserkPhase(s, d) ==
    IF BerserkRunsOut(s, d)
    THEN [s EXCEPT !.aura = IF s.Evocating THEN FALSE ELSE @,
                   !.Evocating = FALSE, !.Enraged = TRUE]
    ELSE [s EXCEPT !.BerserkTimer = @ - d]

(* A flare takes GetMaxPower / 10 through ModifyPower, which stops at 0.  *)
FlareMana(m) == IF m >= MaxMana \div 10 THEN m - MaxMana \div 10 ELSE 0

(* GetPowerPct(POWER_MANA) < 10.f                                          *)
ManaBelow10Pct(m) == m * 100 < 10 * MaxMana

(* Below 15% health the Curator enrages once.                              *)
SoftEnrage(s) == IF lowHealth THEN [s EXCEPT !.Enraged = TRUE] ELSE s

(* The summon block: a due AddTimer summons a flare; below 10% mana it     *)
(* starts Evocation and returns, else AddTimer is re-armed.                *)
AddPhase(s, d) ==
    IF s.AddTimer <= d
    THEN [s EXCEPT !.mana = FlareMana(@), !.AddTimer = AddTime]
    ELSE [s EXCEPT !.AddTimer = @ - d]

StartsEvocation(s, d) ==
    ~s.Enraged /\ s.AddTimer <= d /\ ManaBelow10Pct(FlareMana(s.mana))

Evocate(s) ==
    [s EXCEPT !.mana = FlareMana(@), !.Evocating = TRUE, !.aura = TRUE]

BoltPhase(s, d) ==
    IF s.HatefulBoltTimer <= d
    THEN [s EXCEPT !.HatefulBoltTimer =
                       IF s.Enraged THEN BoltEnragedTime ELSE BoltTime]
    ELSE [s EXCEPT !.HatefulBoltTimer = @ - d]

(* UpdateAI(diff) past UpdateVictim: the berserk check; nothing more while *)
(* the Evocation aura lasts; the summon block and the soft enrage unless    *)
(* Enraged; the Hateful Bolt timer.                                        *)
UpdateAIResult(s, d) ==
    LET s1 == BerserkPhase(s, d)
        s2 == [s1 EXCEPT !.Evocating = FALSE]
    IN  CASE s1.Evocating /\ s1.aura -> s1
          [] StartsEvocation(s2, d)  -> Evocate(s2)
          [] ~s2.Enraged             -> BoltPhase(SoftEnrage(AddPhase(s2, d)), d)
          [] OTHER                   -> BoltPhase(s2, d)

UpdateAI(d) ==
    /\ alive /\ inCombat
    /\ ai' = UpdateAIResult(ai, d)
    /\ berserkCasts' = IF BerserkRunsOut(ai, d) /\ berserkCasts < MaxCasts
                       THEN berserkCasts + 1 ELSE berserkCasts
    /\ UNCHANGED <<inCombat, alive, lowHealth, pulls>>

(* EnterCombat only talks; the raid pulls the Curator.                     *)
EnterCombat ==
    /\ alive /\ ~inCombat /\ pulls < MaxPulls
    /\ inCombat' = TRUE
    /\ berserkCasts' = 0
    /\ pulls' = pulls + 1
    /\ UNCHANGED <<ai, alive, lowHealth>>

(* JustDied only talks; the creature is dead.                              *)
JustDied ==
    /\ alive /\ inCombat
    /\ alive' = FALSE
    /\ inCombat' = FALSE
    /\ UNCHANGED <<ai, lowHealth, berserkCasts, pulls>>

-----------------------------------------------------------------------------
(* The environment.                                                        *)

(* The raid wipes or runs: EnterEvadeMode restores health and mana and     *)
(* calls Reset.                                                            *)
Evade ==
    /\ alive /\ inCombat
    /\ ai' = Reset
    /\ inCombat' = FALSE
    /\ lowHealth' = FALSE
    /\ UNCHANGED <<alive, berserkCasts, pulls>>

Damage ==
    /\ alive /\ inCombat /\ ~lowHealth
    /\ lowHealth' = TRUE
    /\ UNCHANGED <<ai, inCombat, alive, berserkCasts, pulls>>

(* The Evocation channel ends and has filled the mana.                     *)
EvocationEnds ==
    /\ alive /\ ai.aura
    /\ ai' = [ai EXCEPT !.aura = FALSE, !.mana = MaxMana]
    /\ UNCHANGED <<inCombat, alive, lowHealth, berserkCasts, pulls>>

Next ==
    \/ \E d \in Diffs : UpdateAI(d)
    \/ EnterCombat \/ JustDied \/ Evade \/ Damage \/ EvocationEnds

Spec == Init /\ [][Next]_vars

-----------------------------------------------------------------------------
(* The hard enrage happens once per pull: DoCast(SPELL_BERSERK), with      *)
(* Talk(SAY_ENRAGE) and InterruptNonMeleeSpells, runs when BerserkTimer    *)
(* runs out ("12 minutes"), not again on every later update.              *)
BerserkCastOnce == berserkCasts <= 1

=============================================================================
