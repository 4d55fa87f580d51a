------------------------- MODULE KarathressEncounter -------------------------
(***************************************************************************)
(* The Fathom-Lord Karathress encounter of Serpentshrine Cavern            *)
(* (boss_fathomlord_karathress.cpp): four creature AIs, Karathress and his *)
(* Fathom-Guards Sharkkis, Tidalvess and Caribdis, that never call each    *)
(* other in combat and are linked only through two instance data slots:   *)
(* DATA_KARATHRESSEVENT (NOT_STARTED / IN_PROGRESS) and the guid of the    *)
(* unit that started the event.  Whoever enters combat writes IN_PROGRESS  *)
(* and itself as starter; a creature out of combat that sees IN_PROGRESS   *)
(* attacks the starter; whoever resets writes NOT_STARTED, and a creature  *)
(* in combat that sees NOT_STARTED evades ("someone evaded!").             *)
(* Karathress' Reset respawns dead guards.                                 *)
(*                                                                         *)
(* The instance script holding the two slots, the AI base classes          *)
(* (UpdateVictim, EnterEvadeMode, AttackStart) and Creature::Respawn are   *)
(* not in the repository; they are used with their usual semantics:        *)
(* UpdateVictim evades a creature in combat that finds no target,          *)
(* EnterEvadeMode removes auras, restores health, leaves combat and calls  *)
(* Reset, Respawn calls Reset, and entering combat calls EnterCombat.      *)
(* The spell timers only cast spells, which change no state here; the     *)
(* timers that guard state (Sharkkis' Pet_Timer, Karathress' Blessing of   *)
(* the Tides) are kept.                                                    *)
(***************************************************************************)
EXTENDS Naturals

CONSTANTS
    MaxPulls,   \* bound on the raid's pulls (aggro of a creature out of combat)
    PetTime,    \* Sharkkis' Pet_Timer reset value (10000 ms), scaled
    Diffs,      \* the update diffs, on the same scale
    TimerWrap   \* 2^32: uint32 Pet_Timer is taken modulo it, scaled

ASSUME PetTime < TimerWrap /\ \A d \in Diffs : 0 < d /\ d < TimerWrap

Karathress == "karathress"
Sharkkis == "sharkkis"
Advisors == {Sharkkis, "tidalvess", "caribdis"}
Creatures == {Karathress} \cup Advisors

NOT_STARTED == "NOT_STARTED"
IN_PROGRESS == "IN_PROGRESS"

VARIABLES
    alive,          \* creature -> alive
    inCombat,       \* creature -> in combat
    event,          \* instance data DATA_KARATHRESSEVENT
    starter,        \* DATA_KARATHRESSEVENT_STARTER: "none", "valid" (the unit
                    \* is in the map and alive) or "gone"
    done,           \* DATA_FATHOMLORDKARATHRESSEVENT = DONE
    advisorsKnown,  \* Karathress' Advisors[] filled by GetAdvisors
    blessing,       \* Karathress' BlessingOfTides flag
    tides,          \* the Blessing of the Tides aura on Karathress
    lowHealth,      \* Karathress at or below 75% health
    powers,         \* the Power of <guard> auras on Karathress
    pet,            \* Sharkkis' pet flag
    petTimer,       \* Sharkkis' Pet_Timer
    petAlive,       \* Sharkkis' SummonedPet is alive
    hasTarget,      \* creature -> its threat list holds a reachable living
                    \* target (UpdateVictim finds a victim)
    pulls

vars == <<alive, inCombat, event, starter, done, advisorsKnown, blessing,
          tides, lowHealth, powers, pet, petTimer, petAlive, hasTarget, pulls>>
petVars == <<pet, petTimer, petAlive>>
karathressVars == <<blessing, tides, lowHealth, powers>>

\* Every creature spawned and Reset: the event NOT_STARTED, no starter,
\* Advisors[] cleared by the constructor.
Init ==
    /\ alive = [c \in Creatures |-> TRUE]
    /\ inCombat = [c \in Creatures |-> FALSE]
    /\ event = NOT_STARTED
    /\ starter = "none"
    /\ done = FALSE
    /\ advisorsKnown = FALSE
    /\ blessing = FALSE
    /\ tides = FALSE
    /\ lowHealth = FALSE
    /\ powers = {}
    /\ pet = FALSE
    /\ petTimer = PetTime
    /\ petAlive = FALSE
    /\ hasTarget = [c \in Creatures |-> FALSE]
    /\ pulls = 0

(***************************************************************************)
(* Resets.                                                                 *)
(***************************************************************************)

\* Sharkkis' Reset: Pet_Timer and pet re-armed, a living SummonedPet killed
\* and its guid cleared.
ResetSharkkisPetNoTimer ==
    /\ pet' = FALSE
    /\ UNCHANGED petTimer
    /\ petAlive' = FALSE

ResetSharkkisPet ==
    /\ pet' = FALSE
    /\ petTimer' = PetTime
    /\ petAlive' = FALSE

\* A guard's Reset: its timers re-armed (Sharkkis' pet with them) and
\* NOT_STARTED written to the shared event.
ResetAdvisor(a) ==
    /\ event' = NOT_STARTED
    /\ IF a = Sharkkis THEN ResetSharkkisPet ELSE UNCHANGED petVars

\* Karathress' Reset after EnterEvadeMode dropped his auras and health:
\* every dead guard is respawned (Respawn and EnterEvadeMode run the
\* guard's Reset), BlessingOfTides cleared, NOT_STARTED written.
ResetKarathressNoAdvisorReset ==
    /\ alive' = [c \in Creatures |-> c \in Advisors \/ alive[c]]
    /\ event' = NOT_STARTED
    /\ UNCHANGED petVars
    /\ blessing' = FALSE
    /\ tides' = FALSE
    /\ lowHealth' = FALSE
    /\ powers' = {}

ResetKarathress ==
    /\ alive' = [c \in Creatures |-> c \in Advisors \/ alive[c]]
    /\ event' = NOT_STARTED
    /\ IF ~alive[Sharkkis] THEN ResetSharkkisPet ELSE UNCHANGED petVars
    /\ blessing' = FALSE
    /\ tides' = FALSE
    /\ lowHealth' = FALSE
    /\ powers' = {}

(***************************************************************************)
(* Entering combat.                                                        *)
(***************************************************************************)

\* Karathress' EnterCombat -> StartEvent: GetAdvisors, the starter guid and
\* IN_PROGRESS.
StartEvent ==
    /\ advisorsKnown' = TRUE
    /\ starter' = "valid"
    /\ event' = IN_PROGRESS

\* A guard's EnterCombat: the starter guid and IN_PROGRESS.
EnterCombatAdvisor ==
    /\ starter' = "valid"
    /\ event' = IN_PROGRESS
    /\ UNCHANGED advisorsKnown

EnterCombat(c) == IF c = Karathress THEN StartEvent ELSE EnterCombatAdvisor

\* The block opening every UpdateAI: out of combat, with the event started
\* and the starter found, AttackStart(starter).
JoinEventInverted(c) ==
    ~inCombat[c] /\ event = NOT_STARTED /\ starter = "valid"

JoinEvent(c) ==
    ~inCombat[c] /\ event = IN_PROGRESS /\ starter = "valid"

\* Whether UpdateAI gets past UpdateVictim: in combat, or just joined.
InFight(c) == inCombat[c] \/ JoinEvent(c)

\* The victim UpdateVictim sees: AttackStart(starter) of the join has just
\* put the living starter on the threat list.
HasVictim(c) == hasTarget[c] \/ JoinEvent(c)

\* UpdateVictim finds no target (the creature evades), or it does and the
\* shared event reads NOT_STARTED ("someone evaded!").
MustEvadeNoEventCheck(c) == ~HasVictim(c)

MustEvadeRaidIgnored(c) == event = NOT_STARTED

MustEvade(c) == ~HasVictim(c) \/ event = NOT_STARTED

\* EnterEvadeMode of c: out of combat, then its Reset.
Evade(c) ==
    /\ inCombat' = [inCombat EXCEPT ![c] = FALSE]
    /\ hasTarget' = [hasTarget EXCEPT ![c] = FALSE]
    /\ IF c = Karathress
         THEN ResetKarathress
         ELSE /\ ResetAdvisor(c)
              /\ UNCHANGED <<alive, karathressVars>>
    /\ UNCHANGED <<starter, done, advisorsKnown, pulls>>

\* The first part of every UpdateAI: join the event or stay in combat,
\* then evade if UpdateVictim or the shared event says so.  Fight is what
\* the creature's UpdateAI does past those checks.
UpdateAI(c, Fight) ==
    /\ alive[c]
    /\ InFight(c)
    /\ IF MustEvade(c)
         THEN Evade(c)
         ELSE /\ inCombat' = [inCombat EXCEPT ![c] = TRUE]
              /\ hasTarget' = [hasTarget EXCEPT ![c] = TRUE]
              /\ IF JoinEvent(c) THEN EnterCombat(c)
                                 ELSE UNCHANGED <<starter, event, advisorsKnown>>
              /\ Fight
              /\ UNCHANGED <<alive, done, pulls>>

\* Karathress past the checks: the Blessing of the Tides trigger, once per
\* Reset at 75% health, cast only if one of Advisors[] is alive.
BlessingOfTides ==
    /\ IF lowHealth /\ ~blessing
         THEN /\ blessing' = TRUE
              /\ tides' = (tides \/ (advisorsKnown' /\ \E a \in Advisors : alive[a]))
         ELSE UNCHANGED <<blessing, tides>>
    /\ UNCHANGED <<lowHealth, powers, petVars>>

UpdateKarathress == UpdateAI(Karathress, BlessingOfTides)

\* Sharkkis past the checks: Pet_Timer, strictly below diff and only while
\* pet is false, summons a pet on a random target (one exists while
\* UpdateVictim found one).  Otherwise Pet_Timer -= diff, a uint32
\* subtraction that, once pet is set, goes on and wraps below zero.
\* The variant below tests a signed Pet_Timer - diff < 0 instead.
PetTimerSubtractFirst(diff) ==
    /\ IF petTimer - diff < 0 /\ ~pet
         THEN /\ pet' = TRUE
              /\ petAlive' = TRUE
              /\ petTimer' = petTimer - diff
         ELSE /\ petTimer' = petTimer - diff
              /\ UNCHANGED <<pet, petAlive>>
    /\ UNCHANGED karathressVars

PetTimer(diff) ==
    /\ IF petTimer < diff /\ ~pet
         THEN /\ pet' = TRUE
              /\ petAlive' = TRUE
              /\ UNCHANGED petTimer
         ELSE /\ petTimer' = (petTimer - diff) % TimerWrap
              /\ UNCHANGED <<pet, petAlive>>
    /\ UNCHANGED karathressVars

UpdateSharkkis(diff) == UpdateAI(Sharkkis, PetTimer(diff))

\* Tidalvess and Caribdis past the checks only cast spells on their timers
\* (Caribdis' Heal loops on rand()%4 until it picks a living unit, and
\* picks herself on 3).
UpdateTidalvess == UpdateAI("tidalvess", UNCHANGED <<petVars, karathressVars>>)

UpdateCaribdis == UpdateAI("caribdis", UNCHANGED <<petVars, karathressVars>>)

\* Karathress' JustDied writes DATA_FATHOMLORDKARATHRESSEVENT = DONE.
KarathressJustDied ==
    /\ done' = TRUE
    /\ UNCHANGED powers

\* Event<Guard>Death, called from a guard's JustDied: Karathress casts
\* Power of <guard> on himself, which lands only while he is alive.
GuardJustDied(a) ==
    /\ powers' = IF alive[Karathress] THEN powers \cup {a} ELSE powers
    /\ UNCHANGED done

JustDied(c) == IF c = Karathress THEN KarathressJustDied ELSE GuardJustDied(c)

(***************************************************************************)
(* The raid.                                                               *)
(***************************************************************************)

\* The raid aggroes a creature out of combat: it enters combat and its
\* EnterCombat runs.
Pull(c) ==
    /\ pulls < MaxPulls
    /\ alive[c]
    /\ ~inCombat[c]
    /\ inCombat' = [inCombat EXCEPT ![c] = TRUE]
    /\ hasTarget' = [hasTarget EXCEPT ![c] = TRUE]
    /\ pulls' = pulls + 1
    /\ EnterCombat(c)
    /\ UNCHANGED <<alive, done, petVars, karathressVars>>

\* The raid kills a creature it fights.
Kill(c) ==
    /\ hasTarget[c]
    /\ alive[c]
    /\ inCombat[c]
    /\ alive' = [alive EXCEPT ![c] = FALSE]
    /\ inCombat' = [inCombat EXCEPT ![c] = FALSE]
    /\ hasTarget' = [hasTarget EXCEPT ![c] = FALSE]
    /\ JustDied(c)
    /\ UNCHANGED <<event, starter, advisorsKnown, blessing, tides, lowHealth,
                   petVars, pulls>>

\* The raid brings Karathress to 75% health.
DamageKarathress ==
    /\ hasTarget[Karathress]
    /\ alive[Karathress]
    /\ inCombat[Karathress]
    /\ ~lowHealth
    /\ lowHealth' = TRUE
    /\ UNCHANGED <<alive, inCombat, event, starter, done, advisorsKnown,
                   blessing, tides, powers, petVars, hasTarget, pulls>>

\* The raid kills Sharkkis' pet, or the pet despawns.
PetGone ==
    /\ petAlive
    /\ petAlive' = FALSE
    /\ UNCHANGED <<alive, inCombat, event, starter, done, advisorsKnown,
                   karathressVars, pet, petTimer, hasTarget, pulls>>

\* A creature in combat loses every target: the raid wipes, or kites or
\* leashes it out of reach, while it may still fight the others.
DropTargets(c) ==
    /\ inCombat[c]
    /\ hasTarget[c]
    /\ hasTarget' = [hasTarget EXCEPT ![c] = FALSE]
    /\ UNCHANGED <<alive, inCombat, event, starter, done, advisorsKnown,
                   karathressVars, petVars, pulls>>

\* The unit that started the event dies or leaves while the raid fights on.
StarterLost ==
    /\ starter = "valid"
    /\ starter' = "gone"
    /\ UNCHANGED <<alive, inCombat, event, done, advisorsKnown,
                   karathressVars, petVars, hasTarget, pulls>>

Next ==
    \/ UpdateKarathress
    \/ \E diff \in Diffs : UpdateSharkkis(diff)
    \/ UpdateTidalvess
    \/ UpdateCaribdis
    \/ \E c \in Creatures : Pull(c) \/ Kill(c)
    \/ DamageKarathress
    \/ PetGone
    \/ \E c \in Creatures : DropTargets(c)
    \/ StarterLost

Spec == Init /\ [][Next]_vars

\* The map calls UpdateAI of every living creature on every tick.
FairSpec ==
    /\ Spec
    /\ WF_vars(UpdateKarathress)
    /\ WF_vars(\E diff \in Diffs : UpdateSharkkis(diff))
    /\ WF_vars(UpdateTidalvess)
    /\ WF_vars(UpdateCaribdis)

(***************************************************************************)
(* Properties.                                                             *)
(***************************************************************************)

TypeOK ==
    /\ alive \in [Creatures -> BOOLEAN]
    /\ inCombat \in [Creatures -> BOOLEAN]
    /\ event \in {NOT_STARTED, IN_PROGRESS}
    /\ starter \in {"none", "valid", "gone"}
    /\ {done, advisorsKnown, blessing, tides, lowHealth, pet, petAlive}
         \subseteq BOOLEAN
    /\ powers \subseteq Advisors
    /\ hasTarget \in [Creatures -> BOOLEAN]
    /\ petTimer \in 0..(TimerWrap - 1)
    /\ pulls \in 0..MaxPulls

\* A creature that is alive and out of combat has been Reset: Karathress
\* carries no Blessing of the Tides, full health and a cleared
\* BlessingOfTides flag, and Sharkkis has no pet and a re-armed Pet_Timer.
\* Karathress' Reset must reset the guards it respawns for this to hold
\* after a wipe in which Sharkkis died with his pet up.
IdleCreaturesReset ==
    /\ alive[Karathress] /\ ~inCombat[Karathress]
         => ~blessing /\ ~tides /\ ~lowHealth
    /\ alive[Sharkkis] /\ ~inCombat[Sharkkis]
         => ~pet /\ ~petAlive /\ petTimer = PetTime

\* A wrapped Pet_Timer is never read: whenever pet is false, so that the
\* summon test Pet_Timer < diff && pet == false reads Pet_Timer, the timer
\* is within its reset value.  Sharkkis' UpdateAI goes on decrementing
\* Pet_Timer after the summon and it wraps; only Sharkkis' Reset, run on
\* an evade, on a wipe and on the respawn by Karathress' Reset, clears
\* pet, and it must re-arm Pet_Timer with it.
PetCountdownArmed == ~pet => petTimer <= PetTime

\* "someone evaded!": once the shared event reads NOT_STARTED, every living
\* creature still in combat leaves combat, unless a new pull writes
\* IN_PROGRESS first.  A Reset of any one of the four ends the fight of all.
EvadeSpreads ==
    \A c \in Creatures :
        (inCombat[c] /\ event = NOT_STARTED)
            ~> (~inCombat[c] \/ event = IN_PROGRESS)

\* A pull of any one creature brings in the others: while the event is
\* IN_PROGRESS and its starter is a living unit, every living creature out
\* of combat enters combat.
PullSpreads ==
    \A c \in Creatures :
        (alive[c] /\ ~inCombat[c] /\ event = IN_PROGRESS /\ starter = "valid")
            ~> (inCombat[c] \/ event = NOT_STARTED \/ starter # "valid")

=============================================================================
