--------------------------- MODULE InstanceUldaman ---------------------------
(***************************************************************************)
(* instance_uldaman (src/server/scripts/EasternKingdoms/Uldaman/           *)
(* instance_uldaman.cpp): the instance script of Uldaman.  It keeps three  *)
(* encounter states (the altar doors, the ancient vault door after         *)
(* Archaedas, the Ironaya seal door), saves them as a string whenever one  *)
(* is set to DONE, and drives the doors, the Stone Keepers, Archaedas'     *)
(* minions and the Ironaya keystone timer.                                 *)
(*                                                                         *)
(* The handlers the instance script offers (SetData, SetGuidData, Update,  *)
(* Load, OnGameObjectCreate, OnCreatureCreate) are translated from the     *)
(* file.  Their callers (the altars, the keystone, the Stone Keepers'      *)
(* deaths, boss_archaedas) are not in the repository; they are the         *)
(* environment actions of this module, each calling the handler its game  *)
(* object or creature calls.  A restart of the instance map (server crash  *)
(* or unload) drops everything but the saved string and runs Initialize,   *)
(* Load and the create hooks again.                                        *)
(***************************************************************************)
EXTENDS Naturals, FiniteSetsExt

CONSTANTS
    NumKeepers,     \* Stone Keepers, in vStoneKeeper order
    NumWall,        \* wall minions, in vArchaedasWallMinions order
    NumOther,       \* vault walkers and earthen guardians
    SealTime,       \* uiIronayaSealDoorTimer (27000 ms), in update ticks
    Diffs,          \* the diffs Map::Update passes to Update
    MaxRestarts     \* bound on restarts of the instance map

Keepers      == 1..NumKeepers
WallMinions  == 1..NumWall
Minions      == 1..(NumWall + NumOther)
Encounters   == 0..2
Doors        == {"altar", "archaedas", "vault", "seal"}

(* EncounterState values the script stores in m_auiEncounter. *)
EncStates == {"NOT_STARTED", "IN_PROGRESS", "DONE", "SPECIAL"}

(* A creature of the script: frozen (faction 35, not selectable), hostile *)
(* (faction 14) or dead.                                                   *)
CreatureStates == {"frozen", "hostile", "dead"}

VARIABLES
    enc,             \* m_auiEncounter
    saved,           \* the string last written by SaveToDB, as its numbers
    door,            \* the GO state of each door: TRUE when open
    keystoneBlocked, \* GO_FLAG_INTERACT_COND set on the keystone
    keystoneCheck,   \* bKeystoneCheck
    sealTimer,       \* uiIronayaSealDoorTimer
    ironaya,         \* "frozen" or "active" (faction 415)
    keepers,         \* Stone Keeper creatures
    minions,         \* Archaedas' minions
    archaedas,       \* "idle", "awake" or "dead"
    altarUsed,       \* the Altar of the Keepers used since the map loaded
    restarts         \* restarts so far

vars == <<enc, saved, door, keystoneBlocked, keystoneCheck, sealTimer,
          ironaya, keepers, minions, archaedas, altarUsed, restarts>>

(* Load: what is read back from the saved string, with an encounter that *)
(* was in progress set back to NOT_STARTED.  The string is three numbers  *)
(* written with << and read with >>, so it gives back what was written.   *)
Load(s) == [i \in Encounters |->
               IF s[i] = "IN_PROGRESS" THEN "NOT_STARTED" ELSE s[i]]

(* OnGameObjectCreate with the seal door opened by the vault encounter.  *)
CreatedDoorsWrongIndex(e) ==
    [d \in Doors |->
        CASE d \in {"altar", "archaedas"} -> e[0] = "DONE"
          [] d = "vault"                 -> e[1] = "DONE"
          [] d = "seal"                  -> e[1] = "DONE"]

(* OnGameObjectCreate: each door is created closed (the vault door is set *)
(* to GO_STATE_READY) and opened when its encounter is DONE; the keystone  *)
(* is opened and blocked when the Ironaya encounter is DONE.              *)
CreatedDoors(e) ==
    [d \in Doors |->
        CASE d \in {"altar", "archaedas"} -> e[0] = "DONE"
          [] d = "vault"                 -> e[1] = "DONE"
          [] d = "seal"                  -> e[2] = "DONE"]

Init ==
    /\ enc = [i \in Encounters |-> "NOT_STARTED"]
    /\ saved = enc
    /\ door = CreatedDoors(enc)
    /\ keystoneBlocked = FALSE
    /\ keystoneCheck = FALSE
    /\ sealTimer = SealTime
    /\ ironaya = "frozen"
    /\ keepers = [k \in Keepers |-> "frozen"]
    /\ minions = [m \in Minions |-> "frozen"]
    /\ archaedas = "idle"
    /\ altarUsed = FALSE
    /\ restarts = 0

-----------------------------------------------------------------------------
(* SetDoor: HandleGameObject opens or closes the door. *)
SetDoor(ds, d, open) == [ds EXCEPT ![d] = open]

(* BlockGO: GO_FLAG_INTERACT_COND on the keystone. *)
BlockGO == keystoneBlocked' = TRUE

(* ActivateIronaya: faction 415, selectable and under control again. *)
ActivateIronaya == ironaya' = "active"

-----------------------------------------------------------------------------
(* Stone Keepers and the altar doors                                       *)

(* SetData(DATA_ALTAR_DOORS, DONE) as ActivateStoneKeepers makes it: the  *)
(* encounter is DONE, the altar door opens and, data being DONE, the      *)
(* three states are saved; back in ActivateStoneKeepers the Archaedas      *)
(* temple door is opened too.                                              *)
SetAltarDoorsDoneUnsaved ==
    /\ enc' = [enc EXCEPT ![0] = "DONE"]
    /\ door' = SetDoor(SetDoor(door, "altar", TRUE), "archaedas", TRUE)
    /\ UNCHANGED saved

SetAltarDoorsDone ==
    /\ enc' = [enc EXCEPT ![0] = "DONE"]
    /\ saved' = enc'
    /\ door' = SetDoor(SetDoor(door, "altar", TRUE), "archaedas", TRUE)

(* ActivateStoneKeepers without the return after the first keeper: every *)
(* keeper found is woken and the loop falls through to the doors.          *)
ActivateStoneKeepersAll(ks) ==
    /\ keepers' = [k \in Keepers |->
                      IF ks[k] = "frozen" THEN "hostile" ELSE ks[k]]
    /\ SetAltarDoorsDone

(* ActivateStoneKeepers on the keepers ks: wake the first keeper that is  *)
(* alive and not yet hostile and return; when there is none, take it that *)
(* all are dead and open the doors.                                        *)
ActivateStoneKeepers(ks) ==
    LET waiting == {k \in Keepers : ks[k] = "frozen"} IN
    IF waiting # {}
    THEN /\ keepers' = [ks EXCEPT ![Min(waiting)] = "hostile"]
         /\ UNCHANGED <<enc, saved, door>>
    ELSE /\ keepers' = ks
         /\ SetAltarDoorsDone

(* The Altar of the Keepers calls SetData(DATA_STONE_KEEPERS, ...): once  *)
(* per load of the map.                                                    *)
UseAltarOfKeepers ==
    /\ ~altarUsed
    /\ altarUsed' = TRUE
    /\ ActivateStoneKeepers(keepers)
    /\ UNCHANGED <<keystoneBlocked, keystoneCheck, sealTimer, ironaya,
                   minions, archaedas, restarts>>

(* A hostile Stone Keeper dies and calls SetData(DATA_STONE_KEEPERS, ...) *)
(* to wake the next one.                                                   *)
KeeperDies(k) ==
    /\ keepers[k] = "hostile"
    /\ ActivateStoneKeepers([keepers EXCEPT ![k] = "dead"])
    /\ UNCHANGED <<keystoneBlocked, keystoneCheck, sealTimer, ironaya,
                   minions, archaedas, altarUsed, restarts>>

-----------------------------------------------------------------------------
(* Archaedas                                                               *)

(* ActivateArchaedas: the boss casts its awaken spell on itself; a dead  *)
(* caster's cast fails, and an awake one stays awake.                      *)
ActivateArchaedas == archaedas' = IF archaedas = "dead" THEN "dead" ELSE "awake"

(* The Altar of Archaedas calls SetGuidData(0, player): ActivateArchaedas *)
(* and then the temple door is closed, whatever state Archaedas is in.    *)
SetGuidData ==
    /\ ActivateArchaedas
    /\ door' = SetDoor(door, "archaedas", FALSE)
    /\ UNCHANGED <<enc, saved, keystoneBlocked, keystoneCheck, sealTimer,
                   ironaya, keepers, minions, altarUsed, restarts>>

(* boss_archaedas calls SetData(DATA_MINIONS, IN_PROGRESS):               *)
(* ActivateWallMinions wakes the first wall minion that is alive and not  *)
(* hostile.                                                                *)
ActivateWallMinions ==
    LET waiting == {m \in WallMinions : minions[m] = "frozen"} IN
    /\ archaedas = "awake"
    /\ waiting # {}
    /\ minions' = [minions EXCEPT ![Min(waiting)] = "hostile"]
    /\ UNCHANGED <<enc, saved, door, keystoneBlocked, keystoneCheck,
                   sealTimer, ironaya, keepers, archaedas, altarUsed, restarts>>

(* boss_archaedas wakes a vault walker or earthen guardian it got through *)
(* GetGuidData.                                                            *)
AwakenVaultMinion(m) ==
    /\ archaedas = "awake"
    /\ m \in Minions \ WallMinions
    /\ minions[m] = "frozen"
    /\ minions' = [minions EXCEPT ![m] = "hostile"]
    /\ UNCHANGED <<enc, saved, door, keystoneBlocked, keystoneCheck,
                   sealTimer, ironaya, keepers, archaedas, altarUsed, restarts>>

(* Players kill a hostile minion. *)
MinionDies(m) ==
    /\ minions[m] = "hostile"
    /\ minions' = [minions EXCEPT ![m] = "dead"]
    /\ UNCHANGED <<enc, saved, door, keystoneBlocked, keystoneCheck,
                   sealTimer, ironaya, keepers, archaedas, altarUsed, restarts>>

(* DeActivateMinions with only its first loop, over the wall minions.     *)
DeActivateWallMinionsOnly(ms) ==
    [m \in Minions |->
        IF m \in WallMinions /\ ms[m] = "hostile" THEN "dead" ELSE ms[m]]

(* DeActivateMinions: every hostile wall minion, vault walker and earthen *)
(* guardian is killed and its corpse removed.                              *)
DeActivateMinions(ms) ==
    [m \in Minions |-> IF ms[m] = "hostile" THEN "dead" ELSE ms[m]]

(* RespawnMinions: every dead minion is respawned, sent home and frozen.  *)
RespawnMinions(ms) ==
    [m \in Minions |-> IF ms[m] = "dead" THEN "frozen" ELSE ms[m]]

(* Archaedas dies: SetData(DATA_ANCIENT_DOOR, DONE) sets the encounter,   *)
(* reopens the temple door, opens the vault door and saves; then          *)
(* SetData(DATA_MINIONS, SPECIAL) deactivates the minions.                 *)
ArchaedasDies ==
    /\ archaedas = "awake"
    /\ archaedas' = "dead"
    /\ enc' = [enc EXCEPT ![1] = "DONE"]
    /\ saved' = enc'
    /\ door' = SetDoor(SetDoor(door, "archaedas", TRUE), "vault", TRUE)
    /\ minions' = DeActivateMinions(minions)
    /\ UNCHANGED <<keystoneBlocked, keystoneCheck, sealTimer, ironaya,
                   keepers, altarUsed, restarts>>

(* Archaedas resets after a wipe and calls SetData(DATA_MINIONS,          *)
(* NOT_STARTED): the temple door is reopened if the altar doors are DONE,  *)
(* and the dead minions are respawned.                                     *)
ArchaedasResets ==
    /\ archaedas = "awake"
    /\ archaedas' = "idle"
    /\ door' = IF enc[0] = "DONE" THEN SetDoor(door, "archaedas", TRUE) ELSE door
    /\ minions' = RespawnMinions(minions)
    /\ UNCHANGED <<enc, saved, keystoneBlocked, keystoneCheck, sealTimer,
                   ironaya, keepers, altarUsed, restarts>>

-----------------------------------------------------------------------------
(* Ironaya's seal door                                                     *)

(* The keystone calls SetData(DATA_IRONAYA_SEAL, ...): bKeystoneCheck is  *)
(* set and Update starts counting the door's animation time.  A use while *)
(* it already counts changes nothing.                                      *)
UseKeystone ==
    /\ ~keystoneBlocked
    /\ ~keystoneCheck
    /\ keystoneCheck' = TRUE
    /\ UNCHANGED <<enc, saved, door, keystoneBlocked, sealTimer, ironaya,
                   keepers, minions, archaedas, altarUsed, restarts>>

(* Update counting the timer down without first testing it against diff. *)
UpdateNoTest(diff) ==
    /\ keystoneCheck
    /\ sealTimer' = sealTimer - diff
    /\ UNCHANGED <<enc, saved, door, keystoneBlocked, keystoneCheck, ironaya,
                   keepers, minions, archaedas, altarUsed, restarts>>

(* Update without the countdown of the seal door timer.                    *)
UpdateTimerStuck(diff) ==
    /\ keystoneCheck
    /\ diff < sealTimer
    /\ UNCHANGED vars

(* Update(diff) while bKeystoneCheck: when the timer is at most diff,     *)
(* ActivateIronaya, open the seal door, block the keystone and set the    *)
(* Ironaya door DONE (which saves) and clear bKeystoneCheck; otherwise    *)
(* count the timer down.  Without bKeystoneCheck it returns at once.       *)
Update(diff) ==
    /\ keystoneCheck
    /\ IF sealTimer <= diff
       THEN /\ ActivateIronaya
            /\ door' = SetDoor(door, "seal", TRUE)
            /\ BlockGO
            /\ enc' = [enc EXCEPT ![2] = "DONE"]
            /\ saved' = enc'
            /\ keystoneCheck' = FALSE
            /\ UNCHANGED sealTimer
       ELSE /\ sealTimer' = sealTimer - diff
            /\ UNCHANGED <<ironaya, door, keystoneBlocked, enc, saved,
                           keystoneCheck>>
    /\ UNCHANGED <<keepers, minions, archaedas, altarUsed, restarts>>

-----------------------------------------------------------------------------
(* Restart of the instance map                                             *)

(* The map is unloaded or the server stops and the instance is loaded     *)
(* again: Initialize clears the script (bKeystoneCheck false, the timer    *)
(* back to 27000), Load reads the saved string, and the create hooks run   *)
(* for the doors, the keystone (blocked when Ironaya's encounter is DONE)  *)
(* and the creatures: a Stone Keeper is frozen by OnCreatureCreate, Ironaya *)
(* unless her encounter is DONE; the minions come back frozen from the    *)
(* creature data, and creatures that were dead stay dead.                  *)
Restart ==
    /\ restarts < MaxRestarts
    /\ restarts' = restarts + 1
    /\ enc' = Load(saved)
    /\ door' = CreatedDoors(enc')
    /\ keystoneBlocked' = (enc'[2] = "DONE")
    /\ keystoneCheck' = FALSE
    /\ sealTimer' = SealTime
    /\ ironaya' = IF enc'[2] # "DONE" THEN "frozen" ELSE ironaya
    /\ keepers' = [k \in Keepers |->
                      IF keepers[k] = "dead" THEN "dead" ELSE "frozen"]
    /\ minions' = [m \in Minions |->
                      IF minions[m] = "dead" THEN "dead" ELSE "frozen"]
    /\ archaedas' = IF archaedas = "dead" THEN "dead" ELSE "idle"
    /\ altarUsed' = FALSE
    /\ UNCHANGED saved

Next ==
    \/ UseAltarOfKeepers
    \/ \E k \in Keepers : KeeperDies(k)
    \/ SetGuidData
    \/ ActivateWallMinions
    \/ \E m \in Minions : AwakenVaultMinion(m) \/ MinionDies(m)
    \/ ArchaedasDies
    \/ ArchaedasResets
    \/ UseKeystone
    \/ \E diff \in Diffs : Update(diff)
    \/ Restart

Spec == Init /\ [][Next]_vars

(* The map calls Update on every tick, so an Update that can run runs.    *)
(* The players' uses of the altars and the keystone are not assumed.       *)
FairSpec == Spec /\ WF_vars(\E diff \in Diffs : Update(diff))

-----------------------------------------------------------------------------
TypeOK ==
    /\ enc \in [Encounters -> EncStates]
    /\ saved \in [Encounters -> EncStates]
    /\ door \in [Doors -> BOOLEAN]
    /\ keystoneBlocked \in BOOLEAN /\ keystoneCheck \in BOOLEAN
    /\ sealTimer \in 0..SealTime
    /\ ironaya \in {"frozen", "active"}
    /\ keepers \in [Keepers -> CreatureStates]
    /\ minions \in [Minions -> CreatureStates]
    /\ archaedas \in {"idle", "awake", "dead"}
    /\ altarUsed \in BOOLEAN
    /\ restarts \in 0..MaxRestarts

(* Every door is open once its encounter is DONE, through any number of  *)
(* restarts of the map: the altar door after the Stone Keepers, the vault  *)
(* door after Archaedas, the seal door (with the keystone blocked) after   *)
(* Ironaya's timer, and the Archaedas temple door whenever the altar doors *)
(* are DONE and Archaedas waits to be woken.  It rests on SetData, on the  *)
(* door reopened by DATA_MINIONS NOT_STARTED after a wipe, and on          *)
(* OnGameObjectCreate reading the loaded encounter states.  (Once          *)
(* Archaedas is dead the altar's SetGuidData still shuts the temple door,  *)
(* and only a restart reopens it; see the README.)                         *)
DoorsFollowProgress ==
    /\ enc[0] = "DONE" => door["altar"]
    /\ enc[1] = "DONE" => door["vault"]
    /\ enc[2] = "DONE" => door["seal"] /\ keystoneBlocked
    /\ enc[0] = "DONE" /\ archaedas = "idle" => door["archaedas"]

(* No encounter that is DONE would be lost by a crash: the saved string   *)
(* holds DONE for it.  SetData saves only when its data is DONE, and the   *)
(* altar doors are set DONE from inside ActivateStoneKeepers through that *)
(* same SetData.                                                           *)
ProgressPersisted ==
    \A i \in Encounters : enc[i] = "DONE" => saved[i] = "DONE"

(* The altar doors become DONE (and open) only in a step after which     *)
(* every Stone Keeper is dead, as the comment in ActivateStoneKeepers     *)
(* says ("if we get this far than all four are dead"), while keepers are  *)
(* woken one at a time by the altar and by each keeper's death.            *)
KeepersClearedBeforeAltarDoors ==
    [][enc[0] # "DONE" /\ enc'[0] = "DONE" =>
           \A k \in Keepers : keepers'[k] = "dead"]_vars

(* Once Archaedas is dead none of his minions is left hostile: his death  *)
(* calls SetData(DATA_MINIONS, SPECIAL), which kills every awakened wall  *)
(* minion, vault walker and earthen guardian.                              *)
MinionsDownWithArchaedas ==
    archaedas = "dead" => \A m \in Minions : minions[m] # "hostile"

(* A keystone use is never left pending: once bKeystoneCheck is set,      *)
(* Update's countdown of uiIronayaSealDoorTimer ends with the seal door    *)
(* open, unless a restart of the map forgets the use first (the keystone   *)
(* is then usable again).  Only Update running every tick is assumed.      *)
KeystoneOpensSeal == keystoneCheck ~> (door["seal"] \/ ~keystoneCheck)

=============================================================================
