------------------------- MODULE ArenaDalaranSewers -------------------------
(***************************************************************************)
(* The Dalaran Sewers arena (src/server/game/Battlegrounds/Zones/          *)
(* ArenaDalaranSewers.cpp).  Once the doors open, PostUpdateImpl(diff)     *)
(* drives four countdown timers on every world update: the two pipe        *)
(* flushes at the start, the "get out of the textures" teleport, the       *)
(* waterfall knockback while the waterfall is on, and the waterfall cycle  *)
(* OFF -> WARNING -> ON -> OFF with its collision object (WATER_1) and its *)
(* water door (WATER_2).  _CheckPositions re-arms the pipe flushes when a  *)
(* player climbs back into a pipe.  Times are milliseconds of uint32.      *)
(***************************************************************************)
EXTENDS Naturals

CONSTANTS
    WATERFALL_TIMER_MIN, WATERFALL_TIMER_MAX, WATERFALL_WARNING_DURATION,
    WATERFALL_DURATION, WATERFALL_KNOCKBACK_TIMER, PIPE_KNOCKBACK_FIRST_DELAY,
    PIPE_KNOCKBACK_DELAY, GET_OUT_TEXTURES, PIPE_KNOCKBACK_TOTAL_COUNT,
    Diff            \* the diffs world updates pass to PostUpdateImpl

ASSUME Diff \subseteq Nat \ {0}

(* BG_DS_WATERFALL_STATUS_*; 0 is the value the constructor leaves.       *)
WARNING == 1
ON == 2
OFF == 3

VARIABLES
    bgStatus,          \* Battleground status: "wait_join", "in_progress"
    doors,             \* the two entrance doors
    waterfallTimer,    \* _waterfallTimer
    knockbackTimer,    \* _waterfallKnockbackTimer
    pipeTimer,         \* _pipeKnockBackTimer
    texturesTimer,     \* _getOutFromTexturesTimer
    pipeCount,         \* _pipeKnockBackCount
    waterfallStatus,   \* _waterfallStatus
    collision,         \* GO state of WATER_1: "ready" blocks LoS and movement
    water,             \* door state of WATER_2: "closed" shows the water
    sinceChange,       \* ms since waterfallStatus last changed (history)
    lastDiff           \* diff of the last update (history)

vars == <<bgStatus, doors, waterfallTimer, knockbackTimer, pipeTimer,
          texturesTimer, pipeCount, waterfallStatus, collision, water,
          sinceChange, lastDiff>>

(* The constructor: every timer, the count and the status are zero.      *)
Init ==
    /\ bgStatus = "wait_join"
    /\ doors = "closed"
    /\ waterfallTimer = 0 /\ knockbackTimer = 0 /\ pipeTimer = 0
    /\ texturesTimer = 0 /\ pipeCount = 0 /\ waterfallStatus = 0
    /\ collision = "active"
    /\ water = "closed"
    /\ sinceChange = 0
    /\ lastDiff = 0

(* StartingEventOpenDoors, with the switch to STATUS_IN_PROGRESS that     *)
(* Battleground::Update makes right after it.                             *)
StartingEventOpenDoors ==
    /\ bgStatus = "wait_join"
    /\ bgStatus' = "in_progress"
    /\ doors' = "open"
    /\ \E t \in WATERFALL_TIMER_MIN..WATERFALL_TIMER_MAX : waterfallTimer' = t
    /\ waterfallStatus' = OFF
    /\ pipeTimer' = PIPE_KNOCKBACK_FIRST_DELAY
    /\ pipeCount' = 0
    /\ water' = "open"
    /\ collision' = "active"
    /\ sinceChange' = 0
    /\ UNCHANGED <<knockbackTimer, texturesTimer, lastDiff>>

(* A countdown that fires when the remaining time is below diff.          *)
Fires(timer, d) == timer < d
CountDown(timer, d, reset) == IF Fires(timer, d) THEN reset ELSE timer - d

(* The three branches of the waterfall block when its timer has fired.    *)
(* OFF: close the water door and warn.                                     *)
AddWater ==
    /\ water' = "closed"
    /\ waterfallTimer' = WATERFALL_WARNING_DURATION
    /\ waterfallStatus' = WARNING
    /\ UNCHANGED collision

(* Variant of ActivateCollision that does not restart the waterfall timer; *)
(* used to show that WaterfallCycle detects it.                            *)
ActivateCollisionKeepsTimer ==
    /\ collision' = "ready"
    /\ waterfallTimer' = waterfallTimer
    /\ waterfallStatus' = ON
    /\ UNCHANGED water

(* WARNING: the collision object starts blocking and the waterfall is ON.  *)
ActivateCollision ==
    /\ collision' = "ready"
    /\ waterfallTimer' = WATERFALL_DURATION
    /\ waterfallStatus' = ON
    /\ UNCHANGED water

(* Variant of RemoveWater that leaves the collision object blocking; used  *)
(* to show that WaterfallObjectsMatchStatus detects it.                    *)
RemoveWaterKeepsCollision ==
    /\ water' = "open"
    /\ \E t \in WATERFALL_TIMER_MIN..WATERFALL_TIMER_MAX : waterfallTimer' = t
    /\ waterfallStatus' = OFF
    /\ UNCHANGED collision

(* ON (the else branch, so any other status too): stop blocking, open the  *)
(* water door and wait a random time.                                      *)
RemoveWater ==
    /\ collision' = "active"
    /\ water' = "open"
    /\ \E t \in WATERFALL_TIMER_MIN..WATERFALL_TIMER_MAX : waterfallTimer' = t
    /\ waterfallStatus' = OFF

(* Variant of the waterfall block whose first test compares with ON       *)
(* instead of OFF; used to show that WaterfallKeepsCycling detects it.     *)
WaterfallStepMistest(d) ==
    IF ~Fires(waterfallTimer, d)
    THEN /\ waterfallTimer' = waterfallTimer - d
         /\ UNCHANGED <<waterfallStatus, collision, water>>
    ELSE CASE waterfallStatus = ON -> AddWater
           [] waterfallStatus = WARNING -> ActivateCollision
           [] OTHER -> RemoveWater

(* The waterfall block: the branch for the status when the timer fires,    *)
(* otherwise the timer counts down.                                        *)
WaterfallStep(d) ==
    IF ~Fires(waterfallTimer, d)
    THEN /\ waterfallTimer' = waterfallTimer - d
         /\ UNCHANGED <<waterfallStatus, collision, water>>
    ELSE CASE waterfallStatus = OFF -> AddWater
           [] waterfallStatus = WARNING -> ActivateCollision
           [] OTHER -> RemoveWater

(* Variant of PipeKnockback that flushes while the count is at most, not   *)
(* below, the total; used to show that TypeOK detects it.                  *)
PipeKnockbackOneMore(d) ==
    IF pipeCount <= PIPE_KNOCKBACK_TOTAL_COUNT
    THEN /\ pipeCount' = IF Fires(pipeTimer, d) THEN pipeCount + 1 ELSE pipeCount
         /\ pipeTimer' = CountDown(pipeTimer, d, PIPE_KNOCKBACK_DELAY)
    ELSE UNCHANGED <<pipeCount, pipeTimer>>

(* The pipe block: while fewer than the total flushes were done, flush    *)
(* both pipes when the timer fires and count it.                          *)
PipeKnockback(d) ==
    IF pipeCount < PIPE_KNOCKBACK_TOTAL_COUNT
    THEN /\ pipeCount' = IF Fires(pipeTimer, d) THEN pipeCount + 1 ELSE pipeCount
         /\ pipeTimer' = CountDown(pipeTimer, d, PIPE_KNOCKBACK_DELAY)
    ELSE UNCHANGED <<pipeCount, pipeTimer>>

(* The knockback block, judged on the status before the waterfall block   *)
(* runs; the WARNING -> ON branch of that block arms the timer.           *)
WaterfallKnockback(d) ==
    knockbackTimer' =
        CASE waterfallStatus = ON -> CountDown(knockbackTimer, d, WATERFALL_KNOCKBACK_TIMER)
          [] waterfallStatus' = ON -> WATERFALL_KNOCKBACK_TIMER
          [] OTHER -> knockbackTimer

(* sinceChange saturates one unit past the longest phase, which keeps the *)
(* history finite and still shows any phase that overstays.               *)
SinceChangeBound == WATERFALL_TIMER_MAX + 1
Capped(t) == IF t > SinceChangeBound THEN SinceChangeBound ELSE t

(* PostUpdateImpl(diff): nothing unless the arena is in progress; then the *)
(* pipe flushes, the textures teleport, the waterfall knockback and the   *)
(* waterfall block, in this order.                                         *)
PostUpdateImpl(d) ==
    /\ bgStatus = "in_progress"
    /\ PipeKnockback(d)
    /\ texturesTimer' = CountDown(texturesTimer, d, GET_OUT_TEXTURES)
    /\ WaterfallStep(d)
    /\ WaterfallKnockback(d)
    /\ sinceChange' = IF waterfallStatus' # waterfallStatus THEN 0
                      ELSE Capped(sinceChange + d)
    /\ lastDiff' = d
    /\ UNCHANGED <<bgStatus, doors>>

(* _CheckPositions: a player inside a pipe's area trigger after both      *)
(* flushes re-arms them by resetting the count.                           *)
CheckPositions ==
    /\ bgStatus = "in_progress"
    /\ \E playerInPipe \in BOOLEAN :
         pipeCount' = IF playerInPipe /\ pipeCount >= PIPE_KNOCKBACK_TOTAL_COUNT
                      THEN 0 ELSE pipeCount
    /\ UNCHANGED <<bgStatus, doors, waterfallTimer, knockbackTimer, pipeTimer,
                   texturesTimer, waterfallStatus, collision, water,
                   sinceChange, lastDiff>>

Next ==
    \/ StartingEventOpenDoors
    \/ \E d \in Diff : PostUpdateImpl(d)
    \/ CheckPositions

Spec == Init /\ [][Next]_vars

(* The map keeps calling Update, and with it PostUpdateImpl, while the    *)
(* arena exists.                                                           *)
FairSpec == Spec /\ WF_vars(\E d \in Diff : PostUpdateImpl(d))

-----------------------------------------------------------------------------
TypeOK ==
    /\ bgStatus \in {"wait_join", "in_progress"}
    /\ doors \in {"closed", "open"}
    /\ waterfallTimer \in 0..WATERFALL_TIMER_MAX
    /\ knockbackTimer \in 0..WATERFALL_KNOCKBACK_TIMER
    /\ pipeTimer \in 0..PIPE_KNOCKBACK_FIRST_DELAY
    /\ texturesTimer \in 0..GET_OUT_TEXTURES
    /\ pipeCount \in 0..PIPE_KNOCKBACK_TOTAL_COUNT
    /\ waterfallStatus \in {0, WARNING, ON, OFF}
    /\ collision \in {"ready", "active"}
    /\ water \in {"closed", "open"}
    /\ sinceChange \in 0..SinceChangeBound
    /\ lastDiff \in Diff \cup {0}

(* While the arena runs, the collision object blocks line of sight exactly *)
(* while the waterfall is ON, and the water door is closed exactly while   *)
(* it is WARNING or ON: the object updates spread over the three branches *)
(* of the status block and StartingEventOpenDoors stay in step with the    *)
(* status through every cycle.                                             *)
WaterfallObjectsMatchStatus ==
    bgStatus = "in_progress" =>
        /\ (collision = "ready") <=> (waterfallStatus = ON)
        /\ (water = "closed") <=> (waterfallStatus \in {WARNING, ON})

(* The status that follows each one, and the shortest and longest time    *)
(* each status lasts by its timer.                                        *)
NextStatus == [s \in {OFF, WARNING, ON} |->
                 CASE s = OFF -> WARNING [] s = WARNING -> ON [] s = ON -> OFF]
ShortestPhase == [s \in {OFF, WARNING, ON} |->
                    CASE s = OFF -> WATERFALL_TIMER_MIN
                      [] s = WARNING -> WATERFALL_WARNING_DURATION
                      [] s = ON -> WATERFALL_DURATION]
LongestPhase == [ShortestPhase EXCEPT ![OFF] = WATERFALL_TIMER_MAX]

(* The waterfall only moves OFF -> WARNING -> ON -> OFF; a status is left  *)
(* no earlier than its duration and at the first update after it has run   *)
(* out, so it never lasts longer than its duration plus one update diff.  *)
WaterfallCycle ==
    [][/\ waterfallStatus \in {OFF, WARNING, ON}
       /\ waterfallStatus' # waterfallStatus
       => /\ waterfallStatus' = NextStatus[waterfallStatus]
          /\ sinceChange + lastDiff' >= ShortestPhase[waterfallStatus]
          /\ sinceChange <= LongestPhase[waterfallStatus]]_vars

(* No status of the running waterfall lasts forever, given that world      *)
(* updates keep coming.                                                    *)
WaterfallKeepsCycling ==
    \A s \in {OFF, WARNING, ON} :
        (bgStatus = "in_progress" /\ waterfallStatus = s) ~> (waterfallStatus # s)

=============================================================================
