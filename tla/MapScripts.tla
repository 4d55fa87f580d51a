----------------------------- MODULE MapScripts -----------------------------
(***************************************************************************)
(* The script scheduler of a Map (src/server/game/Scripting/MapScripts.cpp):*)
(* ScriptsStart and ScriptCommandStart put script steps into               *)
(* m_scriptSchedule, a multimap ordered by due time, and run ScriptsProcess *)
(* at once when a step is due now and i_scriptLock is clear; ScriptsProcess *)
(* runs the steps that are due, in order, erasing each after it has run.   *)
(* A SCRIPT_COMMAND_CALLSCRIPT_TO_UNIT step calls ScriptsStart from inside *)
(* the loop.  Map::Update (outside this file) sets i_scriptLock, calls     *)
(* ScriptsProcess when the schedule is not empty and clears the lock.      *)
(*                                                                         *)
(* Each thread runs these functions as a sequence of steps; a step is a    *)
(* section under m_scriptScheduleLock or a read or write of i_scriptLock   *)
(* or of the schedule outside it.  The commands other than                 *)
(* CALLSCRIPT_TO_UNIT act on the world and not on the schedule, so they    *)
(* are one abstract command.  sMapMgr's scheduled-scripts counter follows  *)
(* the schedule.                                                           *)
(***************************************************************************)
EXTENDS Naturals, Sequences, SequencesExt

CONSTANTS
    Threads,        \* threads that call into the map's scheduler
    MapThread,      \* the thread that runs Map::Update
    ScriptIds,      \* ids in the script maps
    Scripts,        \* ScriptMapMap: id -> steps [delay, cmd] sorted by delay
    Commands,       \* commands passed to ScriptCommandStart
    Delays,         \* delays passed to ScriptCommandStart
    MaxStarts,      \* bound on the calls made from outside the scheduler
    MaxTime,        \* bound on GameTime::GetGameTime()
    NoEntry         \* an iterator that points at no entry

ASSUME MapThread \in Threads

(* A command: SCRIPT_COMMAND_CALLSCRIPT_TO_UNIT with its ScriptID, or any  *)
(* other command.                                                          *)
Other == [kind |-> "other"]
Call(s) == [kind |-> "call", script |-> s]

VARIABLES
    now,         \* GameTime::GetGameTime()
    schedule,    \* m_scriptSchedule as a sequence sorted by due time
    count,       \* sMapMgr's scheduled-scripts counter
    scriptLock,  \* i_scriptLock
    pc,          \* where each thread is
    todo,        \* the steps of the script map still to be inserted
    immed,       \* immedScript
    iter,        \* ScriptsProcess's iterator, as the entry it points at
    tag,         \* the outside call a thread is serving
    starts,      \* outside calls made so far
    reentered    \* ScriptsProcess was entered from inside its own loop

vars == <<now, schedule, count, scriptLock, pc, todo, immed, iter, tag,
          starts, reentered>>

Processing == {"begin", "loop", "exec", "erase", "unlock"}

Init ==
    /\ now = 0
    /\ schedule = << >>
    /\ count = 0
    /\ scriptLock = FALSE
    /\ pc = [t \in Threads |-> "idle"]
    /\ todo = [t \in Threads |-> << >>]
    /\ immed = [t \in Threads |-> FALSE]
    /\ iter = [t \in Threads |-> NoEntry]
    /\ tag = [t \in Threads |-> 0]
    /\ starts = 0
    /\ reentered = FALSE

(* std::multimap::insert puts an entry after those with an equal key.     *)
ScheduleInsert(s, e) ==
    InsertAt(s, Cardinality({i \in DOMAIN s : s[i].at <= e.at}) + 1, e)

Entry(step, tg) == [at |-> now + step.delay, cmd |-> step.cmd, tag |-> tg]

-----------------------------------------------------------------------------
(* Calls from outside: the script map is found (lines 39-41), the static   *)
(* data prepared, and the steps are to be inserted one by one.             *)
ScriptsStart(t, sid) ==
    /\ pc[t] = "idle" /\ starts < MaxStarts
    /\ pc' = [pc EXCEPT ![t] = "insert"]
    /\ todo' = [todo EXCEPT ![t] = Scripts[sid]]
    /\ immed' = [immed EXCEPT ![t] = FALSE]
    /\ tag' = [tag EXCEPT ![t] = starts + 1]
    /\ starts' = starts + 1
    /\ UNCHANGED <<now, schedule, count, scriptLock, iter, reentered>>

ScriptCommandStart(t, c, d) ==
    /\ pc[t] = "idle" /\ starts < MaxStarts
    /\ pc' = [pc EXCEPT ![t] = "insert"]
    /\ todo' = [todo EXCEPT ![t] = << [delay |-> d, cmd |-> c] >>]
    /\ immed' = [immed EXCEPT ![t] = FALSE]
    /\ tag' = [tag EXCEPT ![t] = starts + 1]
    /\ starts' = starts + 1
    /\ UNCHANGED <<now, schedule, count, scriptLock, iter, reentered>>

(* One step inserted under m_scriptScheduleLock, immedScript noted, and    *)
(* IncreaseScheduledScriptsCount.                                          *)
InsertStep(t) ==
    /\ pc[t] = "insert"
    /\ LET step == Head(todo[t]) IN
       /\ schedule' = ScheduleInsert(schedule, Entry(step, tag[t]))
       /\ immed' = [immed EXCEPT ![t] = @ \/ step.delay = 0]
    /\ count' = count + 1
    /\ todo' = [todo EXCEPT ![t] = Tail(@)]
    /\ pc' = [pc EXCEPT ![t] = IF Len(todo[t]) = 1 THEN "check" ELSE "insert"]
    /\ UNCHANGED <<now, scriptLock, iter, tag, starts, reentered>>

(* if (immedScript && !i_scriptLock): the test, apart from the write.      *)
CheckImmediate(t) ==
    /\ pc[t] = "check"
    /\ pc' = [pc EXCEPT ![t] = IF immed[t] /\ ~scriptLock THEN "lock" ELSE "idle"]
    /\ UNCHANGED <<now, schedule, count, scriptLock, todo, immed, iter, tag,
                   starts, reentered>>

(* i_scriptLock = true; then ScriptsProcess().                             *)
TakeScriptLock(t) ==
    /\ pc[t] = "lock"
    /\ scriptLock' = TRUE
    /\ pc' = [pc EXCEPT ![t] = "begin"]
    /\ UNCHANGED <<now, schedule, count, todo, immed, iter, tag, starts, reentered>>

(* Map::Update on the map's thread: with a non-empty schedule it sets      *)
(* i_scriptLock and calls ScriptsProcess.                                  *)
MapUpdate ==
    /\ pc[MapThread] = "idle"
    /\ schedule # << >>
    /\ scriptLock' = TRUE
    /\ pc' = [pc EXCEPT ![MapThread] = "begin"]
    /\ UNCHANGED <<now, schedule, count, todo, immed, iter, tag, starts, reentered>>

-----------------------------------------------------------------------------
(* ScriptsProcess                                                          *)

(* Lines 296-299: return at once on an empty schedule, else take begin().  *)
ProcessBegin(t) ==
    /\ pc[t] = "begin"
    /\ IF schedule = << >>
       THEN /\ pc' = [pc EXCEPT ![t] = "unlock"]
            /\ UNCHANGED iter
       ELSE /\ pc' = [pc EXCEPT ![t] = "loop"]
            /\ iter' = [iter EXCEPT ![t] = Head(schedule)]
    /\ UNCHANGED <<now, schedule, count, scriptLock, todo, immed, tag, starts,
                   reentered>>

(* Variant of LoopTest that runs only the steps due before now.            *)
LoopTestStrict(t) ==
    /\ pc[t] = "loop"
    /\ pc' = [pc EXCEPT ![t] = IF schedule # << >> /\ iter[t] # NoEntry
                                  /\ iter[t].at < now
                               THEN "exec" ELSE "unlock"]
    /\ UNCHANGED <<now, schedule, count, scriptLock, todo, immed, iter, tag,
                   starts, reentered>>

(* while (!m_scriptSchedule.empty() && iter->first <= GetGameTime()).  An *)
(* iterator taken from an empty schedule is end(); were another thread to  *)
(* insert before the test, reading its key is undefined, and it is taken   *)
(* here as ending the loop.                                                *)
LoopTest(t) ==
    /\ pc[t] = "loop"
    /\ pc' = [pc EXCEPT ![t] = IF schedule # << >> /\ iter[t] # NoEntry
                                  /\ iter[t].at <= now
                               THEN "exec" ELSE "unlock"]
    /\ UNCHANGED <<now, schedule, count, scriptLock, todo, immed, iter, tag,
                   starts, reentered>>

(* The command switch.  Every command but CALLSCRIPT_TO_UNIT leaves the    *)
(* schedule alone, as does a call whose target creature is not found.     *)
ExecuteOther(t) ==
    /\ pc[t] = "exec"
    /\ \/ iter[t].cmd.kind = "other"
       \/ iter[t].cmd.kind = "call"   \* target not found (lines 862-866)
    /\ pc' = [pc EXCEPT ![t] = "erase"]
    /\ UNCHANGED <<now, schedule, count, scriptLock, todo, immed, iter, tag,
                   starts, reentered>>

(* Variant of ExecuteCall whose inserts are not counted.                  *)
ExecuteCallUncounted(t) ==
    /\ pc[t] = "exec"
    /\ iter[t].cmd.kind = "call"
    /\ LET steps == Scripts[iter[t].cmd.script]
           entries == [i \in DOMAIN steps |-> Entry(steps[i], iter[t].tag)]
       IN
       /\ schedule' = FoldLeft(ScheduleInsert, schedule, entries)
       /\ reentered' = (reentered \/ ((\E i \in DOMAIN steps : steps[i].delay = 0)
                                     /\ ~scriptLock))
    /\ pc' = [pc EXCEPT ![t] = "erase"]
    /\ UNCHANGED <<now, count, scriptLock, todo, immed, iter, tag, starts>>

(* CALLSCRIPT_TO_UNIT with its target found: ScriptsStart on the called    *)
(* script from inside the loop, its steps inserted with the time of now;  *)
(* its immediate test sees i_scriptLock, and were the lock clear it would *)
(* enter ScriptsProcess again inside this iteration.                      *)
ExecuteCall(t) ==
    /\ pc[t] = "exec"
    /\ iter[t].cmd.kind = "call"
    /\ LET steps == Scripts[iter[t].cmd.script]
           entries == [i \in DOMAIN steps |-> Entry(steps[i], iter[t].tag)]
       IN
       /\ schedule' = FoldLeft(ScheduleInsert, schedule, entries)
       /\ count' = count + Len(steps)
       /\ reentered' = (reentered \/ ((\E i \in DOMAIN steps : steps[i].delay = 0)
                                     /\ ~scriptLock))
    /\ pc' = [pc EXCEPT ![t] = "erase"]
    /\ UNCHANGED <<now, scriptLock, todo, immed, iter, tag, starts>>

(* Variant of Erase as a `continue` in place of a `break` in the command  *)
(* switch would make it: the erase, the decrement and iter = begin() are  *)
(* skipped.                                                                *)
EraseSkipped(t) ==
    /\ pc[t] = "erase"
    /\ pc' = [pc EXCEPT ![t] = "loop"]
    /\ UNCHANGED <<now, schedule, count, scriptLock, todo, immed, iter, tag,
                   starts, reentered>>

(* Lines 997-1002: erase(iter) under the mutex, iter = begin(),            *)
(* DecreaseScheduledScriptCount.                                           *)
Erase(t) ==
    /\ pc[t] = "erase"
    /\ schedule' = RemoveFirst(schedule, iter[t])
    /\ iter' = [iter EXCEPT ![t] = IF schedule' # << >> THEN Head(schedule')
                                                       ELSE NoEntry]
    /\ count' = count - 1
    /\ pc' = [pc EXCEPT ![t] = "loop"]
    /\ UNCHANGED <<now, scriptLock, todo, immed, tag, starts, reentered>>

(* i_scriptLock = false after ScriptsProcess returns (lines 72-73,         *)
(* 103-104, and Map::Update).                                              *)
ReleaseScriptLock(t) ==
    /\ pc[t] = "unlock"
    /\ scriptLock' = FALSE
    /\ pc' = [pc EXCEPT ![t] = "idle"]
    /\ UNCHANGED <<now, schedule, count, todo, immed, iter, tag, starts, reentered>>

(* Game time advances.                                                     *)
Tick ==
    /\ now < MaxTime
    /\ now' = now + 1
    /\ UNCHANGED <<schedule, count, scriptLock, pc, todo, immed, iter, tag,
                   starts, reentered>>

(* The outside calls and the clock of the model are used up and nothing   *)
(* is left to run; the map goes on updating with an empty schedule.        *)
BoundsReached ==
    /\ starts = MaxStarts /\ now = MaxTime /\ schedule = << >>
    /\ \A t \in Threads : pc[t] = "idle"
    /\ UNCHANGED vars

Step(t) ==
    \/ InsertStep(t) \/ CheckImmediate(t) \/ TakeScriptLock(t)
    \/ ProcessBegin(t) \/ LoopTest(t) \/ ExecuteOther(t) \/ ExecuteCall(t)
    \/ Erase(t) \/ ReleaseScriptLock(t)

Next ==
    \/ \E t \in Threads :
          \/ \E sid \in ScriptIds : ScriptsStart(t, sid)
          \/ \E c \in Commands, d \in Delays : ScriptCommandStart(t, c, d)
          \/ Step(t)
    \/ MapUpdate
    \/ Tick
    \/ BoundsReached

Spec == Init /\ [][Next]_vars

(* The threads keep running what they have started, and the map keeps      *)
(* being updated: Map::Update runs on every world tick.                    *)
FairSpec == Spec /\ \A t \in Threads : WF_vars(Step(t)) /\ WF_vars(MapUpdate)

-----------------------------------------------------------------------------
Command == {Other} \cup {Call(s) : s \in ScriptIds}

ScheduleEntry == [at : 0..(MaxTime + 10), cmd : Command, tag : 0..MaxStarts]

(* Every variable has its type, and the scheduled-scripts counter equals   *)
(* the number of entries in the schedule: every insert is counted and     *)
(* every step run is erased and uncounted.                                 *)
TypeOK ==
    /\ now \in 0..MaxTime
    /\ schedule \in Seq(ScheduleEntry)
    /\ count = Len(schedule)
    /\ scriptLock \in BOOLEAN
    /\ pc \in [Threads -> {"idle", "insert", "check", "lock"} \cup Processing]
    /\ iter \in [Threads -> ScheduleEntry \cup {NoEntry}]
    /\ starts \in 0..MaxStarts

(* Every step that falls due is run: once a step is due, the schedule     *)
(* eventually holds no due step.  This needs ScriptsProcess to return      *)
(* after the due steps and Map::Update to keep calling it.                 *)
Due == {i \in DOMAIN schedule : schedule[i].at <= now}

DueStepsRun == (Due # {}) ~> (Due = {})

(* Every call of ScriptsProcess returns: a thread inside it eventually     *)
(* clears i_scriptLock and is idle again.  The comment at the             *)
(* CALLSCRIPT_TO_UNIT case says the called script is only inserted and not *)
(* started.                                                                *)
ProcessReturns == \A t \in Threads : (pc[t] \in Processing) ~> (pc[t] = "idle")

(* ScriptsProcess runs alone: no schedule entry is run by two threads at  *)
(* once (while one thread runs or erases a step, no other thread holds the *)
(* same step), and a CALLSCRIPT_TO_UNIT never enters ScriptsProcess again  *)
(* from inside the loop.  i_scriptLock is what is meant to ensure both.    *)
ExclusiveProcessing ==
    /\ \A t1, t2 \in Threads :
          t1 # t2 /\ pc[t1] \in {"exec", "erase"} /\ pc[t2] \in {"exec", "erase"}
              => iter[t1] # iter[t2]
    /\ ~reentered

=============================================================================
