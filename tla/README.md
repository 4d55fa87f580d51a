# TLA+ models of Legion-Core 7.3.5

This directory holds TLA+ models of parts of the server code under `src/`.
TLC checks them. `PROJECT.json` records the following, in machine-readable form:

- every component;
- every run and what it checks;
- the mutants that show each property can fail;
- the map from each TLA+ definition to the source lines it translates;
- the findings;
- the hazards.

## The system and its parts

The sources are twelve files. They fall into these components.

| Component | Source | Status |
|---|---|---|
| Login REST service: lifecycle and acceptor | `bnetserver/REST/LoginRESTService.cpp` `Start`, `Stop`, `Run` | modelled |
| Login request pipeline | `HandleGet`, `HandlePost`, the `AsyncLoginRequest` query chain, `HandleAsyncRequest`, `SendResponse` | modelled |
| Login ticket store | `AddLoginTicket`, `VerifyLoginTicket`, `CleanupLoginTickets` | modelled, with an abstract spec |
| `CalculateShaPassHash` | same file | only its use (credentials match or not) |
| gSOAP plugins | `ResponseCodePlugin`, `ContentTypePlugin` | not modelled: header/status rewriting only |
| Auction house handlers | `game/Handlers/AuctionHouseHandler.cpp` sell, place bid, remove | partly |
| Map script scheduler | `game/Scripting/MapScripts.cpp` `ScriptsStart`, `ScriptCommandStart`, `ScriptsProcess` | partly |
| Dalaran Sewers arena | `game/Battlegrounds/Zones/ArenaDalaranSewers.cpp` | partly |
| Spline flags | `game/Movement/Spline/MoveSplineFlag.h` | modelled |
| Movement generator headers | `TargetedMovementGenerator.h`, `PointMovementGenerator.h` | not modelled: declarations only, the bodies are not in `src/` |
| Uldaman instance script | `scripts/EasternKingdoms/Uldaman/instance_uldaman.cpp` | modelled |
| Karathress encounter | `scripts/Outland/CoilfangReservoir/SerpentShrine/boss_fathomlord_karathress.cpp`, four AIs | modelled |
| The Curator | `scripts/EasternKingdoms/Karazhan/boss_curator.cpp` | modelled |
| Boss scripts | Supremus, Teron Gorefiend | not modelled |

### How the login service works

Several threads take part in the login service:

- **Main thread.**
  - `Start()` reads the configuration and range-checks `LoginREST.Port`. It then resolves the two addresses and returns false if either fails.
  - Next it builds the login form and arms `_loginTicketCleanupTimer` for 10 s.
  - Finally it starts the `Run()` thread and returns true.
  - `Stop()` sets `_stopped`, cancels the timer and joins `Run()`.
- **`Run()` thread.**
  - Binds the soap server; on failure it logs and returns.
  - Then loops while `!_stopped`. Each `soap_accept` has a 3 s timeout.
  - A connection whose TLS handshake fails is dropped.
  - For every other connection it posts a lambda to the io_context. The lambda runs the gSOAP request, which calls `HandleGet` or `HandlePost`. It closes the socket unless the handler returned `SOAP_CUSTOM_STATUS_ASYNC` (600).
- **io_context thread.**
  - Runs the posted handlers one at a time, in order.
  - A GET is answered with the form, or with 404.
  - A POST with an undecodable body is answered with 400 `UNABLE_TO_DECODE`, or with 500 if the plugin cannot be registered.
  - A login form starts a chain of three queries against the login database:
    1. The account row. On a hash mismatch or a missing row it sends DONE without a ticket, and the chain ends.
    2. The character counts.
    3. The last played characters. It draws a random ticket, sends DONE with it and then calls `AddLoginTicket`.
  - `HandleAsyncRequest` re-posts itself until the chain is finished. When the `AsyncLoginRequest` is released, the socket closes.
  - The cleanup handler also runs here. It reads the clock, sweeps the expired tickets under the mutex and re-arms the timer.
- **Database thread.** Completes the queries.
- **Bnet session threads.** Call `VerifyLoginTicket` under the same mutex. It hands out the account of a ticket whose `ExpiryTime > now`, and erases that ticket.

## Modules

- **`LoginTicketStore`**: `_validLoginTickets` as a function from ticket to `[Account, ExpiryTime]`.
  - It has one operator per critical section: `AddLoginTicket`, `VerifyLoginTicket` (with `IsRedeemable` and `VerifiedAccount`) and `CleanupLoginTickets`.
  - The mutex makes each of them one atomic step.
  - The time is a parameter, because `CleanupLoginTickets` reads it before taking the lock.
- **`LoginTickets`**: the abstract specification of the store.
  - It holds only live tickets.
  - `Issue` binds a ticket to an account until `clock + WaitTime`.
  - `Redeem` consumes a live ticket. `Refuse` answers any other redemption.
  - `Tick` lets expiry happen.
- **`LoginRESTService`**: all threads above.
  - It uses the store through `TS == INSTANCE LoginTicketStore`.
  - Variables:
    - `svc`, `stopped` and `acceptor` are the main thread, `_stopped` and the `Run()` thread.
    - `ioQueue` is the io_context queue.
    - `busy` holds a handler that the model splits in two, so that other threads can act in the middle of it. There are two such handlers:
      - the third callback, between `SendResponse` and `AddLoginTicket`;
      - the cleanup, between reading `time(nullptr)` and taking the mutex.
    - `timerAt` is the pending wait of the cleanup timer.
    - Per connection: `conn`, `req`, `code` (the handler's return), `stage` (the awaited query) and `dbReady`. `InvokeIfReady(c)` is the test `AsyncLoginRequest::InvokeIfReady` makes before running a callback: every callback action is guarded by it.
    - `responses` are the responses written to each connection.
    - `sentAt`, `redeemed` and `redeemAt` are history variables for the client side.
  - Actions map one to one onto the code's steps. Their names follow the code. `PROJECT.json` "map" gives the lines for each.
- **`MC_LoginRESTService`**: the instance for TLC.
  - Port setting: `{8081}` only. `ValidatedPort` translates the range check of `Start()`, but no property reads the port, so no run varies it.
  - A request set with valid logins only, for the violation runs.

Data is abstracted as follows:

- A path is `login` or `other`.
- A body is `json` or `garbage`.
- A password is `right` or `wrong`. `CredentialsMatch` stands for comparing the SHA-256 hash with the stored one.
- A ticket is a model value.
- Time is an integer clock up to `MaxTime`. `CleanupInterval` and `WaitTime` are 1 or 2 instead of 10 and 60. Only their order relative to each other and to the clock matters.

## Runs

| Run | Expect | What it shows |
|---|---|---|
| `login_service` | pass | Two connections and every kind of request, through the queue and the three-query chain, with the clock, the cleanup timer and the redemptions running. `ResponseMatchesRequest`: each connection gets at most one response, and it is the one the request calls for (form, 400, DONE with a ticket exactly for valid credentials). `DeferredClosedOnlyWhenAnswered`: an async connection is never closed before its answer is written. `DeferredEventuallyClosed`: under fairness, every deferred login is answered and closed. `TicketStoreRefinement`: the store, read through its live tickets, implements `LoginTickets`. This covers the stale clock of the cleanup, the `>` versus `<` boundary, and ticket overwrite. |
| `ticket_sent_before_stored` | violation | A client redeems between `SendResponse` and `AddLoginTicket` and is refused. spec.md 4.2 says the ticket is inserted first. |
| `bind_failure_kept_running` | violation | `Start()` returns true before the `Run()` thread binds. When `soap_bind` fails, `Run()` logs and returns (lines 168-172) and the service stays running with no listener. spec.md 7 says a bind failure at startup is fatal to the whole service (`BindFailureFatal`). |

Each property of a passing run has a mutant in `PROJECT.json` that breaks it:

- the hash check dropped;
- the DONE response not sent on rejection;
- the re-post lost;
- an empty AccountInfo stored;
- a ticket accepted at its expiry second.

### Bounds

- `login_service`: two connections, two accounts (one registered), two ticket values, and a clock up to 2 with `WaitTime = 1` and `CleanupInterval = 1`. Tickets are then issued at 0 and 1, redeemed at, before and after their expiry second, drawn twice, and swept by two cleanup runs while others are live. Two connections are enough for the queue to interleave their chains. The run takes about two minutes; a clock up to 4 or both accounts registered takes longer than five.
- `bind_failure_kept_running`: one connection and no clock; the violation is three steps from the start.

### Fairness

`FairSpec` assumes two things:

- weak fairness of `IoContextStep`: the io_context thread keeps running handlers;
- weak fairness of `QueryCompletes` for each connection: the database answers every query.

The code does not guarantee the second, because a hung database stalls a login forever. So `DeferredEventuallyClosed` is stated under that assumption.

Deadlock checking is off in every cfg, because the service really stops. This happens after a failed `Start()`, and after `Stop()` once every connection is closed.


Two smaller observations are in `PROJECT.json` as hazards without a run of their own:

- The cleanup handler is bound with `std::bind` and ignores the error code (line 136), so the wait that `Stop()` cancels still runs `CleanupLoginTickets`, which re-arms the timer (lines 455-456). The model keeps this step: the sweep after `Stop()` runs while sessions may still redeem, and `TicketStoreRefinement` checks that it still removes only expired tickets. The re-arm itself changes no ticket, connection or response state.
- The port check at line 84 lets port 0 through, although its log message gives the range as 1-65535.

## Auction house handlers: `AuctionHouse`

The world thread runs each opcode handler of `AuctionHouseHandler.cpp` to completion, so each handler is one atomic action:

- `HandleAuctionSellItem` has every check, the deposit, and the early return when the auctioneer's `CreatureData` is missing (after the deposit is taken). It has both paths: moving a whole stack, and cloning the summed stacks.
- `HandleAuctionPlaceBid` covers a first bid, a raise of one's own bid, outbidding another character (with the refund mail), and buyout.
- `HandleAuctionRemoveItem` covers the auction cut and the refund to the bidder.
- `Expire` stands for `AuctionHouseMgr::Update`, which is outside `src/`. Mails are credited as the mailer does.

The state is the characters' money and items, the live auctions, money in the mail, and what the house keeps. `MC_AuctionHouse` has three characters, two entries, a stack of two and a single item of the other entry, one spare GUID for a clone, and two auction slots. Prices are a few copper, and the cut is half the bid, so that it is not rounded to 0.

| Run | Expect | What it shows |
|---|---|---|
| `auction_house` | pass | `MoneyNeverCreated`: the characters' money and mail, the money held by live auctions, and what the house kept never add up to more than the characters started with. This holds also when a sell fails after its deposit. The property bounds the money from above, so it does not catch the deposit that failure loses. `ItemCountConserved`: selling neither makes nor loses item counts. |
| `auction_mixed_entries` | violation | `EntryCountConserved`: a sell packet with items of two entries is auctioned as a clone of the first entry with the summed count. The "Dupe Auction mop" check (line 164) can never fire. This is a code bug. |

## Map script scheduler: `MapScripts`

`ScriptsStart` and `ScriptCommandStart` insert steps into `m_scriptSchedule` under `m_scriptScheduleLock`. They call `ScriptsProcess` at once when a step is due and `i_scriptLock` is clear. `ScriptsProcess` runs the due steps in order and erases each one. A `CALLSCRIPT_TO_UNIT` step calls `ScriptsStart` from inside the loop.

- Each thread runs these functions as a sequence of steps (`pc` per thread): a section under the mutex, or a read or write of `i_scriptLock` or of the schedule outside it.
- `MapUpdate` stands for `Map::Update`, which is outside `src/`.
- Commands other than `CALLSCRIPT_TO_UNIT` act only on the world, so they are one abstract command.
- `MC_MapScripts` uses two scripts. `s1` calls `s2` at once and then runs a command a second later. In the cyclic table, `s2` calls `s1` back.
- The bounds are two outside calls and a game time up to 2. These are enough for a call to land while another script's steps are scheduled, for steps with equal due times, and for delayed steps to fall due.
- Fairness: weak fairness of each thread's step (a thread finishes what it started) and of `MapUpdate` (`Map::Update` runs on every world tick).

| Run | Expect | What it shows |
|---|---|---|
| `map_scripts` | pass | With the map thread only: `DueStepsRun` (every step that falls due is eventually run) and `ProcessReturns` (every `ScriptsProcess` returns). `TypeOK` also checks that the scheduled-scripts counter equals the schedule's size. |
| `map_scripts_two_threads` | violation | `ExclusiveProcessing`: `i_scriptLock` is tested and set outside the mutex. With `ScriptCommandStart` on a second thread, both loops run and erase the same step. This is a code bug. |

A case without a run of its own: the comment at line 877 says a `CALLSCRIPT_TO_UNIT` step only inserts the called script. Its steps are inserted at the current time, though, and the loop at line 301 runs those with delay 0 in the same pass. A script table in which `s2` calls `s1` back with delay 0 (replace `s2`'s steps in `MCScripts` by `<< [delay |-> 0, cmd |-> Call(s1)] >>`) makes TLC report `ProcessReturns` violated: `ScriptsProcess` never returns. This needs a cyclic script table in the database.

## Dalaran Sewers arena: `ArenaDalaranSewers`

After the doors open, `PostUpdateImpl(diff)` drives four countdowns:

- the two pipe flushes;
- the textures teleport;
- the waterfall knockback;
- the waterfall cycle OFF, WARNING, ON, with its collision object `WATER_1` and water door `WATER_2`.

`CheckPositions` re-arms the pipe flushes when a player climbs back into a pipe. `sinceChange` and `lastDiff` are history variables for the timing properties. The constants keep the order of the code's `BG_DS_*` durations in small units, and diffs of 1 and 2 let a timer run out exactly at an update and in the middle of one. Fairness: weak fairness of `PostUpdateImpl`, since the map updates the arena on every tick while it exists.

| Run | Expect | What it shows |
|---|---|---|
| `dalaran_waterfall` | pass | `WaterfallObjectsMatchStatus`: the collision object blocks exactly while ON, and the water door is closed exactly while WARNING or ON. `WaterfallCycle`: the status moves only OFF, WARNING, ON, and each phase lasts its duration, up to one diff. `WaterfallKeepsCycling`: no phase lasts forever. |

## Spline flags: `MoveSplineFlag`

The state is the 32-bit word `raw()`. The actions are the seven `Enable*` setters, `&=` and `|=`, with masks drawn from small sets that lie outside the exclusive groups. Bit 31 is dropped, because TLC integers are 31-bit and no setter touches it. `Members` lists the bool bit-field members in declaration order. `Field` reads a member through its bit position.

| Run | Expect | What it shows |
|---|---|---|
| `spline_flags` | pass | `ExclusiveFlags`: no sequence of calls combines Falling with Parabolic or Flying, Animation with Falling or Parabolic, or the two transport flags. `FieldsMatchMasks`: every flag the setters use reads the same through its `eFlags` mask and through its bit-field member of the same name. |

## Uldaman instance script: `InstanceUldaman`

The module has these variables:

- `m_auiEncounter` (three states);
- the saved string (the numbers written by `SaveToDB`);
- four doors and the keystone's block flag;
- `bKeystoneCheck` and the seal timer;
- Ironaya, the Stone Keepers, Archaedas' minions and Archaedas;
- a history flag for the Altar of the Keepers;
- a restart count.

The actions are the script's handlers, each called the way its caller calls it. The callers are not in the repository:

| Action | Handler it calls |
|---|---|
| `UseAltarOfKeepers`, `KeeperDies` | `SetData(DATA_STONE_KEEPERS)`, which runs `ActivateStoneKeepers` |
| `SetGuidData`, `ActivateArchaedas` | `SetGuidData(0)`, `ActivateArchaedas` |
| `ActivateWallMinions` | `SetData(DATA_MINIONS, IN_PROGRESS)` |
| `ArchaedasDies` | `SetData(DATA_ANCIENT_DOOR, DONE)`, then `SetData(DATA_MINIONS, SPECIAL)` |
| `ArchaedasResets` | `SetData(DATA_MINIONS, NOT_STARTED)` |
| `UseKeystone` | `SetData(DATA_IRONAYA_SEAL)` |
| `Update(diff)` | the seal timer |

`Restart` is an unload or crash of the map. It keeps only the saved string, then runs `Initialize`, `Load` (which turns IN_PROGRESS back into NOT_STARTED), `OnGameObjectCreate` and `OnCreatureCreate`. Dead creatures stay dead.

The model assumes the Altar of the Keepers is used once per load of the map. Its script is not in the repository. A second use while a keeper is awake would let `ActivateStoneKeepers` open the doors with keepers alive; the hazard at line 187 records this, and `KeepersClearedBeforeAltarDoors` does not cover it.

The Altar of Archaedas is usable at any time. `SetGuidData` (lines 393-401) has no guard: it calls `ActivateArchaedas`, whose cast fails on a dead Archaedas, and then closes the temple door whatever state he is in.

Bounds: three keepers, two wall minions and one vault minion, a seal timer of 3 ticks with diffs 1 and 2, and up to two restarts. Fairness is weak fairness of `Update` only, which the map calls every tick. The players' uses of the altars and the keystone are not assumed to happen. Deadlock checking is off, because a cleared instance really has nothing left to do.

| Run | Expect | What it shows |
|---|---|---|
| `uldaman_instance` | pass | The properties and the mutant each one catches are: `DoorsFollowProgress`, every door open once its encounter is DONE and the temple door open while Archaedas waits to be woken, through wipes and restarts (mutant: `OnGameObjectCreate` reads the wrong encounter for the seal door). `ProgressPersisted`, every DONE saved (mutant: the altar doors set without the save). `KeepersClearedBeforeAltarDoors`, an action property: the altar doors become DONE only in a step after which all keepers are dead (mutant: no `return` after waking the first keeper). `MinionsDownWithArchaedas` (mutant: only the wall minions deactivated). `KeystoneOpensSeal`, liveness: once `bKeystoneCheck` is set, the seal door opens unless a restart forgets the use first (mutant: the timer never counts down). `TypeOK` (mutant: the timer decremented without the test, which underflows). |

Two cases without a run of their own, each reproduced with TLC on this module:

- **The temple door after Archaedas' death (line 399).** Widen the last conjunct of `DoorsFollowProgress` to `archaedas # "awake"`, and TLC finds this sequence: the keepers are cleared, Archaedas is woken and dies (the door reopens), and the altar is used again. `SetGuidData` then closes the temple door. No handler reopens it before a restart.
- **A keystone use forgotten by a restart (line 375).** `keystoneCheck ~> door["seal"]` is violated. A restart between the use and the end of the timer clears `bKeystoneCheck`, and the seal door opens only if a player uses the keystone again. Only `Update` is fair, so nothing forces that second use.

## Karathress encounter: `KarathressEncounter`

Fathom-Lord Karathress and his three Fathom-Guards are four creature AIs. They never call each other in combat. They are linked only through two instance data slots: `DATA_KARATHRESSEVENT` and the guid of the unit that started it.

- Whoever enters combat writes IN_PROGRESS and itself as starter. This is Karathress' `StartEvent` or a guard's `EnterCombat`.
- A creature out of combat that reads IN_PROGRESS looks up the starter and attacks it. This is the block at the top of every `UpdateAI`.
- Every `Reset` writes NOT_STARTED. A creature in combat that reads NOT_STARTED evades ("someone evaded!"), and its own `Reset` writes NOT_STARTED again.
- Karathress' `Reset` respawns the dead guards. `Respawn` and `EnterEvadeMode` run each respawned guard's own `Reset`.
- A guard's `JustDied` calls Karathress' `Event<Guard>Death`, which casts Power of the guard on him. Karathress' `JustDied` writes DONE to another slot.

The instance script holding the slots is not in the repository. Neither are the AI base classes (`UpdateVictim`, `EnterEvadeMode`, `AttackStart`) or `Creature::Respawn`. They are used with their usual semantics:

- `UpdateVictim` evades a creature in combat that has no target left;
- `EnterEvadeMode` drops auras and health, leaves combat and calls `Reset`;
- entering combat calls `EnterCombat`.

Variables:

- per creature: `alive`, `inCombat` and `hasTarget` (its threat list still has a reachable target);
- the two slots (`event`, and `starter` as none, valid or gone) and `done`;
- Karathress' `Advisors[]` being filled, `BlessingOfTides`, the Blessing aura, his 75% health and the Power auras;
- Sharkkis' `pet`, `Pet_Timer` and whether his summoned pet is alive.

The spell timers only cast spells, which change no modelled state, so they are abstracted. Caribdis' Heal loop is one of them. `Pet_Timer` and the Blessing of the Tides are kept, because they guard state. `Pet_Timer` is a uint32: the else branch at line 455 decrements it modulo `TimerWrap` (2^32 in the code, 6 in the cfg). After the pet is summoned, it keeps counting down and wraps.

The join at the top of every `UpdateAI` calls `AttackStart(starter)` before `UpdateVictim`. So a joining creature has a victim (`HasVictim`) and enters combat through `EnterCombat`. It evades only if the event reads NOT_STARTED, which a joiner never sees.

`UpdateAI(c, Fight)` is the part shared by the four `UpdateAI`s: join, `UpdateVictim`, "someone evaded!". `Fight` is what each creature does past those checks. The raid is the environment: `Pull`, `Kill`, `DamageKarathress`, `DropTargets` (a creature loses all its targets while the others may fight on), `PetGone` and `StarterLost` (the starter unit dies or leaves).

Bounds: up to three pulls of any creature, so a wipe can follow a partial kill and be followed by a re-pull. `Pet_Timer` is 2 and the diffs are 1 and 2, so the strict `<` meets `diff = Pet_Timer`. A uint32 range of 6 makes the decrements after the summon wrap within a few updates. The map calls `UpdateAI` of every living creature on every tick, which justifies weak fairness of each creature's update. Deadlock checking is off, because once the pulls are spent and the targets gone the encounter idles: every `UpdateAI` returns at `UpdateVictim`.

| Run | Expect | What it shows |
|---|---|---|
| `karathress_encounter` | pass | `IdleCreaturesReset`: a living creature out of combat has been Reset. Karathress has no Blessing and full health; Sharkkis has no pet and a re-armed timer, including after Karathress respawned him (mutant: the respawn without the guard's `Reset`). `EvadeSpreads`, liveness: once any `Reset` writes NOT_STARTED, every creature in combat leaves it unless a new pull writes IN_PROGRESS first (mutant: the "someone evaded!" test dropped). `PullSpreads`, liveness: while the event is IN_PROGRESS with a living starter, every living creature out of combat joins (mutant: the `GetData` test inverted). `PetCountdownArmed`: whenever `pet` is false, so that the summon test reads `Pet_Timer`, the timer is within its reset value and never a wrapped one (mutant: Sharkkis' `Reset` clears `pet` without re-arming `Pet_Timer`). `TypeOK` (mutant: a signed `Pet_Timer - diff < 0` test that goes negative). |

A hazard without a run: dead guards are respawned only by Karathress' own `Reset`, which runs only if he entered combat. If the starter is gone before his next `UpdateAI`, he never joins. A wipe after the guards were killed then leaves them dead with the encounter reset. The model reaches this state. Whether the starter vanishes before Karathress' next update is a matter of one update tick, so an untimed model can only show it as a scheduling choice; a violated invariant would not tell the real case from ones no server produces.

## The Curator: `Curator`

`boss_curator.cpp` is one AI driven by `UpdateAI(diff)`. `ai` holds the script's members (`AddTimer`, `HatefulBoltTimer`, `BerserkTimer`, `Enraged`, `Evocating`) with the Evocation aura and the mana they read. `UpdateAIResult` is the body of `UpdateAI`, built from one operator per block, in the code's order:

- `BerserkPhase`: the berserk check, which breaks Evocation and sets `Enraged`;
- the early return while the Evocation aura lasts;
- `AddPhase` and `StartsEvocation`/`Evocate`: the flare, its mana cost of a tenth of the maximum (`FlareMana`), the check for less than 10% mana (`ManaBelow10Pct`), and the return that leaves `AddTimer` as it was;
- `SoftEnrage` below 15% health;
- `BoltPhase`.

The raid's pull, damage, evade (`EnterEvadeMode` restores health and mana and calls `Reset`) and the end of the Evocation channel are environment actions. The AI core and the spells are not in the repository.

`MC_Curator` keeps the order of the timers (7 s < 10 s < 15 s < 12 min) with diffs of 1 and 2 units, a maximum mana of 100, and one pull. The berserk timer is scaled down to 4 units, because only its running out matters here.

| Run | Expect | What it shows |
|---|---|---|
| `curator_berserk_repeats` | violation | `BerserkCastOnce`: once `BerserkTimer <= diff` (line 101), the timer is neither re-armed nor decremented. Every later update of the pull repeats `Talk(SAY_ENRAGE)`, `InterruptNonMeleeSpells(true)` and `DoCast(SPELL_BERSERK)`. TLC reaches the second cast on the third update after the pull (the pull, two updates that run the timer out, and one more). An update with a smaller diff than the leftover timer would decrement it instead, but nothing re-arms it. This is a code bug. |

## Not modelled

The following are left out:

- gSOAP internals, TLS and HTTP parsing;
- SQL and the content of the account, character count and last played rows (these become the three stages);
- the SHA-256 computation;
- `GetAddressForClient`;
- the plugins' header rewriting;
- logging;
- the world effects of map script commands (talk, move, cast, summon, doors);
- the `_GetScript*` lookups, which only find world objects;
- the auction list, query and mail-taking handlers;
- the movement generator headers, which are declarations only;
- the spell timers of the Karathress encounter, which only cast spells;
- the boss scripts of Supremus and Teron Gorefiend. They keep their state in `EventMap`, which is not in `src/`; their effects are casts, summons and threat changes on world objects;
- the Curator's summons, texts and casts other than Berserk, which change no state of the script.
