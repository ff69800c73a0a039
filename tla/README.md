# A TLA+ model of MatrixPilot

MatrixPilot is the firmware of the UAV DevBoard autopilot: one interrupt-driven
C program for a dsPIC without an operating system. This directory holds TLA+
models of its discrete core, the TLC configurations that check them, and proofs
checked by TLAPS. Paths below are relative to the repository's source tree.

Run from this directory:

    tlc -workers 2 -config MCFlightPlain.cfg MCFlightStates.tla
    tlapm FlightSafetyProofs.tla

`PROJECT.json` lists every run (module, configuration, properties), every mutant,
the source lines behind every definition, the hazards and the theorems.

- [1. The system](#1-the-system)
- [2. Modules](#2-modules)
- [3. Flight modes](#3-flight-modes)
- [4. Storing parameters](#4-storing-parameters)
- [5. Flight plans and missions](#5-flight-plans-and-missions)
- [6. Runs](#6-runs)
- [7. Proofs](#7-proofs)
- [8. Where the code and its comments disagree](#8-where-the-code-and-its-comments-disagree)
- [9. Not modelled](#9-not-modelled)
- [10. Plan](#10-plan)

## 1. The system

### How it runs

Everything happens in interrupts; `main` idles (and writes the telemetry log to
flash). An interrupt preempts every lower level:

| level | what runs | source |
|---|---|---|
| 7 | servo pulses | `libUDB/servoOutPins.c` |
| 6 | heartbeat (40 Hz): the flight-mode FSM; input capture of radio pulses | `libUDB/background.c`, `radioIn.c` |
| 5 | I2C, ADC, DMA: sensors, EEPROM | `libUDB/I2C1.c`, `24LC256.c`, `analogToDigital.c` |
| 4 | UARTs: GPS bytes, telemetry, MAVLink bytes | `libUDB/serialIO.c` |
| 3 | heartbeat pulse: failsafe check, IMU, flight plan, control loops, servo mixing, what is sent to the ground | `libUDB/background.c`, `MatrixPilot/servoPrepare.c` |
| 2 | GPS background work and medium-priority events: storage, MAVLink messages | `libDCM/gpsParseCommon.c`, `libUDB/events.c` |
| 1 | low-priority events | `libUDB/events.c` |
| 0 | main loop: telemetry log | `MatrixPilot/main.c`, `telemetry_log.c` |

The parts share global flags (`udb_flags`, `dcm_flags`, `state_flags`) and
buffers without locks. A level starts work at another by setting an interrupt
flag (`heartbeat_pulse`, `trigger_event`); work that takes long ends in a
callback at the level of the device (I2C). That is where the interesting
behaviour is: a flag and the callback that announces it are two steps, a
completion comes at a higher level than the request, power may fail between the
steps of a write.

### Components

| component | state | operations | talks to | correct when |
|---|---|---|---|---|
| flight-mode FSM `states.c` | `stateS`, `counter`, timers, `state_flags` | `udb_heartbeat_40hz_callback`, state and entry functions | mode switch, radio, GPS, plans | the pilot can always take over; lost radio leads to return; throttle is inhibited exactly on the catapult; mode flags agree with the state |
| mode switch `mode_switch.c` | recogniser state, toggle timer, hold | `flight_mode_switch_2pos_poll`, `..._check_set`, `..._getindex` | radio, FSM | manual is always manual; autonomous only by the full toggle sequence; a hold ends only by the pilot |
| heartbeat, background tasks `heartbeat.c`, `background.c`, `servoPrepare.c` | tick counters, interrupt flags | heartbeat, pulse | all | the pulse runs after every heartbeat unless it is late |
| radio input `radioIn.c` | pulse counters, `radio_on` | input capture, `radioIn_failsafe_check` | FSM by callback | a lost link is signalled, once, and not lost |
| GPS `gpsParseCommon.c`, `gpsParse*.c` | age of data, validity | byte parsers, `gps_parse_common_callback`, `gps_nav_capable_check_set` | FSM, navigation | `nav_capable` follows the age of the data; the origin is captured when asked for |
| events `events.c` | pending flags | `trigger_event`, the scan | storage, MAVLink | a triggered handler runs; none is lost while another runs |
| EEPROM driver `24LC256.c` | state, caller's callback and buffer, bytes left | read, write, service, callback | I2C, storage | a stopped driver can be asked; every accepted request is answered once |
| I2C1 driver `I2C1.c` | byte machine, error flags | start, callback, reset, check | EEPROM | every transfer ends and frees the bus |
| data storage `data_storage.c` | status, handle, table, header | read, write, create, clear, service, six callbacks | EEPROM, data services | what was reported written can be read, also after power failed |
| data services `data_services.c` | state, index, flags, buffer | init, save, load, service, callbacks | storage, MAVLink | startup ends; a request is carried out for the right block and ends |
| MAVLink handling `MAVLink.c` | one received message, one acknowledgement | handlers, sending by rate | all `MAV*.c` | no message is half handled |
| missions, parameters, flexi functions `MAVMission.c`, `MAVParams.c`, `MAVFlexiFunctions.c` | transfer state, timers | message handlers | plans, services | a transferred mission is the one that was sent |
| flight plans `flightplan*.c` | plan, index, goal, injected waypoint | begin, next, set, add, clear, live commands | navigation, FSM, missions, UART | the plane flies an item of the begun plan, or a whole live waypoint |
| telemetry, log `telemetry*.c` | two buffers, indices | append, swap, write | main loop | no line is torn or written twice |
| navigation, control, IMU | fixed-point values | `navigate.c`, `rollCntrl.c`, ..., `libDCM/` | each other | numeric |
| drivers, OSD, cameras, simulation | registers, formatting | | | |

The behaviours that are hard to test, each at its line, are the `hazards` of
`PROJECT.json`. The main groups: the heartbeat preempting the pulse between a
flag and its callback; links that flap during a hold; an FSM that runs on two
clocks; EEPROM requests refused, failing, overtaking each other or cut by a
power failure; MAVLink messages lost or repeated; buffers shared by levels; a plan
begun at level 6 while the pulse is setting a waypoint of another.

## 2. Modules

| module | models | |
|---|---|---|
| `ModeSwitch` | `mode_switch.c`, the two-position recogniser | component |
| `ModeSwitchPilot` | recogniser and pilot, with a record of the samples | composition |
| `FlightStates` | `states.c`, `mode_switch.c`, `heartbeat.c`, `servoPrepare.c`, the failsafe check of `radioIn.c`, GPS validity | composition on `ModeSwitch` |
| `Events` | `events.c`, one priority | component |
| `NvMemory` | `24LC256.c`, the transfers of `I2C1.c`, the EEPROM | component |
| `DataStorage` | `data_storage.c` | on `NvMemory`, `Events` |
| `DataServices` | `data_services.c`, the storage commands of `MAVLink.c`, loss of power | composition of the four |
| `BlockStore` | what saving and loading promise: a memory of blocks | abstract specification |
| `StoreRefinement` | the mapping from `DataServices` to `BlockStore` | refinement |
| `FlightPlan` | `flightplan-waypoints.c`, the goal of `navigate.c`, the live waypoint of `telemetry.c` | component |
| `Missions` | `MAVMission.c` | composition on `FlightPlan` |
| `MCModeSwitch`, `MCFlightStates`, `MCCatapultLaunch`, `MCNvStorage`, `MCMissions` | instances for TLC, records that only properties read | |
| `ModeSwitchProofs`, `FlightStatesProofs`, `FlightSafetyProofs`, `NvMemoryProofs`, `StoreRefinementProofs`, `BlockStoreProofs`, `MissionsProofs`, `GoalProofs` | theorems | |

Definitions have the names of the C functions and variables they stand for. Some
modules hold an operator marked "Mutant": a definition as a plausible mistake
would make it. No specification uses these; replacing the real definition by its
mutant makes the run that `PROJECT.json` names find a violation, which shows that
the property depends on that code. `BlockStore` and `StoreRefinement` translate no
lines of code: the one is a promise, the other a mapping.

## 3. Flight modes

### State

`FlightStates` has one variable for each variable of the code that the state
machine reads or writes. `stateS` is the state function's pointer; `req` is which
of `man_req`, `auto_req`, `home_req` is set; `pulse` is the program counter of
the heartbeat pulse at the places where a preempting heartbeat makes a
difference; `pulseIF` is the interrupt flag that starts it. `flightplan` is the
plan last begun; which plan is then flown is the subject of section 5.

### Actions

| action | code |
|---|---|
| `Heartbeat` | `udb_heartbeat_40hz_callback`: the switch check, then the synchronous or the asynchronous FSM clock with one state function and the entry function it calls, then `udb_background_trigger_pulse` |
| `PulseBegins`, `SkipFailsafeCheck`, `radioIn_failsafe_check`, `udb_callback_radio_did_turn_off`, `FlightController` | the pulse, in five steps, each of which a heartbeat may come between |
| `GpsValid`, `GpsInvalid` | `gps_parse_common_callback` and the location callback |
| `SwitchMoves` | input capture stores another pulse width |

A state function runs inside the heartbeat and reads the request and
`nav_capable` as the heartbeat has just left them: the primed values. The plain
and the catapult build (`CATAPULT_LAUNCH_ENABLE`) are one module with the
constant `Catapult`; they differ in what is urgent, and in whether an
asynchronous clock restarts the counter of the synchronous one.

What the devices report is free: `linkGood` at each failsafe check, `settled`
(magnetometer, GPS startup metrics) and `enabled` (the arming channel) at each
clock. So the checks cover every pattern of radio noise, every order of GPS
reports and every move of the pilot.

### Configuration and abstraction

`FAILSAFE_TYPE` is `FAILSAFE_RTL`; `NORADIO` and `FLY_BY_DATALINK_ENABLED` are 0;
the airframe is not a helicopter; `HEARTBEAT_HZ` is 40. Trims, leds, waggles, logging and
the altitude-hold settings are left out. The pulse width on the switch channel is
one of the classes the thresholds tell apart, with "atLow" exactly on
`MODE_SWITCH_THRESHOLD_LOW` (neither `<` nor `>` it).

Timers have the same comparisons as the code with smaller constants: the FSM
clock runs at `counter++ >= SyncPeriod`, 2 instead of 20, so that its period is
`SyncPeriod + 1` ticks as it is 21 in the code.

### Properties

| property | says |
|---|---|
| `DownMeansManual` | after three polls with the switch down, manual is requested, whatever toggle was half done |
| `AutonomousNeedsToggles` | autonomous is requested only if the polls sampled down, up, down, up within the window the timeouts give |
| `FailsafeEngaged` | once the loss of the radio was signalled and the FSM ran, no mode is left that needs the pilot, although a heartbeat may preempt the check between the flag and the callback |
| `HoldOnlyInReturn`, `HoldUntilSwitchMoves` | a failsafe hold lives in return only, and only the pilot ends it, however the link flaps |
| `ThrottleInhibitedOnCatapult` | the throttle is inhibited exactly in the launch states |
| `LaunchDelayExact` | the delay advances one FSM clock in each tick and nothing restarts it |
| `ModeFlagsTellState` | the flags telemetry decodes as the mode agree with the state |
| `OriginRequestedBeforeFlight` | when the plane flies, standby asked for origin and dead reckoning, and the origin request is pending or honoured (the code lets it fly while it is pending) |
| `ManualTakeover`, `LostRadioReturns` | liveness: a switch kept at manual ends in manual; a radio that stays lost ends in return |

### Fairness

`HeartbeatSpec` assumes only that the heartbeat comes again: it is a timer
interrupt, and nothing above it in the model runs. With a three-position switch
that is enough, as the FSM looks at the switch in the heartbeat itself. The
two-position recogniser runs in the pulse; `FairSpec` adds that the pulse makes
progress, which is true unless the levels above it take all the time. Section 8
shows what happens without that.

## 4. Storing parameters

### State and levels

`DataServices` (level 2, an event), `DataStorage` (level 2, an event) and the
driver of `NvMemory` (its service an event, its callback in the I2C interrupt at
level 5) work on one another's variables through callbacks. `Events` says when each
runs: handlers in order of registration (EEPROM driver, storage, services,
messages), never preempting each other, scanned again while any is pending. The
I2C interrupt comes at any time.

| action | code |
|---|---|
| `EventInterrupt` | one handler: `nv_memory_service`, `data_storage_service` (with the callback it makes), `data_services_service` |
| `handleMessage` | a received message: `MAV_CMD_PREFLIGHT_STORAGE` and the service commands |
| `I2CInterrupt` | the end of a transfer: `MCP24LC256_callback`, the storage's callback, the services' callback, in one step as in the code |
| `BusStops` | the stop condition after a failed transfer |
| `ChipIsDone` | the EEPROM has programmed its page |
| `Pulse` | the heartbeat pulse triggers the three services |
| `PowerFails` | restart; a page on its way or being programmed may be cut |

`data_storage_service` assigns the status it waits in *after* the driver accepted
the request. This assignment is a step of its own (`StorageReturns`). A completion
may overtake it if the level 2 handler is preempted there (by the pulse or a
UART) for the length of a transfer, milliseconds for a header. `CanOvertake` says
whether it may. When it does the status that arrives late waits for a completion
that has been and the storage stops: the code is exposed to this, and nothing in
it recovers. So safety is checked with `CanOvertake` TRUE, and proved for both values; what
it says about progress, `CompletionDue` and liveness, is stated for FALSE and holds only then.

An area is created in steps, too: its entry and the checksum are put into the table in the RAM
(`CreationMade`, `data_storage.c:328-344`), then the driver accepts the write of the table
(`CreationAccepted`), or refuses and the entry is taken out again (`CreationRefused`). The I2C
interrupt may come between. That matters while an empty table is being formatted, for which nobody
waits (`data_storage.c:453`): the pages that are still to be sent are sent from the table as it is
then, so that the chip may get an entry which the RAM no longer has. `received` is what
the chip has in its page buffer, which the RAM no longer changes. Nothing is lost by
such an entry: it lists an area in which no block is said to be saved.

### Data

A block is a number: it stands for its handle and for its place in the EEPROM, which
is the same each time (finding a hole is deterministic; that the EEPROM is full is
not modelled). The contents are one of `Values` tagged with the block, and the
checksum of contents is the contents (no collisions). The checksum of the *table*
covers its first entry only (`sizeof(*data_storage_table.table)`,
`data_storage.c:412`), which no block uses: it is the same for every table and only
says that the table was written. A write of the table has three pages; `FirstPage` says which blocks have
their entry on the first. `Cut` lists what a page may be after a write was
interrupted. A read whose transfer fails stores nothing: the chip did not
acknowledge its address. Left out: the acknowledgement to the
ground station, the callbacks that apply loaded parameters, self-managed areas
(which nothing uses). The barometer on the same bus (`I2C1`) is not in any build.

What the chip holds at first is left open by `Init`; `Spec` takes from `OwnEEPROMs` what
this program can have left there: any table, and in each area data of its own
block or junk, with a header that names its own block or none (`data_storage.c:224-229`).
An area that held a header for the data of another block could be loaded as that other
block's. `MCNvStorage` starts from the tables in `Chips`, with the blocks in `Filled` saved in
their areas.

### Properties

| property | says |
|---|---|
| `LoadedIsWhole` | what becomes live parameters is a whole value of the block being loaded, through failing transfers, cut writes and overtaking completions |
| `ImplementsBlockStore` | until a transfer fails, every step is a step of `BlockStore` or leaves it as it is |
| `BuffersStable` | nobody writes a buffer while the driver is still sending from it, but for the entry of an area that is made, or taken back, while an empty table is formatted |
| `StoppedMeansFree` | a stopped driver has a free bus and nobody to tell |
| `ServicesAwaitStorage` | while the services wait for a block, the storage works on that block for them |
| `CompletionDue` | a storage that waits is waited for |
| `StoredDurable`, `LoadedIsStored` | what was reported saved stays whole in the EEPROM, power failing at any time, and is what is loaded |
| `StartupCompletes`, `RequestsAnswered` | startup and every accepted request end |

`stored` is history: what the services were last told is saved, forgotten when a
new write of the block begins.

### The abstract block store

`BlockStore` says in a page what the four modules are for. A block holds data or
nothing. One task works at a time: a save puts only its own block at risk, and
when it is reported the block holds what was saved; a load yields what the block
holds, or fails; erasing begins only when no save or load is under way; a loss of
power ends the task, and loses no block that was reported saved.

The mapping takes as `memory` what a load *would* yield: the data of an area whose table
entry, header and checksum are good. So the two writes of a save, of the data and
of the header that vouches for it, are steps in which the block goes from its old
value to nothing to its new value, a page cut by a power failure is nothing or
one of the two, and the table written at startup brings areas into being: an area
that is made on a chip whose table was cut brings back, page by page, what that
table had listed, so nothing is promised of a block between a restart and the end of
startup unless it was said to be saved (`Unknown`). `task`
is the state of the services, `erasing` that of the storage.

`ImplementsBlockStore` holds until the first failing transfer: the driver reports
a failed transfer as a success (`24LC256.c:165`), and a save can then be reported that
never took place. `nv_safety` checks it with overtaking completions and clear
requests, `nv_live` through power failures. Progress is not part of `BlockStore`.

### Fairness

Weak fairness of the event interrupt (enabled interrupts are served), of I2C
completions that do not fail for an injected fault, of the bus's stop and the
chip's programming (bounded by their data sheets), and of the pulse (40 Hz).
Messages, faults and power failures are not fair. Since messages are not
throttled, a stream of "clear" requests could keep the storage busy for ever;
`nv_live` has none.

## 5. Flight plans and missions

### Levels

Four levels work on the plan, its index and the goal without a lock. They are in one
module because the interesting behaviour is what one does between two steps of
another:

| level | what | in the model |
|---|---|---|
| 6 | the FSM begins a plan (`ent_waypointS`, `ent_returnS`) or stops steering | one step, `ModeChanges` |
| 4 | the UART receives a live waypoint | one step for each byte, `UartByte` |
| 3 | the pulse updates the plan, then sends to the ground (`Pulse`) | step by step, level "nav" |
| 2 | MAVLink messages (`handleMessage`, `Command`) | step by step, level "cmd" |

`pc` and `reg` are the program counters and local values of the two levels that
are cut into steps. `Turn` lets level "cmd" go on only while "nav" is idle, and the
steps of level 6 and 4 may come at any time. (With `DEADRECKONING` 1, the default,
the plan is updated in the pulse: `servoPrepare.c:91`. With 0 it would be at level 2.)

### FlightPlan

| action | code |
|---|---|
| `next_waypoint`, `WrapAround` | `next_waypoint`: the index is incremented in memory, then wrapped |
| `set_waypoint_check`, `_assign`, `_fetch`, `navigate_set_goal_point`, `_course`, `setBehavior` | `set_waypoint`, for the pulse and for a message |
| `LiveReady`, `FlyLive` | a live waypoint is found to be ready (line 359), then copied (361): a step of each, with the UART between them |
| `Loiter` | the last branch of `flightplan_waypoints_update` |
| `NothingToUpdate` | not steering, no GPS, or not arrived |
| `flightplan_begin`, `StopSteering` | the entry functions of `states.c`; `flightplan_begin` loads the main plan first, as `flightplan_init` does |
| `flightplan_live_begin`, `..._received_byte`, `..._commit`, `BadByte` | the parser of `telemetry.c` and the buffer `wp_inject` |
| `add_waypoint`, `clear_flightplan` | what messages do to the list |

A waypoint is a pair of a source ("main", "rtl", "live", "item") and a number; its
position and flags are one value, `Loiters` those that loiter. `Beyond` is what
lies before or behind the array, whose flags may say anything; `Torn` is a live waypoint of
bytes of two messages. The index is a signed number of 16 bits: `MISSION_SET_CURRENT` hands an unsigned
one to `set_waypoint` (`Int16`, `MAVMission.c:235`), and 0x8000 and more become negative,
pass `index < numPoints` and are stored. `Dynamic` is `USE_DYNAMIC_WAYPOINTS`: with it plans are
copied into one list that messages can change, without it (the default) they are
constant arrays. Both are checked.

Abstractions: arrival is nondeterministic; the copy of one waypoint into
`current_waypoint` is one step; so is that of `wp_inject`, as a byte that comes during it is in the
copy or not, like one that comes before it or after it; where a leg comes from is left out; `extended_range` stays 0;
storing an item is not overtaken between the array and its size. A byte that is lost
or wrong spoils the checksum.

### Missions

The ground station is external: any message may come at any time, which stands for
a link that loses, repeats and delays. `MissionCount` sets the request flag before
it resets the index, so it is two steps with the output between them; an item is
found to be the one asked for (`MissionItem`) before it is stored
(`MissionItemStored`), and the timeout may pass between. The other handlers are one step
each. `toSend` are the flags the output clears; to whom and with what contents
it answers is left out, as are the announcements. `accepted`, `acked`, `asked`,
`askedEarly`, `quiet`, `ackSeen` and, in the plan, `spoiled` and `cut` are history that only
properties read. Items behind the list do not come: only a mission of no
items asks for one. `Seqs` are the numbers made current, of 16 bits.

### Properties

| property | says |
|---|---|
| `LiveIsWhole` | a live waypoint that is flown consists of the bytes of one message, whatever the UART received before; only when it begins the next one between the check and the copy can that be torn |
| `GoalFollowsIndex` | when no level is half way, goal, course and flags are those of the waypoint at the index, or of a live one, and the index is below the number of points (nothing keeps it from being negative); excepted are goals set by a level that was overtaken, and plans cleared under the plane |
| `AckedInOrder` | an acknowledged mission had each of its items taken once and in order |
| `NextItemAsked` | a waiting upload has asked for the item it waits for |
| `GivenUpLate` | an upload is given up only after the full timeout without a new item, after an ACK, or at once by a `MISSION_REQUEST_LIST` |
| `TransfersEnd` | liveness: when the ground falls silent no transfer stays open |
| `RoundTrip` | liveness: a plane that keeps steering by its plan comes to every waypoint again and again, whatever there was before, unless the flags in force make it loiter or are undefined (`Beyond`, `Torn`) |

Several exceptions in these properties are what the code does, found while stating
them: a live waypoint begun between check and copy is torn (`flightplan-waypoints.c:359`);
a sequence number of 0x8000 or more makes the index negative (`MAVMission.c:235`);
a `MISSION_REQUEST_LIST` drops a running upload (`MAVMission.c:88`); the output can ask for the wrong item when it overtakes `MissionCount`
(`askedEarly`, `MAVMission.c:264`); an ACK of an earlier download ends a running upload
(`ackSeen`, `MAVMission.c:193`); a level that is overtaken by a plan begun sets the
goal of the plan before (`spoiled`, section 8). A mission of no items asks for
item 0 and ends by the timeout only. An acknowledged mission need not be in the plan:
`add_waypoint` stores nothing when the list is full or not dynamic.

### Fairness

`Pulse` is weakly fair: it comes at 40 Hz. `Command` is strongly fair, as the
pulse leaves time to lower levels but overtakes them again and again. Arrival (or
taking a live waypoint) is strongly fair: a plane that steers with valid GPS arrives
again and again. Messages, UART bytes and changes of mode are not fair.

## 6. Runs

| run | configuration | states | shows |
|---|---|---|---|
| `mode_switch` | `MCModeSwitch` | 17,970 | recogniser against every pilot: `TypeOK`, `DownMeansManual`, `AutonomousNeedsToggles` |
| `flight_plain` | `MCFlightPlain` | 169 thousand | plain build, three positions, `FAILSAFE_HOLD`: all safety, hold, both liveness properties |
| `flight_catapult` | `MCFlightCatapult` | 611 thousand | catapult build: throttle, delay, failsafe, takeover, return |
| `flight_two_pos` | `MCFlightTwoPos` | 566 thousand | recogniser and FSM together: takeover with a fair pulse |
| `nv_safety` | `MCNvSafety` | 1.96 million | blank and formatted chip, one failing transfer anywhere, overtaking completions, areas made and taken back during a format, every message except "load all"; refinement of `BlockStore` until the fault |
| `nv_live` | `MCNvLive` | 228 thousand | a chip with a saved block, listed alone or with the other, one power failure at any time, two values, save one, load one, load all: durability, progress and refinement of `BlockStore` |
| `missions` | `MCMissions` | 332 thousand | main plan of two waypoints, return plan of one, dynamic list; two messages, or two live waypoints, at any step of the pulse and of each other, with changes of mode without bound; four messages on the ground: all properties of section 5 |
| `takeover_two_pos`, `catapult_gps_lost`, `nv_first_boot`, `nv_init_read`, `return_rtl` | | | section 8 |

### Bounds

- `MaxPauseToggle` 2 (20 in the code): each toggle state can be left by the
  switch, by its timeout, and at the last poll before it. In the composition it is 0.
- `SyncPeriod` 2: asynchronous clocks come before, between and at synchronous ones.
- `StandbyPause` 3, `SaveOriginAt` 2, `DeadReckonAt` 1 keep the order of `STANDBY_PAUSE`, 6 and 2.
- `LaunchDelay` 3: the delay is longer than an FSM clock less one; 6 in `catapult_gps_lost`, so
  that one whole clock fits in it.
- `GpsMaxAge` 2: usable, ageing and useless data.
- `BlockCount` 2, on different pages of the table: the fewest for one to replace
  the other's request, and for a cut between the pages to lose one entry. `Values` 2 where
  old and new value must be told apart.
- `MaxFaults` 1, `MaxCrashes` 1: each at every moment; the first fault already reaches
  `FAILED_TRX` from each request. They are bounds of the search only, the proofs have none.
- `Budgets`: how many messages and live waypoints may come, and whether the FSM may begin a plan.
  In flight, two messages reach a repeated count, a count and an item, a command overtaken by the
  pulse; two live waypoints reach one being received while the other is taken, or begun between
  its check and its copy. On the ground, before a plan was begun, four messages reach
  an upload of two items with any message repeated, late or in the wrong order, a
  count repeated after the first item, and an upload after an upload. The theorems of section 7 cover every
  number of messages and every size. `Counts` are an empty mission, one of a single item, and one
  larger than the list, which is cut to two.
- `Seqs` are the last waypoint of the plan, and 65535, which becomes -1.
- `MAVLINK_WAYPOINT_TIMEOUT` 1 (120 in the code, 3 s), `MAX_WAYPOINTS` 2, `LiveBytes` 2 (22): the
  fewest that can be torn, wrapped and exceeded.
- `DelayCheckBound`: the debug counter stops after the value the property reads.

Deadlock is checked in every run: the heartbeat, or the pulse of the other models,
is always possible.

## 7. Proofs

TLAPS checks these for every value of the constants that satisfies the modules'
assumptions (`ModeSwitchAssumption`, `FlightStatesAssumption`, ...).

| theorem | states | argument |
|---|---|---|
| `ModeSwitchProofs!TypeCorrect` | ranges, toggle timer at most `MaxPauseToggle + 2` | the timer passes the limit only in a toggle state that then ends: `TypeInv` ties its value to the state |
| `ManualWithinThreePolls` | `DownMeansManual` | what the recogniser can be after one, two and three low samples |
| `AutonomousOnlyByToggles` | `AutonomousNeedsToggles` | each toggle state bounds the age of the samples that led to it |
| `FlightStatesProofs!TypeCorrect` | ranges of all timers | timers restart on entry: in `calibrate`, `acquiring` and `cat_delay` they are positive. `TypeInv` adds this to `TypeOK`; without it `timer - 1` could leave its range |
| `ThrottleCorrect` | `ThrottleInhibitedOnCatapult` | inductive as it stands, one case for each state function |
| `FlagsCorrect`, `HoldCorrect` | `ModeFlagsTellState`, `HoldOnlyInReturn` | with `TypeInv` |
| `FailsafeCorrect` | `FailsafeEngaged` | needs that the plain build has no launch states, and a case for a heartbeat in each step of the pulse |
| `LaunchDelayCorrect` | `LaunchDelayExact` | every tick of the delay is a clock: it is urgent or synchronous |
| `HoldUntilCorrect` | `HoldUntilSwitchMoves`, with a three-position switch | `HoldInv`: the request recorded by the last heartbeat is the one the switch makes unless it moved, and a plane held in return has its hold set unless it moved |
| `OriginCorrect` | `OriginRequestedBeforeFlight` | needs what standby has asked for as its timer falls through `SaveOriginAt` and `DeadReckonAt` |
| `StoppedCorrect` | `StoppedMeansFree` | needs `FailedHasNoCaller`: a driver that has failed and holds the bus has no caller left, as recovery stops it without telling anyone |
| `NvMemoryProofs!TypeCorrect` | `TypeOK` of the whole storage stack | `NvInv`, below |
| `ServicesAwaitCorrect` | `ServicesAwaitStorage` | `NvInv`, of which it is a part |
| `BuffersCorrect` | `BuffersStable` | `NvInv`: what the driver sends tells whose request it is, and where that request is nobody prepares another; a format, for which nobody waits, is met by the making of one area only |
| `CompletionDueCorrect` | `CompletionDue`, if no completion overtakes | `DueInv`: also the status that is about to be assigned has its completion |
| `LoadedWholeCorrect` | `LoadedIsWhole` | `WholeInv`: no header in the chip or the RAM vouches for another block's data (`OwnInv`), and the header on its way is that of the buffer (`HeaderInv`) |
| `StoreRefinementProofs!StoredDurableCorrect`, `LoadedIsStoredCorrect` | `StoredDurable`, `LoadedIsStored`, until a transfer fails | `StoreInv`, below |
| `StoreImplemented` | `ImplementsBlockStore` | the first state and each action mapped, one lemma for each action, from `StoreInv` |
| `BlockStoreProofs!StoreKeepsSaved` | what was said to be saved can be loaded, in every `BlockStore` | needs that no block being saved or erased is said to be saved, and that nothing is erased during a save (`WorkedOnIsUnsaved`) |
| `MissionsProofs!TypeCorrect` | sizes of plan and mission, timeout and buffer position in range, the index within its 16 bits | `IndexInv`: the index is at most `MAX_WAYPOINTS`, and below it but between increment and wrap, so that it never overflows, also when it is negative; lemmas on what a place of the list, the live buffer and a loaded plan can hold |
| `MissionsAckedInOrder` | `AckedInOrder` | `UploadInv`: while an upload is open, or an item of it is being stored, the items taken are 0 up to the index |
| `UploadsAskForTheNextItem` | `NextItemAsked` | `AskInv`: until the handler of a count ends its request is pending, or has gone out too early |
| `UploadsGivenUpLate` | `GivenUpLate` | `WaitInv`: the timeout that is left and the outputs without progress add up to at least the whole timeout, unless an ACK came; of the messages only `MissionRequestList` ends an upload |
| `LiveWaypointsWhole` | `LiveIsWhole` | `LiveInv`: the bytes in the buffer up to its position are of the message that is being received, and a ready buffer is of one message, which holds at the copy unless the UART began another since the check |
| `GoalProofs!GoalsFollowTheIndex` | `GoalFollowsIndex` | `GoalInv`: for each step of each level, what it has already set and what its registers hold, unless it was overtaken; `StepsInv`: which steps can be under way together |

`FlightSafetyProofs` rests on two lemmas: only the heartbeat runs the FSM, and
when it does, exactly one state function runs or none does. `HoldUntilSwitchMoves` needs
the three-position switch: the two-position recogniser changes its request some polls after
the pilot's last move, or when a toggle times out, and that ends a hold too.

The storage proofs have three invariants, each on top of the other.

- `NvInv` says how the levels wait for each other. `StorageInv`: for each
  completion the driver has, what it transfers, with which cell, and in which status the
  storage waits for it, the status still to be assigned included; a driver that
  is stopped owes nobody anything. `ServicesInv`: for each status of the storage, for whom
  it works, on which block, and that this block has its area. The three parts are
  proved together: `StorageInv` needs the types, `ServicesInv` needs both, and the types of index
  and handle need `ServicesInv`.
- `WholeInv` says whose data is where.
- `FaultFree`, up to the first failing transfer, says what is in the chip: the table that is in
  the RAM, but while it is read, written or changed for a new area; the chip may list an area more,
  that of a creation refused during a format (`TableSynced`, `InChip`). Further: each page of the table that
  was written (`TableWritten`), data before its header (`BlockWritten`), what was
  read is what is there (`BlockRead`), and nothing is said to be saved that is being
  written, erased or listed (`NothingClaimed`). With `NvInv` and `WholeInv` this is `StoreInv`.

The hypothesis `faults = 0` is that of the code: a failed transfer is reported as a
success (`24LC256.c:165`), after which neither property holds (`nv_init_read` loses a
table so). Losses of power are not faults: any number of them may come, at any
step. `StoreImplemented` and `StoreKeepsSaved` together are durability for every
number of blocks: until a transfer fails the storage stack is a block store, and every
block store keeps what it said it saved.

Model-checked only: liveness (`ManualTakeover`, `LostRadioReturns`,
`StartupCompletes`, `RequestsAnswered`, `TransfersEnd`, `RoundTrip`), out of the
prover's reach. Every invariant, action property and refinement of a passing run is a theorem.

## 8. Where the code and its comments disagree

Each is a run whose property TLC finds violated; `PROJECT.json` quotes the lines.

- **Takeover needs the pulse** (`takeover_two_pos`). `heartbeat.c:87-90` runs the
  FSM in the heartbeat so that manual takeover works even when the lower levels
  hang. With a two-position switch, the recogniser is polled in
  `flight_controller` (`servoPrepare.c:88`), at the level of the pulse.
- **A launch does not notice lost GPS** (`catapult_gps_lost`). The comment of
  `cat_delayS` (`states.c:438`) has it return to manual when GPS is lost; the
  heartbeat does not refresh `nav_capable` in that state (`states.c:123`).
- **The first boot may never finish** (`nv_first_boot`). On a blank EEPROM the end of
  formatting assigns `WAITING` (`data_storage.c:453`). The format request leaves
  the status at `CHECK_TABLE`, whose next run, with the table now good in memory, is
  already `WAITING`: the services ask for an area, and the late completion
  overwrites that request. They then wait in `INIT_WAIT` for ever.
- **A failed read formats the table** (`nv_init_read`). The driver reports a
  failed transfer to its caller as a success (`24LC256.c:165`). At power up the storage
  then checks a table that was never read, finds it bad and writes an empty one
  if the driver has recovered by then (`data_storage.c:391` means to retry).

- **Return may fly the main plan** (`return_rtl`). In return the code is to follow the
  RTL plan (`Config/options.h:344`). The FSM begins it at level 6; if the pulse was between
  fetching a waypoint and `navigate_set_goal` it then sets the goal to the waypoint of
  the main plan, and the plane flies there first (`flightplan-waypoints.c:224`, `264`). The
  run is of the default build, without messages or live waypoints. By reading only: a
  live waypoint that was complete while the plane did not steer is flown when
  return begins (`flightplan-waypoints.c:359`).

## 9. Not modelled

The repository has some 217 thousand lines of implementation in 588 files. Most of them are the
vendor's USB and file-system stacks, each in several copies, the generated MAVLink
headers and ground tools; of the firmware's own code, the larger part is numerics, drivers and
text. The models map about 1% of all lines, the part with discrete state that several
levels or a device share. A high share of all lines is out of the question, and would not
be of use: the rest has no behaviour for TLC to explore, or is not this project's.

| part | why |
|---|---|
| navigation other than the goal, control loops, mixing, attitude and position estimation, cameras | fixed-point numerics on continuous quantities: no discrete state to explore |
| GPS protocol parsers, serial ports, sensors, servo output, OSD | devices and formats; their outcomes are inputs of the models |
| configuration files, flash file system, MAVLink headers, USB, ground tools | vendored, generated or third party |
| simulation, STM32 port | replace drivers around the same core |
| logo interpreter | a language of its own for plans, not in the default build; planned |
| parameters, flexi functions | one cursor over a table, answered an entry at a time; no level shares more than that cursor |
| the log, counting radio pulses, byte level of I2C1 | planned, below |
| the two buffers for received messages, acknowledgements of commands | a message is handled as received; which answer is dropped is not a promise of the code |

## 10. Plan

In this order.

1. `I2C1`: the byte machine, its error flags, reset and refused starts. Shown to
   implement the abstract transfer of `NvMemory` (busy, free, stopping). Properties:
   every transfer ends, one answer for each, collision bits that nobody clears.
2. `TelemetryLog`: two buffers, two levels, swap, and an append at the end of a full buffer.
3. `RadioIn`: the counting of pulses below the `linkGood` of `FlightStates`, refined by it.
4. `FindHole`: the scan of `storage_find_hole`, against a reference definition.
5. `LogoInterpreter` and `ParamProtocol`: the same levels, other data.

Theorems to come: that `I2C1` implements the transfers of `NvMemory`, and the invariants
of the modules above.
