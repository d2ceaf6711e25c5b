# TLA+ verification of Tesla CAN Modder

Tesla CAN Modder is ESP32 firmware that reads and injects frames on up to three CAN buses of a
car, a protocol package in TypeScript, a client that talks to the firmware over serial, BLE or
HTTP, and bench tools. This directory holds its TLA+ models, the TLC configurations that check
them, and proofs for TLAPS. The models are translated from the source; a documented promise that
the source does not keep is stated as it is documented and refuted by TLC.

    tlc -workers 2 -config Saved.cfg MCSaved           # any row of "Runs" below
    tlapm CarProofs.tla                                # any module of "Proofs" below

`PROJECT.json` maps every definition to the lines it stands for (`map`), lists the runs, a mutant
of the code for every property (a plausible bug under which the property fails), the divergences
found, the hazards of the code by line, and the theorems.

## 1. The system

Paths are relative to `src/firmware/lib` unless they say otherwise.

### Tasks and their shared state

The ESP32 runs two tasks that matter here:

* The **main loop**, `loop()` in `src/firmware/src/esp32/main.cpp`. One pass is `serialTick` (drain
  USB, then BLE bytes, executing each complete line; button; `gamepadDriveTick`; `dasTick`),
  `wifiTick` (HTTP requests, MQTT, gamepad scanning and reconnection), the test for bus silence,
  and then either standby (reinitialise the controllers now and then, wait for one frame) or the
  periodic injection ticks, the error poll and the loop that reads and handles all frames.
* The **NimBLE host task** on the other core: connection callbacks, writes to the command
  characteristic, gamepad reports, notifications of the car.

The **client** is a web page: one task at a time, an `await` ends a step, and a handler reads the
state of the render it was made in. The **tools** are Node programs around one serial session, which the
HTTP bridge shares between requests. Client and tools speak to the firmware in lines of text, without
request numbers, over a link on which the board also prints unasked.

The firmware's tasks share global variables without locks: `gpAxes`, `gpConnected`, the gamepad event queue, and
`bleRxBuf` with its two atomic indices. The MCP2515 **interrupt routines** share `mcpFrameReady` with
the loop. Power loss can come between any two flash puts. Everything else is sequential, and what
is hard about it is the order in which commands, frames, silences and resets can come.

### Components

| Component (code) | State | Operations | What makes it correct |
|---|---|---|---|
| DAS drive (`vehicle/can/feature/das/das_drive.h`) | arming, active flag, cancel counter, last request, commanded angle, four time stamps, cap and limit, NVS namespace `tcm_das` | enable, disable, `drive:` commands, request, cancel, tick, save, load | control ends when requests end; the CANCEL burst is never lost; frames stay in the envelope; a crash never mixes configurations |
| Gamepad drive (`client/gamepad/drive.h`) | axes, connection, enabling | connect, disconnect, report, enable, pair, unpair, tick | a lost pad ends control; brake excludes throttle; limits are obeyed at once |
| Gamepad input (`client/gamepad/{events,api,ble,storage}.h`) | event queue, hold stamps, bindings, scan and retry counters | press, release, hold, execute, scan, reconnect | an event is executed once, in the session it belongs to |
| Injection ticks (`vehicle/can/handler/ticks.h`, `burst.h`) | frames owed, time stamps, cached frames | summon, precondition, drive mode, seat-belt, simulation, bursts | what is owed is sent or dropped, never from stale bytes, never at an unrelated time |
| Injection gate (`core/types.h`) | enforced, parked, autopilot, summon | `apGateOpen`, written by frames, loop and commands | open in a drive gear only under autopilot or a summon |
| CAN driver (`core/driver`) | availability, ready flags, buffers, one-shot mode | init, reinit, read, error poll | a bus that delivers is heard; a deaf board recovers |
| Acceptance filters (`vehicle/can/handler/filters.h`) | programmed identifiers | recompute, program, lose on reset | the controllers accept what the settings call for |
| Settings (`core/persist/esp32/board.h`) | 41 values, flash | save, load, commands, frames | a restart keeps what was saved; crash yields old or new; a pin is the client's |
| BLE command link (`io/ble/esp32`) | receive ring, connection | write, connect, disconnect, stop, restart, read | a queue between two cores |
| Line assembly (`io/serial/usb/esp32`) | one line buffer per transport | take a character, parse, execute | lines neither mix nor repeat; a loss is contained |
| Command dispatch (`client/command`) | none of its own | parse and execute about 100 commands | refusals leave nothing behind |
| Vehicle, chassis, body handlers (`vehicle/can/handler`) | `State` | decode, detect, cache, echo | the state the others read |
| HTTP API (`client/api`) | none | command, status, kill switch | the kill switch disables |
| Tesla BLE session (`vehicle/ble`) | session, counters, receive buffer | connect, authenticate, exchange | a response is paired with its request |
| Frame ring, log ring (`core/can`, `core/log`) | indices of one producer and several consumers | push, read, lap | no entry twice, losses counted |
| Protocol package (`src/packages/protocol/src`) | pictures of the board, lifecycle of commands | parse, reduce, gate, encode | the values lost between firmware and picture are known; lists kept by hand agree |
| Client transports (`src/client/src/hardware`) | in-flight request, timers, readers, pending answer | connect, send, time out, swap, disconnect | every request settles; a piece of text answers one; the link is given back |
| Client handlers (`AppExperience.tsx`, `state/*Context.tsx`) | two pictures, selection, pauses, calls under way | select, connect, command, status, pause, clear | what was read before an await is still right after it |
| Client store (`useDiagnostics.ts`, `state/*Persistence.ts`) | lists shown, IndexedDB, localStorage | load, push, save, close | a reload shows what was shown; no save takes what is already stored |
| Client tabs (`screens`, `appRoute.ts`) | route, address, confirmation, flashes | navigate, tap, report, flash | a confirmation confirms what asked for it; a paused feed resumes |
| Serial session and tools (`src/tools`) | unclaimed lines, waiters | request, wait, time out | no wake-up is lost; every request and tool ends |

`PROJECT.json` has the full list of 33, with what is not modelled and why.

### What is hard

In order of what it can cost: a requester that disappears while control frames are being sent;
periodic senders whose permission, cached bytes and remaining counts are cleared in different
places; resets in the middle of 41 puts; two cores on one ring and on one axis array; interrupt
flags and the resets that lose filters and modes; several clients' bytes becoming one line;
time-outs racing late answers in the client. The hazards in `PROJECT.json` name the lines.

## 2. The models

### DasLimits, DasDrive, GamepadDrive

`DasLimits` holds the clamps as operators in integers (degrees, hundredths of m/s²).
`DasDrive` is the component alone: its callers may do anything its interface allows, in any order.
`DasTick` is the whole of `dasTick`: the dead-man test, the three schedulers, lateral clamp then
rate limit, the fields of `DAS_control`, and the cancel counter. Time is in 20 ms units; each
`...LastMs` stamp is replaced by its age as of the `now` of the current pass, saturating where
the code's comparison can no longer tell. The three puts of `dasSaveNvs` are three steps, and
`Reboot` may come between them.

`GamepadDrive` EXTENDS it with the place it runs in: `pc` walks `serialTick` from the commands
through `gamepadDriveTick` (its early returns, `DriveGate`; the read of the axes, `DriveAxes`) to
`Tick` and the next sample of the clock, while `OnConnect`, `OnDisconnect` and `Report` of the host
task happen between any two of these. Its property `ImplementsDasDrive` is the specification of
`DasDrive`: the loop uses the component as the interface allows. History variables: `owed` (CANCEL
frames the bus has not seen), `committed` and `torn` (what the flash should hold), `lossAge` (time
since the pad could be read), `panic`.

### CanLoop

The CAN half of the loop, one phase per step: commands, `BeginPass` (samples `apGateSummoning`, tests
for silence), `StandbyIdle`/`StandbyWake`, `Ticks`, `Read`, `EndPass`. Each command is an action with
the refusals of the dispatcher as guards. `stale` remembers which cached kinds were captured before
the last silence, `killed` that the kill switch came last, `out` what the last step transmitted, and
`gear` what the car last reported. All one-shot features share the one burst of the code, so one
action stands for all of them. A *session* bounds a run to a group of commands that interact.

### CanDriver

Three controllers with their buffers, INT lines and modes, the interrupt flag, and the steps of
`driverRead`: find a ready bus, read over SPI, clear the flag. `Arrive` is the interrupt, `GoBusOff`
and `ComeBack` the error states; initialisation fails for any subset of the *flaky* controllers. The
filters keep the code's order and its cut at six slots (40 identifiers are asked for on the vehicle
bus; the six that fit are named, the rest are one value). `set` holds the settings the filters follow.

### Settings

All 41 keys in the order of `saveSettings`, one put per step, with a reset possible between any two;
a put of the value already stored changes nothing and is passed over. Commands are those of
`dispatch.h` with their validation and refusals (before and after the gate that needs a control
frame); `Car` holds the frames that move variant, profile and offset behind the client's back;
`Disable` is the kill switch; `Restart` is `setup()`, including the oscillator it overwrites and the three fields
without a key (`volatile`) it clears. `before`, `chosen` and `moved` are history: what a reset would have loaded
when the save began, what the client pinned, and what frames and the kill switch changed since the last save.

### ByteQueue, CommandLink

`ByteQueue` is what a receive buffer promises: a bounded queue whose writer publishes whole writes.
`CommandLink` has the two tasks' loads and stores as steps: the host's test of the tail, its store and
its publication of the head (`callbacks.h`), the loop's two loads and the store of the tail
(`print.h`), `handleChar` and `parseRpcCmd`, and the commands that stop and start the radio. A byte
carries the line it came from, which only properties read. `Queue == INSTANCE ByteQueue WITH ...` maps the
ring to a queue: what lies between tail and published head, what lies between that and the
host's private head, what was refused, what was handed over.

### ClientLink

The controller with its three transports and the two adapters of the browser below them, a step per
stretch of code between two awaits. `call[s]` is the caller's promise and `op[s]` the operation started
for it, which goes on after the caller has timed out; that difference is what the properties are about.
The board sends numbered *pieces* of text, whole lines or not, whenever it likes. `port` and `gatt` are
the page's serial port with its stream locks and the BLE device. The client itself never opens
the port (see `web_serial`); so that the serial transport is modelled beyond its first refusal, `Init` lets the port
be open already, by another page element or an earlier adapter.

### BoardSession, SerialTools

`BoardSession` is `lib/session.js`: the queue of lines nobody waited for, the waiters with their predicates
and timers, and a client as a script of steps, each ended by an `await`. `SerialTools` writes each command
of `debug.js` and each request of the bridge as such a script. The board (external) executes its
commands in order when it can, prints besides, may refuse, and the cable may be pulled.

### CommandTables, BoardMessages, BoardReducer, BoardPicture

Functions, without state. `CommandTables` has the commands with the arguments they accept, the gates and the
setting rows. A message is its type and a function from paths to values; `BoardMessages` has the fields of the types,
the liftings of `parser.ts` as tables from a result path to the paths it may come from, and the cutting of chunks into
lines; `BoardReducer` has each `apply...` as a table of rows. `BoardPicture` has what the *firmware* prints
(`messages.h`) and asks what of it arrives. `NoField` lists what `BoardState` has no field for, `Dropped` what it has a
field for that no status sets.

### ClientApp, ClientViews, ClientStore, FrameViews

`ClientApp` has the handlers of the Console and of the contexts and their two pictures, `app` and `ctx`. A call
keeps what its handler read before the await: gate, selection, pause flags. `ClientStore` is the life of one page on
one store: a load and each save may fail in IndexedDB, and the page may close with saves under way; `failedLoad` is history: this
page was loaded without the record that IndexedDB holds. `ClientViews` and
`FrameViews` hold the functions they share: readiness, gates, both command lifecycles, displays; the viewing
pipeline, ingestion, exports and the timeline. `Selections` is JavaScript's `filter` and stable `sort`, written by positions:
the library's `SelectSeq` and `SortSeq` say the same, but the first has no definition a prover may expand and the second is a
`CHOOSE` that ties leave open.

### ControlPanels, Screens

`ControlPanels` says what each button of the Controls sends when certain facts hold of the picture. `Screens` has the
route and the address bar with its events on their way, the confirmation of high-risk commands, and
the Flasher's build and flash jobs with each `await` that may fail, on a screen that may be left.

### MC modules

The MC modules give the constants their values; no configuration replaces a definition. `MCCarFrames` EXTENDS `CanLoop` and
`GamepadDrive`, `MCSaved` `Settings` and `DasDrive`, `MCBoardLinks` `CommandLink` and `CanDriver`, `MCClients` `Screens`, `SerialTools`,
`ClientApp`, `ClientStore` and `FrameViews`. Each checks these independent
programs in one run (that is why their specifications have names of their own: `PassSpec`, `LoopSpec`, `SettingsSpec`, `DriverSpec`, `SessionSpec`,
`AppSpec`, `StoreSpec`): `program` chooses one at first, the others stay in an initial
state in which nothing was asked of them, so the state space is the sum and not the product. The functions
are evaluated in the one state of `program = "tables"`.

## 3. Runs

A run holds the questions that share an instance.

| Run | Module, configuration | Question |
|---|---|---|
| `saved` | MCSaved, Saved.cfg | Resets between and within saves of the settings and of DAS drive; DAS drive alone under every order of requests, commands, ticks, speeds and stalls |
| `pad_loop` | MCGamepadDrive, PadLoop.cfg | The loop with the host task, under fairness: refinement, loss of the pad, delivery of the burst |
| `car_frames` | MCCarFrames, CarFrames.cfg | What pedals and summons put on the bus: both triggers with limit commands; ticks, cache, gate and kill switch |
| `can_live` | MCCanLoop, CanLive.cfg | Summons and bursts end; deaf controllers are reinitialised |
| `board_links` | MCBoardLinks, BoardLinks.cfg | Filters and hearing through interrupts, bus-off, failures and commands; the receive ring, losses, disconnections and radio restarts |
| `client_link` | MCClientLink, ClientLink.cfg | Requests of the client over HTTP, BLE and serial, with swaps, disconnections and time-outs |
| `clients` | MCClients, Clients.cfg | Tools, handlers, store, tabs; tables, messages and views |
| `pad_panic` | MCGamepadDrive, PadPanic.cfg | *violated:* `gamepad:cancel` is a panic stop |
| `das_disarm` | MCGamepadDrive, DasDisarm.cfg | *violated:* `drive:off` sends the CANCEL burst |
| `can_disable` | MCCanLoop, CanDisable.cfg | *violated:* `/api/disable` disables all injections |
| `settings_flags` | MCSaved, SettingsFlags.cfg | *violated:* region spoof, lane change confirmation and AP-First are persisted |
| `web_serial` | MCClientLink, WebSerial.cfg | *violated:* a serial port is opened before it is passed to its transport |

### What the passing runs show

* **saved, DAS drive.** `CancelOwedIsQueued`: whatever ended control - dead-man, `gamepad:cancel`,
  `drive:off`, in any sequence with requests that resume - the CANCEL frames the bus has not seen are
  queued. It says queued, not sent: after `drive:off` nothing is sent (`das_disarm`). `ControlEnvelope`: every
  `DAS_control` frame asks for a speed within the cap in force when it is sent, also for a request made before the cap
  was tightened, and for accelerations inside their envelope. `LateralClampConverges`:
  an engaged angle moves by at most a rate step and, when the car has become too fast for it, goes
  towards centre by the full step until it is inside. `CrashAtomicConfig`: a boot loads the old or the new
  configuration; the order of the puts and the clamp on loading are what makes it hold.
* **pad_loop.** `LossStopsControl`: no engaged frame later than the dead-man time after the last
  pass that could read the pad, wherever the loss falls in the loop. `BurstDelivered` and
  `LinkLossEndsControl`: under the loop's fairness control really ends, and the burst really goes out as long as the
  feature stays armed; `drive:off`, which stops the sender with the burst in the queue, is exempt by the formula.
* **car_frames, the pad.** `PedalsExclusive`, though two reports may mix in the unlocked read and requests
  outlive reports; `UserLimitHeld`, because `gamepadDriveTick` always makes a new request between a
  command and the frame.
* **car_frames, the pass.** `SummonArmed`: a summon in progress always has its permission and its cached
  frame - no silence, stop, refusal or disable leaves frames owed that would be sent later.
  `FreshFrames`: summon and drive-mode frames never come from bytes older than the last silence.
  `KillSwitchHolds`: after `/api/disable` neither summon nor FSD until something is enabled.
  `OnlySummonOpensInDrive`: the gate flag sampled at the head of the pass is that of a summon in
  progress in that very pass. It starts from the gear the car *last reported*: standby asserts "parked".
* **can_live.** `SummonAdvances`, `BurstAdvances`, `DeafRecovers`.
* **board_links, CAN.** `FiltersFollow`: after commands, inferred variants, bus-off resets and failed
  reinitialisations every available controller accepts at least what `applyFilters` would program now
  (the kill switch alone leaves them behind); that it accepts nothing else is not stated. `HearingReturns`: any mixture of lost
  interrupts, bus-off and failed controllers that makes the board deaf on all buses ends in a reinitialisation. The scan
  from bus 0 can starve the other buses; nothing is stated about them.
* **saved, the settings.** `RestartKeepsSaved`, `CrashLoadsOldOrNew`, `PinnedIsChosen`. The exceptions of the first are
  in its statement because they are in the code: an unpinned variant, profile or offset that a frame changed since the
  last save; profile 1, which leaving LEGACY writes over a pinned profile; FSD that the kill switch turned off since the
  last save (it saves nothing); and the oscillator, which `setup()` overwrites (`ClockSurvives`). It speaks of the settings
  that `saveSettings` has a key for; three fields have none (`settings_flags`).
* **board_links, BLE.** `ImplementsQueue`: the ring is a queue of Size - 1 bytes for every interleaving.
  `LossIsContained`: a dropped byte, an overlong line or a central that vanishes costs that line and at most
  the next. `WaitingBytesAreTaken`: liveness.
* **client_link.** `PieceAnswersOnce`: a piece of text settles at most one request of its adapter, whoever
  timed out meanwhile (that it answers *the right* request cannot be had: lines carry no request number).
  `EveryRequestSettles`: every call and every disconnection ends by the code's own timers, whatever the board does,
  except while the body of an HTTP answer never ends, which no timer watches; the exception is in the statement.
  `LinkIsReleased`: an adapter's pending answer and a stream's reader lock are given back also after a time-out.
* **clients, the tools.** `NoLostWakeup`: no client sleeps while the line it asks for is in the queue. `EveryClientEnds`:
  a request of the bridge is answered and a tool ends, with a silent, talkative, refusing or unplugged board.
* **clients, the handlers.** `SentWhereAsked`: a command of the Console goes over the transport that was selected when it
  was given, though the user may select another while a device is picked. `PauseFreezesOnceQuiet`: once the calls begun
  before the pause are answered, nothing moves a paused feed. The flag being captured by the call is why "once".
* **clients, the store.** `ReloadRestores`: when the saves are written and the last one reached IndexedDB, or localStorage while
  IndexedDB holds no record, a reload shows the three lists as they are shown, whatever failed before.
  `SavesKeepEntries`: no save and no closing of the page takes an entry from the record a reload finds, except those that newer
  ones push out, unless the page failed to read the record in IndexedDB. What the two leave out does not hold
  (`FallbackRestores`, `EntriesArePersistent` below).
* **clients, the tabs.** `RouteFollowsHash`, `ConfirmationIsFresh` (a high-risk command of a list needs two taps of it in a
  row) and `FeedResumes` (flashes that fail, overlap or outlive their screen).
* **clients, the functions.** `TablesAgree`: what settings and panels offer exists and is accepted, no command belongs to two
  settings, gates guard commands that exist, with two exceptions that the statement names: the gate `nag` guards nothing
  (`DeadGates`, see `NagNeedsChassis` below), and a list of the Controls sends `mirrorAutoFold` without its flag (`NotAccepted`).
  `LossesAreListed`: the values of the firmware's full status that do not change the picture are exactly six that it has no
  field for (`NoField`) and seven that it has (`Dropped`, see `WiredEndToEnd` below); the partial messages agree with the full
  one, the reducer reads the fields the types declare but for those listed beside each type in `TypedMessages`, and lines
  come out the same wherever they are cut. `ViewsAgree`: button,
  state and sender agree on a gate, the two command lifecycles agree, the pipelines, exports and the timeline agree.

### What the violated runs show

* **pad_panic.** `docs/reference/wifi-api.md:213` calls `gamepad:cancel` a panic stop. With the pad
  connected the next line of the same pass, `gamepadDriveTick`, requests control again
  (`drive.h:54`), which makes `dasActive` true before `dasTick` could send a CANCEL frame.
* **das_disarm.** `docs/guides/das-drive.md:102` says `drive:off` disarms and emits a five-frame cancel burst, and
  `das_drive.h:36` that the frames go out before the feature goes silent. They are queued, and `dasTick` sends nothing while
  disarmed (`das_drive.h:433`, `450`, `479`): the car sees no CANCEL frame unless the feature is armed again.
* **settings_flags.** `docs/reference/commands.md:605` says the region spoof is persisted, `types.h:535` and `642` say it of the
  lane change confirmation and of AP-First. Their commands save, but `saveSettings` has no key for them.
* **can_disable.** `docs/reference/wifi-api.md:68` says the kill switch disables all injections.
  `routes.h:385` clears two flags; a queued burst and the periodic frames go on.
* **web_serial.** `transport.ts:271` makes callers responsible for opening the port before they pass it.
  `requestRuntimeSerialPort` (`runtimeAdapters.ts:354`) passes the port as the picker returned it, and the first command
  is refused because the port is not open.

### Expectations that do not hold, stated without a run

TLC refutes each of these in the models; they stay beside the modules as the precise form of what the code does not
give, and no configuration lists them.

* `StickSteers` (GamepadDrive): `docs/guides/das-drive.md:39` says the left stick steers. `onDisconnect` zeroes the axes
  (`ble.h:46`), 0 is a stick held full left, and a reconnected pad drives before its first report.
* `PendingIsFlagged` (CanDriver): `board.h:37` says the flag means a pending frame. `driverRead` clears it after the read
  that found nothing (`board.h:123`); a frame between the two stays unflagged, with INT low and no edge to come.
  `HearingReturns` is what the code gives instead.
* `NagNeedsChassis` (CommandTables): `gating.ts:51` says the nag control requires the chassis bus, under a key, `nag`, that is no
  command; `nagMode` and `nagBypass` are available without it. `TablesAgree` has it as an equality, `DeadGates`; it is a finding.
* `WiredEndToEnd` (BoardPicture): `CHANGELOG.md:130` says `nagOrgBypass` and `rawCan` are wired end to end. `applyBoot` and
  `applyStatus` set neither, and the one message whose handler would does not carry them; five fields of the driver assist share
  their fate. `LossesAreListed` has the seven as an equality, `Dropped`; they are a finding.
* `FallbackRestores` and `EntriesArePersistent` (ClientStore): `CHANGELOG.md:244` says the diagnostics persist in IndexedDB with
  localStorage as the fallback. What a failed save put in localStorage is not read while IndexedDB holds an older record
  (`monitorDiagnosticsPersistence.ts:168`); and a page that fails once to read IndexedDB shows empty lists and saves them over the
  record (`useDiagnostics.ts:67`, `91`).
* `ClockSurvives` (Settings): `can_clock.h:19` says the oscillator is persisted. It is, and `setup()` overwrites what was loaded
  (`main.cpp:49`).
* `NotLeftArmed` (SerialTools): `das-drive toggle` leaves the board armed when its last command is lost or it began armed.
* `HighRiskConfirmed` (Screens): the release checklist asks for a confirmation of high-risk actions; panels that use
  `runDirectCommand` send without one.
* `RefusedMeansNotActive` (ClientApp): a refusal of the Controls says the transport is not active, from a readiness computed in an
  earlier render.

### Bounds, and why they are enough

* *DasDrive*: 2 CANCEL frames (code: 5), 2 units for the 40 ms and 100 ms intervals, a dead-man of 2
  units (code: 150 ms). Each counter is then at zero, in the middle and full, each timer due and not due,
  and all combinations of due timers occur; a stall of 8 units exceeds every interval. Three requests lie on both
  sides of the angle, below the brake floor, above the throttle ceiling and above the cap, command arguments below and above the range, and two speeds give a wide and a
  narrow lateral limit. `pad_panic` uses the code's own values; `das_disarm` the small ones. The theorems hold for all values.
* *GamepadDrive*: stick full left or centred (full right mirrors left), triggers released or pressed. `car_frames` has a VIEW without the history
  variables of the pad, which its properties do not read and on which no action's guard depends: two states it identifies
  have the same futures as far as those properties see.
* *CanLoop*: 2 frames per burst (first and last), timers of 1 and 2 ticks, one kind of cached frame per
  feature, four groups of commands. Commands of different groups touch disjoint state except
  for the gate and the silence, which every group has.
* *CanDriver*: the first bus and one flaky bus, one buffered frame, four groups of commands; a second frame in a buffer
  behaves as the first. A third bus behaves as the second.
* *Settings*: all keys, 14 sessions that each bring together what can overtake each other; arguments
  below, within and above each range. Any number of commands, saves and resets in any order.
* *CommandLink*: 3 slots, so each write meets the ring empty, full and wrapping; lines of up to 5
  units in a buffer of 4; writes of 1 or 2 units; three lines - spoiled, overlong, good - so that a loss can be seen to end.
  The lines are finite, so the run is. Both theorems, about the ring and about losses, are for every size and all lines.
* *ClientLink*: two requests (one to time out, one to be answered by its late answer), two adapters (a swap), two pieces (a cut
  line). Four plans keep HTTP, BLE with a disconnection, BLE with a swap, and serial apart; no state but the controller's is shared between them.
* *BoardSession*: two clients for the bridge, whose requests overlap, one for a tool; one unasked line, which may be of a kind a
  waiter asks for. *ClientApp*: two calls, feeds of 2 and 3 entries instead of 100 and 200, so that they fill; the plans pair each way to
  ask with each thing the user may do meanwhile. *ClientStore*: three entries in lists of 2, two faults. *Screens*: two queued events, two
  jobs, a command with and one without a confirmation. The proofs of ClientsProofs have none of these bounds.
* *The functions*: boards that differ from a first one in one value, texts of up to 5 characters of the four kinds a parser tells
  apart, feeds of up to three frames, all subsets of the facts a panel asks about.

Deadlock is checked in every run but `client_link`, `web_serial` and `clients`: requests, scripts and calls are finite there, and a
program that has done them stops.

### Fairness

* *GamepadDrive* (`LoopFairness`): weak fairness of the steps of a pass, strong fairness of leaving the
  command phase (input buffers are finite) and of a pass that takes some time. `serialTick` has no
  other way to wait. Nothing is assumed of the pad or the client.
* *CanLoop* (`FairSpec`): `loop()` is called forever by the Arduino core; the read loop ends, which holds as
  long as frames come slower than they are read. The time it takes is not modelled (see hazards).
* *CanDriver*: weak fairness of the loop's next step only.
* *ClientLink*: due timers run, and so does the code after a settled promise; nothing is asked of the board, the network, a write in progress or the user.
* *BoardSession*: the process runs its code and its timers. The handlers, store and tabs have safety properties only.
* *CommandLink*: the host's callback runs to its end and the loop runs. No central is obliged to act.

## 4. Proofs

Every theorem below is checked by TLAPS from the named assumptions on the constants in the module
that declares them. Most say that counts and intervals are positive and that requests and arguments are integers. The others:

* `NewlineAssumption` (CommandLink): a line of the central is not empty, ends in a newline and has no other. It says what a
  *line* is in what a client sends; text without a newline ends no line, and the property speaks of ended lines only.
* `CapsAssumption` (ClientStore): a list never grows beyond what a record keeps of it. The caps are 20, 20 and 400
  in `useDiagnostics.ts`, and `sanitizeState` cuts to 200, 200 and 400; with a larger cap a reload would lose entries.
* `RequestsAssumption` (ClientLink): `None` is not a request. A model value standing for "no request".
* `PadAssumption` (GamepadDrive): what the pad reports are bytes, and the requests DasDrive may be asked include those it makes.

| Module | Theorem | States |
|---|---|---|
| CarProofs | `TypeCorrect` | `Spec => []TypeOK` |
| | `BurstQueued` | `Spec => []CancelOwedIsQueued` |
| | `EnvelopeHolds` | `Spec => ControlEnvelope` |
| | `LateralClamp` | `Spec => LateralClampConverges` |
| | `CrashAtomicity` | `Spec => []CrashAtomicConfig` |
| | `LoopImplements` | `LoopSpec => ImplementsDasDrive` |
| | `LossEndsControl` | `LoopSpec => []LossStopsControl` |
| | `PedalsStayExclusive` | `LoopSpec => []PedalsExclusive` |
| | `LimitHolds` | `LoopSpec => UserLimitHeld` |
| | `LoopKeepsDasDrive` | `LoopSpec => []CancelOwedIsQueued /\ []CrashAtomicConfig` |
| | `PassTypeCorrect` | `PassSpec => []PassTypeOK` |
| | `FreshAlways` | `PassSpec => []FreshFrames` |
| | `SummonAlwaysArmed` | `PassSpec => []SummonArmed` |
| | `KillSwitch` | `PassSpec => []KillSwitchHolds` |
| | `SummonClosesItsGate` | `PassSpec => OnlySummonOpensInDrive` |
| | `FramesImplement` | `FramesSpec => LoopSpec /\ PassSpec` |
| | `FramesAreSafe` | `FramesSpec =>` all six properties of `car_frames` |
| CanDriverProofs | `FiltersAlwaysFollow` | `DriverSpec => []FiltersFollow` |
| | `OneShotStaysWanted` | `DriverSpec => []OneShotIsWanted` |
| SettingsProofs | `SavedSurvive` | `SettingsSpec => []RestartKeepsSaved` |
| | `CrashedSaveLoads` | `SettingsSpec => []CrashLoadsOldOrNew` |
| | `PinnedStaysChosen` | `SettingsSpec => []PinnedIsChosen` |
| CommandLinkProofs | `RingIsAQueue` | `Spec => ImplementsQueue` |
| | `LossStaysContained` | `Spec => []LossIsContained` |
| ClientLinkProofs | `OneAnswerPerPiece` | `Spec => []PieceAnswersOnce` |
| ClientsProofs | `TheRouteFollows` | `Spec => []RouteFollowsHash` |
| | `ConfirmationsAreFresh` | `Spec => ConfirmationIsFresh` |
| | `TheFeedResumes` | `Spec => []FeedResumes` |
| | `RequestsGoWhereAsked` | `AppSpec => []SentWhereAsked` |
| | `PausedFeedStandsStill` | `AppSpec => PauseFreezesOnceQuiet` |
| | `GoodSavesAreRestored` | `StoreSpec => []ReloadRestores` |
| | `SavesAddToWhatWasFound` | `StoreSpec => SavesKeepEntries` |
| | `SleepersAreWoken` | `SessionSpec => []NoLostWakeup` |
| | `CutsAreInvisible` | `CutAgrees(text, k)` for every text of the port and every place `k` to cut it |
| | `ClientsImplement` | `ClientsSpec => SessionSpec /\ AppSpec /\ StoreSpec /\ Spec` |
| | `ClientsAreRight` | `ClientsSpec =>` the safety properties of `clients` but `TablesAgree` and `LossesAreListed` |
| ViewProofs | `ViewsAlwaysAgree` | `ClientsSpec => []ViewsAgree` |
| | `LifecyclesAlwaysAgree` | `LifecycleAgrees(t)` for every sequence `t` of events of `BusCap` commands in which none is sent twice |
| | `GatesAlwaysAgree`, `DisplaysAlwaysAgree` | `GatesAgree`, `DisplaysAgree` |
| | `PeaksAreThePeaks` | the captured peaks of every sequence of integers are its extremes |
| | `TimelineKeepsTheNewest` | `KeepsNewest` of the timeline of any lists |
| | `StatsAlwaysAgree` | `StatsAgree` of any history shorter than 200 |
| | `PipelineShows` | `applyFrameViewingPipeline` is `Shown`, for any feed, filter, window and step |
| | `IngestionShows` | `IngestionAgrees` for any feed, split, pause and capacity, and views within the limits of the code |
| | `ExportsShow` | `ExportAgrees` for any feed in the order of its times and any data set |

The arguments, where the property is not inductive by itself:

* *Crash atomicity.* `ConfigInv` says how far the puts have got: what is in flash is a prefix of the
  new configuration followed by the old, and a command changes only the arming, or only the limit, or the cap with the
  limit it pulls down. Hence each prefix, clamped by the loader, is one of the two.
* *Lateral clamp.* The lemmas at the head of `CarProofs` bound the clamp and the rate limit; the order of the two is
  what the theorem rests on.
* *Loss of the pad.* `LossInv` ties the age of the loss, which no code can see, to the age of the last request,
  which `dasTick` tests: a request is at least as old as the loss, since it is made only in a pass
  that has read the pad.
* *Pedals.* `PedalInv`: a request that brakes harder than the standstill hold asks for no acceleration and no speed, for
  every mixture of bytes the unlocked read can give, and keeps that form however long it is held.
* *User limit.* `LimitInv`: in the last phase of a pass, with the pad readable, the request was made after the last command,
  so it is within the limit as it is now.
* *One run of several programs.* `FramesSpec` and `ClientsSpec` implement each specification they are made of: a step of one program
  is a stutter of the others. What is proved of each then holds of the specification TLC checks.
* *The component in its loop.* `LoopKeepsDasDrive` needs no invariant: the refinement carries what is proved of DasDrive.
* *Summon.* `SummonInv` adds that standby has an empty cache and is left before the ticks, that a killed
  firmware has nothing owed, and that in the tick phase the sampled gate flag is the summon of this pass.
* *Fresh frames.* `FreshInv`: a kind that is cached is never stale.
* *Filters.* `FilterInv` adds that the settings have their types; the lemmas say that the slots
  taken from a prefix are among those taken from the longer list, which is why a decoded variant
  that shortens the list does not need reprogramming.
* *One-shot mode.* `OneShotInv` adds that a controller in one-shot mode is available: `singleshot:off` passes over the others, and
  whatever takes a controller away sets it to normal mode. Only this direction holds: programming filters ends in normal mode, so a
  controller may lack the one-shot mode that is set.
* *Restart.* `SettingsInv`: while a save runs, every key before the next put is stored with its value in
  force, whatever flash it began on and whichever puts were passed over; between commands a key that is not has moved since.
* *Interrupted saves.* `CrashInv` adds that the two marks are put first: a flash without them holds nothing else and loads as an
  empty one, and the put of any other key changes what a reset loads in that key alone.
* *Pins.* `PinInv`: what is pinned was chosen, in the settings in force and in what a reset would load, and if a reset would load
  a pin then the value in force was chosen too, pinned or not. The last is needed because a save stores value and pin in
  two puts: between them the flash holds the one of an older command beside the other of a newer one.
* *Queue.* `LinkInv`: the indices and the host's private head divide the ring into waiting, staged and free slots,
  with one free slot at least (`HostAhead`), and the byte the loop holds is the one at the tail
  (`LoopReads`). `StoreAppends`, `BetweenConcat` and `BetweenTail` say what one store or one step of an index
  does to the sequence between two indices. The spare slot is what makes the order of the loop's load and store harmless.
* *Losses.* A byte in the model tells its line but not its place in it, and a line may have the same unit twice. `LossInv` therefore
  says that there *are* places for the bytes in the air (in the ring, in the host's hands) and a place `h` handled last: the places are in the
  order of sending, lie between `h` and the central's next place, and no place between the two of a line that lost nothing
  is missing (`InAir`). Every step adds a stretch of places, takes the first, drops one and spoils its line, or moves none
  (`AirWritten`, `AirTaken`, `AirDropped`, `AirStored`). `Reading` says what is in `handleChar`'s buffer: nothing after a newline, and in
  a whole line after a whole line just what was read of it, in order, or the mark that it has overflowed. A newline then
  executes what the line means. `Meant` is defined on the whole line, and `WholeLineMeant` is where the two meet.
* *Pieces.* `TextInv`: every piece is in at most one place - on its way, in a buffer, in an answer - where places are counted per
  transport (`Placed`), and only a request that was made is answered, on the transport it was made on (`Answerable`).
* *Route.* An address written by `buildHashRoute` is read back as the route it was built from, except for the document of a
  tab other than Docs; the lemmas say when navigation leaves the address, and so sends no event, and that the route is then right already.
* *Confirmation.* The invariant: a pending confirmation is for the command tapped last, in a list, unsent.
* *Feed.* The invariant: while the feed is paused some job is between its pause and its `finally`; no other step
  pauses it, so the number of jobs does not matter.
* *Requests of the Console.* `AppInv`: each call carries the selection of its own beginning, and that is the transport of the adapter it is sent on.
* *Pause.* A call that is under way when all is quiet captured the pause, and an answer then leaves the frames and their number (`AnswersFreeze`).
* *Reload.* `StoreInv`: the record written last, or the last on its way, is what is shown. It rests on `SanitizedIsWhole`: what
  is read of a record is the record, since no list is longer than `CapsAssumption` allows.
* *Saves.* `KeepInv`: on a page that read its record, the record a reload finds, the records on their way in their order, and what is
  shown form a chain (`Chained`) in which each keeps those before it; keeping is reflexive and transitive (`RecordsKeep`), with the
  number of entries added in front, cut to the capacity, as the witness. A save then only moves the first link.
* *Wake-ups.* `WakeInv`: queue and waiters are sequences, and the property itself; `Selected`, `Removed` and `DrainedFacts` say what the
  searches, removals and the folded filter of the session do to them.

* *Selections.* The positions a filter keeps are a chain: the one of rank `k` is the only one with `k` positions before it, so the
  selection has one element per position, in order (`OrderedFacts`, `SelectionFacts`). The sort is the same of another order.
* *Pipelines.* Filter, window and sampling each keep positions of what they are given; `PipelineShows` composes the three and finds the
  positions by their rank. `IngestionShows` first says what any order of frames, a pause and a resume leave in the buffer and the counters
  (`TakenInAll`), which is the newest frames that fit, and then applies the other.
* *Exports.* Their lists of lists are joined by a fold (`FoldEquations`): the lines of a frame are its signals or one empty
  line, so each frame shown has a line, and a time with a signal is one of a decoded frame. A feed in the order of its times has the ends that
  `timeframe` says. The positions are of times, so frames of one time are counted once, and the statement says so.
* *Timeline.* A stable sort and a cut: what is cut is behind all that is kept.
* *Statistics.* The bound of 200 is needed: 199 successes of 200 round to a hundred percent.
  The client keeps 20 (`AppExperience.tsx:367`).
* *Lifecycles.* By induction over the calls: after each the pending commands of the client's list, in its order, are those of
  the protocol's (`Follows`). A command has an identifier of its own (`commandBus.ts:214`), so it is sent once; and as many commands are
  sent as the client's list keeps, because of more it drops the oldest, pending or not, and the protocol's keeps them all.

**Induction.** No prover here can cite a theorem that takes an operator, so `SeqInduction` has the operators as *constants of the module* - `P(_)`,
the property, and `Op(_, _)`, the step of a fold - and proves induction over sequences and the two equations of `FoldLeft` once, from the
well-foundedness of `<`. ViewProofs instantiates it (`PeakFold == INSTANCE SeqInduction WITH P <- PeaksHold, Op <- captured`), and its lemmas are then about
the operators meant. SettingsProofs and ViewProofs use the least counterexample (`LeastOfNats`) where a function is recursive, as in `DrainedFacts`.

**Chunks.** `CutsAreInvisible` by induction over the text: cutting a text into lines is cutting a beginning of it, and then what that leaves with
the rest (`CutsAnywhere`), because of what is left nothing more is cut off (`RestIsWhole`); and the events of the ones and then the other lines are the
events of all (`EventsAnywhere`).

**What the proofs changed in the models.** A proof that would not go through showed `CASE` expressions whose guards overlap: TLC takes the first
guard that is true, as the code does, but TLA+ leaves the value of such a `CASE` open. Their guards are now disjoint
(`ClientViews`, `FrameViews`, `ControlPanels`, `Screens`, `ClientApp`, `BoardReducer`, `BoardSession`, `CommandTables`), and the runs find the same.

**What only TLC checks.** Liveness (`BurstDelivered`, `LinkLossEndsControl`, `SummonAdvances`, `BurstAdvances`, `DeafRecovers`, `HearingReturns`,
`WaitingBytesAreTaken`, `EveryRequestSettles`, `LinkIsReleased`, `EveryClientEnds`), which is out of reach of the prover. And two invariants without
a parameter or a variable. `TablesAgree` is about the rows of finite tables, and TLC's evaluation of every row is complete. `LossesAreListed` is about
pictures of a board that differ in one value, through each message, again row by row; its part about texts cut in chunks, which TLC evaluates
to five characters, is proved for texts of every length (`CutsAreInvisible`).

## 5. Not modelled

* **Signal decoders and frame encoders** (feature modules, checksums, body handler): functions of one frame,
  well covered by unit tests; no interleaving can disturb them.
* **Formatting and I/O**: status messages, MQTT publishing, the HTTP server, the dashboard, the BLE
  transmit characteristic, rendering, build and documentation scripts, data sets.
* **Cryptography and protobuf** of the Tesla BLE session. Its exchange of messages is in the plan.
* **Gamepad buttons**, the **frame and log rings**, the **GTW shield**: see the plan. Hazards there, besides those listed in `PROJECT.json`: button
  events queued before a disconnection run after the next connection (`events.h:111`); a hold fires at once when its stamp is younger than
  `now` (`api.h:240`); an automatic rescan completes before `gpEnabled` is tested (`api.h:215`); `ringHasData` compares wrapping indices with
  `<` (`ring_buffer.h:84`); the shield overwrites the frame before the tier is read back (`vehicle.h:488`).
* **Two tabs of the client on one store**: each overwrites the other's record.
* **Time spent**: a pass takes no time between two samples of `millis()`. A busy bus or a fast central can
  hold the loop (hazard list) and is outside these models.
* **Memory order**: steps take effect in program order. For the command ring the code's acquire loads and
  release stores of the two indices justify it; the gamepad's axes are plain bytes, each read on its own.

Differences in the client: its sections are never normalised and only `status_compact` brings `chassisOnline`, so the chassis gates of the Controls
stay closed after a full status; a status over HTTP replaces the whole picture; the charge summary multiplies a percentage by 100,
so 62 % shows as 6200; `mirrorAutoFold` is sent from a list without the flag its command takes (`NotAccepted`); `GamepadPanel` and `DasPanel`
read fields no message sets; a build during a flash enables the Flash button again; leaving Docs resets its document;
`disconnectTransport` swallows a failed close.

Other differences between documents and code met on the way, without a run of their own:
`ticks.h:22` says a pause clears the remaining count (it does not); `ticks.h:80` says a burst aborts when
paused (it waits); `board.h:103` says round-robin (it scans from bus 0); serial lines are limited to 64
bytes and not to the documented 768; `.` is not an accepted character, so `mqtt:host:` with an address cannot be sent
over serial or BLE; `POST /api/command` acknowledges refused commands; only six of forty identifiers fit the filters of the vehicle bus.

## 6. Plan

Done, in this order: DAS drive in its loop; the CAN loop; driver and filters; settings; the command link; the client's link; session and
tools; protocol tables, parser and reducer; the client's handlers, store, views and tabs - with their runs, and, for every
safety property of a module with state, its proof.

Next, by weight:

1. **GamepadInput** (composes with GamepadDrive): the event queue with its two producers, holds, bindings, pairing, scanning,
   reconnection. Abstract specification: each press is executed at most once, in its own connection.
2. **TeslaSession**: connection, session establishment, exchange, late notifications.
3. **FrameRing**: both rings with their consumers, laps and index width.
4. **Variant handlers and GTW shield**: mode, offset and nag echo as far as they keep state.
5. **Proofs**: the safety properties of the modules above; the reducer's fold over a message of any fields.
