----------------------------- MODULE ClientViews -----------------------------
(***************************************************************************)
(* The pure functions the client's screens and handlers share: which       *)
(* transport is ready and what the user is told of it, what may be sent,   *)
(* the lifecycle of a command in the client (state/commandBus.ts) and in   *)
(* the protocol package (transportLifecycle.ts), the connection presets,   *)
(* and the displays one taps through.                                      *)
(***************************************************************************)
EXTENDS Integers, Sequences, SequencesExt, FiniteSets, FiniteSetsExt, Selections

CONSTANT BusCap    \* the lifecycle entries kept (COMMAND_BUS_MAX_ENTRIES, 40)
ASSUME BusCapAssumption == BusCap \in Nat

Newest(x, list, cap) == SubSeq(<<x>> \o list, 1, Min({cap, Len(list) + 1}))
Holds(e) == IF e THEN 1 ELSE 0

-----------------------------------------------------------------------------
(* hardware/transportPresentation.ts                                        *)

MonitorTransportType == {"http", "ble", "serial", "bluetooth-serial"}
TransportType == MonitorTransportType \cup {"unsupported"}
Selectable == MonitorTransportType \ {"bluetooth-serial"}      \* TransportPicker leaves the alias out

isSerialFamily(type) == type \in {"serial", "bluetooth-serial"}
isMonitorTransportReady(sel, act) == (isSerialFamily(sel) /\ isSerialFamily(act)) \/ sel = act

\* The presentation compares the types, not the families.
buildMonitorTransportStatus(sel, act) == IF sel = act THEN "ready" ELSE "pending"

\* AppExperience.matchesSelectedTransport
matchesSelectedTransport(sel, act) == IF sel = "serial" THEN isSerialFamily(act) ELSE sel = act

-----------------------------------------------------------------------------
(* hardware/monitorPollingPolicy.ts, hardware/monitorControlState.ts,       *)
(* state/monitorCommandExecution.ts                                         *)

buildMonitorTransportGateSnapshot(ready) ==
  [canExecuteCommands |-> ready, canFetchStatus |-> ready]

getAutoPollPolicy(autoPoll, canFetchStatus, seconds) ==
  CASE autoPoll /\ ~canFetchStatus -> "disable"
    [] autoPoll /\ canFetchStatus /\ seconds > 0 -> "start"
    [] OTHER -> "idle"

\* What a button says: the command's reason before the transport's.
resolveQuickActionBlockReason(transportCanExecute, commandAvailable) ==
  IF ~commandAvailable THEN "gate" ELSE IF ~transportCanExecute THEN "transport" ELSE "none"

buildMonitorControlState(available, snapshot) ==
  [canRunSelectedCommand |-> available /\ snapshot.canExecuteCommands,
   warnings |-> (IF available THEN {} ELSE {"gate"})
                  \cup (IF snapshot.canExecuteCommands THEN {} ELSE {"transport"})
                  \cup (IF snapshot.canFetchStatus THEN {} ELSE {"poll"})]

\* What a command that is sent anyway is refused for: the transport's first.
resolveCommandExecutionReadiness(transportCanExecute, commandAvailable) ==
  IF ~transportCanExecute THEN "transport" ELSE IF ~commandAvailable THEN "gate" ELSE "canExecute"

-----------------------------------------------------------------------------
(* state/commandBus.ts                                                      *)

Pending(id) == [type |-> "COMMAND_PENDING", id |-> id]
Acked(id) == [type |-> "COMMAND_ACKED", id |-> id]
Failed(id) == [type |-> "COMMAND_FAILED", id |-> id]
Purge == [type |-> "PURGE_SETTLED"]

initialCommandBusState == [entries |-> <<>>, totalDispatched |-> 0, totalAcked |-> 0, totalFailed |-> 0]
isPending(e) == e.status = "pending"
Settled(entries, id, status) ==
  [i \in DOMAIN entries |-> IF entries[i].id = id THEN [id |-> id, status |-> status] ELSE entries[i]]

commandBusReducer(state, action) ==
  CASE action.type = "COMMAND_PENDING" ->
         [state EXCEPT !.entries = Newest([id |-> action.id, status |-> "pending"], @, BusCap),
                       !.totalDispatched = @ + 1]
    [] action.type = "COMMAND_ACKED" ->
         [state EXCEPT !.entries = Settled(@, action.id, "acked"), !.totalAcked = @ + 1]
    [] action.type = "COMMAND_FAILED" ->
         [state EXCEPT !.entries = Settled(@, action.id, "failed"), !.totalFailed = @ + 1]
    [] action.type = "PURGE_SETTLED" -> [state EXCEPT !.entries = Where(@, isPending)]
    [] OTHER -> state
Dispatched(state, actions) == FoldLeft(commandBusReducer, state, actions)

selectPendingCommands(state) == Where(state.entries, isPending)
selectSettledCommands(state) == Where(state.entries, LAMBDA e : ~isPending(e))

\* What is done after the controller answered: the lifecycle is told of the
\* command and of its end at once.  A refused command dispatches nothing.
buildCommandExecutionResult(id, ok) ==
  [dispatchActions |-> <<Pending(id), IF ok THEN Acked(id) ELSE Failed(id)>>,
   historyEntry |-> [command |-> id, ok |-> ok],
   shouldApplyBoardPayload |-> ok]

-----------------------------------------------------------------------------
(* The protocol package's transportLifecycle.ts                             *)

initialTransportLifecycleState == [connected |-> FALSE, active |-> "none", pending |-> <<>>]

\* The preferred transport if the host has it, or the first it has of the others.
fallbackOrder == <<"serial", "ble", "http">>
resolveTransportSelection(preferred, has) ==
  LET others == Where(fallbackOrder, LAMBDA kind : kind # preferred /\ kind \in has)
  IN CASE preferred \in has -> [transport |-> preferred, usedFallback |-> FALSE]
       [] preferred \notin has /\ others # <<>> -> [transport |-> others[1], usedFallback |-> TRUE]
       [] OTHER -> [transport |-> "none", usedFallback |-> FALSE]

reduceTransportLifecycle(prev, event) ==
  CASE event.type = "connect-success" -> [prev EXCEPT !.connected = TRUE, !.active = event.transport]
    [] event.type = "disconnect" -> initialTransportLifecycleState
    [] event.type = "command-enqueued" ->
         IF Contains(prev.pending, event.id) THEN prev ELSE [prev EXCEPT !.pending = <<event.id>> \o @]
    [] event.type \in {"command-acked", "command-failed"} ->
         [prev EXCEPT !.pending = Where(@, LAMBDA id : id # event.id)]

-----------------------------------------------------------------------------
(* state/monitorConnectionPresets.ts                                        *)

DEFAULT_PRESET == [baseUrl |-> "vehicle", commandPath |-> "command", statusPath |-> "status"]
LAB_PRESETS == <<DEFAULT_PRESET, [DEFAULT_PRESET EXCEPT !.baseUrl = "bridge"], [DEFAULT_PRESET EXCEPT !.baseUrl = "rig"]>>
Absent == "absent"
updateConnectionState(current, updates) ==
  [field \in DOMAIN current |-> IF updates[field] = Absent THEN current[field] ELSE updates[field]]
validateConnectionConfig(config) == \A field \in DOMAIN config : config[field] # ""
applyPreset(preset) == [config |-> preset, transportType |-> "http"]

-----------------------------------------------------------------------------
(* The displays: what a tap chooses next, and what is shown.  A module      *)
(* remembers the choice when the component is mounted again.                *)

\* state/useGaugeMode.ts, useSpeedUnit.ts, ThemeContext.tsx
MODES == <<"simple", "power", "perf">>
cycleGauge(mode) == MODES[1 + ((CHOOSE i \in DOMAIN MODES : MODES[i] = mode) % Len(MODES))]
cycleUnit(unit) == IF unit = "kmh" THEN "mph" ELSE "kmh"
Overrides == {"dark", "light", "none"}
toggleTheme(override) ==
  CASE override = "dark" -> "light" [] override = "light" -> "none" [] OTHER -> "dark"

\* ThemeContext.tsx and useTheme.ts
Theme(forceNight, override, systemDark) ==
  CASE forceNight -> [isDark |-> TRUE, source |-> "force"]
    [] ~forceNight /\ override # "none" -> [isDark |-> override = "dark", source |-> "override"]
    [] OTHER -> [isDark |-> systemDark, source |-> IF systemDark THEN "system" ELSE "default"]

\* state/useSocDisplay.ts
SocDisplayMode == {"soc", "range_expected", "range_ideal"}
cycleSoc(mode, hasRange) ==
  CASE mode = "soc" /\ hasRange -> "range_expected"
    [] mode = "range_expected" /\ hasRange -> "range_ideal"
    [] OTHER -> "soc"
isUnavailable(mode, hasBms, hasRange) == IF mode = "soc" THEN ~hasBms ELSE ~hasRange
socAlarm(soc) == CASE soc < 15 -> "critical" [] soc \in 15..24 -> "warning" [] OTHER -> "ok"

\* state/usePowerCapture.ts: a power of zero moves neither peak.
captured(peaks, power) ==
  CASE power > peaks.drive -> [peaks EXCEPT !.drive = power]
    [] power < 0 /\ -power > peaks.regen -> [peaks EXCEPT !.regen = -power]
    [] OTHER -> peaks
NoPeaks == [drive |-> 0, regen |-> 0]

\* state/useBreakpoint.ts, with the widths of design/tokens.ts
breakpoints == [cluster |-> 480, phoneLS |-> 568, tablet |-> 768, desktop |-> 980]
Breakpoint(width) ==
  CASE width >= breakpoints.desktop -> "desktop"
    [] width \in breakpoints.tablet..(breakpoints.desktop - 1) -> "tablet"
    [] width \in breakpoints.phoneLS..(breakpoints.tablet - 1) -> "phoneLandscape"
    [] width \in breakpoints.cluster..(breakpoints.phoneLS - 1) -> "cluster"
    [] OTHER -> "phone"
isPhone(width) == width < breakpoints.tablet
isCluster(width) == width >= breakpoints.cluster /\ width < breakpoints.phoneLS

\* screens/DriveScreen.tsx
sideTone(bsm, turn) == CASE bsm >= 2 -> "alert" [] bsm = 1 \/ (turn /\ bsm < 2) -> "warn" [] OTHER -> "idle"
sideLabel(bsm, turn) == CASE bsm >= 2 -> "BSM!" [] bsm < 2 /\ turn -> "TURN" [] bsm = 1 /\ ~turn -> "BSM" [] OTHER -> ""
resolveApState(tier, dasHandsOn, chassisOnline) ==
  IF ~chassisOnline \/ tier = 0 THEN "unavailable" ELSE IF dasHandsOn >= 1 THEN "hands_warning" ELSE "inactive"
Doors == {"driver", "frontRight", "rearLeft", "rearRight", "frunk", "trunk"}
openDoors(doors) == {door \in Doors : doors[door]}

\* The protocol package's format.ts: the names of what the board numbers.
formatGear(gear) == IF gear \in 1..4 THEN <<"P", "R", "N", "D">>[gear] ELSE "?"
formatAutopilotTier(tier) ==
  IF tier \in 0..4 THEN <<"NONE", "HIGHWAY", "ENHANCED", "SELF_DRIVING", "BASIC">>[tier + 1] ELSE "UNKNOWN"
formatDriveMode(mode) ==
  IF mode \in 0..3 THEN <<"OFF", "CHILL", "STANDARD", "PERFORMANCE">>[mode + 1] ELSE "UNKNOWN"
formatRegion(code) ==
  IF code \in 0..5 THEN <<"UNKNOWN", "NA", "EU", "CN", "APAC", "ME">>[code + 1] ELSE "UNKNOWN"
formatUptime(ms) ==
  LET s == ms \div 1000
      m == s \div 60
      h == m \div 60
  IN CASE ms = 0 -> <<>> [] h > 0 -> <<h, m % 60>> [] h = 0 /\ m > 0 -> <<m, s % 60>> [] OTHER -> <<s>>

-----------------------------------------------------------------------------
(* What must hold of them *)

\* The button that offers a command, the state behind it and the function that
\* sends it agree on whether it may be sent, and so does what polls the status.
GatesAgree ==
  \A sel \in MonitorTransportType, act \in TransportType, available \in BOOLEAN :
    LET ready    == isMonitorTransportReady(sel, act)
        controls == buildMonitorControlState(available, buildMonitorTransportGateSnapshot(ready))
    IN /\ controls.canRunSelectedCommand <=> resolveQuickActionBlockReason(ready, available) = "none"
       /\ controls.canRunSelectedCommand <=> resolveCommandExecutionReadiness(ready, available) = "canExecute"
       /\ getAutoPollPolicy(TRUE, ready, 1) = "start" <=> "poll" \notin controls.warnings
       /\ buildMonitorTransportStatus(sel, act) = "ready" => ready
       /\ matchesSelectedTransport(sel, act) => ready

\* The client's lifecycle of the commands and the protocol's have the same commands
\* pending after any calls, in any order, a late or a second answer included: an id
\* is made up for each command, and what is settled may be purged at any time.
Ids == 1..BusCap
Events == {Pending(id) : id \in Ids} \cup {Acked(id) : id \in Ids} \cup {Failed(id) : id \in Ids} \cup {Purge}
PendsOnce(t) == \A i, j \in DOMAIN t : (t[i] = t[j] /\ t[i].type = "COMMAND_PENDING") => i = j
Traces(n) == {t \in UNION {[1..k -> Events] : k \in 0..n} : PendsOnce(t)}
Told(prev, e) ==
  CASE e.type = "COMMAND_PENDING" -> reduceTransportLifecycle(prev, [type |-> "command-enqueued", id |-> e.id])
    [] e.type = "COMMAND_ACKED" -> reduceTransportLifecycle(prev, [type |-> "command-acked", id |-> e.id])
    [] e.type = "COMMAND_FAILED" -> reduceTransportLifecycle(prev, [type |-> "command-failed", id |-> e.id])
    [] OTHER -> prev
LifecycleAgrees(t) ==
  LET client   == Dispatched(initialCommandBusState, t)
      protocol == FoldLeft(Told, initialTransportLifecycleState, t)
      pending  == selectPendingCommands(client)
  IN /\ [i \in DOMAIN pending |-> pending[i].id] = protocol.pending
     /\ Len(client.entries) = Len(pending) + Len(selectSettledCommands(client))
LifecyclesAgree == \A t \in Traces(4) : LifecycleAgrees(t)

PeaksOf(seen) == [drive |-> Max({0} \cup Range(seen)), regen |-> -Min({0} \cup Range(seen))]

\* A tap shows something the car reported, if anything was; the peaks are those of
\* the powers seen, in whatever order; the two indicators of a side agree.
DisplaysAgree ==
  /\ \A mode \in SocDisplayMode, hasBms, hasRange \in BOOLEAN :
       (hasRange => hasBms) => (isUnavailable(cycleSoc(mode, hasRange), hasBms, hasRange) => ~hasBms)
  /\ \A seen \in [1..4 -> -2..2] : FoldLeft(captured, NoPeaks, seen) = PeaksOf(seen)
  /\ \A bsm \in 0..3, turn \in BOOLEAN : sideTone(bsm, turn) = "idle" <=> sideLabel(bsm, turn) = ""
  /\ \A override \in Overrides : toggleTheme(toggleTheme(toggleTheme(override))) = override
  /\ \A width \in 0..1100 : isPhone(width) <=> Breakpoint(width) \in {"phone", "cluster", "phoneLandscape"}
===============================================================================
