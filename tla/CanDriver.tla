------------------------------ MODULE CanDriver ------------------------------
(***************************************************************************)
(* The three MCP2515 controllers as the main loop sees them: the driver    *)
(* (core/driver/common.h and esp32/board.h), the acceptance filters        *)
(* (vehicle/can/handler/filters.h), the commands that touch them and the   *)
(* part of loop() that polls, reads and reinitialises them.                *)
(*                                                                         *)
(* A controller buffers frames on its own and lowers its INT pin while any *)
(* is buffered; the pin's FALLING edge runs the interrupt routine, which   *)
(* sets mcpFrameReady between any two steps of the loop.  driverRead is    *)
(* therefore several steps: the search for a ready bus, the SPI read, and  *)
(* the write that clears the flag.  A frame is only counted; the loop's    *)
(* reaction to it is chosen when it is read.                               *)
(***************************************************************************)
EXTENDS Integers, Sequences

CONSTANTS
  Active,        \* buses enabled in this build (kBusActive)
  Flaky,         \* active buses whose controller may fail to initialise
  RxBuffers,     \* receive buffers of an MCP2515 (2)
  FilterSlots,   \* acceptance filters of an MCP2515 (6)
  Timeout,       \* CAN_TIMEOUT_MS, in passes of the loop
  ReinitPeriod,  \* CAN_REINIT_INTERVAL, in passes of the loop
  Sessions       \* settings loaded from flash and the commands a client sends

Chassis == 0
Vehicle == 1
Body == 2
Slots == 0..2                                     \* 0..BUS_MAX-1

Variants == {"HW3", "HW4", "LEGACY"}
Settings == [raw : BOOLEAN, variant : Variants, fsd : BOOLEAN, bit19 : BOOLEAN,
             isa : BOOLEAN, auto : BOOLEAN, hwKnown : BOOLEAN, oneShot : BOOLEAN]

ASSUME DriverAssumption ==
  /\ Active \subseteq Slots /\ Flaky \subseteq Active
  /\ {RxBuffers, FilterSlots, Timeout, ReinitPeriod} \subseteq Nat \ {0}
  /\ \A s \in Sessions : s.saved \in Settings /\ ~s.saved.raw /\ ~s.saved.hwKnown

VARIABLES
  session,  \* which of Sessions this behaviour is; it never changes
  pc,       \* where the loop is
  at,       \* the bus driverRead looks at
  up,       \* mcpAvailable
  flag,     \* mcpFrameReady
  rx,       \* frames buffered in each controller
  ctl,      \* each controller: "ok", in "busoff", or "dead" (never configured)
  mode,     \* transmit mode: "normal" or "oneshot"
  hw,       \* ids each controller accepts
  set,      \* the settings the filters and the transmit mode depend on
  bus,      \* driverReady, chassisOnline, standby, ages of the last frame and reinit
  disabled  \* /api/disable came after the last applyFilters (history)

hardware == <<up, flag, rx, ctl, mode, hw>>
driverVars == <<session, pc, at, hardware, set, bus, disabled>>

Phases == {"serial", "poll", "standby", "read", "empty"}

-----------------------------------------------------------------------------
(* Filters. *)

ChassisBase == <<"DAS_CONTROL", "DAS_STEERING_CTRL", "DAS_STATUS2", "UI_GPS_SPEED", "WHEEL_SPEED">>
\* The first of the forty ids of the vehicle bus, past the slots of a controller.
VehicleIds == <<"PRECONDITION", "BMS_HV_BUS", "UI_VEHICLE_CTRL", "BMS_SOC", "CLIMATE",
                "BMS_THERMAL", "TRACK_MODE", "CHARGE", "DRIVE_CONFIG", "BMS_ENERGY",
                "EPAS_TORQUE", "GTW_CAR_CFG", "DAS_STATUS", "DI_STATE">>
BodyIds == <<"WINDOW_VENT", "SENTRY", "TRUNK_CTRL">>

ASSUME SlotsAssumption == FilterSlots <= Len(VehicleIds)

\* Every id there is; "other" stands for those no filter names.
Ids == {"DAS_CONTROL", "DAS_STEERING_CTRL", "DAS_STATUS2", "UI_GPS_SPEED", "WHEEL_SPEED",
        "ISA_SPEED", "FOLLOW_DIST", "FSD_MUX", "LEGACY_STALK", "LEGACY_FSD_MUX", "other",
        "PRECONDITION", "BMS_HV_BUS", "UI_VEHICLE_CTRL", "BMS_SOC", "CLIMATE",
        "BMS_THERMAL", "TRACK_MODE", "CHARGE", "DRIVE_CONFIG", "BMS_ENERGY",
        "EPAS_TORQUE", "GTW_CAR_CFG", "DAS_STATUS", "DI_STATE",
        "WINDOW_VENT", "SENTRY", "TRUNK_CTRL"}

Only(id, wanted) == IF wanted THEN <<id>> ELSE <<>>

\* The ids of the enabled chassis features, by variant.
FeatureIds(s) ==
  CASE s.variant = "LEGACY" -> Only("LEGACY_STALK", s.fsd)
                                 \o Only("LEGACY_FSD_MUX", s.fsd \/ s.bit19)
    [] s.variant = "HW4" -> Only("ISA_SPEED", s.isa) \o Only("FOLLOW_DIST", s.fsd)
                              \o Only("FSD_MUX", s.fsd \/ s.bit19)
    [] OTHER -> Only("FOLLOW_DIST", s.fsd) \o Only("FSD_MUX", s.fsd \/ s.bit19)

\* While the hardware is unknown, the frames that tell the variants apart.
DiscriminatorIds(s) ==
  LET isaAlready == s.variant = "HW4" /\ s.isa
      legacyMuxAlready == s.variant = "LEGACY" /\ (s.fsd \/ s.bit19)
      sought == s.auto /\ ~s.hwKnown
  IN  Only("ISA_SPEED", sought /\ ~isaAlready)
        \o Only("LEGACY_FSD_MUX", sought /\ ~legacyMuxAlready)

FilterIds(b, s) ==
  CASE b = Chassis -> ChassisBase \o FeatureIds(s) \o DiscriminatorIds(s)
    [] b = Vehicle -> VehicleIds
    [] b = Body -> BodyIds

\* applyMcpFilters: the ids beyond the slots of the controller are not programmed.
Programmed(b, s) ==
  IF s.raw THEN Ids
  ELSE {FilterIds(b, s)[i] : i \in {j \in 1..Len(FilterIds(b, s)) : j <= FilterSlots}}

\* applyFilters on available controllers; each is left in normal mode.
ApplyFilters(s, isUp, filters, modes) ==
  /\ hw' = [b \in Slots |-> IF isUp[b] THEN Programmed(b, s) ELSE filters[b]]
  /\ mode' = [b \in Slots |-> IF isUp[b] THEN "normal" ELSE modes[b]]
  /\ disabled' = FALSE

-----------------------------------------------------------------------------
(* Initialisation. *)

\* Which controllers answer when they are initialised.
Answering == {good \in SUBSET Active : Active \ Flaky \subseteq good}

AllIds == [b \in Slots |-> Ids]
Normal == [b \in Slots |-> "normal"]

\* setup(): driverInit, the filters, and one-shot mode if it was saved.
DriverInit ==
  /\ session \in Sessions
  /\ pc = "serial" /\ at = 0
  /\ \E good \in Answering :
       /\ up = [b \in Slots |-> b \in good]
       /\ ctl = [b \in Slots |-> IF b \in good THEN "ok" ELSE "dead"]
       /\ bus = [ready |-> good # {}, online |-> FALSE, standby |-> FALSE,
                 quiet |-> 0, reinit |-> 0]
       /\ mode = [b \in Slots |-> IF b \in good /\ session.saved.oneShot
                                  THEN "oneshot" ELSE "normal"]
       /\ hw = [b \in Slots |-> IF b \in good THEN Programmed(b, session.saved) ELSE Ids]
  /\ flag = [b \in Slots |-> b \in Active]
  /\ rx = [b \in Slots |-> 0]
  /\ set = session.saved
  /\ disabled = FALSE

\* driverReinit followed, as everywhere, by applyFilters.
ReinitBuses(good) ==
  /\ up' = [b \in Slots |-> b \in good]
  /\ ctl' = [b \in Slots |-> IF b \in good THEN "ok" ELSE "dead"]
  /\ flag' = [b \in Slots |-> b \in Active]
  /\ rx' = [b \in Slots |-> 0]
  /\ ApplyFilters(set, [b \in Slots |-> b \in good], AllIds, Normal)

-----------------------------------------------------------------------------
(* Commands. *)

\* A command that changes settings and reprograms the filters.
Apply(cmd, s) ==
  /\ cmd \in session.commands
  /\ set' = s
  /\ ApplyFilters(s, up, hw, mode)
  /\ UNCHANGED <<up, flag, rx, ctl>>

RawCmd(on) == Apply("can:raw", [set EXCEPT !.raw = on])
FsdCmd(on) == Apply("fsd", [set EXCEPT !.fsd = on])
NagCmd(on) == Apply("nag:mode", [set EXCEPT !.bit19 = on])
IsaCmd(on) == set.variant = "HW4" /\ Apply("isa-chime", [set EXCEPT !.isa = on])
VariantAutoCmd == Apply("variant", [set EXCEPT !.auto = TRUE])
VariantCmd(v) == Apply("variant", [set EXCEPT !.variant = v, !.auto = FALSE])

CanClockCmd(good) ==
  /\ "canclock" \in session.commands
  /\ ReinitBuses(good)
  /\ UNCHANGED set

SingleShotCmd(on) ==
  /\ "singleshot" \in session.commands
  /\ set' = [set EXCEPT !.oneShot = on]
  /\ mode' = [b \in Slots |-> IF ~up[b] THEN mode[b] ELSE IF on THEN "oneshot" ELSE "normal"]
  /\ UNCHANGED <<up, flag, rx, ctl, hw, disabled>>

\* GET /api/disable clears fsdEnabled and leaves the filters alone.
Disable ==
  /\ "disable" \in session.commands
  /\ set' = [set EXCEPT !.fsd = FALSE]
  /\ disabled' = TRUE
  /\ UNCHANGED hardware

Command ==
  /\ pc = "serial"
  /\ \/ \E on \in BOOLEAN : \/ RawCmd(on) \/ FsdCmd(on) \/ NagCmd(on) \/ IsaCmd(on)
                            \/ SingleShotCmd(on)
     \/ VariantAutoCmd
     \/ \E v \in Variants : VariantCmd(v)
     \/ \E good \in Answering : CanClockCmd(good)
     \/ Disable
  /\ UNCHANGED <<pc, at, bus>>

-----------------------------------------------------------------------------
(* The loop. *)

LessOf(a, b) == IF a < b THEN a ELSE b

Silent == bus.online /\ bus.quiet + 1 >= Timeout

\* The head of a pass; without a driver the loop returns here for ever.
BeginPass ==
  /\ pc = "serial" /\ bus.ready
  /\ bus' = [ready |-> TRUE, online |-> bus.online /\ ~Silent,
             standby |-> bus.standby \/ Silent,
             quiet |-> LessOf(bus.quiet + 1, Timeout),
             reinit |-> LessOf(bus.reinit + 1, ReinitPeriod)]
  /\ pc' = IF bus'.standby THEN "standby" ELSE "poll"
  /\ UNCHANGED <<at, hardware, set, disabled>>

ReinitDue == bus.reinit >= ReinitPeriod

StandbyReinitMissing(good) ==          \* mutant: only controllers not yet available
  /\ pc = "standby" /\ pc' = "read" /\ at' = 0
  /\ bus' = [bus EXCEPT !.reinit = IF ReinitDue THEN 0 ELSE @]
  /\ IF ReinitDue /\ \E b \in Active : ~up[b] THEN ReinitBuses(good)
     ELSE UNCHANGED <<hardware, disabled>>
  /\ UNCHANGED set
StandbyReinit(good) ==
  /\ pc = "standby" /\ pc' = "read" /\ at' = 0
  /\ bus' = [bus EXCEPT !.reinit = IF ReinitDue THEN 0 ELSE @]
  /\ IF ReinitDue THEN ReinitBuses(good) ELSE UNCHANGED <<hardware, disabled>>
  /\ UNCHANGED set

\* driverPollBusErrors, every 250 ms: a bus-off controller is reset and set to
\* normal mode; its filters and one-shot mode are not restored, and whether its
\* bit rate could be configured is not looked at.
Recovered(off, good) ==
  /\ ctl' = [b \in Slots |-> IF b \notin off THEN ctl[b] ELSE IF b \in good THEN "ok" ELSE "dead"]
  /\ rx' = [b \in Slots |-> IF b \in off THEN 0 ELSE rx[b]]
  /\ hw' = [b \in Slots |-> IF b \in off THEN Ids ELSE hw[b]]
  /\ mode' = [b \in Slots |-> IF b \in off THEN "normal" ELSE mode[b]]
  /\ UNCHANGED <<up, flag>>

PollErrors(due, good) ==
  /\ pc = "poll" /\ pc' = "read" /\ at' = 0
  /\ Recovered({b \in Active : due /\ up[b] /\ ctl[b] = "busoff"}, good)
  /\ UNCHANGED <<set, bus, disabled>>

-----------------------------------------------------------------------------
(* driverRead and the loop around it. *)

Ready(b) == up[b] /\ flag[b]
ScanEnd == 3                                          \* BUS_MAX

SkipBus ==
  /\ pc = "read" /\ at # ScanEnd /\ ~Ready(at)
  /\ at' = at + 1
  /\ UNCHANGED <<pc, hardware, set, bus, disabled>>

FoundEmpty ==
  /\ pc = "read" /\ at # ScanEnd /\ Ready(at) /\ rx[at] = 0
  /\ pc' = "empty"
  /\ UNCHANGED <<at, hardware, set, bus, disabled>>

\* The flag is cleared after the read that found nothing.
ClearFlag ==
  /\ pc = "empty"
  /\ flag' = [flag EXCEPT ![at] = FALSE]
  /\ at' = at + 1 /\ pc' = "read"
  /\ UNCHANGED <<up, rx, ctl, mode, hw, set, bus, disabled>>

\* No frame of interest to the filters.
Plain == UNCHANGED <<set, mode, hw, disabled>>

\* The variant guessed from a discriminator, and the filters that follow it.
InferVariantOnly(v) ==                                \* mutant: filters not applied
  /\ set.auto /\ ~set.hwKnown
  /\ \/ v = "HW4" /\ set.variant = "LEGACY"
     \/ v = "LEGACY" /\ set.variant # "LEGACY"
  /\ set' = [set EXCEPT !.variant = v]
  /\ UNCHANGED <<mode, hw, disabled>>
InferVariant(v) ==
  /\ set.auto /\ ~set.hwKnown
  /\ \/ v = "HW4" /\ set.variant = "LEGACY"
     \/ v = "LEGACY" /\ set.variant # "LEGACY"
  /\ set' = [set EXCEPT !.variant = v]
  /\ ApplyFilters(set', up, hw, mode)

\* GTW_carConfig: the filters are applied only if the variant changes.
CarConfig(v) ==
  /\ set' = [set EXCEPT !.hwKnown = TRUE, !.variant = IF set.auto THEN v ELSE @]
  /\ IF set'.variant # set.variant THEN ApplyFilters(set', up, hw, mode)
     ELSE UNCHANGED <<mode, hw, disabled>>

HandleMessage(b) ==
  \/ Plain
  \/ b = Chassis /\ \E v \in Variants : InferVariant(v)
  \/ b = Vehicle /\ \E v \in Variants : CarConfig(v)

\* The frame of bus `at' is read: the loop asks again from bus 0, or standby ends.
ReadFrame ==
  /\ pc = "read" /\ at # ScanEnd /\ Ready(at) /\ rx[at] > 0
  /\ rx' = [rx EXCEPT ![at] = @ - 1]
  /\ HandleMessage(at)
  /\ bus' = [bus EXCEPT !.online = TRUE, !.standby = FALSE, !.quiet = 0]
  /\ pc' = IF bus.standby THEN "serial" ELSE "read"
  /\ at' = 0
  /\ UNCHANGED <<up, flag, ctl>>

ReadNone ==
  /\ pc = "read" /\ at = ScanEnd
  /\ pc' = "serial" /\ at' = 0
  /\ UNCHANGED <<hardware, set, bus, disabled>>

-----------------------------------------------------------------------------
(* The controllers and the car. *)

\* An accepted frame arrives; a falling edge of INT runs the interrupt routine.
Arrive(b) ==
  /\ ctl[b] = "ok" /\ rx[b] < RxBuffers
  /\ rx' = [rx EXCEPT ![b] = @ + 1]
  /\ flag' = [flag EXCEPT ![b] = @ \/ rx[b] = 0]
  /\ UNCHANGED <<pc, at, up, ctl, mode, hw, set, bus, disabled>>

\* Transmit errors take a controller off the bus; it may come back by itself.
GoBusOff(b) ==
  /\ ctl[b] = "ok"
  /\ ctl' = [ctl EXCEPT ![b] = "busoff"]
  /\ UNCHANGED <<pc, at, up, flag, rx, mode, hw, set, bus, disabled>>

ComeBack(b) ==
  /\ ctl[b] = "busoff"
  /\ ctl' = [ctl EXCEPT ![b] = "ok"]
  /\ UNCHANGED <<pc, at, up, flag, rx, mode, hw, set, bus, disabled>>

DriverLoop ==
  \/ BeginPass
  \/ \E good \in Answering : StandbyReinit(good)
  \/ \E due \in BOOLEAN, good \in Answering : PollErrors(due, good)
  \/ SkipBus \/ FoundEmpty \/ ClearFlag \/ ReadFrame \/ ReadNone

Environment == \E b \in Active : Arrive(b) \/ GoBusOff(b) \/ ComeBack(b)

DriverNext == (Command \/ DriverLoop \/ Environment) /\ UNCHANGED session

DriverSpec == DriverInit /\ [][DriverNext]_driverVars
\* The loop runs for ever; nothing is assumed of the car or the client.
FairSpec == DriverSpec /\ WF_driverVars(DriverLoop /\ UNCHANGED session)

-----------------------------------------------------------------------------
(* Properties. *)

DriverTypeOK ==
  /\ session \in Sessions
  /\ pc \in Phases /\ at \in 0..ScanEnd
  /\ pc = "empty" => at # ScanEnd
  /\ up \in [Slots -> BOOLEAN] /\ flag \in [Slots -> BOOLEAN]
  /\ rx \in [Slots -> 0..RxBuffers]
  /\ ctl \in [Slots -> {"ok", "busoff", "dead"}]
  /\ mode \in [Slots -> {"normal", "oneshot"}]
  /\ hw \in [Slots -> SUBSET Ids]
  /\ set \in Settings
  /\ bus \in [ready : BOOLEAN, online : BOOLEAN, standby : BOOLEAN,
              quiet : 0..Timeout, reinit : 0..ReinitPeriod]
  /\ disabled \in BOOLEAN

\* Every available controller accepts at least the frames applyFilters would let
\* it accept now, after any sequence of commands, inferred or decoded variants,
\* bus-off resets and reinitialisations; the kill switch alone leaves it stale.
FiltersFollow ==
  ~disabled => \A b \in Active : up[b] => Programmed(b, set) \subseteq hw[b]

\* One-shot mode never outlives the setting: after singleshot:off no controller
\* keeps dropping frames that lose arbitration, failed and reset ones included.
\* The converse does not hold: applyFilters leaves a controller in normal mode.
OneShotIsWanted ==
  \A b \in Active : mode[b] = "oneshot" => set.oneShot

\* No controller can deliver another frame to the loop as things stand.
Deaf(b) == ~up[b] \/ ctl[b] # "ok" \/ (rx[b] > 0 /\ ~flag[b])
AllDeaf == \A b \in Active : Deaf(b)

\* If every bus has gone deaf after traffic - interrupts lost, buses off,
\* controllers unavailable in any mixture - one of them hears again: silence
\* leads to standby and standby to a reinitialisation.
HearingReturns == (AllDeaf /\ (bus.online \/ bus.standby)) ~> ~AllDeaf

\* board.h:37 "ISR-set flag: frame pending in RX buffer": outside driverRead a
\* buffered frame of an available controller is flagged.
PendingIsFlagged ==
  pc = "serial" => \A b \in Active : up[b] /\ ctl[b] = "ok" /\ rx[b] > 0 => flag[b]
===============================================================================
