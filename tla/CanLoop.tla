------------------------------- MODULE CanLoop -------------------------------
(***************************************************************************)
(* The CAN half of the firmware's main loop: firmware/src/esp32/main.cpp   *)
(* after serialTick, with the periodic ticks of vehicle/can/handler/       *)
(* ticks.h, the AP injection gate, standby, the summon and one-shot bursts *)
(* and the kill switch of GET /api/disable.                                *)
(*                                                                         *)
(* Everything here runs on one task, so a pass of loop() is a sequence of  *)
(* phases: commands (serialTick and wifiTick), the head of the pass, then  *)
(* either standby or the ticks and the read loop.  Time passes between two *)
(* heads; an age is the time since a millis() stamp, saturated where the   *)
(* code's comparison no longer changes.                                    *)
(***************************************************************************)
EXTENDS Integers, FiniteSets

CONSTANTS
  Timeout,        \* CAN_TIMEOUT_MS: silence before standby
  ReinitPeriod,   \* CAN_REINIT_INTERVAL: between two driverReinit in standby
  Gap,            \* spacing of summon and burst frames (20 ms)
  Period,         \* function: interval of each periodic feature
  SummonFrames,   \* frames of a summon (30)
  BurstFrames,    \* frames of a one-shot burst (20 to 50)
  Delays,         \* time between the heads of two passes
  Sessions        \* what one client and one car do: the commands sent, the cached
                  \* kinds of frames heard, the kinds one-shot commands build on

Kinds == {"ctrl", "climate", "charge", "drive"}
Beats == {"precondition", "drivemode", "seatbelt", "sim"}

ASSUME TimeAssumption ==
  /\ Timeout \in Nat \ {0} /\ ReinitPeriod \in Nat \ {0} /\ Gap \in Nat \ {0}
  /\ Period \in [Beats -> Nat \ {0}]
  /\ Delays \subseteq Nat \ {0}
ASSUME SizeAssumption ==
  /\ SummonFrames \in Nat \ {0} /\ BurstFrames \in Nat \ {0}
  /\ \A s \in Sessions : s.heard \subseteq Kinds

VARIABLES
  session,  \* which of Sessions this behaviour is; it never changes
  phase,    \* where the pass is
  bus,      \* chassisOnline, standby, ages of lastFrameMs and lastReinitMs
  deaf,     \* the controllers deliver no frame until they are reinitialised
  has,      \* kinds with their has* flag set
  stale,    \* kinds whose cached bytes predate the last silence (history)
  gate,     \* apInjectionGateEnabled, apGateApActive, -Parked, -Summoning
  gear,     \* last gear decoded since the bus came up (history)
  summon,   \* summonInject, summonRemaining, age of summonLastMs
  burst,    \* burstRemaining, age of burstLastMs
  beat,     \* the periodic features: enabled, age of their last frame
  variant,  \* hardware variant and its automatic detection
  inject,   \* fsdEnabled, gtwShieldArmed, DAS frames of serialTick
  killed,   \* /api/disable came after every enabling command (history)
  out       \* what the last step transmitted (history)

passVars == <<session, phase, bus, deaf, has, stale, gate, gear, summon, burst, beat, variant,
              inject, killed, out>>

Phases == {"serial", "standby", "ticks", "read"}
Variants == {"HW", "LEGACY"}              \* HW: HW3 or HW4, which summon
Sendable == {"summon", "burst", "alc", "echo", "fsd", "shield", "das"}
              \cup (Beats \ {"sim"})

LessOf(a, b) == IF a < b THEN a ELSE b
Aged(a, d, cap) == LessOf(a + d, cap)

GateOpen(g) == ~g.on \/ g.ap \/ g.parked \/ g.summoning

PassInit ==
  /\ session \in Sessions
  /\ phase = "serial"
  /\ bus = [online |-> FALSE, standby |-> FALSE, quiet |-> 0, reinit |-> 0]
  /\ deaf \in BOOLEAN
  /\ has = {} /\ stale = {}
  /\ gate \in [on : BOOLEAN, ap : {FALSE}, parked : {TRUE}, summoning : {FALSE}]
  /\ gear = "unknown"
  /\ summon \in [inject : BOOLEAN, left : {0}, age : {Gap}]
  /\ burst = [left |-> 0, age |-> Gap]
  /\ beat = [b \in Beats |-> [on |-> FALSE, age |-> 0]]
  /\ variant \in [is : Variants, auto : BOOLEAN, hwKnown : {FALSE}]
  /\ inject \in [fsd : BOOLEAN, shield : {FALSE}, das : {FALSE}]
  /\ killed = FALSE /\ out = {}

(***************************************************************************)
(* Commands: a line drained by serialTick or a request served by wifiTick. *)
(***************************************************************************)
busVars == <<phase, bus, deaf, has, stale, gear>>

Quiet == out' = {}

SummonCmd ==
  /\ "summon" \in session.commands
  /\ variant.is # "LEGACY" /\ summon.inject /\ "ctrl" \in has
  /\ summon' = [summon EXCEPT !.left = SummonFrames]
  /\ killed' = FALSE
  /\ UNCHANGED <<gate, burst, beat, variant, inject>>

\* Refused on a variant without summon, stop included.
SummonStopCmd ==
  /\ "summon:stop" \in session.commands
  /\ summon' = IF variant.is = "LEGACY" THEN summon ELSE [summon EXCEPT !.left = 0]
  /\ UNCHANGED <<gate, burst, beat, variant, inject, killed>>

SummonInjectCmdKeeps(on) ==                              \* mutant: burst not halted
  /\ "summon-inject" \in session.commands /\ variant.is # "LEGACY"
  /\ summon' = [summon EXCEPT !.inject = on]
  /\ UNCHANGED <<gate, burst, beat, variant, inject, killed>>
SummonInjectCmd(on) ==
  /\ "summon-inject" \in session.commands
  /\ variant.is # "LEGACY"
  /\ summon' = IF on THEN [summon EXCEPT !.inject = TRUE]
               ELSE [summon EXCEPT !.inject = FALSE, !.left = 0]
  /\ UNCHANGED <<gate, burst, beat, variant, inject, killed>>

GateCmd(on) ==
  /\ "apgate" \in session.commands
  /\ gate' = [gate EXCEPT !.on = on]
  /\ UNCHANGED <<summon, burst, beat, variant, inject, killed>>

\* startBurst: refused when the gate is closed, else replaces the running burst.
Started(frames, gap) ==
  IF GateOpen(gate) THEN [left |-> frames, age |-> gap] ELSE burst

\* A one-shot command needs its cached kind; on LEGACY only the body-control and
\* recirculation commands, built on these two kinds, are accepted.
BurstCmd(k) ==
  /\ "burst" \in session.commands
  /\ k \in has \cup {"none"}
  /\ variant.is = "LEGACY" => k \in {"ctrl", "climate"}
  /\ burst' = Started(BurstFrames, Gap)
  /\ killed' = FALSE
  /\ UNCHANGED <<gate, summon, beat, variant, inject>>

PreconditionCmd(on) ==
  /\ "precondition" \in session.commands
  /\ variant.is # "LEGACY"
  /\ beat' = [beat EXCEPT !["precondition"] =
                [on |-> on, age |-> IF on THEN 0 ELSE @.age]]
  /\ burst' = Started(1, Gap)
  /\ killed' = FALSE
  /\ UNCHANGED <<gate, summon, variant, inject>>

DriveModeCmd(on) ==
  /\ "drivemode" \in session.commands
  /\ beat' = [beat EXCEPT !["drivemode"] = [on |-> on, age |-> Period["drivemode"]]]
  /\ killed' = FALSE
  /\ UNCHANGED <<gate, summon, burst, variant, inject>>

SeatbeltCmd(on) ==
  /\ "seatbelt" \in session.commands
  /\ beat' = [beat EXCEPT !["seatbelt"].on = on]
  /\ killed' = FALSE
  /\ UNCHANGED <<gate, summon, burst, variant, inject>>

SimCmd(on) ==
  /\ "simu" \in session.commands
  /\ beat' = [beat EXCEPT !["sim"] =
                [on |-> on, age |-> IF on THEN Period["sim"] ELSE @.age]]
  /\ UNCHANGED <<gate, summon, burst, variant, inject, killed>>

VariantCmd(v) ==
  /\ "variant" \in session.commands
  /\ variant' = IF v = "auto" THEN [variant EXCEPT !.auto = TRUE]
                ELSE [variant EXCEPT !.is = v, !.auto = FALSE]
  /\ UNCHANGED <<gate, summon, burst, beat, inject, killed>>

FsdCmd(on) ==
  /\ "fsd" \in session.commands
  /\ inject' = [inject EXCEPT !.fsd = on]
  /\ killed' = FALSE
  /\ UNCHANGED <<gate, summon, burst, beat, variant>>

ShieldCmd(on) ==
  /\ "gtwshield" \in session.commands
  /\ inject' = [inject EXCEPT !.shield = on]
  /\ killed' = FALSE
  /\ UNCHANGED <<gate, summon, burst, beat, variant>>

DriveCmd(on) ==
  /\ "drive" \in session.commands
  /\ inject' = [inject EXCEPT !.das = on]
  /\ killed' = FALSE
  /\ UNCHANGED <<gate, summon, burst, beat, variant>>

DisableKeepsSummon ==                                    \* mutant: FSD only
  /\ "disable" \in session.commands
  /\ inject' = [inject EXCEPT !.fsd = FALSE] /\ killed' = TRUE
  /\ UNCHANGED <<gate, summon, burst, beat, variant>>
Disable ==
  /\ "disable" \in session.commands
  /\ inject' = [inject EXCEPT !.fsd = FALSE]
  /\ summon' = [summon EXCEPT !.left = 0]
  /\ killed' = TRUE
  /\ UNCHANGED <<gate, burst, beat, variant>>

SerialTick ==
  /\ phase = "serial"
  /\ \/ SummonCmd
     \/ SummonStopCmd
     \/ \E on \in BOOLEAN : SummonInjectCmd(on)
     \/ \E on \in BOOLEAN : GateCmd(on)
     \/ \E k \in session.needs : BurstCmd(k)
     \/ \E on \in BOOLEAN : PreconditionCmd(on)
     \/ \E on \in BOOLEAN : DriveModeCmd(on)
     \/ \E on \in BOOLEAN : SeatbeltCmd(on)
     \/ \E on \in BOOLEAN : SimCmd(on)
     \/ \E v \in Variants \cup {"auto"} : VariantCmd(v)
     \/ \E on \in BOOLEAN : FsdCmd(on)
     \/ \E on \in BOOLEAN : ShieldCmd(on)
     \/ \E on \in BOOLEAN : DriveCmd(on)
     \/ Disable
  /\ Quiet
  /\ UNCHANGED busVars

(***************************************************************************)
(* The head of a pass.  serialTick has already called dasTick, whose       *)
(* frames follow neither the gate nor standby.                             *)
(***************************************************************************)
Clock(d) ==
  /\ summon' = [summon EXCEPT !.age = Aged(@, d, Gap)]
  /\ burst' = [burst EXCEPT !.age = Aged(@, d, Gap)]
  /\ beat' = [b \in Beats |-> [beat[b] EXCEPT !.age = Aged(@, d, Period[b])]]

DasOut == IF inject.das THEN {"das"} ELSE {}

FallsSilent(d) == bus.online /\ bus.quiet + d >= Timeout

FallSilentKeeps(cached, left, d) ==                      \* body of the mutants below
  /\ FallsSilent(d)
  /\ bus' = [online |-> FALSE, standby |-> TRUE, quiet |-> Timeout,
             reinit |-> Aged(bus.reinit, d, ReinitPeriod)]
  /\ has' = cached /\ stale' = stale \cup has
  /\ gate' = [gate EXCEPT !.summoning = FALSE, !.parked = TRUE]
  /\ gear' = "unknown" /\ summon' = [summon EXCEPT !.left = left]
  /\ UNCHANGED <<burst, beat>> /\ phase' = "standby"
FallSilentKeepsCache(d) == FallSilentKeeps(has, 0, d)
FallSilentKeepsSummon(d) == FallSilentKeeps({}, summon.left, d)
\* Silence for CAN_TIMEOUT_MS: every has* flag, the summon and its gate are reset.
FallSilent(d) ==
  /\ FallsSilent(d)
  /\ bus' = [online |-> FALSE, standby |-> TRUE, quiet |-> Timeout,
             reinit |-> Aged(bus.reinit, d, ReinitPeriod)]
  /\ has' = {} /\ stale' = stale \cup has
  /\ gate' = [gate EXCEPT !.summoning = FALSE, !.parked = TRUE]
  /\ gear' = "unknown"
  /\ summon' = [summon EXCEPT !.left = 0, !.age = Aged(@, d, Gap)]
  /\ burst' = [burst EXCEPT !.age = Aged(@, d, Gap)]
  /\ beat' = [b \in Beats |-> [beat[b] EXCEPT !.age = Aged(@, d, Period[b])]]
  /\ phase' = "standby"

CarrySticky(d) ==                                        \* mutant: gate never shut
  /\ ~FallsSilent(d)
  /\ bus' = [bus EXCEPT !.quiet = Aged(@, d, Timeout), !.reinit = Aged(@, d, ReinitPeriod)]
  /\ gate' = [gate EXCEPT !.summoning = @ \/ summon.left > 0]
  /\ Clock(d)
  /\ phase' = IF bus.standby THEN "standby" ELSE "ticks"
  /\ UNCHANGED <<has, stale, gear>>
Carry(d) ==
  /\ ~FallsSilent(d)
  /\ bus' = [bus EXCEPT !.quiet = Aged(@, d, Timeout),
                        !.reinit = Aged(@, d, ReinitPeriod)]
  /\ gate' = [gate EXCEPT !.summoning = summon.left > 0]
  /\ Clock(d)
  /\ phase' = IF bus.standby THEN "standby" ELSE "ticks"
  /\ UNCHANGED <<has, stale, gear>>

BeginPass(d) ==
  /\ phase = "serial"
  /\ FallSilent(d) \/ Carry(d)
  /\ out' = DasOut
  /\ UNCHANGED <<deaf, variant, inject, killed>>

(***************************************************************************)
(* handleMessage: what a decoded frame changes and what it transmits.      *)
(***************************************************************************)
msgVars == <<summon, burst, beat, inject, killed>>

CacheFrame(k) ==
  /\ has' = has \cup {k} /\ stale' = stale \ {k}
  /\ Quiet /\ UNCHANGED <<gate, gear, variant>>

\* DAS_status, and the lane-change confirmation it may inject.
DasStatus(active, asked) ==
  /\ gate' = [gate EXCEPT !.ap = active]
  /\ out' = IF asked /\ GateOpen(gate') THEN {"alc"} ELSE {}
  /\ UNCHANGED <<has, stale, gear, variant>>

\* DI_state: the gear decides whether the gate counts the car as parked.
DiState(parked) ==
  /\ gate' = [gate EXCEPT !.parked = parked]
  /\ gear' = IF parked THEN "park" ELSE "drive"
  /\ Quiet /\ UNCHANGED <<has, stale, variant>>

\* A frame some feature answers with a modified copy: EPAS torque, region, TLSSC.
Echoed ==
  /\ out' = IF GateOpen(gate) THEN {"echo"} ELSE {}
  /\ UNCHANGED <<has, stale, gate, gear, variant>>

FsdMux ==
  /\ out' = IF inject.fsd /\ GateOpen(gate) THEN {"fsd"} ELSE {}
  /\ UNCHANGED <<has, stale, gate, gear, variant>>

\* A 0x7FF frame that differs from the learned one: resent without the gate.
GtwChanged ==
  /\ out' = IF inject.shield THEN {"shield"} ELSE {}
  /\ UNCHANGED <<has, stale, gate, gear, variant>>

\* GTW_carConfig names the hardware; the fallback guesses it from a frame's id.
CarConfig(v) ==
  /\ variant' = [variant EXCEPT !.hwKnown = TRUE, !.is = IF variant.auto THEN v ELSE @]
  /\ Quiet /\ UNCHANGED <<has, stale, gate, gear>>

InferVariant(v) ==
  /\ variant.auto /\ ~variant.hwKnown
  /\ variant' = [variant EXCEPT !.is = v]
  /\ Quiet /\ UNCHANGED <<has, stale, gate, gear>>

HandleMessage ==
  /\ \/ \E k \in session.heard : CacheFrame(k)
     \/ \E active, asked \in BOOLEAN : DasStatus(active, asked)
     \/ \E parked \in BOOLEAN : DiState(parked)
     \/ Echoed
     \/ FsdMux
     \/ GtwChanged
     \/ \E v \in Variants : CarConfig(v) \/ InferVariant(v)
  /\ UNCHANGED msgVars

(***************************************************************************)
(* Standby: retry the controllers, wait for one frame.                     *)
(***************************************************************************)
ReinitDue == bus.reinit >= ReinitPeriod
StandbyBusStamped == [bus EXCEPT !.reinit = 0]             \* mutant: stamped every pass
StandbyBus == IF ReinitDue THEN [bus EXCEPT !.reinit = 0] ELSE bus

StandbyIdle ==
  /\ phase = "standby" /\ phase' = "serial"
  /\ bus' = StandbyBus
  /\ deaf' = (deaf /\ ~ReinitDue)
  /\ Quiet
  /\ UNCHANGED <<has, stale, gate, gear, variant, msgVars>>

StandbyWake ==
  /\ phase = "standby" /\ phase' = "serial"
  /\ ~deaf \/ ReinitDue
  /\ deaf' = FALSE
  /\ bus' = [online |-> TRUE, standby |-> FALSE, quiet |-> 0, reinit |-> StandbyBus.reinit]
  /\ HandleMessage

(***************************************************************************)
(* The periodic ticks, in the order of loop().                             *)
(***************************************************************************)
SummonDue == summon.left > 0 /\ "ctrl" \in has /\ summon.inject
               /\ GateOpen(gate) /\ summon.age >= Gap
BurstDueWithCtrl ==                                      \* mutant: summon's guard
  burst.left > 0 /\ "ctrl" \in has /\ GateOpen(gate) /\ burst.age >= Gap
BurstDue == burst.left > 0 /\ GateOpen(gate) /\ burst.age >= Gap
BeatReady(b) ==
  CASE b = "drivemode" -> GateOpen(gate) /\ "drive" \in has
    [] b = "sim" -> TRUE
    [] OTHER -> GateOpen(gate)
BeatDue(b) == beat[b].on /\ BeatReady(b) /\ beat[b].age >= Period[b]

TickedBurst ==
  IF BurstDue THEN [burst EXCEPT !.left = @ - 1, !.age = 0]
  ELSE burst

Ticks ==
  /\ phase = "ticks" /\ phase' = "read"
  /\ summon' = IF SummonDue THEN [summon EXCEPT !.left = @ - 1, !.age = 0] ELSE summon
  /\ burst' = TickedBurst
  /\ beat' = [b \in Beats |-> IF BeatDue(b) THEN [beat[b] EXCEPT !.age = 0] ELSE beat[b]]
  /\ out' = (IF SummonDue THEN {"summon"} ELSE {}) \cup (IF BurstDue THEN {"burst"} ELSE {})
              \cup {b \in Beats \ {"sim"} : BeatDue(b)}
  \* canSimTick feeds handleMessage a DI_state with the gear in D
  /\ gate' = IF BeatDue("sim") THEN [gate EXCEPT !.parked = FALSE] ELSE gate
  /\ gear' = IF BeatDue("sim") THEN "drive" ELSE gear
  /\ UNCHANGED <<bus, deaf, has, stale, variant, inject, killed>>

\* The read loop: any number of frames, then the pass ends.
Read ==
  /\ phase = "read" /\ ~deaf
  /\ bus' = [bus EXCEPT !.online = TRUE, !.quiet = 0]
  /\ HandleMessage
  /\ UNCHANGED <<phase, deaf>>

EndPass ==
  /\ phase = "read" /\ phase' = "serial"
  /\ Quiet
  /\ UNCHANGED <<bus, deaf, has, stale, gate, gear, variant, msgVars>>

\* Environment: the controllers stop delivering frames.
GoDeaf ==
  /\ ~deaf /\ deaf' = TRUE
  /\ Quiet
  /\ UNCHANGED <<phase, bus, has, stale, gate, gear, variant, msgVars>>

Pass == (\E d \in Delays : BeginPass(d)) \/ StandbyIdle \/ StandbyWake
          \/ Ticks \/ Read \/ EndPass

PassNext == (SerialTick \/ Pass \/ GoDeaf) /\ UNCHANGED session

PassSpec == PassInit /\ [][PassNext]_passVars
\* loop() is called forever, the read loop ends, and time passes between heads.
FairSpec ==
  /\ PassSpec
  /\ WF_passVars(\E d \in Delays : BeginPass(d) /\ UNCHANGED session)
  /\ WF_passVars(StandbyIdle /\ UNCHANGED session)
  /\ WF_passVars(Ticks /\ UNCHANGED session)
  /\ WF_passVars(EndPass /\ UNCHANGED session)

(***************************************************************************)
(* Properties                                                              *)
(***************************************************************************)
StateOK ==
  /\ phase \in Phases
  /\ bus \in [online : BOOLEAN, standby : BOOLEAN, quiet : 0..Timeout,
              reinit : 0..ReinitPeriod]
  /\ deaf \in BOOLEAN /\ killed \in BOOLEAN
  /\ has \in SUBSET Kinds /\ stale \in SUBSET Kinds
  /\ gate \in [on : BOOLEAN, ap : BOOLEAN, parked : BOOLEAN, summoning : BOOLEAN]
  /\ gear \in {"unknown", "park", "drive"}
  /\ summon \in [inject : BOOLEAN, left : 0..SummonFrames, age : 0..Gap]
  /\ burst \in [left : 0..BurstFrames, age : 0..Gap]
  /\ beat \in [Beats -> [on : BOOLEAN, age : Nat]]
  /\ \A b \in Beats : beat[b].age <= Period[b]
  /\ variant \in [is : Variants, auto : BOOLEAN, hwKnown : BOOLEAN]
  /\ inject \in [fsd : BOOLEAN, shield : BOOLEAN, das : BOOLEAN]
  /\ out \in SUBSET Sendable
PassTypeOK == session \in Sessions /\ StateOK

\* A summon in progress can always proceed: injection is allowed and a control
\* frame is cached, so no interleaving of standby, disable and commands leaves
\* frames owed that summonTick would send at some later, unrelated moment.
SummonArmed ==
  summon.left > 0 => summon.inject /\ "ctrl" \in has /\ ~bus.standby

\* Summon and drive-mode frames, built from the car's own bytes, never repeat
\* bytes captured before the bus last went silent: standby empties the cache.
FreshFrames ==
  /\ "summon" \in out => "ctrl" \notin stale
  /\ "drivemode" \in out => "drive" \notin stale

\* With the gate enforced and the car last reported in a drive gear without
\* autopilot, the ticks inject only in a pass that began within a summon: a
\* finished, stopped or killed summon closes the gate it opened by itself.
OnlySummonOpensInDrive ==
  [][ gate.on /\ ~gate.ap /\ gear = "drive"
        /\ phase = "ticks" /\ out' # {} => summon.left > 0 ]_passVars

\* Until a new command enables something, no summon or FSD frame follows the
\* kill switch, whatever the bus does and however the pass was interrupted.
KillSwitchHolds == killed => out \cap {"summon", "fsd"} = {}

\* Every owed summon frame is sent or dropped: a summon never hangs half way,
\* which would hold the gate open by apGateSummoning for ever.
SummonAdvances ==
  \A n \in 1..SummonFrames : summon.left = n ~> summon.left # n

\* An accepted burst is sent to its last frame while the bus is up and the gate
\* open, whatever periodic frames, retried commands and pauses come between.
BurstAdvances ==
  \A n \in 1..BurstFrames :
    burst.left = n ~> burst.left # n \/ ~GateOpen(gate) \/ bus.standby

\* Controllers gone deaf after the bus was seen are reinitialised, through the
\* silence timeout and the standby retry.
DeafRecovers == (deaf /\ (bus.online \/ bus.standby)) ~> ~deaf

\* ---- what the documents say and the code does not do (violation run) ----

\* wifi-api.md:68 "Emergency disable all injections": nothing is injected after
\* /api/disable until some command enables it again.
DisableStopsAll == killed => out = {}
===============================================================================
