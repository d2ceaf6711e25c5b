----------------------------- MODULE GamepadDrive -----------------------------
(***************************************************************************)
(* DAS drive in the place it runs: the main loop's serialTick              *)
(* (io/serial/usb/esp32/loop.h) runs commands, maps the gamepad axes to a  *)
(* request (client/gamepad/drive.h) and calls dasTick, while the NimBLE    *)
(* host task delivers connections, disconnections and HID reports          *)
(* (client/gamepad/ble.h, events.h) on the other core at any moment.       *)
(*                                                                         *)
(* Commands received over WiFi run between dasTick and the next sample of  *)
(* millis(); nothing DasDrive reads changes in between, so they are taken  *)
(* with the serial, BLE and button commands of the next pass.              *)
(*                                                                         *)
(* Only the three axes that drive the car are kept: LX, LT and RT.         *)
(***************************************************************************)
EXTENDS DasDrive

CONSTANTS
    StickReports,   \* raw bytes the left stick X may report
    TriggerReports  \* raw bytes the triggers may report

VARIABLES
    pc,          \* where the main loop is in serialTick
    gpEnabled,   \* gpEnabled
    gpConnected, \* gpConnected
    axes,        \* gpAxes[0], gpAxes[4], gpAxes[5]
    linkUp,      \* the BLE link, as the NimBLE stack knows it
    hand,        \* history: the stick position last reported on this link
    lossAge,     \* history: how long a pass could not have read the pad
    panic        \* history: gamepad:cancel was accepted, no CANCEL frame yet

padVars == <<gpEnabled, gpConnected, axes, linkUp, hand>>
history == <<lossAge, panic>>
vars == <<dasVars, pc, padVars, history>>

Axes == [lx : StickReports, lt : TriggerReports, rt : TriggerReports]

\* gpAxisDz of a stick and of a trigger, gpAxisExpo, gpAxisInvMask: defaults.
StickLevel(raw) == AxisMath(FALSE, raw, 6, 0, FALSE)
TriggerLevel(raw) == AxisMath(TRUE, raw, 8, 0, FALSE)

\* A level in thousandths of a full-scale value, rounded towards zero.
Scaled(level, full) ==
    IF level < 0 THEN -((-level * full) \div 1000) ELSE (level * full) \div 1000

SteerOf(raw) == Scaled(StickLevel(raw), 60)
BrakeOf(raw) == -Scaled(Magnitude(TriggerLevel(raw)), -AccelMin)
ThrottleOf(raw) == Scaled(Magnitude(TriggerLevel(raw)), AccelMax)

\* Mutant of RequestOf: the brake does not release the throttle.
RequestOfBothPedals(a, kph) ==
    [steer |-> SteerOf(a.lx), aMin |-> BrakeOf(a.lt), aMax |-> ThrottleOf(a.rt), speed |-> kph]

\* The request gamepadDriveTick makes of the axes: braking cuts the throttle
\* and the set speed.
RequestOf(a, kph) ==
    LET brake   == BrakeOf(a.lt)
        braking == brake < -1
    IN  [steer |-> SteerOf(a.lx),
         aMin |-> brake,
         aMax |-> IF braking THEN 0 ELSE ThrottleOf(a.rt),
         speed |-> IF braking THEN 0 ELSE kph]

\* The player has let go, the stick is centred.
Centre == 128
\* gpAxes after its initialiser and after the memset of onDisconnect.
Zeroed == [lx |-> 0, lt |-> 0, rt |-> 0]

ASSUME PadAssumption ==
    /\ StickReports \subseteq 0 .. 255 /\ {0, Centre} \subseteq StickReports
    /\ TriggerReports \subseteq 0 .. 255 /\ 0 \in TriggerReports
    /\ \A a \in Axes, k \in Kph : RequestOf(a, k) \in ControlRequests

\* Link up, subsystem on, feature armed: the early returns of gamepadDriveTick.
CanDrive == gpEnabled /\ enabled /\ gpConnected

\* The loss is over as soon as the pad could be read again.
TrackLoss == lossAge' = IF CanDrive' THEN 0 ELSE lossAge

LoopInit ==
    /\ Init
    /\ pc = "commands"
    /\ gpEnabled = FALSE /\ gpConnected = FALSE /\ linkUp = FALSE
    /\ axes = Zeroed
    /\ hand = Centre
    /\ lossAge = DeadMan + 1
    /\ panic = FALSE

-----------------------------------------------------------------------------
(* The main loop. *)

\* A command from any transport: drive:..., gamepad:cancel.
Command ==
    /\ pc = "commands"
    /\ Commands
    /\ panic' = CASE SendCancelBurst /\ enabled -> TRUE
                  [] ~enabled' -> FALSE
                  [] OTHER -> panic
    /\ UNCHANGED <<pc, padVars>>
    /\ TrackLoss

SaveStep == pc = "commands" /\ Put /\ UNCHANGED <<pc, padVars, history>>

\* gamepadSetEnabled and gamepadSetPaired: a link that is up is taken down,
\* onDisconnect follows from the host task.
PadSetEnabled(en) ==
    /\ pc = "commands" /\ puts = 0
    /\ gpEnabled' = en
    /\ UNCHANGED <<dasVars, pc, gpConnected, axes, linkUp, hand, panic>>
    /\ TrackLoss

\* gamepadUnpair clears gpConnected itself.
PadUnpair ==
    /\ pc = "commands" /\ puts = 0
    /\ gpEnabled' = FALSE
    /\ gpConnected' = FALSE
    /\ UNCHANGED <<dasVars, pc, axes, linkUp, hand, history>>

\* Mutant of DriveGate: the link test of gamepadDriveTick is missing.
DriveGateUnlinked ==
    /\ pc = "commands" /\ puts = 0
    /\ pc' = IF gpEnabled /\ enabled THEN "axes" ELSE "tick"
    /\ UNCHANGED <<dasVars, padVars, history>>

\* gamepadDriveTick up to its early returns.
DriveGate ==
    /\ pc = "commands" /\ puts = 0
    /\ pc' = IF CanDrive THEN "axes" ELSE "tick"
    /\ UNCHANGED <<dasVars, padVars, history>>

\* Mutant of DriveAxes: the axes become the commanded angle directly.
DriveAxesUnlimited ==
    /\ pc = "axes"
    /\ active' = TRUE
    /\ applied' = SteerOf(axes.lx)
    /\ age' = [age EXCEPT !.update = 0]
    /\ UNCHANGED <<enabled, cancelCount, req, config, vehicleSpeed, tx, owed>>
    /\ pc' = "tick"
    /\ UNCHANGED <<padVars, history>>

\* Mutant of DriveAxes: asks for the cap instead of the user limit.
DriveAxesAtCap ==
    /\ pc = "axes"
    /\ SetControl(RequestOf(axes, cap))
    /\ pc' = "tick"
    /\ UNCHANGED <<padVars, history>>

\* The rest of gamepadDriveTick: gpAxes is read without a lock.
DriveAxes ==
    /\ pc = "axes"
    /\ SetControl(RequestOf(axes, limit))
    /\ pc' = "tick"
    /\ UNCHANGED <<padVars, history>>

Tick ==
    /\ pc = "tick"
    /\ DasTick \/ DasTickIdle
    /\ pc' = "sample"
    /\ panic' = (panic /\ tx'.ctrl # "cancel")
    /\ UNCHANGED <<padVars, lossAge>>

\* The rest of loop() and the `now = millis()' that opens the next serialTick.
NewPass(d) ==
    /\ pc = "sample"
    /\ Sample(d)
    /\ pc' = "commands"
    /\ lossAge' = IF CanDrive THEN 0 ELSE Least(lossAge + d, DeadMan + 1)
    /\ UNCHANGED <<padVars, panic>>

Telemetered == \E v \in Telemetry :
    pc = "sample" /\ SpeedFrame(v) /\ UNCHANGED <<pc, padVars, history>>

-----------------------------------------------------------------------------
(* The NimBLE host task. *)

\* gamepadTick's gpConnect, called from wifiTick, and onConnect inside it.
OnConnect ==
    /\ pc = "sample" /\ gpEnabled /\ ~gpConnected /\ ~linkUp
    /\ linkUp' = TRUE
    /\ gpConnected' = TRUE
    /\ hand' = Centre
    /\ UNCHANGED <<dasVars, pc, gpEnabled, axes, panic>>
    /\ TrackLoss

OnDisconnect ==
    /\ linkUp
    /\ linkUp' = FALSE
    /\ gpConnected' = FALSE
    /\ axes' = Zeroed
    /\ hand' = Centre
    /\ UNCHANGED <<dasVars, pc, gpEnabled, history>>

\* gpNotifyCB and gpDecodeReport.
Report(a) ==
    /\ linkUp
    /\ axes' = a
    /\ hand' = a.lx
    /\ UNCHANGED <<dasVars, pc, gpEnabled, gpConnected, linkUp, history>>

Restart ==
    /\ Reboot
    /\ pc' = "commands"
    /\ gpConnected' = FALSE /\ linkUp' = FALSE
    /\ axes' = Zeroed
    /\ hand' = Centre
    /\ lossAge' = DeadMan + 1
    /\ panic' = FALSE
    /\ UNCHANGED gpEnabled

MainLoop ==
    \/ Command
    \/ SaveStep
    \/ \E en \in BOOLEAN : PadSetEnabled(en)
    \/ PadUnpair
    \/ DriveGate
    \/ DriveAxes
    \/ Tick
    \/ \E d \in Pauses : NewPass(d)
    \/ Telemetered

HostTask ==
    \/ OnConnect
    \/ OnDisconnect
    \/ \E a \in Axes : Report(a)

LoopNext == MainLoop \/ HostTask \/ Restart

LoopSpec == LoopInit /\ [][LoopNext]_vars

\* The loop runs: it gets past the commands of a pass, whose input buffers are
\* finite, it finishes its steps, and the clock advances between passes.
LoopFairness ==
    /\ WF_vars(SaveStep)
    /\ SF_vars(DriveGate)
    /\ WF_vars(DriveAxes)
    /\ WF_vars(Tick)
    /\ SF_vars(\E d \in Pauses : d > 0 /\ NewPass(d))

FairLoopSpec == LoopSpec /\ LoopFairness

-----------------------------------------------------------------------------
(* Properties. *)

\* The types of the variables this module adds, the loop's own bookkeeping and
\* that gpConnected is never set without a link.
LoopTypeOK ==
    /\ pc \in {"commands", "axes", "tick", "sample"}
    /\ gpEnabled \in BOOLEAN /\ gpConnected \in BOOLEAN /\ linkUp \in BOOLEAN
    /\ axes \in Axes
    /\ hand \in StickReports
    /\ gpConnected => linkUp
    /\ pc = "axes" => enabled /\ puts = 0
    /\ lossAge \in 0 .. DeadMan + 1
    /\ panic \in BOOLEAN

\* Neither an ACC_ON frame nor an engaged steering frame leaves more than the
\* dead-man time after the last pass that could read the pad, wherever the
\* disconnection, the disarming or the unpairing fell in the loop.
LossStopsControl ==
    tx.ctrl = "on" \/ tx.steer = "engaged" => lossAge <= DeadMan

\* No frame presses both pedals or brakes towards a set speed, whatever mixture
\* of two reports the unlocked read of gpAxes sees and however old the request;
\* the standstill hold may add its own mild brake to a barely pressed throttle.
PedalsExclusive ==
    tx.ctrl # "none" /\ tx.aMin < StandstillHold => tx.aMax = 0 /\ tx.speed = 0

\* While the pad can be read, the set speed on the bus is within the user limit
\* in force, also right after a command lowered it; a request left over from a
\* link that is gone may still carry the old limit until the dead-man trips.
UserLimitHeld == [][Tick /\ CanDrive /\ tx'.ctrl = "on" => tx'.speed <= limit]_vars

\* The main loop uses DAS drive as its interface allows.
ImplementsDasDrive == Spec

\* A burst that a lost link leaves owed is transmitted, unless the pad comes
\* back, the board resets or drive:off comes first: what a disarmed injector
\* owes is the subject of DisarmSendsBurst.
BurstDelivered ==
    (enabled /\ ~CanDrive /\ ~active /\ owed > 0) ~> (owed = 0 \/ CanDrive \/ ~enabled)

\* Control ends after the link is lost, unless it comes back.
LinkLossEndsControl == ~gpConnected ~> (~active \/ gpConnected)

(* What the documentation says and the code does not do. *)

\* wifi-api.md: gamepad:cancel is a panic-stop; no ACC_ON frame may follow it
\* before a CANCEL frame.
PanicStopWorks == panic => tx.ctrl # "on"

\* das-drive.md: drive:off disarms and emits the cancel burst, returning control
\* to the autopilot; so what it leaves owed is sent, unless drive:on intervenes.
DisarmSendsBurst == (~enabled /\ owed > 0) ~> (owed = 0 \/ enabled)

\* das-drive.md: the left stick is what steers.
StickSteers == [][DriveAxes => req'.steer = SteerOf(hand)]_vars
=============================================================================
