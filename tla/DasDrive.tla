------------------------------- MODULE DasDrive -------------------------------
(***************************************************************************)
(* DAS drive (firmware/lib/vehicle/can/feature/das/das_drive.h): the       *)
(* injector that turns gamepad requests into DAS_control,                  *)
(* DAS_steeringControl and APS_eacMonitor frames on the chassis bus.       *)
(*                                                                         *)
(* This module is the component alone: its callers may set a control       *)
(* request, run commands and call dasTick in any order.  GamepadDrive puts *)
(* it into the main loop that really calls it.                             *)
(*                                                                         *)
(* Time is counted in units of 20 ms, the steering frame interval.  Each   *)
(* millisecond time stamp of the code is replaced by its age: how long ago *)
(* it was taken, as of the `now' the current loop pass sampled, saturating *)
(* where the code no longer tells larger ages apart.                       *)
(*                                                                         *)
(* Each Preferences put commits by itself, so the three puts of dasSaveNvs *)
(* are three steps, and a reset may fall between them.                     *)
(***************************************************************************)
EXTENDS DasLimits

CONSTANTS
    CancelFrames,   \* DAS_CANCEL_FRAMES
    CtrlInterval,   \* DAS_CTRL_INTERVAL_MS
    SteerInterval,  \* DAS_STEER_INTERVAL_MS
    EacInterval,    \* DAS_EAC_INTERVAL_MS
    DeadMan,        \* DAS_DEADMAN_MS
    ControlRequests,\* requests a caller may pass to dasSetControl
    KphArgs,        \* arguments of drive:speed: and drive:cap:
    Telemetry,      \* vehicle speeds the CAN decoder may report
    Pauses          \* time from one pass of the main loop to the next

Requests == [steer : Int, aMin : Int, aMax : Int, speed : Int]

ASSUME DasAssumption ==
    /\ CancelFrames \in Nat \ {0}
    /\ {CtrlInterval, SteerInterval, EacInterval, DeadMan} \subseteq Nat \ {0}
    /\ ControlRequests \subseteq Requests
    /\ KphArgs \subseteq Int
    /\ Telemetry \subseteq Nat /\ Pauses \subseteq Nat

VARIABLES
    enabled,      \* dasDriveEnabled
    active,       \* dasActive
    cancelCount,  \* dasCancelCount
    req,          \* dasSteerAngle, dasAccelMin, dasAccelMax, dasSetSpeedKph
    applied,      \* dasAppliedAngle
    cap,          \* dasSpeedCapKph
    limit,        \* dasSpeedLimitKph
    age,          \* ages of dasCtrlLastMs, dasSteerLastMs, dasEacLastMs, dasLastUpdateMs
    nvs,          \* the "tcm_das" namespace in flash
    puts,         \* puts of dasSaveNvs still to do
    vehicleSpeed, \* State::vehicleSpeed, written by the CAN decoder
    tx,           \* frames the last dasTick handed to the driver
    owed,         \* history: CANCEL frames the bus has not seen since the last ACC_ON
    committed,    \* history: the configuration when dasSaveNvs last finished
    torn          \* history: a reset has cut dasSaveNvs short since then

control == <<enabled, active, cancelCount, req, applied>>
config == <<cap, limit, nvs, puts, committed, torn>>
dasVars == <<enabled, active, cancelCount, req, applied, cap, limit, age, nvs,
             puts, vehicleSpeed, tx, owed, committed, torn>>

Timers == [ctrl : 0 .. CtrlInterval, steer : 0 .. SteerInterval,
           eac : 0 .. EacInterval, update : 0 .. DeadMan + 1]
Kph == SpeedCapMin .. SpeedCapMax
Configs == [en : BOOLEAN, cap : Kph, spd : Kph]
Frames == [ctrl : {"none", "on", "cancel"}, speed : Int, aMin : Int, aMax : Int,
           steer : {"none", "off", "engaged"}, angle : Int, eac : BOOLEAN]

\* No request yet, as the static initialisers leave it.
NoRequest == [steer |-> 0, aMin |-> 0, aMax |-> 0, speed |-> SpeedDefault]

Silent == [ctrl |-> "none", speed |-> 0, aMin |-> 0, aMax |-> 0,
           steer |-> "none", angle |-> 0, eac |-> FALSE]

Expired == [ctrl |-> CtrlInterval, steer |-> SteerInterval,
            eac |-> EacInterval, update |-> DeadMan + 1]

FactoryConfig == [en |-> FALSE, cap |-> SpeedDefault, spd |-> SpeedDefault]

\* Mutant of LoadNvs: the limit is trusted without the clamp to the cap.
LoadNvsUnclamped(n) == [en |-> n.en, cap |-> Clamp(n.cap, SpeedCapMin, SpeedCapMax), spd |-> n.spd]

\* dasLoadNvs: what a boot makes of the flash contents.
LoadNvs(n) ==
    LET c == Clamp(n.cap, SpeedCapMin, SpeedCapMax)
    IN  [en |-> n.en, cap |-> c, spd |-> Least(n.spd, c)]

CurrentConfig == [en |-> enabled, cap |-> cap, spd |-> limit]

\* The static initialisers, with nothing in flash yet.
Init ==
    /\ enabled = FALSE /\ active = FALSE
    /\ cancelCount = 0
    /\ req = NoRequest
    /\ applied = 0
    /\ cap = SpeedDefault /\ limit = SpeedDefault
    /\ age = Expired
    /\ nvs = FactoryConfig /\ committed = FactoryConfig
    /\ puts = 0
    /\ vehicleSpeed = 0
    /\ tx = Silent
    /\ owed = 0
    /\ torn = FALSE

-----------------------------------------------------------------------------
(* Commands: each changes RAM and then calls dasSaveNvs. *)

StartSave == puts = 0 /\ puts' = 3 /\ UNCHANGED <<nvs, committed, torn>>

\* dasDriveSetEnabled(true)
DriveOn ==
    /\ StartSave
    /\ enabled' = TRUE
    /\ UNCHANGED <<active, cancelCount, req, applied, cap, limit, age,
                   vehicleSpeed, tx, owed>>

\* dasDriveSetEnabled(false)
DriveOff ==
    /\ StartSave
    /\ enabled' = FALSE
    /\ active' = FALSE
    /\ cancelCount' = CancelFrames
    /\ applied' = 0
    /\ UNCHANGED <<req, cap, limit, age, vehicleSpeed, tx, owed>>

\* drive:speed:<v>
DriveSpeed(v) ==
    /\ StartSave
    /\ limit' = Least(IF v < 1 THEN 1 ELSE v, cap)
    /\ UNCHANGED <<control, cap, age, vehicleSpeed, tx, owed>>

\* drive:cap:<v> pulls the user limit down with the cap.
DriveCap(v) ==
    /\ StartSave
    /\ cap' = Clamp(v, SpeedCapMin, SpeedCapMax)
    /\ limit' = Least(limit, cap')
    /\ UNCHANGED <<control, age, vehicleSpeed, tx, owed>>

\* One put of dasSaveNvs: "en", then "cap", then "spd".
Put ==
    /\ puts > 0
    /\ puts' = puts - 1
    /\ nvs' = [en |-> IF puts = 3 THEN enabled ELSE nvs.en,
               cap |-> IF puts = 2 THEN cap ELSE nvs.cap,
               spd |-> IF puts = 1 THEN limit ELSE nvs.spd]
    /\ committed' = IF puts = 1 THEN CurrentConfig ELSE committed
    /\ torn' = (torn /\ puts > 1)
    /\ UNCHANGED <<control, cap, limit, age, vehicleSpeed, tx, owed>>

\* dasSendCancelBurst, called by gamepad:cancel
SendCancelBurst ==
    /\ puts = 0
    /\ active' = FALSE
    /\ cancelCount' = CancelFrames
    /\ UNCHANGED <<enabled, req, applied, config, age, vehicleSpeed, tx, owed>>

\* dasSetControl(steer, accelMin, accelMax, speed, now), but for the request.
TakeControl ==
    /\ puts = 0
    /\ enabled
    /\ age' = [age EXCEPT !.update = 0]
    /\ active' = TRUE
    /\ UNCHANGED <<enabled, cancelCount, applied, config, vehicleSpeed, tx, owed>>

SetControl(r) == req' = r /\ TakeControl

-----------------------------------------------------------------------------
(* dasTick, by the blocks it is made of. *)

\* Mutant of DeadManTrips: tested against the wrong time stamp.
DeadManTripsWrongTimer == active /\ age.ctrl > DeadMan
\* The dead-man test that opens every tick.
DeadManTrips == active /\ age.update > DeadMan
StillActive == active /\ ~DeadManTrips
\* Mutant of CancelsLeft: the dead-man ends control but queues no burst.
CancelsLeftNoBurst == cancelCount
CancelsLeft == IF DeadManTrips THEN CancelFrames ELSE cancelCount

\* Longitudinal and EAC frames are sent while engaged or cancelling.
Talking == enabled /\ (StillActive \/ CancelsLeft > 0)

EacDue == age.eac >= EacInterval
SteerDue == age.steer >= SteerInterval
CtrlDue == age.ctrl >= CtrlInterval

\* Mutant of CommandedAngle: rate limit first, lateral clamp second.
CommandedAngleClampLast ==
    LET most == MaxSteerAtSpeed(vehicleSpeed)
    IN  IF StillActive THEN Clamp(RateLimitAngle(req.steer, applied), -most, most) ELSE 0

\* Speed-aware clamp, then rate limit; relaxed to centre when disengaged.
CommandedAngle ==
    LET most == MaxSteerAtSpeed(vehicleSpeed)
    IN  IF StillActive
        THEN RateLimitAngle(Clamp(req.steer, -most, most), applied)
        ELSE 0

\* Mutant of ControlFields: the set speed is clamped to the largest cap there
\* may be, trusting the clamp made when it was requested.
ControlFieldsAnyCap ==
    LET brake == IF StillActive THEN HeldBrake(vehicleSpeed, req.aMin, req.aMax)
                                ELSE req.aMin
    IN  [speed |-> Clamp(req.speed, 0, SpeedCapMax),
         aMin |-> Clamp(brake, AccelMin, 0),
         aMax |-> Clamp(req.aMax, 0, AccelMax)]

\* The fields of a DAS_control frame after the clamps of buildDasControlFrame.
ControlFields ==
    LET brake == IF StillActive THEN HeldBrake(vehicleSpeed, req.aMin, req.aMax)
                                ELSE req.aMin
    IN  [speed |-> Clamp(req.speed, 0, cap),
         aMin |-> Clamp(brake, AccelMin, 0),
         aMax |-> Clamp(req.aMax, 0, AccelMax)]

CtrlState == IF ~(CtrlDue /\ Talking) THEN "none" ELSE IF StillActive THEN "on" ELSE "cancel"
SteerState == IF ~(SteerDue /\ enabled) THEN "none" ELSE IF StillActive THEN "engaged" ELSE "off"

Transmitted ==
    [ctrl  |-> CtrlState,
     speed |-> IF CtrlState = "none" THEN 0 ELSE ControlFields.speed,
     aMin  |-> IF CtrlState = "none" THEN 0 ELSE ControlFields.aMin,
     aMax  |-> IF CtrlState = "none" THEN 0 ELSE ControlFields.aMax,
     steer |-> SteerState,
     angle |-> IF SteerState = "none" THEN 0 ELSE CommandedAngle,
     eac   |-> EacDue /\ Talking]

\* What the tick does when it does not return at once.
DasTick ==
    /\ puts = 0
    /\ enabled \/ cancelCount > 0
    /\ tx' = Transmitted
    /\ active' = StillActive
    /\ cancelCount' = IF CtrlState = "cancel" THEN CancelsLeft - 1 ELSE CancelsLeft
    /\ applied' = IF SteerState = "none" THEN applied ELSE CommandedAngle
    /\ age' = [age EXCEPT !.ctrl = IF CtrlDue THEN 0 ELSE @,
                          !.steer = IF SteerDue THEN 0 ELSE @,
                          !.eac = IF EacDue THEN 0 ELSE @]
    /\ owed' = CASE CtrlState = "on" -> CancelFrames
                 [] CtrlState = "cancel" /\ owed > 0 -> owed - 1
                 [] OTHER -> owed
    /\ UNCHANGED <<enabled, req, config, vehicleSpeed>>

\* The early return of dasTick.
DasTickIdle ==
    /\ puts = 0
    /\ ~enabled /\ cancelCount = 0
    /\ UNCHANGED dasVars

-----------------------------------------------------------------------------
(* The environment. *)

\* The loop samples millis() again, d units after the last sample.
Sample(d) ==
    /\ puts = 0
    /\ age' = [ctrl |-> Least(age.ctrl + d, CtrlInterval),
               steer |-> Least(age.steer + d, SteerInterval),
               eac |-> Least(age.eac + d, EacInterval),
               update |-> Least(age.update + d, DeadMan + 1)]
    /\ tx' = Silent
    /\ UNCHANGED <<control, config, vehicleSpeed, owed>>

\* The CAN decoder stores a vehicle speed.
SpeedFrame(v) ==
    /\ puts = 0
    /\ vehicleSpeed' = v
    /\ UNCHANGED <<control, config, age, tx, owed>>

\* Power loss or reset: the static initialisers, then serialInit's dasInit.
Reboot ==
    LET boot == LoadNvs(nvs)
    IN  /\ enabled' = boot.en
        /\ cap' = boot.cap
        /\ limit' = boot.spd
        /\ active' = FALSE
        /\ cancelCount' = 0
        /\ req' = NoRequest
        /\ applied' = 0
        /\ age' = Expired
        /\ puts' = 0
        /\ vehicleSpeed' = 0
        /\ tx' = Silent
        /\ owed' = 0
        /\ committed' = boot
        /\ torn' = (torn \/ puts > 0)
        /\ UNCHANGED nvs

Commands ==
    \/ DriveOn
    \/ DriveOff
    \/ \E v \in KphArgs : DriveSpeed(v) \/ DriveCap(v)
    \/ SendCancelBurst

SetAnyControl == req' \in ControlRequests /\ TakeControl

Next ==
    \/ Commands
    \/ Put
    \/ SetAnyControl
    \/ DasTick
    \/ DasTickIdle
    \/ \E d \in Pauses : Sample(d)
    \/ \E v \in Telemetry : SpeedFrame(v)
    \/ Reboot

Spec == Init /\ [][Next]_dasVars

-----------------------------------------------------------------------------
(* Properties. *)

\* The types of the variables.
TypeOK ==
    /\ enabled \in BOOLEAN /\ active \in BOOLEAN
    /\ cancelCount \in 0 .. CancelFrames
    /\ req \in Requests
    /\ applied \in Int
    /\ cap \in Kph /\ limit \in Kph
    /\ age \in Timers
    /\ nvs \in Configs /\ committed \in Configs
    /\ puts \in 0 .. 3
    /\ vehicleSpeed \in Nat
    /\ tx \in Frames
    /\ owed \in 0 .. CancelFrames
    /\ torn \in BOOLEAN

\* Once control has ended, every CANCEL frame the bus still has to see is
\* queued, however often control ended and resumed in between.  After the
\* dead-man or gamepad:cancel the armed injector sends what is queued; after
\* drive:off it is only queued, for a disarmed dasTick sends nothing until
\* drive:on (GamepadDrive's DisarmSendsBurst).
CancelOwedIsQueued == ~active => owed <= cancelCount

\* A reset between two puts of dasSaveNvs loads the configuration from before
\* the interrupted command or the one after it, never a mixture.  Loading does
\* not repair the flash, so a second interrupted save may bring back a user
\* limit older than both; arming and cap are old or new even then, and the user
\* limit is never above the cap.
CrashAtomicConfig ==
    LET boot == LoadNvs(nvs)
    IN  /\ boot.en \in {committed.en, enabled} /\ boot.cap \in {committed.cap, cap}
        /\ ~torn => boot \in {committed, CurrentConfig}
        /\ puts = 0 => boot = CurrentConfig
        /\ limit <= cap

\* No DAS_control frame leaves the safety envelope of the moment it is sent: the
\* set speed is within the cap then in force, although the request may be older
\* than the drive:cap: that tightened it, or ill-formed.
ControlEnvelope ==
    [][DasTick /\ tx'.ctrl # "none" =>
         /\ tx'.speed \in 0 .. cap
         /\ tx'.aMin \in AccelMin .. 0
         /\ tx'.aMax \in 0 .. AccelMax]_dasVars

\* An engaged steering frame is within one rate step of the last commanded
\* angle, and when the car is now too fast for that angle the command moves
\* towards centre by the full step until it is inside the lateral limit.
LateralClampConverges ==
    [][tx'.steer = "engaged" /\ tx' # tx =>
         /\ Magnitude(tx'.angle - applied) <= MaxAngleRate
         /\ \/ Magnitude(tx'.angle) <= MaxSteerAtSpeed(vehicleSpeed)
            \/ Magnitude(tx'.angle) = Magnitude(applied) - MaxAngleRate]_dasVars

\* Why CrashAtomicConfig holds: how far the puts have got, and that the command
\* being saved changed either the arming, or the limit, or the cap with the limit
\* it pulls down.
ConfigInv ==
    /\ nvs.en = IF puts <= 2 THEN enabled ELSE committed.en
    /\ nvs.cap = IF puts <= 1 THEN cap ELSE committed.cap
    /\ committed.spd = Least(nvs.spd, committed.cap)
    /\ ~torn => nvs.spd = committed.spd
    /\ puts = 0 => committed = CurrentConfig
    /\ enabled # committed.en => cap = committed.cap /\ limit = committed.spd
    /\ cap # committed.cap => limit = Least(committed.spd, cap)
    /\ limit <= cap
=============================================================================
