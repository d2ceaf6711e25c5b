------------------------------- MODULE CarProofs -------------------------------
(***************************************************************************)
(* Theorems about what drives the car, for every value of the constants:   *)
(* the arithmetic of DasLimits and the tick of DasDrive, the main loop     *)
(* that feeds it from a gamepad (GamepadDrive), the injections of the pass *)
(* (CanLoop), and the two composed (MCCarFrames).                          *)
(***************************************************************************)
EXTENDS MCCarFrames, TLAPS

-----------------------------------------------------------------------------
(* The arithmetic of DasLimits, for every input. *)

\* A clamped integer lies between its bounds.
LEMMA ClampRange ==
    ASSUME NEW x \in Int, NEW lo \in Int, NEW hi \in Int, lo <= hi
    PROVE  Clamp(x, lo, hi) \in lo .. hi
  BY DEF Clamp

\* The lesser of two integers is one of them and no more than either.
LEMMA LeastFacts ==
    ASSUME NEW a \in Int, NEW b \in Int
    PROVE  /\ Least(a, b) \in Int
           /\ Least(a, b) <= a
           /\ Least(a, b) <= b
           /\ Least(a, b) \in {a, b}
  BY DEF Least

\* The square of a positive speed is positive.
LEMMA SquarePositive ==
    ASSUME NEW k \in Nat, k > 0
    PROVE  k * k \in Nat /\ k * k > 0
  BY SMT

\* The speed-aware steering limit is at least one degree and at most full lock.
LEMMA MaxSteerRange ==
    ASSUME NEW kph \in Nat
    PROVE  MaxSteerAtSpeed(kph) \in 1 .. MaxAngle
  <1>1. CASE kph < LowSpeedKph
    BY <1>1 DEF MaxSteerAtSpeed, LowSpeedKph, MaxAngle
  <1>2. CASE ~(kph < LowSpeedKph)
    <2> DEFINE sq == kph * kph
    <2>1. sq \in Nat /\ sq > 0
      BY <1>2, SquarePositive DEF LowSpeedKph
    <2>2. 6404 \div sq \in Int
      <3> HIDE DEF sq
      <3> QED BY <2>1
    <2> DEFINE q == 6404 \div sq
    <2>3. Clamp(q, 1, MaxAngle) \in 1 .. MaxAngle
      <3>1. q \in Int
        BY <2>2
      <3> HIDE DEF q
      <3> QED BY <3>1 DEF Clamp, MaxAngle
    <2> QED BY <1>2, <2>3 DEF MaxSteerAtSpeed
  <1> QED BY <1>1, <1>2

\* The rate limiter returns an angle at most one step from the last one, and
\* no further from the target than the last one was.
THEOREM RateLimitStep ==
    ASSUME NEW target \in Int, NEW last \in Int
    PROVE  /\ RateLimitAngle(target, last) \in Int
           /\ RateLimitAngle(target, last) - last \in -MaxAngleRate .. MaxAngleRate
           /\ Magnitude(target - RateLimitAngle(target, last)) <= Magnitude(target - last)
  BY DEF RateLimitAngle, Clamp, MaxAngleRate, Magnitude

\* The standstill hold only ever asks for more braking.
LEMMA HeldBrakeBounds ==
    ASSUME NEW kph \in Nat, NEW aMin \in Int, NEW aMax \in Int
    PROVE  HeldBrake(kph, aMin, aMax) \in Int /\ HeldBrake(kph, aMin, aMax) <= aMin
  BY DEF HeldBrake, Least, StandstillHold
\* Clamping the target before limiting the rate ends inside the clamp, or at
\* least moves a whole rate step towards it.
LEMMA ClampThenLimit ==
    ASSUME NEW steer \in Int, NEW last \in Int, NEW most \in Int, most >= 1
    PROVE  LET next == RateLimitAngle(Clamp(steer, -most, most), last)
           IN  /\ Magnitude(next - last) <= MaxAngleRate
               /\ \/ Magnitude(next) <= most
                  \/ Magnitude(next) = Magnitude(last) - MaxAngleRate
  <1> DEFINE target == Clamp(steer, -most, most)
  <1>1. target \in Int /\ -most <= target /\ target <= most
    BY DEF Clamp
  <1> HIDE DEF target
  <1>2. CASE target - last > 5
    BY <1>1, <1>2 DEF RateLimitAngle, Clamp, MaxAngleRate, Magnitude
  <1>3. CASE target - last < -5
    BY <1>1, <1>3 DEF RateLimitAngle, Clamp, MaxAngleRate, Magnitude
  <1>4. CASE target - last \in -5 .. 5
    BY <1>1, <1>4 DEF RateLimitAngle, Clamp, MaxAngleRate, Magnitude
  <1>5. \/ target - last > 5 \/ target - last < -5 \/ target - last \in -5 .. 5
    BY <1>1
  <1> QED BY <1>2, <1>3, <1>4, <1>5 DEF target

-----------------------------------------------------------------------------
(* The frames. *)

\* The commanded angle is an integer whatever was requested.
LEMMA CommandedAngleInt ==
    ASSUME TypeOK
    PROVE  CommandedAngle \in Int
  <1> DEFINE most == MaxSteerAtSpeed(vehicleSpeed)
             target == Clamp(req.steer, -most, most)
  <1>1. most \in 1 .. MaxAngle
    BY MaxSteerRange DEF TypeOK, Requests
  <1>2. target \in Int
    <2>1. req.steer \in Int
      BY DEF TypeOK, Requests
    <2> HIDE DEF most
    <2> QED BY <1>1, <2>1 DEF Clamp, MaxAngle
  <1>3. applied \in Int
    BY DEF TypeOK, Requests
  <1>4. RateLimitAngle(target, applied) \in Int
    <2> HIDE DEF target
    <2> QED BY <1>2, <1>3, RateLimitStep
  <1> QED BY <1>4 DEF CommandedAngle

\* The fields of a control frame lie in the safety envelope.
LEMMA ControlFieldsRange ==
    ASSUME TypeOK
    PROVE  /\ ControlFields.speed \in 0 .. cap
           /\ ControlFields.aMin \in AccelMin .. 0
           /\ ControlFields.aMax \in 0 .. AccelMax
  <1> DEFINE brake == IF StillActive THEN HeldBrake(vehicleSpeed, req.aMin, req.aMax)
                                     ELSE req.aMin
  <1>1. brake \in Int
    BY HeldBrakeBounds DEF TypeOK, Requests
  <1>2. Clamp(brake, AccelMin, 0) \in AccelMin .. 0
    <2> HIDE DEF brake
    <2> QED BY <1>1 DEF Clamp, AccelMin
  <1>3. Clamp(req.speed, 0, cap) \in 0 .. cap
    BY DEF TypeOK, Requests, Clamp, Kph, SpeedCapMin, SpeedCapMax
  <1>4. Clamp(req.aMax, 0, AccelMax) \in 0 .. AccelMax
    BY DEF TypeOK, Requests, Clamp, AccelMax
  <1> QED BY <1>2, <1>3, <1>4 DEF ControlFields
-----------------------------------------------------------------------------
(* Type correctness. *)

LEMMA ConstantFacts ==
    /\ CancelFrames \in Nat /\ CancelFrames > 0
    /\ CtrlInterval \in Nat /\ CtrlInterval > 0
    /\ SteerInterval \in Nat /\ SteerInterval > 0
    /\ EacInterval \in Nat /\ EacInterval > 0
    /\ DeadMan \in Nat /\ DeadMan > 0
  BY DasAssumption

LEMMA ExpiredType ==
    Expired \in Timers
  BY ConstantFacts DEF Expired, Timers

LEMMA TypeInit ==
    Init => TypeOK
  <1> SUFFICES ASSUME Init PROVE TypeOK
    OBVIOUS
  <1>1. SpeedDefault \in Kph
    BY DEF SpeedDefault, Kph, SpeedCapMin, SpeedCapMax
  <1>2. FactoryConfig \in Configs
    BY <1>1 DEF FactoryConfig, Configs
  <1>3. NoRequest \in Requests
    BY DEF NoRequest, SpeedDefault, Requests
  <1>4. Silent \in Frames
    BY DEF Silent, Frames
  <1>5. enabled \in BOOLEAN /\ active \in BOOLEAN /\ torn \in BOOLEAN
    BY Zenon DEF Init
  <1>6. cancelCount \in 0 .. CancelFrames /\ owed \in 0 .. CancelFrames
    BY ConstantFacts DEF Init
  <1> QED
    BY <1>1, <1>2, <1>3, <1>4, <1>5, <1>6, ExpiredType DEF Init, TypeOK

\* The lesser of two speeds in range is in range.
LEMMA LeastKph ==
    ASSUME NEW a \in Kph, NEW b \in Kph
    PROVE  Least(a, b) \in Kph /\ Least(a, b) <= b
  BY DEF Least, Kph, SpeedCapMin, SpeedCapMax

LEMMA LeastSmaller ==
    ASSUME NEW a \in Kph, NEW b \in Kph, a <= b
    PROVE  Least(a, b) = a
  BY DEF Least, Kph, SpeedCapMin, SpeedCapMax

\* A loaded configuration is well typed and keeps the user limit within the cap.
LEMMA LoadNvsFacts ==
    ASSUME NEW n \in Configs
    PROVE  /\ LoadNvs(n) \in Configs
           /\ LoadNvs(n).en = n.en
           /\ LoadNvs(n).cap = n.cap
           /\ LoadNvs(n).spd = Least(n.spd, n.cap)
           /\ LoadNvs(n).spd <= LoadNvs(n).cap
  <1>1. n.en \in BOOLEAN /\ n.cap \in Kph /\ n.spd \in Kph
    BY DEF Configs
  <1>2. Clamp(n.cap, SpeedCapMin, SpeedCapMax) = n.cap
    BY <1>1 DEF Clamp, Kph, SpeedCapMin, SpeedCapMax
  <1>3. Least(n.spd, n.cap) \in Kph /\ Least(n.spd, n.cap) <= n.cap
    BY <1>1, LeastKph
  <1>4. LoadNvs(n) = [en |-> n.en, cap |-> n.cap, spd |-> Least(n.spd, n.cap)]
    BY <1>2 DEF LoadNvs
  <1> QED
    BY <1>1, <1>3, <1>4 DEF Configs

LEMMA TypeTick ==
    ASSUME TypeOK, DasTick
    PROVE  TypeOK'
  <1> USE ConstantFacts
  <1>1. CommandedAngle \in Int
    BY CommandedAngleInt
  <1>2. /\ ControlFields.speed \in Int
        /\ ControlFields.aMin \in Int
        /\ ControlFields.aMax \in Int
    BY ControlFieldsRange DEF TypeOK, Kph, SpeedCapMin, SpeedCapMax, AccelMin, AccelMax
  <1>3. CtrlState \in {"none", "on", "cancel"} /\ SteerState \in {"none", "off", "engaged"}
    BY DEF CtrlState, SteerState
  <1>4. StillActive \in BOOLEAN /\ CancelsLeft \in 0 .. CancelFrames
    BY DEF StillActive, CancelsLeft, TypeOK
  <1>5. (EacDue /\ Talking) \in BOOLEAN
    BY DEF EacDue, Talking
  <1>6. tx' \in Frames
    BY <1>1, <1>2, <1>3, <1>5 DEF DasTick, Transmitted, Frames
  <1>7. CtrlState = "cancel" => CancelsLeft > 0
    BY DEF CtrlState, Talking
  <1>8. cancelCount' \in 0 .. CancelFrames
    BY <1>4, <1>7 DEF DasTick
  <1>9. age' \in Timers
    <2>1. /\ age.ctrl \in 0 .. CtrlInterval /\ age.steer \in 0 .. SteerInterval
          /\ age.eac \in 0 .. EacInterval /\ age.update \in 0 .. DeadMan + 1
          /\ age = [ctrl |-> age.ctrl, steer |-> age.steer, eac |-> age.eac, update |-> age.update]
      BY DEF TypeOK, Timers
    <2>2. age' = [ctrl |-> IF CtrlDue THEN 0 ELSE age.ctrl,
                  steer |-> IF SteerDue THEN 0 ELSE age.steer,
                  eac |-> IF EacDue THEN 0 ELSE age.eac,
                  update |-> age.update]
      BY <2>1 DEF DasTick
    <2> QED BY <2>1, <2>2 DEF Timers
  <1>10. owed' \in 0 .. CancelFrames
    BY DEF DasTick, TypeOK
  <1>11. applied' \in Int
    BY <1>1 DEF DasTick, TypeOK
  <1> QED
    BY <1>4, <1>6, <1>8, <1>9, <1>10, <1>11 DEF DasTick, TypeOK, config

LEMMA TypeNext ==
    ASSUME TypeOK, [Next]_dasVars
    PROVE  TypeOK'
  <1> USE DEF TypeOK
  <1>1. CASE DriveOn
    BY <1>1 DEF DriveOn, StartSave
  <1>2. CASE DriveOff
    <2>1. enabled' \in BOOLEAN /\ active' \in BOOLEAN
      BY <1>2, Zenon DEF DriveOff
    <2>2. cancelCount' \in 0 .. CancelFrames
      BY <1>2, ConstantFacts DEF DriveOff
    <2> QED BY <1>2, <2>1, <2>2 DEF DriveOff, StartSave
  <1>3. ASSUME NEW v \in KphArgs, DriveSpeed(v)
        PROVE  TypeOK'
    <2>1. limit' \in Kph
      BY <1>3, DasAssumption DEF DriveSpeed, Least, Kph, SpeedCapMin, SpeedCapMax
    <2> QED BY <1>3, <2>1 DEF DriveSpeed, StartSave, control
  <1>4. ASSUME NEW v \in KphArgs, DriveCap(v)
        PROVE  TypeOK'
    <2>1. cap' \in Kph
      BY <1>4, DasAssumption DEF DriveCap, Clamp, Kph, SpeedCapMin, SpeedCapMax
    <2>2. limit' \in Kph
      BY <1>4, <2>1, LeastKph DEF DriveCap
    <2> QED BY <1>4, <2>1, <2>2 DEF DriveCap, StartSave, control
  <1>5. CASE SendCancelBurst
    <2>1. active' \in BOOLEAN
      BY <1>5, Zenon DEF SendCancelBurst
    <2>2. cancelCount' \in 0 .. CancelFrames
      BY <1>5, ConstantFacts DEF SendCancelBurst
    <2> QED BY <1>5, <2>1, <2>2 DEF SendCancelBurst, config
  <1>6. CASE Put
    <2>1. nvs' \in Configs /\ committed' \in Configs
      BY <1>6 DEF Put, Configs, CurrentConfig
    <2>2. puts' \in 0 .. 3 /\ torn' \in BOOLEAN
      BY <1>6 DEF Put
    <2> QED BY <1>6, <2>1, <2>2 DEF Put, control
  <1>7. CASE SetAnyControl
    <2>1. req' \in Requests
      BY <1>7, DasAssumption DEF SetAnyControl, TakeControl, Requests
    <2>2. age' \in Timers
      BY <1>7, ConstantFacts DEF SetAnyControl, TakeControl, Timers
    <2> QED BY <1>7, <2>1, <2>2 DEF SetAnyControl, TakeControl, config
  <1>8. CASE DasTick
    BY <1>8, TypeTick
  <1>9. CASE DasTickIdle
    BY <1>9 DEF DasTickIdle, dasVars
  <1>10. ASSUME NEW d \in Pauses, Sample(d)
         PROVE  TypeOK'
    <2>1. age' \in Timers
      BY <1>10, ConstantFacts, DasAssumption DEF Sample, Least, Timers
    <2> QED BY <1>10, <2>1 DEF Sample, Silent, Frames, control, config
  <1>11. ASSUME NEW v \in Telemetry, SpeedFrame(v)
         PROVE  TypeOK'
    BY <1>11, DasAssumption DEF SpeedFrame, control, config
  <1>12. CASE Reboot
    <2>1. LoadNvs(nvs) \in Configs
      BY LoadNvsFacts
    <2>2. enabled' \in BOOLEAN /\ cap' \in Kph /\ limit' \in Kph
      BY <1>12, <2>1 DEF Reboot, Configs
    <2>3. req' \in Requests
      BY <1>12 DEF Reboot, NoRequest, SpeedDefault, Requests
    <2>4. age' \in Timers
      BY <1>12, ExpiredType DEF Reboot
    <2>5. tx' \in Frames
      BY <1>12 DEF Reboot, Silent, Frames
    <2>6. active' \in BOOLEAN
      BY <1>12, Zenon DEF Reboot
    <2>7. cancelCount' \in 0 .. CancelFrames /\ owed' \in 0 .. CancelFrames
      BY <1>12, ConstantFacts DEF Reboot
    <2>8. puts' \in 0 .. 3 /\ applied' \in Int /\ vehicleSpeed' \in Nat /\ torn' \in BOOLEAN
      BY <1>12 DEF Reboot
    <2>9. nvs' \in Configs /\ committed' \in Configs
      BY <1>12, <2>1 DEF Reboot
    <2> QED
      BY <2>2, <2>3, <2>4, <2>5, <2>6, <2>7, <2>8, <2>9
  <1>13. CASE UNCHANGED dasVars
    BY <1>13 DEF dasVars
  <1> QED
    BY <1>1, <1>2, <1>3, <1>4, <1>5, <1>6, <1>7, <1>8, <1>9, <1>10, <1>11, <1>12, <1>13
    DEF Next, Commands

\* Every variable keeps its type in every behaviour of the component.
THEOREM TypeCorrect == Spec => []TypeOK
  <1>1. Init => TypeOK
    BY TypeInit
  <1>2. TypeOK /\ [Next]_dasVars => TypeOK'
    BY TypeNext
  <1> QED BY <1>1, <1>2, PTL DEF Spec
-----------------------------------------------------------------------------
(* The cancel burst. *)

LEMMA CancelTick ==
    ASSUME TypeOK, CancelOwedIsQueued, DasTick
    PROVE  CancelOwedIsQueued'
  <1> USE ConstantFacts DEF TypeOK, CancelOwedIsQueued
  <1> SUFFICES ASSUME ~active' PROVE owed' <= cancelCount'
    OBVIOUS
  <1>1. ~StillActive
    BY DEF DasTick
  <1>2. owed <= CancelsLeft
    BY <1>1 DEF StillActive, CancelsLeft
  <1>3. CancelsLeft \in 0 .. CancelFrames
    BY DEF CancelsLeft
  <1>4. CtrlState \in {"none", "cancel"}
    BY <1>1 DEF CtrlState
  <1>5. CASE CtrlState = "none"
    BY <1>2, <1>5 DEF DasTick
  <1>6. CASE CtrlState = "cancel"
    <2>1. CancelsLeft > 0
      BY <1>1, <1>6 DEF CtrlState, Talking
    <2>2. cancelCount' = CancelsLeft - 1
      BY <1>6 DEF DasTick
    <2>3. owed' = IF owed > 0 THEN owed - 1 ELSE owed
      BY <1>6 DEF DasTick
    <2> QED BY <1>2, <1>3, <2>1, <2>2, <2>3
  <1> QED BY <1>4, <1>5, <1>6

LEMMA CancelNext ==
    ASSUME TypeOK, CancelOwedIsQueued, [Next]_dasVars
    PROVE  CancelOwedIsQueued'
  <1> USE DEF CancelOwedIsQueued
  <1>1. CASE DriveOn
    BY <1>1 DEF DriveOn
  <1>2. CASE DriveOff
    BY <1>2, ConstantFacts DEF DriveOff, TypeOK
  <1>3. ASSUME NEW v \in KphArgs, DriveSpeed(v) \/ DriveCap(v)
        PROVE  CancelOwedIsQueued'
    BY <1>3 DEF DriveSpeed, DriveCap, control
  <1>4. CASE SendCancelBurst
    BY <1>4, ConstantFacts DEF SendCancelBurst, TypeOK
  <1>5. CASE Put
    BY <1>5 DEF Put, control
  <1>6. CASE SetAnyControl
    BY <1>6, Zenon DEF SetAnyControl, TakeControl
  <1>7. CASE DasTick
    BY <1>7, CancelTick
  <1>8. CASE DasTickIdle \/ UNCHANGED dasVars
    BY <1>8 DEF DasTickIdle, dasVars
  <1>9. ASSUME NEW d \in Pauses, Sample(d)
        PROVE  CancelOwedIsQueued'
    BY <1>9 DEF Sample, control
  <1>10. ASSUME NEW v \in Telemetry, SpeedFrame(v)
         PROVE  CancelOwedIsQueued'
    BY <1>10 DEF SpeedFrame, control
  <1>11. CASE Reboot
    BY <1>11 DEF Reboot
  <1> QED
    BY <1>1, <1>2, <1>3, <1>4, <1>5, <1>6, <1>7, <1>8, <1>9, <1>10, <1>11
    DEF Next, Commands

\* However control ends, the whole burst that the bus still has to see is
\* queued: dasTick cannot fall silent in the middle of a disengagement.
THEOREM BurstQueued == Spec => []CancelOwedIsQueued
  <1>1. Init => CancelOwedIsQueued
    BY DEF Init, CancelOwedIsQueued
  <1>2. TypeOK /\ CancelOwedIsQueued /\ [Next]_dasVars => CancelOwedIsQueued'
    BY CancelNext
  <1> QED BY <1>1, <1>2, TypeCorrect, PTL DEF Spec

-----------------------------------------------------------------------------
(* The frames. *)

\* Every DAS_control frame is inside the envelope with the cap in force when it
\* is sent, for any request, however old, and any sequence of caps.
THEOREM EnvelopeHolds == Spec => ControlEnvelope
  <1> DEFINE A == DasTick /\ tx'.ctrl # "none" =>
                    /\ tx'.speed \in 0 .. cap
                    /\ tx'.aMin \in AccelMin .. 0
                    /\ tx'.aMax \in 0 .. AccelMax
  <1>1. TypeOK /\ [Next]_dasVars => A
    <2> SUFFICES ASSUME TypeOK, DasTick, tx'.ctrl # "none"
                 PROVE  /\ tx'.speed \in 0 .. cap
                        /\ tx'.aMin \in AccelMin .. 0
                        /\ tx'.aMax \in 0 .. AccelMax
      OBVIOUS
    <2>1. tx' = Transmitted
      BY DEF DasTick
    <2>2. /\ tx'.speed = ControlFields.speed
          /\ tx'.aMin = ControlFields.aMin
          /\ tx'.aMax = ControlFields.aMax
      BY <2>1 DEF Transmitted
    <2> QED BY <2>2, ControlFieldsRange
  <1> QED BY <1>1, TypeCorrect, PTL DEF Spec, ControlEnvelope

\* An engaged frame never steers by more than one rate step, and a car that has
\* become too fast for its angle is brought back inside the lateral limit at the
\* full rate.
THEOREM LateralClamp == Spec => LateralClampConverges
  <1> DEFINE A == tx'.steer = "engaged" /\ tx' # tx =>
                    /\ Magnitude(tx'.angle - applied) <= MaxAngleRate
                    /\ \/ Magnitude(tx'.angle) <= MaxSteerAtSpeed(vehicleSpeed)
                       \/ Magnitude(tx'.angle) = Magnitude(applied) - MaxAngleRate
  <1>1. TypeOK /\ [Next]_dasVars => A
    <2> SUFFICES ASSUME TypeOK, [Next]_dasVars, tx'.steer = "engaged", tx' # tx
                 PROVE  /\ Magnitude(tx'.angle - applied) <= MaxAngleRate
                        /\ \/ Magnitude(tx'.angle) <= MaxSteerAtSpeed(vehicleSpeed)
                           \/ Magnitude(tx'.angle) = Magnitude(applied) - MaxAngleRate
      OBVIOUS
    <2>1. tx' # Silent
      BY DEF Silent
    <2>2. DasTick
      BY <2>1 DEF Next, Commands, DriveOn, DriveOff, DriveSpeed, DriveCap, SendCancelBurst,
         Put, SetAnyControl, TakeControl, DasTickIdle, Sample, SpeedFrame, Reboot, dasVars
    <2>3. tx' = Transmitted
      BY <2>2 DEF DasTick
    <2>4. SteerState = "engaged"
      BY <2>3 DEF Transmitted
    <2>5. StillActive
      BY <2>4 DEF SteerState
    <2> DEFINE most == MaxSteerAtSpeed(vehicleSpeed)
    <2>6. tx'.angle = RateLimitAngle(Clamp(req.steer, -most, most), applied)
      BY <2>3, <2>4, <2>5 DEF Transmitted, CommandedAngle
    <2>7. most \in Int /\ most >= 1
      BY MaxSteerRange DEF TypeOK, MaxAngle
    <2>8. req.steer \in Int /\ applied \in Int
      BY DEF TypeOK, Requests
    <2> HIDE DEF most
    <2>9. /\ Magnitude(tx'.angle - applied) <= MaxAngleRate
          /\ \/ Magnitude(tx'.angle) <= most
             \/ Magnitude(tx'.angle) = Magnitude(applied) - MaxAngleRate
      BY <2>6, <2>7, <2>8, ClampThenLimit
    <2> QED BY <2>9 DEF most
  <1>2. Spec => [][A]_dasVars
    BY <1>1, TypeCorrect, PTL DEF Spec
  <1> QED BY <1>2 DEF LateralClampConverges

-----------------------------------------------------------------------------
(* The configuration in flash. *)

\* What the invariant says of flash is what a boot would make of it.
LEMMA ConfigInvImplies ==
    ASSUME TypeOK, ConfigInv
    PROVE  CrashAtomicConfig
  <1> DEFINE boot == LoadNvs(nvs)
  <1>1. /\ boot \in Configs
        /\ boot.en = nvs.en /\ boot.cap = nvs.cap /\ boot.spd = Least(nvs.spd, nvs.cap)
    BY LoadNvsFacts DEF TypeOK
  <1>2. /\ nvs.spd \in Kph /\ nvs.cap \in Kph /\ cap \in Kph /\ limit \in Kph
        /\ committed.cap \in Kph /\ committed.spd \in Kph
    BY DEF TypeOK, Configs
  <1>3. boot = [en |-> boot.en, cap |-> boot.cap, spd |-> boot.spd]
    BY <1>1 DEF Configs
  <1>4. committed = [en |-> committed.en, cap |-> committed.cap, spd |-> committed.spd]
    BY DEF TypeOK, Configs
  <1>5. boot.en \in {committed.en, enabled} /\ boot.cap \in {committed.cap, cap}
    BY <1>1 DEF ConfigInv
  <1>6. ASSUME ~torn PROVE boot \in {committed, CurrentConfig}
    <2>1. nvs.spd = committed.spd /\ committed.spd <= committed.cap
      BY <1>2, <1>6, LeastKph DEF ConfigInv
    <2>2. CASE boot.cap = committed.cap
      <3>1. boot.spd = committed.spd
        BY <1>1, <2>2 DEF ConfigInv
      <3>2. CASE boot.en = committed.en
        BY <1>3, <1>4, <2>2, <3>1, <3>2
      <3>3. CASE boot.en = enabled /\ enabled # committed.en
        BY <1>3, <2>2, <3>1, <3>3 DEF ConfigInv, CurrentConfig
      <3> QED BY <1>5, <3>2, <3>3
    <2>3. CASE boot.cap = cap /\ cap # committed.cap
      <3>1. boot.spd = limit
        BY <1>1, <2>1, <2>3 DEF ConfigInv
      <3>2. boot.en = enabled
        BY <1>1, <2>3 DEF ConfigInv
      <3> QED BY <1>3, <2>3, <3>1, <3>2 DEF CurrentConfig
    <2> QED BY <1>5, <2>2, <2>3
  <1>7. ASSUME puts = 0 PROVE boot = CurrentConfig
    <2>1. committed = CurrentConfig
      BY <1>7 DEF ConfigInv
    <2>2. committed.cap = cap /\ committed.spd = limit
      BY <2>1 DEF CurrentConfig
    <2>3. boot.en = enabled /\ boot.cap = cap /\ boot.spd = limit
      BY <1>1, <1>7, <2>2 DEF ConfigInv
    <2> QED BY <1>3, <2>3 DEF CurrentConfig
  <1> QED BY <1>5, <1>6, <1>7 DEF CrashAtomicConfig, ConfigInv

LEMMA ConfigPut ==
    ASSUME TypeOK, ConfigInv, Put
    PROVE  ConfigInv'
  <1> USE DEF ConfigInv
  <1>1. /\ nvs = [en |-> nvs.en, cap |-> nvs.cap, spd |-> nvs.spd]
        /\ nvs.spd \in Kph /\ cap \in Kph /\ limit \in Kph
        /\ committed.cap \in Kph /\ committed.spd \in Kph /\ puts \in 0 .. 3
    BY DEF TypeOK, Configs
  <1>2. UNCHANGED <<enabled, cap, limit>>
    BY DEF Put, control
  <1>3. CASE puts = 3
    <2>1. nvs' = [en |-> enabled, cap |-> nvs.cap, spd |-> nvs.spd]
      BY <1>3 DEF Put
    <2>2. nvs'.en = enabled /\ nvs'.cap = nvs.cap /\ nvs'.spd = nvs.spd
      BY <1>1, <2>1
    <2>3. puts' = 2 /\ committed' = committed /\ torn' = torn
      BY <1>3 DEF Put, TypeOK
    <2> QED BY <1>2, <1>3, <2>2, <2>3
  <1>4. CASE puts = 2
    <2>1. nvs' = [en |-> nvs.en, cap |-> cap, spd |-> nvs.spd]
      BY <1>4 DEF Put
    <2>2. nvs'.en = nvs.en /\ nvs'.cap = cap /\ nvs'.spd = nvs.spd
      BY <1>1, <2>1
    <2>3. puts' = 1 /\ committed' = committed /\ torn' = torn
      BY <1>4 DEF Put, TypeOK
    <2> QED BY <1>2, <1>4, <2>2, <2>3
  <1>5. CASE puts = 1
    <2>1. nvs' = [en |-> nvs.en, cap |-> nvs.cap, spd |-> limit]
      BY <1>5 DEF Put
    <2>2. nvs'.en = nvs.en /\ nvs'.cap = nvs.cap /\ nvs'.spd = limit
      BY <1>1, <2>1
    <2>3. puts' = 0 /\ committed' = CurrentConfig
      BY <1>5 DEF Put
    <2>4. committed'.en = enabled /\ committed'.cap = cap /\ committed'.spd = limit
      BY <2>3 DEF CurrentConfig
    <2>5. Least(limit, cap) = limit
      BY <1>1, LeastSmaller
    <2> QED BY <1>2, <1>5, <2>2, <2>3, <2>4, <2>5 DEF CurrentConfig
  <1> QED BY <1>1, <1>3, <1>4, <1>5 DEF Put

LEMMA ConfigReboot ==
    ASSUME TypeOK, ConfigInv, Reboot
    PROVE  ConfigInv'
  <1> DEFINE boot == LoadNvs(nvs)
  <1>1. /\ boot \in Configs /\ boot.spd <= boot.cap
        /\ boot.en = nvs.en /\ boot.cap = nvs.cap /\ boot.spd = Least(nvs.spd, nvs.cap)
    BY LoadNvsFacts DEF TypeOK
  <1>2. boot = [en |-> boot.en, cap |-> boot.cap, spd |-> boot.spd]
    BY <1>1 DEF Configs
  <1>3. /\ enabled' = boot.en /\ cap' = boot.cap /\ limit' = boot.spd
        /\ puts' = 0 /\ committed' = boot /\ nvs' = nvs
        /\ torn' = (torn \/ puts > 0)
    BY DEF Reboot
  <1>4. ASSUME ~torn' PROVE nvs.spd = boot.spd
    <2>0. ~torn /\ ~(puts > 0)
      BY <1>3, <1>4, Zenon
    <2>1. ~torn /\ puts = 0
      BY <2>0 DEF TypeOK
    <2>2. nvs.spd = committed.spd /\ committed = CurrentConfig /\ nvs.cap = cap
      BY <2>1 DEF ConfigInv
    <2>3. nvs.spd <= nvs.cap
      BY <2>2 DEF CurrentConfig, ConfigInv
    <2>4. nvs.spd \in Kph /\ nvs.cap \in Kph
      BY DEF TypeOK, Configs
    <2>5. Least(nvs.spd, nvs.cap) = nvs.spd
      BY <2>3, <2>4, LeastSmaller
    <2> QED BY <1>1, <2>5
  <1>5. committed' = CurrentConfig'
    BY <1>2, <1>3 DEF CurrentConfig
  <1>6. boot.cap \in Kph /\ boot.spd \in Kph
    BY <1>1 DEF Configs
  <1> HIDE DEF boot
  <1> QED BY <1>1, <1>3, <1>4, <1>5, <1>6 DEF ConfigInv

LEMMA ConfigNext ==
    ASSUME TypeOK, ConfigInv, [Next]_dasVars
    PROVE  ConfigInv'
  <1>1. ASSUME StartSave, UNCHANGED <<cap, limit>>
        PROVE  ConfigInv'
    <2>1. committed.cap = cap /\ committed.spd = limit
      BY <1>1 DEF StartSave, ConfigInv, CurrentConfig
    <2>2. nvs.en = committed.en
      BY <1>1 DEF StartSave, ConfigInv, CurrentConfig
    <2> QED BY <1>1, <2>1, <2>2 DEF StartSave, ConfigInv
  <1>2. CASE DriveOn \/ DriveOff
    BY <1>1, <1>2 DEF DriveOn, DriveOff
  <1>3. ASSUME NEW v \in KphArgs, DriveSpeed(v)
        PROVE  ConfigInv'
    <2>1. committed.cap = cap /\ committed.spd = limit /\ committed.en = enabled
      BY <1>3 DEF DriveSpeed, StartSave, ConfigInv, CurrentConfig
    <2>2. limit' <= cap
      BY <1>3, DasAssumption DEF DriveSpeed, Least, TypeOK, Kph, SpeedCapMin, SpeedCapMax
    <2>3. UNCHANGED <<enabled, cap>> /\ StartSave
      BY <1>3 DEF DriveSpeed, control
    <2> QED BY <2>1, <2>2, <2>3 DEF StartSave, ConfigInv
  <1>4. ASSUME NEW v \in KphArgs, DriveCap(v)
        PROVE  ConfigInv'
    <2>1. committed.cap = cap /\ committed.spd = limit /\ committed.en = enabled
      BY <1>4 DEF DriveCap, StartSave, ConfigInv, CurrentConfig
    <2>2. limit' = Least(limit, cap') /\ enabled' = enabled /\ StartSave
      BY <1>4 DEF DriveCap, control
    <2>3. cap' \in Kph
      BY <1>4, DasAssumption DEF DriveCap, Clamp, Kph, SpeedCapMin, SpeedCapMax
    <2>4. limit' <= cap'
      BY <2>2, <2>3, LeastKph DEF TypeOK
    <2> QED BY <2>1, <2>2, <2>4 DEF StartSave, ConfigInv
  <1>5. CASE Put
    BY <1>5, ConfigPut
  <1>6. CASE Reboot
    BY <1>6, ConfigReboot
  <1>7. CASE UNCHANGED <<enabled, config>>
    BY <1>7 DEF config, ConfigInv, CurrentConfig
  <1>8. \/ DriveOn \/ DriveOff \/ Put \/ Reboot \/ UNCHANGED <<enabled, config>>
        \/ \E v \in KphArgs : DriveSpeed(v) \/ DriveCap(v)
    BY DEF Next, Commands, SendCancelBurst, SetAnyControl, TakeControl, DasTick,
       DasTickIdle, Sample, SpeedFrame, dasVars, config, control
  <1> QED BY <1>2, <1>3, <1>4, <1>5, <1>6, <1>7, <1>8

\* Whatever reset interrupts whatever save, the next boot arms and caps the
\* injector as before or after that command; and so for the user limit, as long
\* as no earlier save was cut short.
THEOREM CrashAtomicity == Spec => []CrashAtomicConfig
  <1>1. Init => ConfigInv
    <2> SUFFICES ASSUME Init PROVE ConfigInv
      OBVIOUS
    <2>1. nvs = FactoryConfig /\ committed = FactoryConfig /\ CurrentConfig = FactoryConfig
      BY DEF Init, CurrentConfig, FactoryConfig
    <2>2. nvs.en = enabled /\ nvs.cap = cap /\ nvs.spd = limit
      BY <2>1 DEF CurrentConfig
    <2>3. cap = 25 /\ limit = 25 /\ puts = 0
      BY DEF Init, SpeedDefault
    <2> QED BY <2>1, <2>2, <2>3 DEF ConfigInv, Least
  <1>2. TypeOK /\ ConfigInv /\ [Next]_dasVars => ConfigInv'
    BY ConfigNext
  <1>3. TypeOK /\ ConfigInv => CrashAtomicConfig
    BY ConfigInvImplies
  <1> QED BY <1>1, <1>2, <1>3, TypeCorrect, PTL DEF Spec

-----------------------------------------------------------------------------
(* GamepadDrive: the main loop keeps to the interface of DasDrive, whose    *)
(* theorems therefore hold of it, a lost link ends control within the       *)
(* dead-man time, no frame presses both pedals, and the limit in force      *)
(* bounds the set speed.                                                    *)

Inv == TypeOK /\ LoopTypeOK

LEMMA LoopTypeInit == LoopInit => Inv
  <1> SUFFICES ASSUME LoopInit PROVE LoopTypeOK
    BY TypeInit DEF LoopInit, Inv
  <1>1. Zeroed \in Axes /\ Centre \in StickReports
    BY PadAssumption DEF Zeroed, Axes
  <1>2. gpEnabled \in BOOLEAN /\ gpConnected \in BOOLEAN /\ linkUp \in BOOLEAN
        /\ panic \in BOOLEAN /\ ~gpConnected
    BY Zenon DEF LoopInit
  <1>3. lossAge \in 0 .. DeadMan + 1
    BY ConstantFacts DEF LoopInit
  <1> QED BY <1>1, <1>2, <1>3 DEF LoopInit, LoopTypeOK

\* Each step of the loop, of the host task or of a reset is a step of DasDrive
\* or leaves it alone.
LEMMA StepImplements ==
    ASSUME Inv, [LoopNext]_vars
    PROVE  [Next]_dasVars
  <1>1. CASE Command
    BY <1>1 DEF Command, Next
  <1>2. CASE SaveStep
    BY <1>2 DEF SaveStep, Next
  <1>3. CASE DriveAxes
    <2>1. RequestOf(axes, limit) \in ControlRequests
      BY PadAssumption DEF Inv, TypeOK, LoopTypeOK
    <2>2. SetAnyControl
      BY <1>3, <2>1 DEF DriveAxes, SetControl, SetAnyControl
    <2> QED BY <2>2 DEF Next
  <1>4. CASE Tick
    BY <1>4 DEF Tick, Next
  <1>5. CASE \E d \in Pauses : NewPass(d)
    BY <1>5 DEF NewPass, Next
  <1>6. CASE Telemetered
    BY <1>6 DEF Telemetered, Next
  <1>7. CASE Restart
    BY <1>7 DEF Restart, Next
  <1>8. CASE UNCHANGED dasVars
    BY <1>8
  <1>9. \/ Command \/ SaveStep \/ DriveAxes \/ Tick \/ Telemetered \/ Restart
        \/ (\E d \in Pauses : NewPass(d))
        \/ UNCHANGED dasVars
    <2>1. CASE HostTask
      BY <2>1 DEF HostTask, OnConnect, OnDisconnect, Report
    <2>2. CASE MainLoop
      BY <2>2 DEF MainLoop, PadSetEnabled, PadUnpair, DriveGate
    <2>3. CASE Restart
      BY <2>3
    <2>4. CASE UNCHANGED vars
      BY <2>4 DEF vars
    <2> QED BY <2>1, <2>2, <2>3, <2>4 DEF LoopNext
  <1> QED BY <1>1, <1>2, <1>3, <1>4, <1>5, <1>6, <1>7, <1>8, <1>9

LEMMA LoopTypeNext ==
    ASSUME Inv, [LoopNext]_vars
    PROVE  LoopTypeOK'
  <1>0. TypeOK'
    BY StepImplements, TypeNext DEF Inv
  <1>00. lossAge' = 0 => lossAge' \in 0 .. DeadMan + 1
    BY ConstantFacts
  <1>000. TrackLoss => lossAge' \in 0 .. DeadMan + 1
    BY <1>00 DEF TrackLoss, Inv, LoopTypeOK
  <1> USE DEF Inv, LoopTypeOK, padVars, history
  <1>1. CASE Command
    <2>1. panic' \in BOOLEAN
      BY <1>1 DEF Command
    <2> QED BY <1>1, <1>000, <2>1 DEF Command
  <1>2. CASE SaveStep
    BY <1>2 DEF SaveStep
  <1>3. ASSUME NEW en \in BOOLEAN, PadSetEnabled(en)
        PROVE  LoopTypeOK'
    BY <1>3, <1>000 DEF PadSetEnabled, dasVars
  <1>4. CASE PadUnpair
    <2>1. gpEnabled' \in BOOLEAN /\ gpConnected' \in BOOLEAN /\ ~gpConnected'
      BY <1>4, Zenon DEF PadUnpair
    <2> QED BY <1>4, <2>1 DEF PadUnpair, dasVars
  <1>5. CASE DriveGate
    BY <1>5 DEF DriveGate, CanDrive, dasVars
  <1>6. CASE DriveAxes
    BY <1>6 DEF DriveAxes
  <1>7. CASE Tick
    <2>1. panic' \in BOOLEAN
      BY <1>7 DEF Tick
    <2> QED BY <1>7, <2>1 DEF Tick
  <1>8. ASSUME NEW d \in Pauses, NewPass(d)
        PROVE  LoopTypeOK'
    <2>1. lossAge' \in 0 .. DeadMan + 1
      BY <1>8, ConstantFacts, DasAssumption DEF NewPass, Least
    <2> QED BY <1>8, <2>1 DEF NewPass
  <1>9. CASE Telemetered
    BY <1>9 DEF Telemetered
  <1>10. CASE OnConnect
    <2>1. gpConnected' \in BOOLEAN /\ linkUp' \in BOOLEAN /\ linkUp'
      BY <1>10, Zenon DEF OnConnect
    <2> QED BY <1>10, <1>000, <2>1, PadAssumption DEF OnConnect, dasVars
  <1>11. CASE OnDisconnect
    <2>1. gpConnected' \in BOOLEAN /\ linkUp' \in BOOLEAN /\ ~gpConnected'
      BY <1>11, Zenon DEF OnDisconnect
    <2>2. axes' \in Axes /\ hand' \in StickReports
      BY <1>11, PadAssumption DEF OnDisconnect, Zeroed, Axes
    <2> QED BY <1>11, <1>000, <2>1, <2>2 DEF OnDisconnect, dasVars
  <1>12. ASSUME NEW a \in Axes, Report(a)
         PROVE  LoopTypeOK'
    BY <1>12 DEF Report, Axes, dasVars
  <1>13. CASE Restart
    <2>1. gpConnected' \in BOOLEAN /\ linkUp' \in BOOLEAN /\ ~gpConnected' /\ panic' \in BOOLEAN
      BY <1>13, Zenon DEF Restart
    <2>2. axes' \in Axes /\ hand' \in StickReports
      BY <1>13, PadAssumption DEF Restart, Zeroed, Axes
    <2>3. lossAge' \in 0 .. DeadMan + 1
      BY <1>13, ConstantFacts DEF Restart
    <2> QED BY <1>13, <2>1, <2>2, <2>3 DEF Restart
  <1>14. CASE UNCHANGED vars
    BY <1>14 DEF vars, dasVars
  <1> QED
    BY <1>1, <1>2, <1>3, <1>4, <1>5, <1>6, <1>7, <1>8, <1>9, <1>10, <1>11, <1>12, <1>13, <1>14
    DEF LoopNext, MainLoop, HostTask

THEOREM LoopInvariant == LoopSpec => []Inv
  <1>1. Inv /\ [LoopNext]_vars => Inv'
    BY StepImplements, TypeNext, LoopTypeNext DEF Inv
  <1> QED BY <1>1, LoopTypeInit, PTL DEF LoopSpec

\* The main loop and the host task implement the interface of DAS drive.
THEOREM LoopImplements == LoopSpec => ImplementsDasDrive
  <1>1. LoopInit => Init
    BY DEF LoopInit
  <1>2. Inv /\ [LoopNext]_vars => [Next]_dasVars
    BY StepImplements
  <1> QED BY <1>1, <1>2, LoopInvariant, PTL DEF LoopSpec, ImplementsDasDrive, Spec

(***************************************************************************)
(* A lost link ends control within the dead-man time.                      *)
(*                                                                         *)
(* LossStopsControl compares frames with the time since the pad could last *)
(* be read, but dasTick only knows the age of the last request.  The       *)
(* strengthening ties the two together: the request is at least as old as  *)
(* the loss, because gamepadDriveTick makes a request only in a pass that  *)
(* has read the pad.                                                       *)
(***************************************************************************)
LossInv ==
    /\ lossAge <= age.update
    /\ CanDrive => lossAge = 0
    /\ pc = "axes" => lossAge = 0
    /\ tx.ctrl = "on" \/ tx.steer = "engaged" => age.update <= DeadMan

LEMMA LossInit == LoopInit => LossInv
  BY ConstantFacts DEF LoopInit, Init, LossInv, CanDrive, Expired, Silent

LEMMA LossNext ==
    ASSUME Inv, LossInv, [LoopNext]_vars
    PROVE  LossInv'
  <1>0. age \in Timers /\ age' \in Timers
    <2>1. TypeOK'
      BY StepImplements, TypeNext DEF Inv
    <2> QED BY <2>1 DEF Inv, TypeOK
  <1>00. lossAge \in 0 .. DeadMan + 1 /\ DeadMan \in Nat
    BY ConstantFacts DEF Inv, LoopTypeOK
  <1>000. TrackLoss => (CanDrive' => lossAge' = 0) /\ (lossAge' = 0 \/ lossAge' = lossAge)
    BY <1>00 DEF TrackLoss
  <1> USE DEF LossInv
  <1>1. CASE Command
    <2>1. UNCHANGED <<age, tx, pc>>
      BY <1>1 DEF Command, Commands, DriveOn, DriveOff, DriveSpeed, DriveCap, SendCancelBurst
    <2>2. TrackLoss
      BY <1>1 DEF Command
    <2> QED BY <1>0, <1>00, <1>000, <2>1, <2>2 DEF Timers
  <1>2. CASE SaveStep
    BY <1>2 DEF SaveStep, Put, CanDrive, padVars, history, control
  <1>3. ASSUME NEW en \in BOOLEAN, PadSetEnabled(en)
        PROVE  LossInv'
    <2>1. UNCHANGED <<age, tx, pc>> /\ TrackLoss
      BY <1>3 DEF PadSetEnabled, dasVars
    <2> QED BY <1>0, <1>00, <1>000, <2>1 DEF Timers
  <1>4. CASE PadUnpair
    BY <1>4 DEF PadUnpair, CanDrive, dasVars, history
  <1>5. CASE DriveGate
    BY <1>5 DEF DriveGate, CanDrive, dasVars, padVars, history
  <1>6. CASE DriveAxes
    <2>1. age'.update = 0
      BY <1>0, <1>6 DEF DriveAxes, SetControl, TakeControl, Timers
    <2>2. lossAge = 0 /\ UNCHANGED <<lossAge, tx>> /\ pc' = "tick"
      BY <1>6 DEF DriveAxes, SetControl, TakeControl, history
    <2> QED BY <1>00, <2>1, <2>2
  <1>7. CASE Tick
    <2>1. age'.update = age.update
      BY <1>0, <1>7 DEF Tick, DasTick, DasTickIdle, dasVars, Timers
    <2>2. UNCHANGED lossAge /\ pc' = "sample" /\ CanDrive' = CanDrive
      BY <1>7 DEF Tick, DasTick, DasTickIdle, dasVars, padVars, CanDrive
    <2>3. tx'.ctrl = "on" \/ tx'.steer = "engaged" => age.update <= DeadMan
      <3>1. CASE DasTickIdle
        BY <3>1 DEF DasTickIdle, dasVars
      <3>2. CASE DasTick
        <4>1. tx'.ctrl = CtrlState /\ tx'.steer = SteerState
          BY <3>2 DEF DasTick, Transmitted
        <4>2. StillActive => age.update <= DeadMan
          BY <1>0, <1>00 DEF StillActive, DeadManTrips, Timers
        <4> QED BY <4>1, <4>2 DEF CtrlState, SteerState
      <3> QED BY <1>7, <3>1, <3>2 DEF Tick
    <2> QED BY <2>1, <2>2, <2>3
  <1>8. ASSUME NEW d \in Pauses, NewPass(d)
        PROVE  LossInv'
    <2>1. age'.update = Least(age.update + d, DeadMan + 1) /\ tx' = Silent
      BY <1>8 DEF NewPass, Sample
    <2>2. lossAge' = IF CanDrive THEN 0 ELSE Least(lossAge + d, DeadMan + 1)
      BY <1>8 DEF NewPass
    <2>3. d \in Nat
      BY DasAssumption
    <2>4. lossAge' <= age'.update
      BY <1>0, <1>00, <2>1, <2>2, <2>3 DEF Least, Timers
    <2>5. CanDrive' = CanDrive /\ pc' = "commands"
      BY <1>8 DEF NewPass, Sample, control, padVars, CanDrive
    <2> QED BY <2>1, <2>2, <2>4, <2>5 DEF Silent
  <1>9. CASE Telemetered
    BY <1>9 DEF Telemetered, SpeedFrame, CanDrive, control, padVars, history
  <1>10. CASE OnConnect
    <2>1. UNCHANGED <<age, tx, pc>> /\ TrackLoss
      BY <1>10 DEF OnConnect, dasVars
    <2> QED BY <1>0, <1>00, <1>000, <2>1 DEF Timers
  <1>11. CASE OnDisconnect
    BY <1>11 DEF OnDisconnect, CanDrive, dasVars, history
  <1>12. ASSUME NEW a \in Axes, Report(a)
         PROVE  LossInv'
    BY <1>12 DEF Report, CanDrive, dasVars, history
  <1>13. CASE Restart
    <2>1. age'.update = DeadMan + 1 /\ tx' = Silent
      BY <1>13 DEF Restart, Reboot, Expired
    <2>2. lossAge' = DeadMan + 1 /\ pc' = "commands" /\ ~CanDrive'
      BY <1>13 DEF Restart, CanDrive
    <2> QED BY <1>00, <2>1, <2>2 DEF Silent
  <1>14. CASE UNCHANGED vars
    BY <1>14 DEF vars, dasVars, padVars, history, CanDrive
  <1> QED
    BY <1>1, <1>2, <1>3, <1>4, <1>5, <1>6, <1>7, <1>8, <1>9, <1>10, <1>11, <1>12, <1>13, <1>14
    DEF LoopNext, MainLoop, HostTask

\* After a lost link no ACC_ON and no engaged steering frame is later than the
\* dead-man time, for every dead-man time and every pacing of the loop.
THEOREM LossEndsControl == LoopSpec => []LossStopsControl
  <1>1. Inv /\ LossInv /\ [LoopNext]_vars => LossInv'
    BY LossNext
  <1>2. Inv /\ LossInv => LossStopsControl
    BY ConstantFacts DEF Inv, LossInv, LossStopsControl, TypeOK, Timers, LoopTypeOK
  <1> QED BY <1>1, <1>2, LossInit, LoopInvariant, PTL DEF LoopSpec

(***************************************************************************)
(* Pedals and the user limit.  A request keeps the form RequestOf gave it  *)
(* for as long as it is held, and from a request made while the pad can be *)
(* read to the tick that sends it no command comes between.                *)
(***************************************************************************)
PedalInv ==
    /\ req.aMin < -1 => req.aMax = 0 /\ req.speed = 0
    /\ PedalsExclusive

LEMMA RequestReleases ==
    ASSUME NEW a \in Axes, NEW k \in Kph
    PROVE  /\ RequestOf(a, k).aMin < -1 => RequestOf(a, k).aMax = 0 /\ RequestOf(a, k).speed = 0
           /\ RequestOf(a, k).speed \in {0, k}
  BY DEF RequestOf

\* A frame that brakes harder than the standstill hold brakes as requested.
LEMMA HardBrakeWasAsked ==
    ASSUME TypeOK, ControlFields.aMin < StandstillHold
    PROVE  req.aMin < -1
  <1> DEFINE brake == IF StillActive THEN HeldBrake(vehicleSpeed, req.aMin, req.aMax)
                                     ELSE req.aMin
  <1>1. brake \in Int /\ req.aMin \in Int /\ req.aMax \in Int
    BY HeldBrakeBounds DEF TypeOK, Requests
  <1>2. ControlFields.aMin = Clamp(brake, AccelMin, 0)
    BY DEF ControlFields
  <1>3. brake < StandstillHold
    <2> HIDE DEF brake
    <2> QED BY <1>1, <1>2 DEF Clamp, AccelMin, StandstillHold
  <1> QED BY <1>1, <1>3 DEF HeldBrake, Least, StandstillHold

LEMMA PedalTick ==
    ASSUME TypeOK, PedalInv, DasTick
    PROVE  PedalInv'
  <1>1. req' = req /\ tx' = Transmitted
    BY DEF DasTick
  <1>2. /\ tx'.ctrl = CtrlState
        /\ CtrlState # "none" => /\ tx'.aMin = ControlFields.aMin
                                 /\ tx'.aMax = ControlFields.aMax
                                 /\ tx'.speed = ControlFields.speed
    BY <1>1 DEF Transmitted
  <1>3. ASSUME ControlFields.aMin < StandstillHold
        PROVE  ControlFields.aMax = 0 /\ ControlFields.speed = 0
    <2>1. req.aMax = 0 /\ req.speed = 0
      BY <1>3, HardBrakeWasAsked DEF PedalInv
    <2>2. cap \in Nat
      BY DEF TypeOK, Kph, SpeedCapMin, SpeedCapMax
    <2> QED BY <2>1, <2>2 DEF ControlFields, Clamp, AccelMax
  <1> QED BY <1>1, <1>2, <1>3 DEF PedalInv, PedalsExclusive

LEMMA PedalNext ==
    ASSUME Inv, PedalInv, [LoopNext]_vars
    PROVE  PedalInv'
  <1> USE DEF PedalInv
  <1>1. CASE UNCHANGED <<req, tx>>
    BY <1>1 DEF PedalsExclusive
  <1>2. CASE DriveAxes
    <2>1. req' = RequestOf(axes, limit) /\ tx' = tx
      BY <1>2 DEF DriveAxes, SetControl, TakeControl
    <2>2. axes \in Axes /\ limit \in Kph
      BY DEF Inv, TypeOK, LoopTypeOK
    <2> QED BY <2>1, <2>2, RequestReleases DEF PedalsExclusive
  <1>3. CASE Tick
    <2>1. CASE DasTickIdle
      BY <1>1, <2>1 DEF DasTickIdle, dasVars
    <2> QED BY <1>3, <2>1, PedalTick DEF Tick, Inv
  <1>4. CASE tx' = Silent /\ (req' = req \/ req' = NoRequest)
    BY <1>4 DEF PedalsExclusive, Silent, NoRequest
  <1>5. Command \/ SaveStep => UNCHANGED <<req, tx>>
    BY DEF Command, Commands, DriveOn, DriveOff, DriveSpeed, DriveCap, SendCancelBurst, SaveStep,
           Put, control
  <1>6. DriveGate \/ PadUnpair \/ (\E en \in BOOLEAN : PadSetEnabled(en)) \/ Telemetered
          => UNCHANGED <<req, tx>>
    BY DEF DriveGate, PadUnpair, PadSetEnabled, Telemetered, SpeedFrame, dasVars, control
  <1>7. HostTask => UNCHANGED <<req, tx>>
    BY DEF HostTask, OnConnect, OnDisconnect, Report, dasVars
  <1>8. (\E d \in Pauses : NewPass(d)) => tx' = Silent /\ req' = req
    BY DEF NewPass, Sample, control
  <1>9. Restart => tx' = Silent /\ req' = NoRequest
    BY DEF Restart, Reboot
  <1>10. UNCHANGED vars => UNCHANGED <<req, tx>>
    BY DEF vars, dasVars
  <1> QED
    BY <1>1, <1>2, <1>3, <1>4, <1>5, <1>6, <1>7, <1>8, <1>9, <1>10 DEF LoopNext, MainLoop

\* No mixture of reports read without a lock, no old request and no standstill
\* hold makes a DAS_control frame that both brakes and accelerates.
THEOREM PedalsStayExclusive == LoopSpec => []PedalsExclusive
  <1>1. LoopInit => PedalInv
    BY DEF LoopInit, Init, PedalInv, PedalsExclusive, NoRequest, Silent
  <1>2. Inv /\ PedalInv /\ [LoopNext]_vars => PedalInv'
    BY PedalNext
  <1>3. PedalInv => PedalsExclusive
    BY DEF PedalInv
  <1> QED BY <1>1, <1>2, <1>3, LoopInvariant, PTL DEF LoopSpec

\* What a tick that can be followed by a frame still knows of the limit.
LimitInv == pc = "tick" /\ CanDrive => req.speed <= limit

LEMMA LimitNext ==
    ASSUME Inv, LimitInv, [LoopNext]_vars
    PROVE  LimitInv'
  <1> USE DEF LimitInv
  <1>1. CASE pc' # "tick"
    BY <1>1
  <1>2. CASE DriveGate
    <2>1. UNCHANGED CanDrive
      BY <1>2 DEF DriveGate, CanDrive, dasVars, padVars
    <2>2. pc' = "tick" => ~CanDrive
      BY <1>2 DEF DriveGate
    <2> QED BY <2>1, <2>2
  <1>3. CASE DriveAxes
    <2>1. req' = RequestOf(axes, limit) /\ limit' = limit
      BY <1>3 DEF DriveAxes, SetControl, TakeControl, config
    <2>2. axes \in Axes /\ limit \in Kph /\ limit \in Nat
      BY DEF Inv, TypeOK, LoopTypeOK, Kph, SpeedCapMin, SpeedCapMax
    <2> QED BY <2>1, <2>2, RequestReleases
  <1>4. CASE OnDisconnect
    BY <1>4 DEF OnDisconnect, CanDrive
  <1>5. CASE \E a \in Axes : Report(a)
    <2>1. UNCHANGED <<CanDrive, pc, req, limit>>
      BY <1>5 DEF Report, CanDrive, dasVars
    <2> QED BY <2>1
  <1>6. CASE UNCHANGED vars
    <2>1. UNCHANGED <<CanDrive, pc, req, limit>>
      BY <1>6 DEF vars, CanDrive, dasVars, padVars
    <2> QED BY <2>1
  <1>7. Command \/ SaveStep \/ PadUnpair \/ (\E en \in BOOLEAN : PadSetEnabled(en)) \/ Tick
          \/ Telemetered \/ OnConnect \/ Restart \/ (\E d \in Pauses : NewPass(d))
            => pc' # "tick"
    BY DEF Command, SaveStep, PadUnpair, PadSetEnabled, Tick, Telemetered, OnConnect, Restart,
           NewPass
  <1> QED
    BY <1>1, <1>2, <1>3, <1>4, <1>5, <1>6, <1>7 DEF LoopNext, MainLoop, HostTask

LEMMA LimitStep ==
    ASSUME Inv, LimitInv, Tick, CanDrive, tx'.ctrl = "on"
    PROVE  tx'.speed <= limit
  <1>1. limit \in Nat /\ cap \in Nat /\ limit > 0 /\ req.speed \in Int
    BY DEF Inv, TypeOK, Kph, SpeedCapMin, SpeedCapMax, Requests
  <1>2. req.speed <= limit
    BY DEF LimitInv, Tick
  <1>3. CASE DasTick
    <2>1. tx' = Transmitted
      BY <1>3 DEF DasTick
    <2>2. tx'.speed = ControlFields.speed
      BY <2>1 DEF Transmitted
    <2>3. ControlFields.speed = Clamp(req.speed, 0, cap)
      BY DEF ControlFields
    <2> QED BY <1>1, <1>2, <2>2, <2>3 DEF Clamp
  <1>4. ~DasTickIdle
    BY DEF DasTickIdle, CanDrive
  <1> QED BY <1>3, <1>4 DEF Tick

\* A lowered limit holds from the next frame on for as long as the pad can be
\* read, wherever in the loop drive:speed or drive:cap came.
THEOREM LimitHolds == LoopSpec => UserLimitHeld
  <1>1. LoopInit => LimitInv
    BY DEF LoopInit, LimitInv
  <1>2. Inv /\ LimitInv /\ [LoopNext]_vars => LimitInv'
    BY LimitNext
  <1>3. Inv /\ LimitInv /\ [LoopNext]_vars
          => [Tick /\ CanDrive /\ tx'.ctrl = "on" => tx'.speed <= limit]_vars
    BY LimitStep
  <1> QED BY <1>1, <1>2, <1>3, LoopInvariant, PTL DEF LoopSpec, UserLimitHeld

\* What DasDriveProofs shows of the component holds in the loop: no CANCEL
\* frame is forgotten, and a reset never loads a mixed configuration.
COROLLARY LoopKeepsDasDrive == LoopSpec => []CancelOwedIsQueued /\ []CrashAtomicConfig
  BY LoopImplements, BurstQueued, CrashAtomicity, PTL DEF ImplementsDasDrive

-----------------------------------------------------------------------------
(* CanLoop, for every timeout, period, burst length, set of commands and    *)
(* set of frames.  Each theorem has its inductive invariant, a lemma for    *)
(* the initial states and a lemma for one step.                             *)

(* Which frames are fresh: the flags has* name no kind that predates the last
   silence, so a frame built from a cached kind is built from new bytes. *)
FreshInv == has \cap stale = {} /\ FreshFrames

LEMMA FreshInit == PassInit => FreshInv
BY DEF PassInit, FreshInv, FreshFrames

\* handleMessage sends neither summon nor drive-mode frames and moves a kind
\* from the stale to the cached ones.
LEMMA FreshHandle ==
  ASSUME FreshInv, HandleMessage
  PROVE  FreshInv'
<1>1. ASSUME NEW k \in session.heard, CacheFrame(k) PROVE FreshInv'
  BY <1>1 DEF FreshInv, FreshFrames, CacheFrame, Quiet
<1>2. ASSUME NEW a \in BOOLEAN, NEW b \in BOOLEAN, DasStatus(a, b) PROVE FreshInv'
  BY <1>2 DEF FreshInv, FreshFrames, DasStatus
<1>3. ASSUME NEW p \in BOOLEAN, DiState(p) PROVE FreshInv'
  BY <1>3 DEF FreshInv, FreshFrames, DiState, Quiet
<1>4. CASE Echoed
  BY <1>4 DEF FreshInv, FreshFrames, Echoed
<1>5. CASE FsdMux
  BY <1>5 DEF FreshInv, FreshFrames, FsdMux
<1>6. CASE GtwChanged
  BY <1>6 DEF FreshInv, FreshFrames, GtwChanged
<1>7. ASSUME NEW v \in Variants, CarConfig(v) \/ InferVariant(v) PROVE FreshInv'
  BY <1>7 DEF FreshInv, FreshFrames, CarConfig, InferVariant, Quiet
<1> QED BY <1>1, <1>2, <1>3, <1>4, <1>5, <1>6, <1>7 DEF HandleMessage

LEMMA FreshNext ==
  ASSUME FreshInv, [PassNext]_passVars
  PROVE  FreshInv'
<1>1. CASE SerialTick
  BY <1>1 DEF FreshInv, FreshFrames, SerialTick, busVars, Quiet
<1>2. ASSUME NEW d \in Delays, BeginPass(d) PROVE FreshInv'
  <2>1. out' \subseteq {"das"}
    BY <1>2 DEF BeginPass, DasOut
  <2>2. CASE FallSilent(d)
    BY <2>1, <2>2 DEF FreshInv, FreshFrames, FallSilent
  <2>3. CASE Carry(d)
    BY <2>1, <2>3 DEF FreshInv, FreshFrames, Carry
  <2> QED BY <1>2, <2>2, <2>3 DEF BeginPass
<1>3. CASE StandbyIdle
  BY <1>3 DEF FreshInv, FreshFrames, StandbyIdle, Quiet
<1>4. CASE StandbyWake
  BY <1>4, FreshHandle DEF StandbyWake
<1>5. CASE Ticks
  <2>1. "summon" \in out' => "ctrl" \in has
    BY <1>5 DEF Ticks, SummonDue, Beats
  <2>2. "drivemode" \in out' => "drive" \in has
    BY <1>5 DEF Ticks, BeatDue, BeatReady, Beats
  <2> QED BY <1>5, <2>1, <2>2 DEF Ticks, FreshInv, FreshFrames
<1>6. CASE Read
  BY <1>6, FreshHandle DEF Read
<1>7. CASE EndPass
  BY <1>7 DEF FreshInv, FreshFrames, EndPass, Quiet
<1>8. CASE GoDeaf
  BY <1>8 DEF FreshInv, FreshFrames, GoDeaf, Quiet
<1>9. CASE UNCHANGED passVars
  BY <1>9 DEF FreshInv, FreshFrames, passVars
<1> QED
  BY <1>1, <1>2, <1>3, <1>4, <1>5, <1>6, <1>7, <1>8, <1>9 DEF PassNext, Pass

\* Summon and drive-mode frames are never built from bytes older than the last
\* silence of the bus.
THEOREM FreshAlways == PassSpec => []FreshFrames
<1>1. FreshInv => FreshFrames BY DEF FreshInv
<1> QED BY <1>1, FreshInit, FreshNext, PTL DEF PassSpec

(***************************************************************************)
(* Type correctness.                                                       *)
(***************************************************************************)
LEMMA AgedInRange ==
  ASSUME NEW most \in Nat, NEW a \in 0..most, NEW d \in Delays
  PROVE  Aged(a, d, most) \in 0..most
BY TimeAssumption DEF Aged, LessOf

LEMMA StateInit == PassInit => StateOK
<1> SUFFICES ASSUME PassInit PROVE StateOK OBVIOUS
<1> USE TimeAssumption, SizeAssumption
<1>1. phase \in Phases /\ bus \in [online : BOOLEAN, standby : BOOLEAN,
        quiet : 0..Timeout, reinit : 0..ReinitPeriod]
  BY DEF PassInit, Phases
<1>2. deaf \in BOOLEAN /\ killed \in BOOLEAN
  BY Zenon DEF PassInit
<1>3. has \in SUBSET Kinds /\ stale \in SUBSET Kinds /\ out \in SUBSET Sendable
  BY DEF PassInit
<1>4. gate \in [on : BOOLEAN, ap : BOOLEAN, parked : BOOLEAN, summoning : BOOLEAN]
  BY DEF PassInit
<1>5. gear \in {"unknown", "park", "drive"}
  BY DEF PassInit
<1>6. summon \in [inject : BOOLEAN, left : 0..SummonFrames, age : 0..Gap]
  BY DEF PassInit
<1>7. burst \in [left : 0..BurstFrames, age : 0..Gap]
  BY DEF PassInit
<1>8. beat \in [Beats -> [on : BOOLEAN, age : Nat]]
        /\ \A b \in Beats : beat[b].age <= Period[b]
  <2>1. \A b \in Beats : beat[b].age = 0 /\ Period[b] \in Nat
    BY DEF PassInit
  <2> QED BY <2>1 DEF PassInit
<1>9. variant \in [is : Variants, auto : BOOLEAN, hwKnown : BOOLEAN]
        /\ inject \in [fsd : BOOLEAN, shield : BOOLEAN, das : BOOLEAN]
  BY DEF PassInit
<1> QED BY <1>1, <1>2, <1>3, <1>4, <1>5, <1>6, <1>7, <1>8, <1>9 DEF StateOK

LEMMA TypeCommand ==
  ASSUME StateOK, SerialTick
  PROVE  StateOK'
<1> USE TimeAssumption, SizeAssumption
<1>0. /\ StateOK!1' /\ StateOK!2' /\ deaf' \in BOOLEAN
      /\ has' \in SUBSET Kinds /\ stale' \in SUBSET Kinds
      /\ gear' \in {"unknown", "park", "drive"} /\ out' \in SUBSET Sendable
  BY DEF StateOK, SerialTick, busVars, Quiet
<1>1. killed' \in BOOLEAN
  BY DEF StateOK, SerialTick, SummonCmd, SummonStopCmd, SummonInjectCmd, GateCmd, BurstCmd,
     PreconditionCmd, DriveModeCmd, SeatbeltCmd, SimCmd, VariantCmd, FsdCmd, ShieldCmd,
     DriveCmd, Disable
<1>2. gate' \in [on : BOOLEAN, ap : BOOLEAN, parked : BOOLEAN, summoning : BOOLEAN]
  BY ZenonT(40) DEF StateOK, SerialTick, SummonCmd, SummonStopCmd, SummonInjectCmd, GateCmd, BurstCmd,
     PreconditionCmd, DriveModeCmd, SeatbeltCmd, SimCmd, VariantCmd, FsdCmd, ShieldCmd,
     DriveCmd, Disable
<1>3. summon' \in [inject : BOOLEAN, left : 0..SummonFrames, age : 0..Gap]
  <2>1. CASE SummonCmd BY <2>1 DEF StateOK, SummonCmd
  <2>2. CASE SummonStopCmd BY <2>2 DEF StateOK, SummonStopCmd
  <2>3. ASSUME NEW on \in BOOLEAN, SummonInjectCmd(on) PROVE <1>3!:
    <3>1. [summon EXCEPT !.inject = TRUE]
            \in [inject : BOOLEAN, left : 0..SummonFrames, age : 0..Gap]
      BY DEF StateOK
    <3>2. [summon EXCEPT !.inject = FALSE, !.left = 0]
            \in [inject : BOOLEAN, left : 0..SummonFrames, age : 0..Gap]
      <4> DEFINE Off == [summon EXCEPT !.inject = FALSE]
      <4>1. Off \in [inject : BOOLEAN, left : 0..SummonFrames, age : 0..Gap]
        BY DEF StateOK
      <4> HIDE DEF Off
      <4>2. [Off EXCEPT !.left = 0]
              \in [inject : BOOLEAN, left : 0..SummonFrames, age : 0..Gap]
        BY <4>1
      <4> QED BY <4>2, Zenon DEF Off
    <3>3. \/ summon' = [summon EXCEPT !.inject = TRUE]
          \/ summon' = [summon EXCEPT !.inject = FALSE, !.left = 0]
      BY <2>3, Zenon DEF SummonInjectCmd
    <3> QED BY <3>1, <3>2, <3>3, Zenon
  <2>4. CASE Disable BY <2>4 DEF StateOK, Disable
  <2>5. CASE UNCHANGED summon BY <2>5 DEF StateOK
  <2> QED
    BY <2>1, <2>2, <2>3, <2>4, <2>5 DEF SerialTick, GateCmd, BurstCmd, PreconditionCmd,
       DriveModeCmd, SeatbeltCmd, SimCmd, VariantCmd, FsdCmd, ShieldCmd, DriveCmd
<1>4. burst' \in [left : 0..BurstFrames, age : 0..Gap]
  <2>1. ASSUME NEW k \in session.needs, BurstCmd(k) PROVE <1>4!:
    BY <2>1 DEF StateOK, BurstCmd, Started
  <2>2. ASSUME NEW on \in BOOLEAN, PreconditionCmd(on) PROVE <1>4!:
    BY <2>2 DEF StateOK, PreconditionCmd, Started
  <2>3. CASE UNCHANGED burst BY <2>3 DEF StateOK
  <2> QED
    BY <2>1, <2>2, <2>3 DEF SerialTick, SummonCmd, SummonStopCmd, SummonInjectCmd, GateCmd,
       DriveModeCmd, SeatbeltCmd, SimCmd, VariantCmd, FsdCmd, ShieldCmd, DriveCmd, Disable
<1>5. /\ beat' \in [Beats -> [on : BOOLEAN, age : Nat]]
      /\ \A b \in Beats : beat'[b].age <= Period[b]
  <2>1. ASSUME NEW on \in BOOLEAN, PreconditionCmd(on) PROVE <1>5!1 /\ <1>5!2
    BY <2>1 DEF StateOK, PreconditionCmd, Beats
  <2>2. ASSUME NEW on \in BOOLEAN, DriveModeCmd(on) PROVE <1>5!1 /\ <1>5!2
    BY <2>2 DEF StateOK, DriveModeCmd, Beats
  <2>3. ASSUME NEW on \in BOOLEAN, SeatbeltCmd(on) PROVE <1>5!1 /\ <1>5!2
    BY <2>3 DEF StateOK, SeatbeltCmd, Beats
  <2>4. ASSUME NEW on \in BOOLEAN, SimCmd(on) PROVE <1>5!1 /\ <1>5!2
    BY <2>4 DEF StateOK, SimCmd, Beats
  <2>5. CASE UNCHANGED beat
    BY <2>5 DEF StateOK
  <2> QED
    BY <2>1, <2>2, <2>3, <2>4, <2>5 DEF SerialTick, SummonCmd, SummonStopCmd,
       SummonInjectCmd, GateCmd, BurstCmd, VariantCmd, FsdCmd, ShieldCmd, DriveCmd, Disable
<1>6. variant' \in [is : Variants, auto : BOOLEAN, hwKnown : BOOLEAN]
  <2>1. ASSUME NEW v \in Variants \cup {"auto"}, VariantCmd(v) PROVE <1>6!:
    BY <2>1 DEF StateOK, VariantCmd
  <2>2. CASE UNCHANGED variant BY <2>2 DEF StateOK
  <2> QED
    BY <2>1, <2>2 DEF SerialTick, SummonCmd, SummonStopCmd, SummonInjectCmd, GateCmd, BurstCmd,
       PreconditionCmd, DriveModeCmd, SeatbeltCmd, SimCmd, FsdCmd, ShieldCmd, DriveCmd, Disable
<1>7. inject' \in [fsd : BOOLEAN, shield : BOOLEAN, das : BOOLEAN]
  <2>1. ASSUME NEW on \in BOOLEAN, FsdCmd(on) \/ ShieldCmd(on) \/ DriveCmd(on) PROVE <1>7!:
    BY <2>1 DEF StateOK, FsdCmd, ShieldCmd, DriveCmd
  <2>2. CASE Disable BY <2>2 DEF StateOK, Disable
  <2>3. CASE UNCHANGED inject BY <2>3 DEF StateOK
  <2> QED
    BY <2>1, <2>2, <2>3 DEF SerialTick, SummonCmd, SummonStopCmd, SummonInjectCmd, GateCmd,
       BurstCmd, PreconditionCmd, DriveModeCmd, SeatbeltCmd, SimCmd, VariantCmd
<1> QED BY <1>0, <1>1, <1>2, <1>3, <1>4, <1>5, <1>6, <1>7 DEF StateOK

BusType == [online : BOOLEAN, standby : BOOLEAN, quiet : 0..Timeout,
            reinit : 0..ReinitPeriod]
GateType == [on : BOOLEAN, ap : BOOLEAN, parked : BOOLEAN, summoning : BOOLEAN]
SummonType == [inject : BOOLEAN, left : 0..SummonFrames, age : 0..Gap]
BurstType == [left : 0..BurstFrames, age : 0..Gap]
BeatsTyped(f) == /\ f \in [Beats -> [on : BOOLEAN, age : Nat]]
                 /\ \A b \in Beats : f[b].age <= Period[b]

\* Time passing keeps every age below its cap.
LEMMA TypeAges ==
  ASSUME StateOK, NEW d \in Delays
  PROVE  /\ [summon EXCEPT !.age = Aged(@, d, Gap)] \in SummonType
         /\ [burst EXCEPT !.age = Aged(@, d, Gap)] \in BurstType
         /\ BeatsTyped([b \in Beats |-> [beat[b] EXCEPT !.age = Aged(@, d, Period[b])]])
         /\ Aged(bus.reinit, d, ReinitPeriod) \in 0..ReinitPeriod
         /\ Aged(bus.quiet, d, Timeout) \in 0..Timeout
<1> USE TimeAssumption
<1>1. Aged(summon.age, d, Gap) \in 0..Gap /\ Aged(burst.age, d, Gap) \in 0..Gap
  BY AgedInRange DEF StateOK
<1>2. /\ Aged(bus.reinit, d, ReinitPeriod) \in 0..ReinitPeriod
      /\ Aged(bus.quiet, d, Timeout) \in 0..Timeout
  BY AgedInRange DEF StateOK
<1>3. [summon EXCEPT !.age = Aged(@, d, Gap)] \in SummonType
  BY <1>1 DEF StateOK, SummonType
<1>4. [burst EXCEPT !.age = Aged(@, d, Gap)] \in BurstType
  BY <1>1 DEF StateOK, BurstType
<1>5. BeatsTyped([b \in Beats |-> [beat[b] EXCEPT !.age = Aged(@, d, Period[b])]])
  <2>1. ASSUME NEW b \in Beats PROVE Aged(beat[b].age, d, Period[b]) \in 0..Period[b]
    BY AgedInRange DEF StateOK
  <2>2. ASSUME NEW b \in Beats
        PROVE  /\ [beat[b] EXCEPT !.age = Aged(@, d, Period[b])]
                    \in [on : BOOLEAN, age : Nat]
               /\ [beat[b] EXCEPT !.age = Aged(@, d, Period[b])].age <= Period[b]
    BY <2>1 DEF StateOK
  <2> QED BY <2>2 DEF BeatsTyped
<1> QED BY <1>2, <1>3, <1>4, <1>5

LEMMA TypeBegin ==
  ASSUME StateOK, NEW d \in Delays, BeginPass(d)
  PROVE  StateOK'
<1> USE TimeAssumption, SizeAssumption
<1>0. /\ deaf' \in BOOLEAN /\ killed' \in BOOLEAN
      /\ variant' \in [is : Variants, auto : BOOLEAN, hwKnown : BOOLEAN]
      /\ inject' \in [fsd : BOOLEAN, shield : BOOLEAN, das : BOOLEAN]
  BY DEF StateOK, BeginPass
<1>1. out' \in SUBSET Sendable
  BY DEF BeginPass, DasOut, Sendable
<1>2. /\ phase' \in Phases /\ gear' \in {"unknown", "park", "drive"}
      /\ has' \in SUBSET Kinds /\ stale' \in SUBSET Kinds
  BY DEF StateOK, BeginPass, FallSilent, Carry, Phases
<1>3. CASE FallSilent(d)
  <2>1. bus' \in BusType
    <3>1. Aged(bus.reinit, d, ReinitPeriod) \in 0..ReinitPeriod
      BY TypeAges
    <3> QED BY <1>3, <3>1 DEF FallSilent, BusType
  <2>2. gate' \in GateType
    <3> DEFINE Off == [gate EXCEPT !.summoning = FALSE]
    <3>1. Off \in GateType BY DEF StateOK, GateType
    <3>2. gate' = [Off EXCEPT !.parked = TRUE] BY <1>3, Zenon DEF FallSilent
    <3> HIDE DEF Off
    <3> QED BY <3>1, <3>2 DEF GateType
  <2>3. summon' \in SummonType
    <3> DEFINE Stopped == [summon EXCEPT !.left = 0]
    <3>1. Stopped \in SummonType /\ Stopped.age = summon.age
      BY DEF StateOK, SummonType
    <3>2. summon' = [Stopped EXCEPT !.age = Aged(summon.age, d, Gap)]
      BY <1>3 DEF FallSilent, StateOK
    <3>3. Aged(summon.age, d, Gap) \in 0..Gap
      BY AgedInRange DEF StateOK
    <3> HIDE DEF Stopped
    <3> QED BY <3>1, <3>2, <3>3 DEF SummonType
  <2>4. burst' \in BurstType /\ BeatsTyped(beat')
    BY <1>3, TypeAges, Zenon DEF FallSilent
  <2> QED BY <1>0, <1>1, <1>2, <2>1, <2>2, <2>3, <2>4
          DEF StateOK, BusType, GateType, SummonType, BurstType, BeatsTyped
<1>4. CASE Carry(d)
  <2>1. bus' \in BusType
    BY <1>4, TypeAges DEF Carry, StateOK, BusType
  <2>2. gate' \in GateType
    <3>1. ASSUME NEW v \in BOOLEAN
          PROVE  [gate EXCEPT !.summoning = v] \in GateType
      BY DEF StateOK, GateType
    <3>2. (summon.left > 0) \in BOOLEAN
      BY DEF StateOK
    <3>3. gate' = [gate EXCEPT !.summoning = (summon.left > 0)]
      BY <1>4, Zenon DEF Carry
    <3> QED BY <3>1, <3>2, <3>3, Zenon
  <2>3. summon' \in SummonType /\ burst' \in BurstType /\ BeatsTyped(beat')
    BY <1>4, TypeAges, Zenon DEF Carry, Clock
  <2> QED BY <1>0, <1>1, <1>2, <2>1, <2>2, <2>3
          DEF StateOK, BusType, GateType, SummonType, BurstType, BeatsTyped
<1> QED BY <1>3, <1>4 DEF BeginPass

\* handleMessage writes the cache, the gate, the variant and what is sent.
LEMMA TypeHandle ==
  ASSUME session \in Sessions, StateOK, HandleMessage
  PROVE  /\ has' \in SUBSET Kinds /\ stale' \in SUBSET Kinds
         /\ gate' \in GateType /\ gear' \in {"unknown", "park", "drive"}
         /\ variant' \in [is : Variants, auto : BOOLEAN, hwKnown : BOOLEAN]
         /\ out' \in SUBSET Sendable
         /\ UNCHANGED msgVars
<1> USE SizeAssumption
<1>1. has' \in SUBSET Kinds /\ stale' \in SUBSET Kinds
  BY ZenonT(40) DEF StateOK, HandleMessage, CacheFrame, DasStatus, DiState, Echoed, FsdMux,
     GtwChanged, CarConfig, InferVariant
<1>2. gate' \in GateType
  <2>1. ASSUME NEW v \in BOOLEAN
        PROVE  /\ [gate EXCEPT !.ap = v] \in GateType
               /\ [gate EXCEPT !.parked = v] \in GateType
    BY DEF StateOK, GateType
  <2>2. gate \in GateType
    BY Zenon DEF StateOK, GateType
  <2> QED
    BY <2>1, <2>2, Zenon DEF HandleMessage, CacheFrame, DasStatus, DiState, Echoed,
       FsdMux, GtwChanged, CarConfig, InferVariant
<1>3. gear' \in {"unknown", "park", "drive"}
  BY DEF StateOK, HandleMessage, CacheFrame, DasStatus, DiState, Echoed, FsdMux,
     GtwChanged, CarConfig, InferVariant
<1>4. variant' \in [is : Variants, auto : BOOLEAN, hwKnown : BOOLEAN]
  <2>1. ASSUME NEW v \in Variants, CarConfig(v) PROVE <1>4!:
    <3>1. [variant EXCEPT !.hwKnown = TRUE]
            \in [is : Variants, auto : BOOLEAN, hwKnown : BOOLEAN]
      BY DEF StateOK
    <3>2. (IF variant.auto THEN v ELSE variant.is) \in Variants
      BY DEF StateOK
    <3> DEFINE Known == [variant EXCEPT !.hwKnown = TRUE]
    <3>3. variant' = [Known EXCEPT !.is = IF variant.auto THEN v ELSE variant.is]
      BY <2>1 DEF CarConfig, StateOK
    <3> HIDE DEF Known
    <3>4. Known \in [is : Variants, auto : BOOLEAN, hwKnown : BOOLEAN]
      BY <3>1 DEF Known
    <3> QED BY <3>2, <3>3, <3>4
  <2>2. ASSUME NEW v \in Variants, InferVariant(v) PROVE <1>4!:
    BY <2>2 DEF StateOK, InferVariant
  <2>3. CASE UNCHANGED variant
    BY <2>3 DEF StateOK
  <2> QED
    BY <2>1, <2>2, <2>3 DEF HandleMessage, CacheFrame, DasStatus, DiState, Echoed,
       FsdMux, GtwChanged
<1>5. out' \in SUBSET Sendable
  BY DEF Sendable, HandleMessage, CacheFrame, DasStatus, DiState, Echoed, FsdMux,
     GtwChanged, CarConfig, InferVariant, Quiet
<1>6. UNCHANGED msgVars
  BY DEF HandleMessage
<1> QED BY <1>1, <1>2, <1>3, <1>4, <1>5, <1>6

LEMMA TypeStandbyBus == ASSUME StateOK PROVE StandbyBus \in BusType
BY TimeAssumption DEF StateOK, StandbyBus, BusType

LEMMA TypeTicks ==
  ASSUME StateOK, Ticks
  PROVE  StateOK'
<1> USE TimeAssumption, SizeAssumption
<1>1. summon' \in SummonType
  <2>1. CASE SummonDue
    <3> DEFINE Sent == [summon EXCEPT !.left = @ - 1]
    <3>1. Sent \in SummonType BY <2>1 DEF StateOK, SummonType, SummonDue
    <3>2. summon' = [Sent EXCEPT !.age = 0] BY <2>1 DEF Ticks
    <3> HIDE DEF Sent
    <3> QED BY <3>1, <3>2 DEF SummonType
  <2>2. CASE ~SummonDue
    BY <2>2 DEF Ticks, StateOK, SummonType
  <2> QED BY <2>1, <2>2
<1>2. burst' \in BurstType
  <2>1. CASE BurstDue
    <3> DEFINE Sent == [burst EXCEPT !.left = @ - 1]
    <3>1. Sent \in BurstType BY <2>1 DEF StateOK, BurstType, BurstDue
    <3>2. burst' = [Sent EXCEPT !.age = 0] BY <2>1 DEF Ticks, TickedBurst
    <3> HIDE DEF Sent
    <3> QED BY <3>1, <3>2 DEF BurstType
  <2>2. CASE ~BurstDue
    BY <2>2 DEF Ticks, TickedBurst, StateOK, BurstType
  <2> QED BY <2>1, <2>2
<1>3. BeatsTyped(beat')
  <2>1. ASSUME NEW b \in Beats
        PROVE  [beat[b] EXCEPT !.age = 0] \in [on : BOOLEAN, age : 0..Period[b]]
    BY DEF StateOK
  <2>2. ASSUME NEW b \in Beats
        PROVE  /\ beat'[b] \in [on : BOOLEAN, age : Nat] /\ beat'[b].age <= Period[b]
    <3>1. CASE BeatDue(b) BY <2>1, <3>1 DEF Ticks
    <3>2. CASE ~BeatDue(b) BY <3>2 DEF Ticks, StateOK
    <3> QED BY <3>1, <3>2
  <2>3. beat' = [b \in Beats |-> beat'[b]]
    BY DEF Ticks
  <2> QED BY <2>2, <2>3 DEF BeatsTyped
<1>4. gate' \in GateType /\ gear' \in {"unknown", "park", "drive"}
  BY DEF Ticks, StateOK, GateType
<1>5. out' \in SUBSET Sendable
  BY DEF Ticks, Sendable
<1>6. /\ phase' \in Phases /\ bus' \in BusType /\ deaf' \in BOOLEAN /\ killed' \in BOOLEAN
      /\ has' \in SUBSET Kinds /\ stale' \in SUBSET Kinds
      /\ variant' \in [is : Variants, auto : BOOLEAN, hwKnown : BOOLEAN]
      /\ inject' \in [fsd : BOOLEAN, shield : BOOLEAN, das : BOOLEAN]
  BY DEF Ticks, StateOK, Phases, BusType
<1> QED BY <1>1, <1>2, <1>3, <1>4, <1>5, <1>6
        DEF StateOK, BusType, GateType, SummonType, BurstType, BeatsTyped

LEMMA StateNext ==
  ASSUME PassTypeOK, [PassNext]_passVars
  PROVE  StateOK'
<1>0. session \in Sessions /\ StateOK BY DEF PassTypeOK
<1> USE TimeAssumption, SizeAssumption
<1>1. CASE SerialTick BY <1>0, <1>1, TypeCommand
<1>2. ASSUME NEW d \in Delays, BeginPass(d) PROVE StateOK'
  BY <1>0, <1>2, TypeBegin
<1>3. CASE StandbyIdle
  <2>1. bus' \in BusType BY <1>0, <1>3, TypeStandbyBus DEF StandbyIdle
  <2>2. deaf' \in BOOLEAN BY <1>0, <1>3, Zenon DEF StandbyIdle, StateOK
  <2> QED BY <1>0, <1>3, <2>1, <2>2 DEF StateOK, StandbyIdle, Quiet, Phases, msgVars, BusType
<1>4. CASE StandbyWake
  <2>1. StandbyBus.reinit \in 0..ReinitPeriod
    BY <1>0, TypeStandbyBus DEF BusType
  <2>2. bus' \in BusType
    BY <1>0, <1>4, <2>1 DEF StandbyWake, BusType
  <2>3. deaf' \in BOOLEAN /\ phase' \in Phases
    BY <1>0, <1>4, Zenon DEF StandbyWake, Phases
  <2>4. HandleMessage
    BY <1>0, <1>4 DEF StandbyWake
  <2> QED BY <1>0, <2>2, <2>3, <2>4, TypeHandle DEF StateOK, msgVars, BusType, GateType
<1>5. CASE Ticks BY <1>0, <1>5, TypeTicks
<1>6. CASE Read
  <2>1. bus' \in BusType
    <3> DEFINE Up == [bus EXCEPT !.online = TRUE]
    <3>1. Up \in BusType BY <1>0 DEF StateOK, BusType
    <3>2. bus' = [Up EXCEPT !.quiet = 0] BY <1>0, <1>6, Zenon DEF Read
    <3> HIDE DEF Up
    <3> QED BY <3>1, <3>2 DEF BusType
  <2>2. HandleMessage /\ UNCHANGED <<phase, deaf>>
    BY <1>0, <1>6 DEF Read
  <2> QED BY <1>0, <2>1, <2>2, TypeHandle DEF StateOK, msgVars, BusType, GateType
<1>7. CASE EndPass
  BY <1>0, <1>7 DEF StateOK, EndPass, Quiet, Phases, msgVars
<1>8. CASE GoDeaf
  BY <1>0, <1>8 DEF StateOK, GoDeaf, Quiet, msgVars
<1>9. CASE UNCHANGED passVars
  BY <1>0, <1>9 DEF StateOK, passVars
<1> QED
  BY <1>0, <1>1, <1>2, <1>3, <1>4, <1>5, <1>6, <1>7, <1>8, <1>9 DEF PassNext, Pass

LEMMA PassTypeNext == PassTypeOK /\ [PassNext]_passVars => PassTypeOK'
<1>1. [PassNext]_passVars => session' = session BY DEF PassNext, passVars
<1> QED BY <1>1, StateNext DEF PassTypeOK

LEMMA PassTypeInit == PassInit => PassTypeOK
BY StateInit DEF PassInit, PassTypeOK

\* The variables keep their types for every choice of the constants.
THEOREM PassTypeCorrect == PassSpec => []PassTypeOK
BY PassTypeInit, PassTypeNext, PTL DEF PassSpec

(***************************************************************************)
(* The summon.  In standby nothing is cached, so no summon can start; that *)
(* and the types make SummonArmed inductive.  A killed loop owes no summon *)
(* frame and has FSD off; a drive gear means the gate's park flag is down; *)
(* and the gate's summon flag is the summon of this pass.                  *)
(***************************************************************************)
SummonInv ==
  /\ SummonArmed
  /\ bus.standby => has = {}
  /\ phase \in {"ticks", "read"} => ~bus.standby
  /\ killed => summon.left = 0 /\ ~inject.fsd
  /\ KillSwitchHolds
  /\ gear = "drive" => ~gate.parked
  /\ phase = "ticks" => (gate.summoning => summon.left > 0)

LEMMA SummonInit == PassInit => SummonInv
<1> SUFFICES ASSUME PassInit PROVE SummonInv OBVIOUS
<1>1. summon.left = 0 /\ ~bus.standby /\ has = {} BY DEF PassInit
<1>2. phase = "serial" /\ gear = "unknown" BY DEF PassInit
<1>3. ~killed BY Zenon DEF PassInit
<1> QED BY <1>1, <1>2, <1>3 DEF SummonInv, SummonArmed, KillSwitchHolds

LEMMA SummonCommand ==
  ASSUME StateOK, SummonInv, SerialTick
  PROVE  SummonInv'
<1> USE SizeAssumption
<1>0. /\ UNCHANGED busVars /\ out' = {} /\ phase = "serial"
  BY DEF SerialTick, Quiet
<1>1. SummonArmed' /\ (killed' => summon'.left = 0 /\ ~inject'.fsd)
  <2>1. CASE SummonCmd
    <3>1. ~bus.standby BY <2>1 DEF SummonCmd, SummonInv
    <3> QED BY <1>0, <2>1, <3>1 DEF SummonCmd, SummonArmed, busVars, StateOK
  <2>2. CASE SummonStopCmd
    BY <1>0, <2>2 DEF SummonStopCmd, SummonArmed, SummonInv, busVars, StateOK
  <2>3. ASSUME NEW on \in BOOLEAN, SummonInjectCmd(on) PROVE <1>1!1 /\ <1>1!2
    BY <1>0, <2>3 DEF SummonInjectCmd, SummonArmed, SummonInv, busVars, StateOK
  <2>4. CASE Disable
    BY <1>0, <2>4 DEF Disable, SummonArmed, SummonInv, busVars, StateOK
  <2>5. CASE UNCHANGED summon /\ ((killed' = killed /\ inject' = inject) \/ killed' = FALSE)
    BY <1>0, <2>5 DEF SummonArmed, SummonInv, busVars
  <2> QED
    BY <2>1, <2>2, <2>3, <2>4, <2>5 DEF SerialTick, GateCmd, BurstCmd, PreconditionCmd,
       DriveModeCmd, SeatbeltCmd, SimCmd, VariantCmd, FsdCmd, ShieldCmd, DriveCmd
<1>2. gate'.parked = gate.parked
  BY DEF StateOK, SerialTick, SummonCmd, SummonStopCmd, SummonInjectCmd, GateCmd, BurstCmd,
     PreconditionCmd, DriveModeCmd, SeatbeltCmd, SimCmd, VariantCmd, FsdCmd, ShieldCmd,
     DriveCmd, Disable
<1> QED BY <1>0, <1>1, <1>2 DEF SummonInv, KillSwitchHolds, busVars

LEMMA SummonBegin ==
  ASSUME StateOK, SummonInv, NEW d \in Delays, BeginPass(d)
  PROVE  SummonInv'
<1>0. UNCHANGED <<inject, killed>> /\ out' \subseteq {"das"}
  BY DEF BeginPass, DasOut
<1>1. CASE FallSilent(d)
  <2>1. /\ summon'.left = 0 /\ has' = {} /\ phase' = "standby" /\ gear' = "unknown"
    BY <1>1 DEF FallSilent, StateOK
  <2> QED BY <1>0, <2>1 DEF SummonInv, SummonArmed, KillSwitchHolds
<1>2. CASE Carry(d)
  <2>1. /\ summon'.left = summon.left /\ summon'.inject = summon.inject
        /\ bus'.standby = bus.standby /\ gate'.parked = gate.parked
        /\ gate'.summoning = (summon.left > 0)
        /\ UNCHANGED <<has, stale, gear>>
    BY <1>2 DEF Carry, Clock, StateOK
  <2>2. phase' = IF bus.standby THEN "standby" ELSE "ticks"
    BY <1>2 DEF Carry
  <2> QED BY <1>0, <2>1, <2>2 DEF SummonInv, SummonArmed, KillSwitchHolds
<1> QED BY <1>1, <1>2 DEF BeginPass

\* What handleMessage keeps of the invariant.
LEMMA SummonHandle ==
  ASSUME StateOK, SummonInv, HandleMessage
  PROVE  /\ UNCHANGED msgVars
         /\ has \subseteq has'
         /\ gear' = "drive" => ~gate'.parked
         /\ KillSwitchHolds'
<1>1. UNCHANGED msgVars BY DEF HandleMessage
<1>2. has \subseteq has'
  BY DEF HandleMessage, CacheFrame, DasStatus, DiState, Echoed, FsdMux, GtwChanged,
     CarConfig, InferVariant
<1>3. gear' = "drive" => ~gate'.parked
  <2>1. ASSUME NEW p \in BOOLEAN, DiState(p) PROVE <1>3!:
    BY <2>1 DEF DiState, StateOK
  <2>2. ASSUME NEW a \in BOOLEAN, NEW b \in BOOLEAN, DasStatus(a, b) PROVE <1>3!:
    BY <2>2 DEF DasStatus, StateOK, SummonInv
  <2>3. CASE UNCHANGED <<gate, gear>>
    BY <2>3 DEF SummonInv
  <2> QED
    BY <2>1, <2>2, <2>3 DEF HandleMessage, CacheFrame, Echoed, FsdMux, GtwChanged,
       CarConfig, InferVariant
<1>4. KillSwitchHolds'
  <2>1. CASE FsdMux
    BY <1>1, <2>1 DEF FsdMux, SummonInv, KillSwitchHolds, msgVars
  <2>2. CASE ~FsdMux
    <3>1. out' \cap {"summon", "fsd"} = {}
      BY <2>2 DEF HandleMessage, CacheFrame, DasStatus, DiState, Echoed, GtwChanged,
         CarConfig, InferVariant, Quiet
    <3> QED BY <3>1 DEF KillSwitchHolds
  <2> QED BY <2>1, <2>2
<1> QED BY <1>1, <1>2, <1>3, <1>4

LEMMA SummonNext ==
  ASSUME StateOK, SummonInv, [PassNext]_passVars
  PROVE  SummonInv'
<1>1. CASE SerialTick BY <1>1, SummonCommand
<1>2. ASSUME NEW d \in Delays, BeginPass(d) PROVE SummonInv'
  BY <1>2, SummonBegin
<1>3. CASE StandbyIdle
  <2>1. bus'.standby = bus.standby BY <1>3 DEF StandbyIdle, StandbyBus, StateOK
  <2> QED BY <1>3, <2>1 DEF SummonInv, SummonArmed, KillSwitchHolds, StandbyIdle, Quiet, msgVars
<1>4. CASE StandbyWake
  <2>1. ~bus'.standby /\ phase' = "serial" /\ HandleMessage BY <1>4 DEF StandbyWake
  <2> QED BY <2>1, SummonHandle DEF SummonInv, SummonArmed, msgVars
<1>5. CASE Ticks
  <2>1. /\ UNCHANGED <<bus, has, inject, killed>> /\ phase = "ticks" /\ phase' = "read"
    BY <1>5 DEF Ticks
  <2>2. SummonArmed' /\ (summon.left = 0 => summon'.left = 0 /\ "summon" \notin out')
    <3>1. CASE SummonDue
      BY <1>5, <2>1, <3>1 DEF Ticks, SummonDue, SummonArmed, SummonInv, StateOK
    <3>2. CASE ~SummonDue
      BY <1>5, <2>1, <3>2 DEF Ticks, SummonArmed, SummonInv, Beats
    <3> QED BY <3>1, <3>2
  <2>3. "fsd" \notin out'
    BY <1>5 DEF Ticks, Beats
  <2>4. gear' = "drive" => ~gate'.parked
    BY <1>5 DEF Ticks, StateOK, SummonInv
  <2> QED BY <2>1, <2>2, <2>3, <2>4 DEF SummonInv, KillSwitchHolds
<1>6. CASE Read
  <2>1. bus'.standby = bus.standby /\ phase' = phase /\ phase = "read" /\ HandleMessage
    BY <1>6 DEF Read, StateOK
  <2> QED BY <2>1, SummonHandle DEF SummonInv, SummonArmed, msgVars
<1>7. CASE EndPass
  BY <1>7 DEF SummonInv, SummonArmed, KillSwitchHolds, EndPass, Quiet, msgVars
<1>8. CASE GoDeaf
  BY <1>8 DEF SummonInv, SummonArmed, KillSwitchHolds, GoDeaf, Quiet, msgVars
<1>9. CASE UNCHANGED passVars
  BY <1>9 DEF SummonInv, SummonArmed, KillSwitchHolds, passVars
<1> QED
  BY <1>1, <1>2, <1>3, <1>4, <1>5, <1>6, <1>7, <1>8, <1>9 DEF PassNext, Pass

\* A summon in progress can always proceed; standby, disable and the stop
\* commands leave no frame owed.
THEOREM SummonAlwaysArmed == PassSpec => []SummonArmed
<1>1. SummonInv => SummonArmed BY DEF SummonInv
<1>2. PassTypeOK => StateOK BY DEF PassTypeOK
<1> QED BY <1>1, <1>2, PassTypeInit, PassTypeNext, SummonInit, SummonNext, PTL DEF PassSpec

\* After the kill switch no summon or FSD frame until a command enables one.
THEOREM KillSwitch == PassSpec => []KillSwitchHolds
<1>1. SummonInv => KillSwitchHolds BY DEF SummonInv
<1>2. PassTypeOK => StateOK BY DEF PassTypeOK
<1> QED BY <1>1, <1>2, PassTypeInit, PassTypeNext, SummonInit, SummonNext, PTL DEF PassSpec

\* In a drive gear without autopilot the enforced gate lets the ticks inject
\* only in a pass that began within a summon.
THEOREM SummonClosesItsGate == PassSpec => OnlySummonOpensInDrive
<1>1. ASSUME StateOK, SummonInv, PassNext
      PROVE  gate.on /\ ~gate.ap /\ gear = "drive" /\ phase = "ticks" /\ out' # {}
               => summon.left > 0
  <2> SUFFICES ASSUME gate.on, ~gate.ap, gear = "drive", phase = "ticks", out' # {}
               PROVE  summon.left > 0
    OBVIOUS
  <2>1. ~gate.parked /\ (gate.summoning => summon.left > 0)
    BY <1>1 DEF SummonInv
  <2>2. CASE Ticks
    <3>1. GateOpen(gate)
      BY <2>2 DEF Ticks, SummonDue, BurstDue, BeatDue, BeatReady, Beats
    <3> QED BY <2>1, <3>1 DEF GateOpen
  <2>3. CASE GoDeaf
    BY <2>3 DEF GoDeaf, Quiet
  <2> QED
    BY <1>1, <2>2, <2>3 DEF PassNext, Pass, SerialTick, BeginPass, StandbyIdle, StandbyWake,
       Read, EndPass
<1>2. PassTypeOK => StateOK BY DEF PassTypeOK
<1> QED
  BY <1>1, <1>2, PassTypeInit, PassTypeNext, SummonInit, SummonNext, PTL DEF PassSpec, OnlySummonOpensInDrive

-----------------------------------------------------------------------------
(* The two features in one run                                              *)

\* The loop with its gamepad and the pass over the buses, run as MCCarFrames runs
\* them, are each a behaviour of its own specification.
THEOREM FramesImplement == FramesSpec => LoopSpec /\ PassSpec
<1>1. FramesInit => LoopInit /\ PassInit BY DEF FramesInit
<1>2. ASSUME [PadRuns \/ PassRuns]_<<program, loopVars, passVars>>
      PROVE  [LoopNext]_vars /\ [PassNext]_passVars
  <2>1. CASE PadRuns BY <2>1 DEF PadRuns
  <2>2. CASE PassRuns BY <2>2 DEF PassRuns, loopVars, vars
  <2>3. CASE UNCHANGED <<program, loopVars, passVars>> BY <2>3 DEF loopVars, vars
  <2> QED BY <1>2, <2>1, <2>2, <2>3
<1> QED BY <1>1, <1>2, PTL DEF FramesSpec, LoopSpec, PassSpec

\* What is written to the bus of the car: the pedals of a gamepad exclude each other
\* and obey the user limit; summon and the other injections are of fresh bytes, armed,
\* and end with the kill switch; and a summon alone opens the gate in a drive gear.
THEOREM FramesAreSafe ==
  FramesSpec => /\ [](PedalsExclusive /\ SummonArmed /\ FreshFrames /\ KillSwitchHolds)
                /\ UserLimitHeld /\ OnlySummonOpensInDrive
BY FramesImplement, PedalsStayExclusive, SummonAlwaysArmed, FreshAlways, KillSwitch, LimitHolds,
   SummonClosesItsGate, PTL
===============================================================================
