------------------------------ MODULE DasLimits ------------------------------
(***************************************************************************)
(* The pure arithmetic of the DAS drive feature and of the gamepad axes    *)
(* that feed it: das_drive.h (limits, rate limiter, standstill hold) and   *)
(* axis_math.h (dead zone, normalisation, expo curve).                     *)
(*                                                                         *)
(* The code computes in float.  Here angles are whole degrees, speeds whole*)
(* km/h, accelerations hundredths of m/s^2, normalised axis levels         *)
(* thousandths; a quotient is rounded towards zero.                        *)
(***************************************************************************)
EXTENDS Integers

MaxAngle == 360          \* DAS_MAX_ANGLE_DEG
MaxAngleRate == 5        \* DAS_MAX_ANGLE_RATE_DEG, per steering frame
LowSpeedKph == 8         \* DAS_LOW_SPEED_KPH
AccelMax == 200          \* DAS_ACCEL_MAX_MS2
AccelMin == -348         \* DAS_ACCEL_MIN_MS2
StandstillHold == -40    \* DAS_STANDSTILL_HOLD_MS2
SpeedCapMin == 1         \* DAS_SPEED_CAP_MIN_KPH
SpeedCapMax == 200       \* DAS_SPEED_CAP_MAX_KPH
SpeedDefault == 25       \* DAS_SPEED_CAP_DEFAULT, DAS_SPEED_LIMIT_DEFAULT

Least(a, b) == IF a < b THEN a ELSE b
Magnitude(x) == IF x < 0 THEN -x ELSE x
Clamp(x, lo, hi) == IF x < lo THEN lo ELSE IF x > hi THEN hi ELSE x

-----------------------------------------------------------------------------
(* das_drive.h *)

\* dasMaxSteerAtSpeed: the bicycle model a_y * L / v^2 in degrees, with
\* 3.0 * 2.875 * 57.29578 * 3.6^2 = 6404 once v is in km/h.
MaxSteerAtSpeed(kph) ==
    IF kph < LowSpeedKph THEN MaxAngle ELSE Clamp(6404 \div (kph * kph), 1, MaxAngle)

\* dasRateLimitAngle: the next commanded angle, at most one rate step away.
RateLimitAngle(target, last) == last + Clamp(target - last, -MaxAngleRate, MaxAngleRate)

\* dasApplyStandstillHold: the brake command once the hold has been applied
\* (|v| < 1.5 km/h and neither pedal moved by 0.05 m/s^2).
HeldBrake(kph, aMin, aMax) ==
    IF aMax < 5 /\ aMin > -5 /\ kph <= 1 THEN Least(aMin, StandstillHold) ELSE aMin

-----------------------------------------------------------------------------
(* axis_math.h *)

\* The dead zone: levels inside it are zero, the others move towards zero.
PastDeadzone(v, dz) ==
    IF v > -dz /\ v < dz THEN 0 ELSE IF v > 0 THEN v - dz ELSE v + dz

\* Blend of the linear and the cubic response to a level in 0..1000.
Expo(level, expo) ==
    ((100 - expo) * level + expo * ((level * level * level) \div 1000000)) \div 100

\* gpAxisMath: level in thousandths of one raw axis byte.  Triggers rest at 0
\* and reach 255, sticks rest at 128.
AxisMath(trigger, raw, dz, expo, inv) ==
    LET v     == PastDeadzone(IF trigger THEN raw ELSE raw - 128, dz)
        room  == Clamp((IF trigger THEN 255 ELSE 128) - dz, 1, 255)
        level == Expo(Least(1000, (1000 * Magnitude(v)) \div room), Least(expo, 100))
    IN  IF (v < 0) = inv THEN level ELSE -level
=============================================================================
