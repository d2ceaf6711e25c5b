----------------------------- MODULE MCCarFrames -----------------------------
(***************************************************************************)
(* What the two features that move the car put on its bus, checked in one  *)
(* run: the pedals of a gamepad (GamepadDrive), over all of their range,   *)
(* and a summon among the other injections of the pass (CanLoop).  A       *)
(* behaviour is one of the two, chosen at first; the other stays in its    *)
(* initial state.  Only what is written to the bus is asked about here, so *)
(* the history of GamepadDrive is left out of the view.                    *)
(***************************************************************************)
EXTENDS CanLoop, GamepadDrive

CONSTANT Programs

VARIABLE program

loopVars == <<dasVars, pc, padVars, history>>
View == <<program, enabled, active, cancelCount, req, applied, cap, limit, age, nvs, puts,
          vehicleSpeed, tx, pc, gpEnabled, gpConnected, axes, linkUp, passVars>>

\* One tick of the pass stands for the 20 ms of a burst.
MCPeriod == [b \in Beats |-> IF b = "sim" THEN 2 ELSE 1]
MCDelays == {1}

\* Each session drives the features whose interplay one property is about.
Client(commands, heard, needs) == [commands |-> commands, heard |-> heard, needs |-> needs]
Idle == Client({}, {}, {})
MCSessions == { Idle,
  Client({"summon", "summon:stop", "summon-inject", "apgate", "variant"}, {"ctrl"}, {"none"}),
  Client({"summon", "apgate", "seatbelt", "simu"}, {"ctrl"}, {}),
  Client({"summon", "drivemode"}, {"ctrl", "drive"}, {}),
  Client({"summon", "fsd", "disable", "gtwshield", "drive", "apgate"}, {"ctrl"}, {}) }

\* Pedals released or down, and a wheel centred or full left; full right is its
\* mirror image.  Every pass is in the next frame slot.
MCTriggers == {0, 255}
MCSticks == {0, 128}
MCRequests == [steer : {-60, 0}, aMin : {-348, 0}, aMax : {0, 200}, speed : Kph \cup {0}]
MCKphArgs == {10}
MCTelemetry == {0}
MCPauses == {1}

FramesInit ==
  /\ program \in Programs
  /\ session \in IF program = "pass" THEN MCSessions \ {Idle} ELSE {Idle}
  /\ LoopInit /\ PassInit
  \* What a pass finds in flash does not matter to the pad.
  /\ program = "pad" => ~deaf /\ gate.on /\ summon.inject /\ ~inject.fsd
                          /\ variant = [is |-> "HW", auto |-> TRUE, hwKnown |-> FALSE]
PadRuns == program = "pad" /\ LoopNext /\ UNCHANGED <<program, passVars>>
PassRuns == program = "pass" /\ PassNext /\ UNCHANGED <<program, loopVars>>
FramesSpec == FramesInit /\ [][PadRuns \/ PassRuns]_<<program, loopVars, passVars>>

===============================================================================
