--------------------------- MODULE MCGamepadDrive ---------------------------
(* Small instances of GamepadDrive for TLC. *)
EXTENDS GamepadDrive

\* Full left and centred; full right is the mirror image of full left.
MCSticks == {0, 128}
MCTriggers == {0}
\* What RequestOf makes of those reports.
MCRequests == [steer : {-60, 0}, aMin : {0}, aMax : {0}, speed : Kph]
MCKphArgs == {}
MCTelemetry == {0}
\* A pass in the next frame slot, and a loop stalled past the dead-man.
MCPauses == {0, 1, 2}

=============================================================================
