------------------------------- MODULE MCSaved -------------------------------
(***************************************************************************)
(* The two components that save themselves in flash one put at a time,     *)
(* checked in one run: the settings of the board (Settings) and DAS drive  *)
(* by itself (DasDrive), under callers that pass any request and run any   *)
(* command.  A behaviour is one of the two, chosen at first; the other     *)
(* stays in an initial state.                                              *)
(***************************************************************************)
EXTENDS Settings, DasDrive

CONSTANT Programs

VARIABLE program

-----------------------------------------------------------------------------
(* The settings.  Each session lets one group of them meet what can        *)
(* overtake it.  On a fresh board a save writes all the keys; on the       *)
(* others, those that changed.                                             *)

MCProfiles == {-1, 0, 3, 5}
MCOffsetArgs == {-1, 63, 101}

Nobody == {}
MCSessions == { Nobody,
  {"fresh", "profile", "disable"},
  {"fresh", "variant", "fsd"},
  {"profile", "profile:auto", "profile:lock", "stalk"},
  {"variant", "variant:auto", "detect"},
  {"offset", "offset:auto", "fsd", "mux", "variant"},
  {"profile", "variant:auto", "detect"},
  {"blekey"}, {"mqtt"}, {"nag:mode", "region"}, {"canclock", "alc", "isa"},
  {"fsd", "disable", "sumInj", "apFirst"}, {"drivemode", "seatbE", "ssTx"},
  {"nagOrgDB", "precond", "track", "apGate", "variant"},
  {"mqttE", "mirAF", "wipP", "evd"} }

-----------------------------------------------------------------------------
(* DAS drive.                                                              *)

\* Steering to both sides beyond one rate step, once with a brake request below
\* the floor; and a throttle request above the ceiling, over the cap.
MCRequests == {[steer |-> -12, aMin |-> 0, aMax |-> 0, speed |-> 0],
               [steer |-> 12, aMin |-> -400, aMax |-> 0, speed |-> 0],
               [steer |-> 0, aMin |-> 0, aMax |-> 250, speed |-> 40]}
\* Command arguments below and above the accepted range.
MCKphArgs == {0, 500}
\* Parked, and fast enough for a 2 degree lateral limit.
MCTelemetry == {0, 50}
\* A pass in the next frame slot, and a stalled loop.
MCPauses == {1, 8}

-----------------------------------------------------------------------------
SavedInit ==
  /\ program \in Programs
  /\ session \in IF program = "settings" THEN Sessions \ {Nobody} ELSE {Nobody}
  /\ SettingsInit /\ Init
SettingsRun == program = "settings" /\ SettingsNext /\ UNCHANGED <<program, dasVars>>
DasRuns == program = "das" /\ Next /\ UNCHANGED <<program, vars>>
SavedSpec == SavedInit /\ [][SettingsRun \/ DasRuns]_<<program, vars, dasVars>>
===============================================================================
