---------------------------- MODULE ControlPanels ----------------------------
(***************************************************************************)
(* What the Controls tab can send (src/client/src/components/controls and  *)
(* screens/ControlsScreen.tsx).  A panel is the set of the sends its       *)
(* buttons offer when the facts in the set "on" are true of the board's    *)
(* picture: a button that toggles sends the opposite of what is shown.     *)
(***************************************************************************)
EXTENDS Integers, Sequences, SequencesExt, FiniteSets

Tables == INSTANCE CommandTables

Tap(c) == [name |-> c, args |-> <<>>]
Send(c, arg) == [name |-> c, args |-> <<arg>>]
Taps(names) == {Tap(c) : c \in names}
Sends(c, args) == {Send(c, arg) : arg \in args}
OnOff(c) == Sends(c, {"true", "false"})
Flip(c, fact, on) == {Send(c, IF fact \in on THEN "false" ELSE "true")}

FsdPanel(on) ==
  OnOff("fsd") \cup Flip("fsdForce", "fsdForce", on)
  \cup Sends("nagMode", {"off", "bit19", "legacy", "safe", "natural", "organic", "full", "feifan"})
  \cup Flip("eceR79", "eceR79", on) \cup Flip("isaChime", "isaChime", on)
  \cup (IF "alcIsKnown" \in on THEN Flip("alc", "alc", on) ELSE {})
  \cup Sends("regionSpoof", {"na", "eu", "off"})

SpeedTuningPanel ==
  Sends("profile", 0..3) \cup {Tap("profileAuto")}
  \cup Sends("offset", {0, 5, 10, 15, 20, 30, 40, 50, 63, 80, 100}) \cup {Tap("offsetAuto")}

\* A number typed is rounded down, raised to 1 and, for the cap, lowered to the
\* cap's maximum; what is no number is not sent.
submittedUnraised(typed, max) == IF typed > max THEN max ELSE typed      \* mutant: zero is sent
submitted(typed, max) == LET n == IF typed > max THEN max ELSE typed IN IF n < 1 THEN 1 ELSE n
DasPanel(typed, capMax) ==
  OnOff("drive")
  \cup Sends("driveSpeed", {submitted(n, n) : n \in typed})
  \cup Sends("driveCap", {submitted(n, IF capMax = 0 THEN 200 ELSE capMax) : n \in typed})

BmsPanel == {Tap("bms")}

\* Of a device found only the first eight are shown, and one without an address
\* pairs with nothing.  An address is 17 characters long.
GamepadPanel(on, found) ==
  OnOff("gamepad") \cup Taps({"gamepadScan", "gamepadCancel"})
  \cup (IF "paired" \in on THEN {Tap("gamepadUnpair")} ELSE {})
  \cup Sends("bleDistanceMode", {"off", "threshold", "formula", "kalman"})
  \cup {Send("gamepadPair", found[i]) : i \in {j \in DOMAIN found : j <= 8 /\ found[j] > 0}}
GamepadStatus(on) ==
  IF "enabled" \notin on THEN "OFF"
  ELSE IF "connected" \in on THEN "CONNECTED"
  ELSE IF "scanning" \in on THEN "SCANNING"
  ELSE IF "paired" \in on THEN "DISCONNECTED" ELSE "UNPAIRED"

VehicleCommandsPanel(on) ==
  Taps({"lock", "unlock", "horn", "frunkOpen", "trunkOpen", "glovebox",
        "summon", "summonForward", "summonReverse", "summonStop",
        "chargeStart", "chargeStop", "chargePort",
        "mirrorFold", "mirrorUnfold", "mirrorHeat", "mirrorAutoFold", "mirrorDip",
        "windowVentOpen", "windowVentClose", "ventOpen", "ventClose", "climateKeep", "climateOff",
        "lightFogFront", "lightFogRear", "lightAmbient", "lightHome", "lightDomeOn", "lightDomeOff",
        "wiperOff", "wiper1", "wiper2", "wiper3", IF "sentry" \in on THEN "sentryOff" ELSE "sentryOn",
        "turnLeft3", "turnRight3", "turnHazard", "turnOff",
        "pedalStandard", "pedalChill", "pedalSport", "regenOff", "regenLow", "regenStd", "regenMax",
        "stopCreep", "stopRoll", "stopHold", "powerAccOn", "powerAccOff", "powerReady", "powerOff"})
  \cup Flip("trackMode", "trackMode", on) \cup Flip("precondition", "precondition", on)
  \cup Sends("seatFL", 0..3)

-----------------------------------------------------------------------------
(* The lists of the Controls tab and its palette                            *)

BOOLEAN_TOGGLE_STATE_KEYS == [
  fsd |-> "fsd", fsdForce |-> "fsdForce", isaChime |-> "isaChime", banShield |-> "banShield",
  tlssc |-> "tlsscRestore", eap |-> "enhancedAutopilot", evd |-> "evdEnabled",
  precondition |-> "precondition", summonInject |-> "summonInject", trackMode |-> "trackMode",
  eceR79 |-> "eceR79", singleShot |-> "singleShot", seatbelt |-> "seatbeltEmulation",
  wiperPersist |-> "wiperPersist", mirrorAutoFold |-> "mirrorAutoFold",
  canSimStart |-> "canSim", canSimStop |-> "canSim"]
ADVANCED_CONFIRMATION == {"fsdForce", "powerAccOff", "powerOff"}

\* What a command of the lists sends; one with an argument nobody can give here
\* is refused.
hasToggleDefault(c) == c \in DOMAIN BOOLEAN_TOGGLE_STATE_KEYS
requiresInput(c) == Tables!argCount(c) > 0 /\ ~hasToggleDefault(c)
listed(c, on) ==
  IF hasToggleDefault(c) THEN CHOOSE s \in Flip(c, BOOLEAN_TOGGLE_STATE_KEYS[c], on) : TRUE ELSE Tap(c)
Lists(names, on) == {listed(c, on) : c \in {d \in names : ~requiresInput(d)}}
\* The cards of the features have the commands of their settings; the palette has all.
CommandGroupCards(on) == Lists(UNION {Range(s.commandNames) : s \in Tables!settings}, on)
CommandPaletteModal(on) == Lists(Tables!CommandNames, on)

-----------------------------------------------------------------------------
(* What the controller makes of an argument (controller.parseArgs, then the *)
(* command's builder).                                                      *)

Accepts(choice, arg) ==
  CASE choice.kind = "flag" -> arg \in {"true", "false"}
    [] choice.kind = "within" -> choice.min <= arg /\ arg <= choice.max
    [] choice.kind = "at least" -> choice.min <= arg
    [] choice.kind = "among" -> arg \in choice.list
    [] choice.kind = "length" -> choice.min <= arg /\ arg <= choice.max
    [] OTHER -> TRUE
Accepted(s) ==
  /\ s.name \in Tables!CommandNames
  /\ LET takes == Tables!commands[s.name]
     IN \/ takes = <<>>                          \* what is not expected is not read
        \/ Len(s.args) = Len(takes) /\ \A i \in DOMAIN takes : Accepts(takes[i], s.args[i])

\* Every button of the Controls sends what the controller accepts, whatever the
\* board reports, but for one that names a flag and gives none.
Facts == {"fsdForce", "eceR79", "isaChime", "alc", "alcIsKnown", "paired", "trackMode", "precondition",
          "sentry", "canSim"}
Offered(on) ==
  FsdPanel(on) \cup SpeedTuningPanel \cup DasPanel({-3, 0, 1, 25, 900}, 0) \cup DasPanel({90}, 60)
  \cup BmsPanel \cup GamepadPanel(on, <<17, 0>>) \cup VehicleCommandsPanel(on)
  \cup CommandGroupCards(on) \cup CommandPaletteModal(on)
NotAccepted == {Tap("mirrorAutoFold")}
PanelsAgree == \A on \in SUBSET Facts : {s \in Offered(on) : ~Accepted(s)} = NotAccepted
===============================================================================
