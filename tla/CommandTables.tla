---------------------------- MODULE CommandTables ----------------------------
(***************************************************************************)
(* The three tables of the protocol package (src/packages/protocol/src):   *)
(* what each command takes (commands.ts), what the board's state must say  *)
(* before it is offered (gating.ts), and the settings the client shows     *)
(* with the commands that change them (featureSettings.ts).  The text of a *)
(* command on the wire is left out.                                        *)
(***************************************************************************)
EXTENDS Integers, Sequences, SequencesExt, FiniteSets, TLC

-----------------------------------------------------------------------------
(* commands.ts: a command and the arguments its builder accepts.           *)

Flag == [kind |-> "flag"]                 \* any value, read as a truth
AnyText == [kind |-> "text"]              \* any value, unchecked
Within(min, max) == [kind |-> "within", min |-> min, max |-> max]
AtLeast(min) == [kind |-> "at least", min |-> min]  \* a lower number is raised to it
Among(list) == [kind |-> "among", list |-> list]
LengthIn(min, max) == [kind |-> "length", min |-> min, max |-> max]

NoArgument(names) == [c \in names |-> <<>>]
Takes(names, args) == [c \in names |-> args]

VALID_VARIANTS == {"hw3", "hw4", "legacy", "auto"}
VALID_NAG_MODES == {"off", "bit19", "legacy", "safe", "natural", "organic", "full", "feifan"}
VALID_REGION_SPOOF_CODES == {"na", "eu", "cn", "apac", "me", "off"}
VALID_BUTTONS == {"lamp", "parking"}
VALID_PRESS_TYPES == {"short", "long", "double"}
VALID_BUTTON_ACTIONS == {"none", "trunk", "frunk", "sentry", "horn", "fold", "hazard", "recirc"}

SystemCommands ==
  NoArgument({"ping", "status", "statusLiveQuery", "statusCompact", "statusMeta", "statusState",
              "statusFeatures", "statusCan"})
  @@ Takes({"statusLive"}, <<Flag>>) @@ Takes({"variant"}, <<Among(VALID_VARIANTS)>>)

FsdCommands ==
  Takes({"fsd", "fsdForce", "nagBypass", "isaChime", "summonInject"}, <<Flag>>)
  @@ Takes({"nagMode"}, <<Among(VALID_NAG_MODES)>>)
  @@ Takes({"profile"}, <<Within(0, 4)>>) @@ Takes({"offset"}, <<Within(0, 100)>>)
  @@ NoArgument({"profileAuto", "profileLock", "profileUnlock", "offsetAuto", "offsetOff",
                 "summon", "summonForward", "summonReverse", "summonStop"})

CanCommands ==
  Takes({"stream", "rawCan"}, <<Flag>>)
  @@ Takes({"canClock"}, <<Among({"8", "12", "16", "20"})>>)
  @@ NoArgument({"canClockAuto", "bms"})

AssistCommands ==
  Takes({"banShield", "tlssc", "eap", "evd", "apGate", "lhd", "apFirstToggle", "laneGraph",
         "assistDev", "assistNav", "assistHof", "assistTel"}, <<Flag>>)
  @@ NoArgument({"gtwShieldArm", "gtwShieldDisarm", "gtwShieldReset", "apGateStatus"})

DriveCommands ==
  Takes({"drive", "precondition", "trackMode"}, <<Flag>>)
  @@ Takes({"driveSpeed", "driveCap"}, <<AtLeast(1)>>)
  @@ NoArgument({"driveStatus"})

BodyCommands ==
  NoArgument({"mirrorFold", "mirrorUnfold", "mirrorHeat", "mirrorAutofold", "mirrorDip",
    "lock", "unlock", "lockChild", "horn",
    "frunkOpen", "frunkClose", "trunkOpen", "trunkClose", "glovebox",
    "lightFogFront", "lightFogRear", "lightHighbeamAuto", "lightAmbient", "lightHome",
    "lightDomeOff", "lightDomeOn", "lightDomeAuto", "wiperOff", "wiper1", "wiper2", "wiper3"})

ComfortCommands ==
  Takes({"seatFL", "seatFR", "seatRL", "seatRR", "seatRC"}, <<Within(0, 3)>>)
  @@ Takes({"mainDisplay"}, <<Within(0, 127)>>) @@ Takes({"windowVent"}, <<Within(0, 100)>>)
  @@ NoArgument({"powerAccOn", "powerAccOff", "powerOff", "powerReady",
                 "windowVentOpen", "windowVentClose", "ventOpen", "ventClose"})

CarCommands ==
  NoArgument({"sentryOn", "sentryOff", "climateKeep", "climateOff",
    "chargeStart", "chargeStop", "chargePort", "pedalStandard", "pedalChill", "pedalSport",
    "regenOff", "regenLow", "regenStd", "regenMax", "stopCreep", "stopRoll", "stopHold",
    "driveModeOff", "driveModeChill", "driveModeStandard", "driveModePerformance"})

RegionCommands ==
  Takes({"eceR79", "alc", "seatbelt", "airRecirc", "wiperPersist", "mirrorAutoFold"}, <<Flag>>)
  @@ Takes({"regionSpoof"}, <<Among(VALID_REGION_SPOOF_CODES)>>)
  @@ NoArgument({"tpms", "turnLeft3", "turnRight3", "turnHazard", "turnOff", "powertrain",
                 "canSimStart", "canSimStop"})

BoardCommands ==
  Takes({"singleShot", "mqtt"}, <<Flag>>)
  @@ Takes({"mqttBroker"}, <<LengthIn(1, 63)>>) @@ Takes({"mqttPort"}, <<Within(1, 65535)>>)
  @@ Takes({"mqttInterval"}, <<Within(100, 60000)>>)
  @@ NoArgument({"fwCompat", "vehicle", "platform", "log", "btnMapQuery", "btnMapReset"})
  @@ Takes({"btnMap"}, <<Among(VALID_BUTTONS), Among(VALID_PRESS_TYPES), Among(VALID_BUTTON_ACTIONS)>>)

LinkCommands ==
  Takes({"speedAlert", "gvret", "espNow", "scanMyTesla", "elm327", "teslaBle", "ble", "recorder",
         "homeAssistant", "bleEncrypt"}, <<Flag>>)
  @@ Takes({"gvretPort"}, <<Within(1, 65535)>>) @@ Takes({"espNowChannel"}, <<Within(1, 13)>>)
  @@ Takes({"haInterval"}, <<Within(500, 60000)>>)
  @@ NoArgument({"teslaBleAuth", "teslaBleForget", "bleStatus", "recorderClear", "recorderStatus",
                 "haDiscovery", "blePair", "bleUnpair"})

\* The distances are in hundredths.
KeyCommands ==
  Takes({"bleDistanceMode"}, <<AnyText>>)
  @@ Takes({"bleDistanceFactor"}, <<Within(100, 400)>>)
  @@ Takes({"bleDistanceCalibrate"}, <<Within(10, 5000)>>)
  @@ Takes({"teslaVin", "teslaChargeAmps", "teslaChargeLimit"}, <<AnyText>>)
  @@ NoArgument({"bleDistanceStatus", "dasArm", "dasDisarm", "dasStatus", "teslaKeyGen",
       "teslaKeyShow", "teslaKeyRoleOwner", "teslaKeyRoleChargingManager", "teslaKeySend",
       "teslaWake", "teslaChargeStart", "teslaChargeStop", "teslaClimateOn", "teslaClimateOff"})

\* An address is six pairs of hexadecimal digits: its 17 characters.
GamepadCommands ==
  NoArgument({"gamepadScan", "gamepadRescan", "gamepadUnpair", "gamepadStatus", "gamepadCancel"})
  @@ Takes({"gamepadPair"}, <<LengthIn(17, 17)>>) @@ Takes({"gamepad"}, <<Flag>>)
  @@ Takes({"gamepadBind", "gamepadHold"}, <<Within(0, 15), AnyText>>)
  @@ Takes({"gamepadAxis"}, <<Within(0, 5), Among({"dz", "expo", "inv"}), AnyText>>)

commands ==
  SystemCommands @@ FsdCommands @@ CanCommands @@ AssistCommands @@ DriveCommands
  @@ BodyCommands @@ ComfortCommands @@ CarCommands @@ RegionCommands @@ BoardCommands
  @@ LinkCommands @@ KeyCommands @@ GamepadCommands

CommandNames == DOMAIN commands
argCount(c) == Len(commands[c])

-----------------------------------------------------------------------------
(* gating.ts: the clauses that must all hold, each a set of facts of the    *)
(* board's state of which one must be true.  The first clause that does not *)
(* is the reason a command is not offered.                                  *)

Needs(names, clauses) == [c \in names |-> clauses]
chassis == {"chassisOnline"}
body == {"bodyOnline"}

FsdGates == Needs({"fsd", "fsdForce", "nag"}, <<chassis>>)

ProfileGates ==
  Needs({"profile", "profileAuto", "profileLock", "profileUnlock"}, <<chassis, {"features.profile"}>>)
  @@ Needs({"offset", "offsetAuto", "offsetOff"}, <<chassis, {"features.offset"}>>)

SummonGates ==
  Needs({"isaChime"}, <<chassis, {"features.isaSpeedChime"}>>)
  @@ Needs({"summonInject", "summon", "summonForward", "summonReverse", "summonStop"},
           <<chassis, {"features.summon"}>>)

StreamGates ==
  Needs({"stream", "rawCan", "canClockAuto", "canClock"}, <<chassis>>) @@ Needs({"bms"}, <<{"hasBms"}>>)

ShieldGates ==
  Needs({"banShield", "gtwShieldArm", "gtwShieldDisarm", "gtwShieldReset", "tlssc", "eap", "evd",
         "precondition", "trackMode"}, <<chassis>>)

MirrorGates ==
  Needs({"mirrorFold", "mirrorUnfold", "mirrorHeat", "mirrorAutofold", "mirrorDip"}, <<body>>)
  @@ Needs({"mirrorAutoFold"}, <<body, {"mirrorAutoFold"}>>)
  @@ Needs({"lock", "unlock", "lockChild", "horn"}, <<chassis>>)

BodyGates ==
  Needs({"frunkOpen", "frunkClose", "trunkOpen", "trunkClose", "glovebox",
    "lightFogFront", "lightFogRear", "lightHighbeamAuto", "lightAmbient", "lightHome",
    "lightDomeOff", "lightDomeOn", "lightDomeAuto", "wiperOff", "wiper1", "wiper2", "wiper3"}, <<body>>)

SeatGates ==
  Needs({"seatFL", "seatFR", "seatRL", "seatRR", "seatRC"}, <<{"vehicleOnline", "bodyOnline"}>>)
  @@ Needs({"mainDisplay", "windowVentOpen", "windowVentClose", "ventOpen", "ventClose", "windowVent"},
           <<body>>)
  @@ Needs({"powerAccOn", "powerAccOff", "powerOff", "powerReady"}, <<chassis>>)

CarGates ==
  Needs({"sentryOn", "sentryOff", "climateKeep", "climateOff", "chargeStart", "chargeStop",
    "chargePort", "pedalStandard", "pedalChill", "pedalSport", "regenOff", "regenLow", "regenStd",
    "regenMax", "stopCreep", "stopRoll", "stopHold", "driveModeOff", "driveModeChill",
    "driveModeStandard", "driveModePerformance"}, <<chassis>>)

RegionGates ==
  Needs({"tpms"}, <<{"hasTpms"}>>) @@ Needs({"eceR79"}, <<{"vehicleOnline"}>>)
  @@ Needs({"regionSpoof", "alc"}, <<chassis>>)
  @@ Needs({"turnLeft3", "turnRight3", "turnHazard", "turnOff", "airRecirc"}, <<body>>)
  @@ Needs({"seatbelt"}, <<{"seatbeltEmulation"}>>) @@ Needs({"wiperPersist"}, <<{"wiperPersist"}>>)
  @@ Needs({"powertrain"}, <<{"hasPowertrain"}>>)

BoardGates ==
  Needs({"canSimStart", "canSimStop"}, <<chassis, {"canSim"}>>)
  @@ Needs({"singleShot"}, <<{"singleShot"}>>)
  @@ Needs({"mqtt", "mqttBroker", "mqttPort", "mqttInterval"}, <<{"mqtt"}>>)
  @@ Needs({"btnMap", "btnMapQuery", "btnMapReset"}, <<{"hasBtnMap"}>>)
  @@ Needs({"speedAlert"}, <<{"speedAlert"}>>) @@ Needs({"gvret", "gvretPort"}, <<{"gvret"}>>)

LinkGates ==
  Needs({"espNow", "espNowChannel"}, <<{"espNow"}>>) @@ Needs({"scanMyTesla"}, <<{"scanMyTesla"}>>)
  @@ Needs({"elm327"}, <<{"elm327"}>>)
  @@ Needs({"teslaBle", "teslaBleAuth", "teslaBleForget"}, <<{"teslaBle"}>>)
  @@ Needs({"homeAssistant", "haDiscovery", "haInterval"}, <<{"homeAssistant"}>>)
  @@ Needs({"bleEncrypt", "blePair", "bleUnpair"}, <<{"bleEncrypt"}>>)

COMMAND_GATES ==
  FsdGates @@ ProfileGates @@ SummonGates @@ StreamGates @@ ShieldGates @@ MirrorGates @@ BodyGates
  @@ SeatGates @@ CarGates @@ RegionGates @@ BoardGates @@ LinkGates

\* The clause that keeps a command from being offered when the facts in state
\* are true, or Available.  A command without an entry is always available.
Available == {}
getCommandGate(c, state) ==
  LET clauses == IF c \in DOMAIN COMMAND_GATES THEN COMMAND_GATES[c] ELSE <<>>
      i == SelectInSeq(clauses, LAMBDA clause : clause \cap state = {})
  IN IF i = 0 THEN Available ELSE clauses[i]

-----------------------------------------------------------------------------
(* featureSettings.ts: for each feature its settings, each with a control,  *)
(* the commands that change it, and what the control lets the user choose.  *)

toggle(names) == [control |-> "toggle", commandNames |-> names, choice |-> Flag]
action(name) == [control |-> "action", commandNames |-> <<name>>, choice |-> AnyText]
query(name) == [control |-> "query", commandNames |-> <<name>>, choice |-> AnyText]
enum(names, options) == [control |-> "enum", commandNames |-> names, choice |-> Among(options)]
number(name, min, max) == [control |-> "number", commandNames |-> <<name>>, choice |-> Within(min, max)]
text(name, min, max) == [control |-> "text", commandNames |-> <<name>>, choice |-> LengthIn(min, max)]

Feature(id, settings) == id :> settings
Toggle(id, name) == Feature(id, <<toggle(<<name>>)>>)
Query(id, name) == Feature(id, <<query(name)>>)

ShieldSettings ==
  Toggle("airRecirc", "airRecirc")
  @@ Feature("banShield", <<toggle(<<"banShield">>), action("gtwShieldArm"),
                             action("gtwShieldDisarm"), action("gtwShieldReset")>>)
  @@ Feature("apGate", <<toggle(<<"apGate">>), query("apGateStatus")>>)
  @@ Query("bmsTelemetry", "bms")
  @@ Feature("canClock", <<enum(<<"canClockAuto", "canClock">>, {"auto", "8", "12", "16", "20"})>>)

CanSettings ==
  Toggle("rawCan", "rawCan")
  @@ Feature("canSimulation", <<action("canSimStart"), action("canSimStop")>>)
  @@ Feature("chargeControl", <<action("chargeStart"), action("chargeStop"), action("chargePort")>>)
  @@ Feature("climate", <<action("climateKeep"), action("climateOff")>>)
  @@ Feature("displayBrightness", <<number("mainDisplay", 0, 127)>>)
  @@ Feature("driveContext", <<>>)

DriveSettings ==
  Feature("driveMode", <<enum(<<"driveModeOff", "driveModeChill", "driveModeStandard",
      "driveModePerformance">>, {"off", "chill", "standard", "performance"})>>)
  @@ Feature("fsd", <<toggle(<<"fsd">>), toggle(<<"fsdForce">>), toggle(<<"eap">>), toggle(<<"evd">>)>>)
  @@ Query("fwCompat", "fwCompat") @@ Toggle("isaChime", "isaChime")

LightSettings ==
  Feature("lights", <<enum(<<"lightFogFront", "lightFogRear", "lightHighbeamAuto", "lightAmbient",
      "lightHome", "lightDomeOff", "lightDomeOn", "lightDomeAuto">>,
      {"fogFront", "fogRear", "highbeamAuto", "ambient", "home", "domeOff", "domeOn", "domeAuto"})>>)
  @@ Feature("lockControl", <<enum(<<"lock", "unlock", "lockChild", "horn">>,
      {"lock", "unlock", "child", "horn"})>>)
  @@ Feature("mirrorControl", <<enum(<<"mirrorFold", "mirrorUnfold", "mirrorHeat", "mirrorAutofold",
      "mirrorDip">>, {"fold", "unfold", "heat", "autofoldPulse", "dip"}), toggle(<<"mirrorAutoFold">>)>>)

LinkSettings ==
  Feature("mqttBridge", <<toggle(<<"mqtt">>), text("mqttBroker", 1, 63), number("mqttPort", 1, 65535),
                          number("mqttInterval", 100, 60000)>>)
  @@ Feature("nagControl", <<enum(<<"nagMode">>, VALID_NAG_MODES \ {"feifan"}), toggle(<<"nagBypass">>)>>)
  @@ Feature("speedOffset", <<number("offset", 0, 100), action("offsetAuto"), action("offsetOff")>>)

PowerSettings ==
  Feature("pedalMode", <<enum(<<"pedalStandard", "pedalChill", "pedalSport">>,
      {"standard", "chill", "sport"})>>)
  @@ Feature("powerState", <<enum(<<"powerAccOn", "powerAccOff", "powerReady", "powerOff">>,
      {"accOn", "accOff", "ready", "off"})>>)
  @@ Query("powertrainTelemetry", "powertrain") @@ Toggle("precondition", "precondition")
  @@ Feature("speedProfile", <<number("profile", 0, 4),
      enum(<<"profileAuto", "profileLock", "profileUnlock">>, {"auto", "lock", "unlock"})>>)

RegionSettings ==
  Feature("regenMode", <<enum(<<"regenOff", "regenLow", "regenStd", "regenMax">>,
      {"off", "low", "std", "max"})>>)
  @@ Feature("regionCodec", <<>>)
  @@ Feature("regionSpoof", <<enum(<<"regionSpoof">>, VALID_REGION_SPOOF_CODES)>>)
  @@ Toggle("alc", "alc")

SeatSettings ==
  Feature("seatHeating", <<number("seatFL", 0, 3), number("seatFR", 0, 3), number("seatRL", 0, 3),
                           number("seatRR", 0, 3), number("seatRC", 0, 3)>>)
  @@ Toggle("seatbeltEmulation", "seatbelt")
  @@ Feature("sentry", <<toggle(<<"sentryOn", "sentryOff">>)>>) @@ Toggle("singleShotTx", "singleShot")
  @@ Feature("stopMode", <<enum(<<"stopCreep", "stopRoll", "stopHold">>, {"creep", "roll", "hold"})>>)

SummonSettings ==
  Toggle("stream", "stream")
  @@ Feature("summon", <<toggle(<<"summonInject">>),
      enum(<<"summon", "summonForward", "summonReverse", "summonStop">>,
           {"start", "forward", "reverse", "stop"})>>)
  @@ Toggle("tlsscRestore", "tlssc") @@ Query("tpmsTelemetry", "tpms") @@ Toggle("trackMode", "trackMode")

TrunkSettings ==
  Feature("trunkFrunk", <<enum(<<"frunkOpen", "frunkClose", "trunkOpen", "trunkClose", "glovebox">>,
      {"frunkOpen", "frunkClose", "trunkOpen", "trunkClose", "glovebox"})>>)
  @@ Feature("turnSignal", <<enum(<<"turnLeft3", "turnRight3", "turnHazard", "turnOff">>,
      {"left3", "right3", "hazard", "off"})>>)
  @@ Feature("variant", <<enum(<<"variant">>, VALID_VARIANTS)>>)
  @@ Query("vehicleConfig", "vehicle")

WindowSettings ==
  Feature("windowVent", <<enum(<<"windowVentOpen", "windowVentClose", "ventOpen", "ventClose">>,
      {"open", "close"}), number("windowVent", 0, 100)>>)
  @@ Feature("wiper", <<enum(<<"wiperOff", "wiper1", "wiper2", "wiper3">>, {"off", "1", "2", "3"}),
                        toggle(<<"wiperPersist">>)>>)

FEATURE_SETTINGS_BY_ID ==
  ShieldSettings @@ CanSettings @@ DriveSettings @@ LightSettings @@ LinkSettings @@ PowerSettings
  @@ RegionSettings @@ SeatSettings @@ SummonSettings @@ TrunkSettings @@ WindowSettings

FEATURE_IDS == DOMAIN FEATURE_SETTINGS_BY_ID
settings == UNION {Range(FEATURE_SETTINGS_BY_ID[id]) : id \in FEATURE_IDS}

-----------------------------------------------------------------------------
(* Properties *)

\* What a control lets the user choose, its command's builder accepts: a toggle
\* sends a flag or one of two commands, a number has the builder's range, and
\* an option its list's values; an action or a query takes no argument.
Fits(s) ==
  LET takes(i) == commands[s.commandNames[i]]
      single == Len(s.commandNames) = 1
  IN CASE s.control = "toggle" /\ single -> takes(1) = <<Flag>>
       [] s.control = "toggle" /\ ~single -> Len(s.commandNames) = 2 /\ \A i \in {1, 2} : takes(i) = <<>>
       [] s.control \in {"number", "text"} -> takes(1) = <<s.choice>>
       [] s.control = "enum" /\ single ->
            Len(takes(1)) = 1 /\ takes(1)[1].kind = "among" /\ s.choice.list \subseteq takes(1)[1].list
       [] s.control = "enum" /\ ~single ->
            \A i \in DOMAIN s.commandNames : \/ takes(i) = <<>>
                                              \/ takes(i)[1].list \subseteq s.choice.list
       [] OTHER -> takes(1) = <<>>

\* The keys of COMMAND_GATES that name no command: their clauses guard nothing.
DeadGates == {"nag"}

\* The tables agree: every setting is made of commands that exist and accept
\* what it offers, no command is offered by two settings, and every gate guards
\* a command that exists, but for the dead one, whose clause the commands of the
\* nag control are left without (NagNeedsChassis).
TablesAgree ==
  /\ \A s \in settings : Range(s.commandNames) \subseteq CommandNames /\ Fits(s)
  /\ \A s, r \in settings : s # r => Range(s.commandNames) \cap Range(r.commandNames) = {}
  /\ DOMAIN COMMAND_GATES \ CommandNames = DeadGates

\* gating.ts: "Nag (requires chassis bus)".  Without it neither command of the
\* nag control is available.
NagNeedsChassis == \A c \in {"nagMode", "nagBypass"} : getCommandGate(c, {}) # Available
=============================================================================
