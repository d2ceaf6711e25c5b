---------------------------- MODULE BoardMessages ----------------------------
(***************************************************************************)
(* What the board prints and how the protocol package reads it             *)
(* (src/packages/protocol/src: types.ts, parser.ts).                       *)
(*                                                                         *)
(* A message is its type and a function from paths to values: <<"top", n>> *)
(* is the field n of the message and <<s, n>> that of its section s, where *)
(* "can.clock" is the section clock of the section can.  JSON's true and   *)
(* false are 1 and 0 (WireBool is either); the lists by bus and by feature *)
(* are values, functions of the bus or the feature.                        *)
(***************************************************************************)
EXTENDS Integers, Sequences, SequencesExt, FiniteSets, Functions, TLC

Top(name) == <<"top", name>>
Message(type, at) == [t |-> type, at |-> at]
Carries(m, path) == path \in DOMAIN m.at

-----------------------------------------------------------------------------
(* types.ts: the fields a message of each type may have.                   *)

CanHealthKey == {"chassis", "vehicle", "body"}
BoardFeatures == {"fsd", "fsdForce", "offset", "profile", "nag", "isaSpeedChime", "summon",
                  "eap", "evd", "tlssc"}

StatusMetaPayload == {"hw", "can", "drv", "variant", "cap", "ready", "up"}
StatusStatePayload == {"fsd", "fsdForce", "nag", "nagKiller", "profile", "offset", "precondition",
  "trackMode", "apGateEnabled", "apGateOpen", "apGateReason", "lhdEnabled", "apFirstEnabled",
  "laneGraphEnabled", "assistNavEnable", "assistHandsOff", "assistDevMode", "assistTelemetryOff",
  "nagOrgBypass", "rawCan", "gtwAutopilotSeen", "vehicleLockedState"}

BootMessage == {"variant", "hw", "drv", "features", "fsd", "fsdForce", "sp", "spPin", "offset",
  "offsetPin", "isaChime", "summonInject", "nagMode", "nagOrgBypass", "dasHandsOn",
  "turnSignalLeft", "turnSignalRight", "bsmLeftLevel", "bsmRightLevel", "doorFrontLeftOpen",
  "doorFrontRightOpen", "doorRearLeftOpen", "doorRearRightOpen", "driverDoorOpen", "anyDoorOpen",
  "frunkOpen", "trunkOpen", "cruiseSetSpeed", "accSpeedLimit", "mapSpeedLimit", "maxSpeed",
  "precondition", "trackMode", "apGateEnabled", "apGateOpen", "apGateReason", "detectedHW",
  "variantAutoDetect", "gtwAutopilotTier", "rawCan", "canClockReqMHz", "canClockMHz", "banShield",
  "banThreat", "banDetectCount", "gtwShieldArmed", "gtwShieldBlocks", "eap", "evd", "tlssc",
  "bmsNomFullPack", "bmsNomRemain", "bmsIdealRemain", "bmsCellVMax", "bmsCellVMin", "bmsMaxRegen",
  "bmsMaxDischarge", "hasEnhancedBms", "steeringMode", "hasSteeringMode", "driveMode",
  "currentDriveMode", "eceR79", "regionCode", "hasRegion", "cnLocked", "hasTpms",
  "regionSpoofCode", "alcAutoConfirm", "dasLaneChangeState", "seatbeltEmulation", "apFirst",
  "dasApState", "assistHandsOff", "wiperPersist", "mirrorAutoFold", "canSim", "hasPowertrain",
  "singleShot", "fwYear", "fwRelease", "fwMinor", "fwBuild", "fwCompat", "hasFwVersion", "mqtt",
  "mqttConnected", "vehicleModel", "vehicleYear", "hasVehicleConfig", "platformModel",
  "platformHwGen", "platformSwYear", "platformSwWeek", "platformSwRelease", "platformFsdProto",
  "platformSwCompat", "platformResolved", "canHealth", "canNagEchoCount", "canEapModCount",
  "canTxFailCount", "canBusOffCount", "canFrames", "canHz", "canHzMin", "canHzMax",
  "chassisOnline", "standby", "vehicleOnline", "bodyOnline", "busChassis", "busVehicle",
  "busBody", "vehicleLockedState", "gtwAutopilotSeen", "btnMapLampShort", "btnMapLampLong",
  "btnMapLampDouble", "btnMapParkShort", "btnMapParkLong", "btnMapParkDouble", "hasBtnMap",
  "speedAlert", "gvret", "gvretPort", "gvretClients", "espNow", "espNowChannel", "espNowPeers",
  "scanMyTesla", "elm327", "teslaBle", "teslaBleConnected", "teslaBleAuth", "homeAssistant",
  "haConnected", "haEntities", "haInterval", "bleEncrypt", "bleEncryptPaired", "bleDistanceMode",
  "bleDistanceMeters", "bleRssi", "bleDistanceFactor", "bleDistanceCalibrated"}
StatusMessage == BootMessage \cup {"up"}

StatusStateMessage == {"fsd", "fsdForce", "nag", "nagKiller", "nagOrgBypass", "rawCan", "sp",
  "spPin", "offset", "offsetPin", "precondition", "trackMode", "apGateEnabled", "apGateOpen",
  "apGateReason", "lhdEnabled", "apFirstEnabled", "laneGraphEnabled", "assistNavEnable",
  "assistHandsOff", "assistDevMode", "assistTelemetryOff", "gtwAutopilotSeen",
  "vehicleLockedState"}
StatusCompactMessage == {"features", "rawCan", "variant", "hw", "ready", "up", "chassisOnline",
  "vehicleOnline", "bodyOnline", "standby", "fsd", "fsdForce", "nag", "sp", "offset",
  "canClockReqMHz", "canClockMHz", "canHealth"}
BmsMessage == {"v", "a", "kw", "soc", "tMin", "tMax", "whkm", "nomFull", "nomRemain",
  "idealRemain", "cellVMax", "cellVMin", "maxRegen", "maxDischarge", "enhanced", "ok", "socUI",
  "socMax", "socAvg", "initFull", "expRange", "idealRange", "ratedCons", "actSoc", "useSoc",
  "pwrDiss", "flowReq", "coolTgt", "heatTgt", "packTMin", "packTMax", "heatPwr", "hvacBgt",
  "precondOk", "heatWorth", "contState", "hvState", "minBusV", "maxBusV", "maxChgA", "maxDchA",
  "expRemain", "eBuf", "eToChg", "charged", "kwhDch", "kwhChg", "acChg", "dcChg", "regen",
  "drvDch", "chgTime"}
TpmsMessage == {"fl", "fr", "rl", "rr", "tfl", "tfr", "trl", "trr", "ok"}
PowertrainMessage == {"speed", "gear", "pedal", "brake", "steer", "rpmR", "rpmF", "wsFL", "wsFR",
  "wsRL", "wsRR", "hasWs", "rInvT", "rStatT", "rHsT", "fInvT", "fStatT", "fHsT", "hasMotorT", "ok"}
FwCompatMessage == {"year", "release", "minor", "build", "compat", "ok"}
VehicleConfigMessage == {"model", "year", "ok"}
PlatformMessage == {"model", "hwGen", "swYear", "swWeek", "swRelease", "fsdProto", "swCompat",
                    "resolved", "canHealth"}

-----------------------------------------------------------------------------
(* parser.ts: the nested sections are lifted to the top of the message.  A *)
(* lifting maps a path of the result to the paths it may come from, the    *)
(* one that counts first.                                                  *)

Lift(section, names) == [p \in {Top(n) : n \in names} |-> <<<<section, p[2]>>>>]
LiftAs(section, names) == [p \in {Top(names[n]) : n \in DOMAIN names} |->
                             <<<<section, CHOOSE n \in DOMAIN names : names[n] = p[2]>>>>]

\* The lists by bus keep the three buses.
ByBus(v) == Restrict(v, DOMAIN v \cap CanHealthKey)

\* mergeObjectField joins these with what the message has; the others replace it.
Merged == {Top(n) : n \in {"canFrames", "canHz", "canHzMin", "canHzMax"}}
KeptByBus == Merged \cup {Top("canHealth")}

Lifted(m, lift) ==
  LET told == {p \in DOMAIN lift : \E i \in DOMAIN lift[p] : Carries(m, lift[p][i])}
      source(p) == SelectSeq(lift[p], LAMBDA q : Carries(m, q))[1]
      value(p) == IF p \in KeptByBus THEN ByBus(m.at[source(p)]) ELSE m.at[source(p)]
  IN [m EXCEPT !.at =
        [p \in told |-> IF p \in Merged /\ Carries(m, p) THEN value(p) @@ m.at[p] ELSE value(p)] @@ @]

normalizeConnectivitySection ==
  Lift("connectivity", {"vehicleOnline", "bodyOnline", "chassisOnline", "standby"})
  @@ LiftAs("connectivity.bus",
            [chassis |-> "busChassis", vehicle |-> "busVehicle", body |-> "busBody"])

normalizeStateSection ==
  Lift("state", {"fsd", "fsdForce", "nag", "isaChime", "summonInject", "nagKiller", "nagMode",
    "dasHandsOn", "precondition", "trackMode", "apGateEnabled", "apGateOpen", "apGateReason",
    "detectedHW", "variantAutoDetect", "gtwAutopilotTier", "gtwAutopilotSeen", "rawCan"})
  @@ Top("sp") :> <<<<"state.profile", "value">>, <<"state", "profile">>>>
  @@ Top("spPin") :> <<<<"state.profile", "pinned">>>>
  @@ Top("offset") :> <<<<"state.offset", "value">>, <<"state", "offset">>>>
  @@ Top("offsetPin") :> <<<<"state.offset", "pinned">>>>
  @@ [p \in {<<"stream", n>> : n \in {"on", "emitted"}} |-> <<<<"state.stream", p[2]>>>>]

normalizePlatformSection ==
  LiftAs("platform", [model |-> "platformModel", hwGen |-> "platformHwGen",
    swYear |-> "platformSwYear", swWeek |-> "platformSwWeek", swRelease |-> "platformSwRelease",
    fsdProto |-> "platformFsdProto", swCompat |-> "platformSwCompat",
    resolved |-> "platformResolved"])

normalizeFirmwareSection ==
  LiftAs("firmware", [year |-> "fwYear", release |-> "fwRelease", minor |-> "fwMinor",
    fwBuild |-> "fwBuild", compat |-> "fwCompat", hasVersion |-> "hasFwVersion",
    mqtt |-> "mqtt", mqttConnected |-> "mqttConnected"])

normalizeBatterySection ==
  LiftAs("battery", [nomFullPack |-> "bmsNomFullPack", nomRemain |-> "bmsNomRemain",
    idealRemain |-> "bmsIdealRemain", cellVMax |-> "bmsCellVMax", cellVMin |-> "bmsCellVMin",
    maxRegen |-> "bmsMaxRegen", maxDischarge |-> "bmsMaxDischarge",
    hasEnhanced |-> "hasEnhancedBms"])

normalizeSafetySectionOfOld ==             \* mutant: the newer counters are not lifted
  Lift("safety", {"banShield", "banThreat", "banDetectCount"})
normalizeSafetySection ==
  Lift("safety", {"banShield", "banThreat", "banDetectCount", "gtwShieldArmed", "gtwShieldBlocks"})

normalizeCanSection ==
  LiftAs("can", [health |-> "canHealth", nagEchoCount |-> "canNagEchoCount",
    eapModCount |-> "canEapModCount", txFailCount |-> "canTxFailCount",
    busOffCount |-> "canBusOffCount", frames |-> "canFrames", hz |-> "canHz",
    hzMin |-> "canHzMin", hzMax |-> "canHzMax"])
  @@ Top("canClockReqMHz") :> <<<<"can.clock", "reqMHz">>, <<"can", "clockReqMHz">>>>
  @@ Top("canClockMHz") :> <<<<"can.clock", "activeMHz">>, <<"can", "clockMHz">>>>

\* The features stay where they are, and three of them are fields as well.
Lifts(features, name) ==
  IF name \in DOMAIN features THEN Top(name) :> features[name] ELSE <<>>
normalizeFeaturesSection(m) ==
  IF ~Carries(m, Top("features")) THEN m
  ELSE [m EXCEPT !.at = LET f == m.at[Top("features")]
                        IN Lifts(f, "eap") @@ Lifts(f, "evd") @@ Lifts(f, "tlssc") @@ @]

normalizeMeta(names) == Lift("meta", names)

\* driverAssist and vehicle are lifted whole, name by name.
EveryNameOf(m, section) == Lift(section, {p[2] : p \in {q \in DOMAIN m.at : q[1] = section}})

normalizeBootStatusMessage(m) ==
  normalizeFeaturesSection(Lifted(m,
    normalizeCanSection @@ normalizeSafetySection @@ normalizeBatterySection
    @@ normalizeFirmwareSection @@ normalizePlatformSection
    @@ EveryNameOf(m, "vehicle") @@ EveryNameOf(m, "driverAssist")
    @@ normalizeStateSection @@ normalizeConnectivitySection
    @@ normalizeMeta({"variant", "hw", "drv", "up"})))

normalizeStatusStateMessage(m) == Lifted(m, normalizeStateSection)

\* The sections of status_can are at its top.
normalizeStatusCanMessage(m) ==
  Lifted(m, Top("canClockReqMHz") :> <<<<"clock", "reqMHz">>>>
            @@ Top("canClockMHz") :> <<<<"clock", "activeMHz">>>>
            @@ Top("canHealth") :> <<Top("health")>>)

normalizeStatusFeaturesMessage(m) == normalizeFeaturesSection(m)

normalizeStatusCompactMessage(m) ==
  normalizeFeaturesSection(Lifted(m,
    normalizeCanSection @@ normalizeStateSection @@ normalizeConnectivitySection
    @@ normalizeMeta({"variant", "hw", "up"})))

normalizeMessage(m) ==
  CASE m.t \in {"boot", "status"}   -> normalizeBootStatusMessage(m)
    [] m.t = "status_state"    -> normalizeStatusStateMessage(m)
    [] m.t = "status_can"      -> normalizeStatusCanMessage(m)
    [] m.t = "status_features" -> normalizeStatusFeaturesMessage(m)
    [] m.t = "status_compact"  -> normalizeStatusCompactMessage(m)
    [] OTHER                   -> m

-----------------------------------------------------------------------------
(* Lines.  A text is a sequence of the four kinds of character that tell   *)
(* lines apart: braces, the end of a line, and anything else; JSON.parse   *)
(* accepts the one object without a field.                                 *)

Newline == "newline"
Characters == {"{", "}", "x", Newline}

parseSerialLine(line) ==
  LET starts == {i \in DOMAIN line : line[i] = "{"}
      ends   == {i \in DOMAIN line : line[i] = "}"}
      start  == CHOOSE i \in starts : \A j \in starts : i <= j
      end    == CHOOSE i \in ends : \A j \in ends : j <= i
  IN IF line = <<>> THEN <<>>
     ELSE IF starts = {} \/ ends = {} THEN <<"ignore">>
     ELSE IF end < start THEN <<"ignore">>
     ELSE IF end = start + 1 THEN <<"message">> ELSE <<"parse-error">>

\* The lines that end in the text, and what is left after the last of them.
Cut(r, c) ==
  IF c = Newline THEN [lines |-> Append(r.lines, r.rest), rest |-> <<>>]
  ELSE [lines |-> r.lines, rest |-> Append(r.rest, c)]
LinesOf(text) == FoldLeft(Cut, [lines |-> <<>>, rest |-> <<>>], text)

Pushed(events, line) == events \o parseSerialLine(line)
parseSerialChunk(remainder, chunk) ==
  LET cut == LinesOf(remainder \o chunk)
  IN [remainder |-> cut.rest, events |-> FoldLeft(Pushed, <<>>, cut.lines)]

\* Where the port cuts the text changes neither the events nor what is left.
CutAgrees(text, k) ==
  LET whole  == parseSerialChunk(<<>>, text)
      first  == parseSerialChunk(<<>>, SubSeq(text, 1, k))
      second == parseSerialChunk(first.remainder, SubSeq(text, k + 1, Len(text)))
  IN /\ first.events \o second.events = whole.events
     /\ second.remainder = whole.remainder
TextBound == 5
ChunksAgree ==
  \A n \in 0..TextBound : \A text \in [1..n -> Characters] : \A k \in 0..n : CutAgrees(text, k)
===============================================================================
