---------------------------- MODULE BoardReducer ----------------------------
(***************************************************************************)
(* How a message of the board changes the client's picture of it           *)
(* (src/packages/protocol/src/reducer.ts and selectors.ts, and             *)
(* src/client/src/state: board.ts, resolveChargeState.ts).                 *)
(*                                                                         *)
(* A picture is a function from fields to values; a reducer changes the    *)
(* fields of the picture it is given, all of BoardState or a part of it.   *)
(* A flag is 0 or 1, a number the fraction <<n, d>>, n/d.                   *)
(***************************************************************************)
EXTENDS BoardMessages, FiniteSetsExt

Boolean(v) == IF v = 0 THEN 0 ELSE 1

-----------------------------------------------------------------------------
(* A row of a table says how a field is read and from which paths of the   *)
(* message, the first that is there; "or" is the value when none is.       *)

Row(how, name) == [as |-> how, from |-> <<Top(name)>>]
Rows(how, names) == [f \in names |-> Row(how, f)]
RowsAs(how, names) == [f \in DOMAIN names |-> Row(how, names[f])]
Flag == [kind |-> "flag"]        \* Boolean(v)
Per(d) == [kind |-> "per", d |-> d]  \* Number(v) / d
Text == [kind |-> "text"]        \* an empty text does not count
Given == [kind |-> "given"]      \* the value itself
Joined == [kind |-> "joined"]    \* { ...prev, ...v }
Health == [kind |-> "health"]    \* normalizeCanHealth
Board == [kind |-> "board"]      \* detectBoard
NewBoard == [kind |-> "newBoard"] \* detectBoard when the hardware differs
Mode == [kind |-> "mode"]        \* decodeBleDistanceMode

\* The names of hardware the firmware has (BOARD_HW_NAME), by what they contain.
NoName == "none"
detectBoard(hw) ==
  CASE hw \in {"Arduino Uno"} -> "arduino"
    [] hw \in {"ESP32S_DevKit"} -> "esp32"
    [] OTHER -> "unknown"

BLE_DISTANCE_MODES == {"off", "threshold", "formula", "kalman"}
decodeBleDistanceMode(v) == IF v \in BLE_DISTANCE_MODES THEN v ELSE "formula"

Heard(m, row) ==
  \E i \in DOMAIN row.from : Carries(m, row.from[i]) /\ (row.as = Text => m.at[row.from[i]] # "")
ValueOf(m, row) == m.at[SelectSeq(row.from, LAMBDA p : Carries(m, p))[1]]

Read(how, v, old, hardware) ==
  CASE how.kind = "flag"   -> Boolean(v)
    [] how.kind = "per"    -> <<v, how.d>>
    [] how.kind = "joined" -> v @@ old
    [] how.kind = "health" -> [b \in DOMAIN v |-> [on |-> Boolean(v[b].on), det |-> Boolean(v[b].det)]]
    [] how.kind = "board"  -> detectBoard(v)
    [] how.kind = "newBoard" -> IF v = hardware THEN old ELSE detectBoard(v)
    [] how.kind = "mode"   -> decodeBleDistanceMode(v)
    [] OTHER               -> v

Apply(st, m, table) ==
  [f \in DOMAIN st |->
     IF f \notin DOMAIN table THEN st[f]
     ELSE IF Heard(m, table[f])
          THEN Read(table[f].as, ValueOf(m, table[f]), st[f],
                    IF "hardware" \in DOMAIN st THEN st["hardware"] ELSE NoName)
          ELSE IF "or" \in DOMAIN table[f] THEN table[f].or ELSE st[f]]

-----------------------------------------------------------------------------
(* boot and status: the same fields, lines 401-643 and 647-892.            *)

DriveRows ==
  Rows(Flag, {"fsd", "fsdForce", "isaChime", "summonInject", "turnSignalLeft", "turnSignalRight",
    "doorFrontLeftOpen", "doorFrontRightOpen", "doorRearLeftOpen", "doorRearRightOpen",
    "driverDoorOpen", "anyDoorOpen", "frunkOpen", "trunkOpen", "vehicleLockedState"})
  @@ RowsAs(Flag, [profilePinned |-> "spPin", offsetPinned |-> "offsetPin"])
  @@ RowsAs(Per(1), [profile |-> "sp", offset |-> "offset", dasHandsOn |-> "dasHandsOn",
                     bsmLeftLevel |-> "bsmLeftLevel", bsmRightLevel |-> "bsmRightLevel"])
  @@ RowsAs(Per(10), [cruiseSetSpeedKph |-> "cruiseSetSpeed", accSpeedLimitKph |-> "accSpeedLimit",
                      mapSpeedLimitKph |-> "mapSpeedLimit", maxSpeedKph |-> "maxSpeed"])
  @@ Rows(Text, {"nagMode"})

ShieldRows ==
  Rows(Flag, {"precondition", "trackMode", "apGateEnabled", "apGateOpen", "variantAutoDetect",
              "gtwAutopilotSeen", "banShield", "gtwShieldArmed"})
  @@ RowsAs(Flag, [enhancedAutopilot |-> "eap", evdEnabled |-> "evd", tlsscRestore |-> "tlssc"])
  @@ Rows(Per(1), {"detectedHW", "gtwAutopilotTier", "canClockReqMHz", "canClockMHz",
       "canNagEchoCount", "canEapModCount", "canTxFailCount", "canBusOffCount", "banThreat",
       "banDetectCount", "gtwShieldBlocks"})
  @@ Rows(Joined, {"canFrames", "canHz", "canHzMin", "canHzMax"})
  @@ Rows(Given, {"apGateReason"})

CarRows ==
  Rows(Flag, {"eceR79", "hasRegion", "cnLocked", "hasTpms", "alcAutoConfirm", "seatbeltEmulation",
    "assistHandsOff", "wiperPersist", "mirrorAutoFold", "canSim", "hasPowertrain", "singleShot"})
  @@ RowsAs(Flag, [apFirstEnabled |-> "apFirst"])
  @@ Rows(Per(1), {"driveMode", "currentDriveMode", "regionCode", "regionSpoofCode",
                   "dasLaneChangeState", "dasApState"})

LinkRows ==
  Rows(Text, {"btnMapLampShort", "btnMapLampLong", "btnMapLampDouble", "btnMapParkShort",
              "btnMapParkLong", "btnMapParkDouble"})
  @@ Rows(Flag, {"hasBtnMap", "speedAlert", "gvret", "espNow", "scanMyTesla", "elm327", "teslaBle",
       "teslaBleConnected", "teslaBleAuth", "homeAssistant", "haConnected", "bleEncrypt",
       "bleDistanceCalibrated"})
  @@ Rows(Per(1), {"gvretPort", "gvretClients", "espNowChannel", "espNowPeers", "haEntities",
       "haInterval", "bleEncryptPaired", "bleDistanceMeters", "bleRssi", "bleDistanceFactor"})
  @@ Rows(Mode, {"bleDistanceMode"})

BatteryRows ==
  Rows(Flag, {"hasFwVersion", "mqtt", "mqttConnected", "hasVehicleConfig", "hasEnhancedBms",
              "hasSteeringMode", "chassisOnline", "standby", "vehicleOnline", "bodyOnline",
              "busChassis", "busVehicle", "busBody"})
  @@ Rows(Per(1), {"fwYear", "fwRelease", "fwMinor", "fwBuild", "fwCompat", "vehicleModel",
                   "vehicleYear", "steeringMode"})
  @@ RowsAs(Per(100), [bmsNominalFullPack |-> "bmsNomFullPack", bmsNominalRemaining |-> "bmsNomRemain",
       bmsIdealRemaining |-> "bmsIdealRemain", bmsMaxRegenPower |-> "bmsMaxRegen",
       bmsMaxDischargePower |-> "bmsMaxDischarge"])
  @@ RowsAs(Per(1000), [bmsCellVoltageMax |-> "bmsCellVMax", bmsCellVoltageMin |-> "bmsCellVMin"])

\* buildPlatformPatch, with the names of a boot or status message.
PlatformRows ==
  Rows(Per(1), {"platformModel", "platformHwGen", "platformSwYear", "platformSwWeek",
                "platformSwRelease", "platformFsdProto", "platformSwCompat"})
  @@ Rows(Flag, {"platformResolved"}) @@ Rows(Health, {"canHealth"})

SharedRows ==
  DriveRows @@ ShieldRows @@ CarRows @@ LinkRows @@ BatteryRows @@ PlatformRows
  @@ Rows(Given, {"features"})

Otherwise(v, row) == row @@ [or |-> v]

BootRows ==
  ("variant" :> Otherwise("hw4", Row(Text, "variant")))
  @@ ("hardware" :> Otherwise(NoName, Row(Text, "hw")))
  @@ ("driver" :> Otherwise(NoName, Row(Text, "drv")))
  @@ ("board" :> Otherwise("unknown", [as |-> Board, from |-> <<Top("hw")>>])) @@ SharedRows
applyBoot(st, m) == Apply(st, m, BootRows)

StatusRows ==
  RowsAs(Text, [variant |-> "variant", hardware |-> "hw", driver |-> "drv"])
  @@ RowsAs(Board, [board |-> "hw"]) @@ RowsAs(Per(1), [uptime |-> "up"])
  @@ ("streaming" :> [as |-> Flag, from |-> <<<<"stream", "on">>>>]) @@ SharedRows
applyStatus(st, m) == Apply(st, m, StatusRows)

-----------------------------------------------------------------------------
(* The split status messages                                               *)

MetaRows ==
  RowsAs(Given, [variant |-> "variant", hardware |-> "hw", driver |-> "drv"])
  @@ RowsAs(Board, [board |-> "hw"]) @@ RowsAs(Per(1), [uptime |-> "up"])
applyStatusMeta(st, m) == Apply(st, m, MetaRows)

applyStatusFeatures(st, m) == Apply(st, m, Rows(Given, {"features"}))

FirstOf(how, paths) == [as |-> how, from |-> paths]
CanRows ==
  ("canClockReqMHz" :> FirstOf(Per(1), <<Top("canClockReqMHz"), <<"clock", "reqMHz">>>>))
  @@ ("canClockMHz" :> FirstOf(Per(1), <<Top("canClockMHz"), <<"clock", "activeMHz">>>>))
  @@ ("canHealth" :> FirstOf(Health, <<Top("canHealth"), Top("health")>>))
applyStatusCan(st, m) == Apply(st, m, CanRows)

\* The field of the message, else that of its section state.
OrState(how, names) == [f \in names |-> FirstOf(how, <<Top(f), <<"state", f>>>>)]
StateRows ==
  OrState(Flag, {"fsd", "fsdForce", "nag", "nagKiller", "nagOrgBypass", "rawCan", "precondition",
                 "trackMode", "apGateEnabled", "apGateOpen"})
  @@ OrState(Given, {"apGateReason"})
  @@ ("profile" :> FirstOf(Per(1), <<Top("sp"), <<"state", "profile">>>>))
  @@ ("profilePinned" :> FirstOf(Flag, <<Top("spPin"), <<"state.profile", "pinned">>>>))
  @@ ("offset" :> FirstOf(Per(1), <<Top("offset"), <<"state", "offset">>>>))
  @@ ("offsetPinned" :> FirstOf(Flag, <<Top("offsetPin"), <<"state.offset", "pinned">>>>))
applyStatusState(st, m) == Apply(st, m, StateRows)

LiveRows == RowsAs(Flag, [statusLiveEnabled |-> "on"])
            @@ RowsAs(Per(1), [statusLiveIntervalMs |-> "intervalMs"])
applyStatusLive(st, m) == Apply(st, m, LiveRows)

OrSection(how, section, names) == [f \in names |-> FirstOf(how, <<Top(f), <<section, f>>>>)]
OrMeta(how, name) == FirstOf(how, <<Top(name), <<"meta", name>>>>)
CompactRows ==
  ("variant" :> OrMeta(Given, "variant")) @@ ("hardware" :> OrMeta(Given, "hw"))
  @@ ("board" :> OrMeta(NewBoard, "hw")) @@ ("uptime" :> OrMeta(Per(1), "up"))
  @@ OrSection(Flag, "connectivity", {"chassisOnline", "vehicleOnline", "bodyOnline", "standby"})
  @@ OrSection(Flag, "state", {"fsd", "fsdForce", "nag"})
  @@ ("profile" :> FirstOf(Per(1), <<Top("sp"), <<"state", "profile">>>>))
  @@ ("offset" :> FirstOf(Per(1), <<Top("offset"), <<"state", "offset">>>>))
  @@ [f \in {"precondition", "trackMode", "apGateEnabled", "apGateOpen"} |->
        FirstOf(Flag, <<<<"state", f>>>>)]
  @@ ("apGateReason" :> FirstOf(Given, <<<<"state", "apGateReason">>>>))
  @@ Rows(Given, {"features"})
  @@ ("canClockReqMHz" :> FirstOf(Per(1), <<Top("canClockReqMHz"), <<"can.clock", "reqMHz">>>>))
  @@ ("canClockMHz" :> FirstOf(Per(1), <<Top("canClockMHz"), <<"can.clock", "activeMHz">>>>))
  @@ ("canHealth" :> FirstOf(Health, <<Top("canHealth"), <<"can", "health">>>>))
  @@ ("streaming" :> FirstOf(Flag, <<<<"stream", "on">>>>))
applyStatusCompact(st, m) == Apply(st, m, CompactRows)

-----------------------------------------------------------------------------
(* The messages of one subject                                             *)

BmsRows ==
  RowsAs(Per(10), [bmsCurrent |-> "a", bmsPower |-> "kw", bmsSoc |-> "soc", bmsWhPerKm |-> "whkm",
    bmsSocUI |-> "socUI", bmsSocMax |-> "socMax", bmsSocAvg |-> "socAvg",
    bmsInitialFullPack |-> "initFull", bmsExpectedRange |-> "expRange",
    bmsIdealRange |-> "idealRange", bmsRatedConsumption |-> "ratedCons",
    bmsFlowRequest |-> "flowReq", bmsCoolTarget |-> "coolTgt", bmsHeatTarget |-> "heatTgt",
    bmsPackTMin |-> "packTMin", bmsPackTMax |-> "packTMax", bmsMaxChargeCurrent |-> "maxChgA",
    bmsMaxDischargeCurrent |-> "maxDchA"])
  @@ RowsAs(Per(100), [bmsVoltage |-> "v", bmsNominalFullPack |-> "nomFull",
       bmsNominalRemaining |-> "nomRemain", bmsIdealRemaining |-> "idealRemain",
       bmsMaxRegenPower |-> "maxRegen", bmsMaxDischargePower |-> "maxDischarge",
       bmsPowerDissipation |-> "pwrDiss", bmsStationaryHeatPower |-> "heatPwr",
       bmsHvacPowerBudget |-> "hvacBgt", bmsMinBusVoltage |-> "minBusV",
       bmsMaxBusVoltage |-> "maxBusV", bmsExpectedRemaining |-> "expRemain",
       bmsEnergyBuffer |-> "eBuf", bmsEnergyToCharge |-> "eToChg", bmsChargeTimeToFull |-> "chgTime"])
  @@ RowsAs(Per(1000), [bmsCellVoltageMax |-> "cellVMax", bmsCellVoltageMin |-> "cellVMin"])
  @@ RowsAs(Per(1), [bmsTempMin |-> "tMin", bmsTempMax |-> "tMax", bmsActualSocInt |-> "actSoc",
       bmsUsableSocInt |-> "useSoc", bmsContactorState |-> "contState", bmsHvState |-> "hvState",
       bmsKwhDischargeTotal |-> "kwhDch", bmsKwhChargeTotal |-> "kwhChg",
       bmsAcChargeTotal |-> "acChg", bmsDcChargeTotal |-> "dcChg", bmsRegenTotal |-> "regen",
       bmsDriveDischargeTotal |-> "drvDch"])
  @@ RowsAs(Flag, [hasEnhancedBms |-> "enhanced", hasBms |-> "ok", bmsPrecondAllowed |-> "precondOk",
       bmsHeatingWorthwhile |-> "heatWorth", bmsFullyCharged |-> "charged"])
applyBms(st, m) == Apply(st, m, BmsRows)

PlatformMessageRows ==
  RowsAs(Per(1), [platformModel |-> "model", platformHwGen |-> "hwGen",
    platformSwYear |-> "swYear", platformSwWeek |-> "swWeek", platformSwRelease |-> "swRelease",
    platformFsdProto |-> "fsdProto", platformSwCompat |-> "swCompat"])
  @@ RowsAs(Flag, [platformResolved |-> "resolved"]) @@ Rows(Health, {"canHealth"})
applyPlatform(st, m) == Apply(st, m, PlatformMessageRows)

TpmsRows ==
  RowsAs(Per(100), [tpmsPressureFL |-> "fl", tpmsPressureFR |-> "fr", tpmsPressureRL |-> "rl",
                    tpmsPressureRR |-> "rr"])
  @@ RowsAs(Per(1), [tpmsTempFL |-> "tfl", tpmsTempFR |-> "tfr", tpmsTempRL |-> "trl",
                     tpmsTempRR |-> "trr"])
  @@ RowsAs(Flag, [hasTpms |-> "ok"])

PowertrainRows ==
  RowsAs(Per(100), [vehicleSpeed |-> "speed", wheelSpeedFL |-> "wsFL", wheelSpeedFR |-> "wsFR",
                    wheelSpeedRL |-> "wsRL", wheelSpeedRR |-> "wsRR"])
  @@ RowsAs(Per(10), [steeringAngle |-> "steer"])
  @@ RowsAs(Per(1), [gearState |-> "gear", accelPedal |-> "pedal", brakePedalState |-> "brake",
       rearMotorRpm |-> "rpmR", frontMotorRpm |-> "rpmF", rearInvTemp |-> "rInvT",
       rearStatorTemp |-> "rStatT", rearHeatsinkTemp |-> "rHsT", frontInvTemp |-> "fInvT",
       frontStatorTemp |-> "fStatT", frontHeatsinkTemp |-> "fHsT"])
  @@ RowsAs(Flag, [hasWheelSpeeds |-> "hasWs", hasMotorTemps |-> "hasMotorT", hasPowertrain |-> "ok"])

FwCompatRows ==
  RowsAs(Per(1), [fwYear |-> "year", fwRelease |-> "release", fwMinor |-> "minor",
                  fwCompat |-> "compat"])
  @@ RowsAs(Flag, [hasFwVersion |-> "ok"])

VehicleRows ==
  RowsAs(Per(1), [vehicleModel |-> "model", vehicleYear |-> "year"])
  @@ RowsAs(Flag, [hasVehicleConfig |-> "ok"])

-----------------------------------------------------------------------------
(* The whole picture (BoardState, types.ts) and its first value            *)
(* (initialBoardState, reducer.ts).                                        *)

CarFlags == {"fsd", "fsdForce", "nag", "profilePinned", "offsetPinned", "isaChime",
  "summonInject", "summonActive", "nagKiller", "nagOrgBypass", "rawCan", "turnSignalLeft",
  "turnSignalRight", "doorFrontLeftOpen", "doorFrontRightOpen", "doorRearLeftOpen",
  "doorRearRightOpen", "driverDoorOpen", "anyDoorOpen", "frunkOpen", "trunkOpen",
  "vehicleLockedState", "precondition", "trackMode", "apGateEnabled", "apGateOpen",
  "variantAutoDetect", "gtwAutopilotSeen", "banShield", "gtwShieldArmed", "enhancedAutopilot",
  "evdEnabled", "tlsscRestore", "hasTpms", "hasRegion", "cnLocked", "alcAutoConfirm", "eceR79",
  "seatbeltEmulation", "wiperPersist", "mirrorAutoFold", "canSim", "apFirstEnabled",
  "lhdEnabled", "laneGraphEnabled", "assistNavEnable", "assistHandsOff", "assistDevMode",
  "assistTelemetryOff"}
CarNumbers == {"uptime", "rate", "profile", "offset", "dasHandsOn", "bsmLeftLevel",
  "bsmRightLevel", "cruiseSetSpeedKph", "accSpeedLimitKph", "mapSpeedLimitKph", "maxSpeedKph",
  "detectedHW", "gtwAutopilotTier", "canClockReqMHz", "canClockMHz", "banThreat",
  "banDetectCount", "gtwShieldBlocks", "tpmsPressureFL", "tpmsPressureFR", "tpmsPressureRL",
  "tpmsPressureRR", "tpmsTempFL", "tpmsTempFR", "tpmsTempRL", "tpmsTempRR", "driveMode",
  "currentDriveMode", "regionCode", "regionSpoofCode", "dasLaneChangeState", "dasApState"}
LinkFlags == {"singleShot", "hasBtnMap", "speedAlert", "gvret", "espNow", "scanMyTesla", "elm327",
  "teslaBle", "teslaBleConnected", "teslaBleAuth", "homeAssistant", "haConnected", "bleEncrypt",
  "hasFwVersion", "mqtt", "mqttConnected", "hasVehicleConfig", "platformResolved",
  "hasPowertrain"}
LinkNumbers == {"gvretPort", "gvretClients", "espNowChannel", "espNowPeers", "haEntities",
  "haInterval", "bleEncryptPaired", "fwYear", "fwRelease", "fwMinor", "fwBuild", "fwCompat",
  "vehicleModel", "vehicleYear", "platformModel", "platformHwGen", "platformSwYear",
  "platformSwWeek", "platformSwRelease", "platformFsdProto", "platformSwCompat",
  "canNagEchoCount", "canEapModCount", "canTxFailCount", "canBusOffCount", "vehicleSpeed",
  "gearState", "accelPedal", "brakePedalState", "steeringAngle", "rearMotorRpm", "frontMotorRpm"}
BatteryFlags == {"hasWheelSpeeds", "hasMotorTemps", "hasBms", "hasEnhancedBms",
  "bmsPrecondAllowed", "bmsHeatingWorthwhile", "bmsFullyCharged", "hasSteeringMode",
  "chassisOnline", "standby", "vehicleOnline", "bodyOnline", "busChassis", "busVehicle",
  "busBody", "statusLiveEnabled", "streaming", "bleDistanceCalibrated"}
BatteryNumbers == {"wheelSpeedFL", "wheelSpeedFR", "wheelSpeedRL", "wheelSpeedRR", "rearInvTemp",
  "rearStatorTemp", "rearHeatsinkTemp", "frontInvTemp", "frontStatorTemp", "frontHeatsinkTemp",
  "bmsVoltage", "bmsCurrent", "bmsPower", "bmsSoc", "bmsTempMin", "bmsTempMax", "bmsWhPerKm",
  "bmsNominalFullPack", "bmsNominalRemaining", "bmsIdealRemaining", "bmsCellVoltageMax",
  "bmsCellVoltageMin", "bmsMaxRegenPower", "bmsMaxDischargePower", "bmsSocUI", "bmsSocMax",
  "bmsSocAvg", "bmsInitialFullPack", "bmsExpectedRange", "bmsIdealRange", "bmsRatedConsumption",
  "bmsActualSocInt", "bmsUsableSocInt", "bmsPowerDissipation", "bmsFlowRequest",
  "bmsCoolTarget", "bmsHeatTarget", "bmsPackTMin", "bmsPackTMax", "bmsThermistorTMin",
  "bmsThermistorTMax", "bmsModelTMin", "bmsModelTMax", "bmsStationaryHeatPower",
  "bmsHvacPowerBudget", "bmsContactorState", "bmsHvState", "bmsMinBusVoltage",
  "bmsMaxBusVoltage", "bmsMaxChargeCurrent", "bmsMaxDischargeCurrent", "bmsExpectedRemaining",
  "bmsEnergyBuffer", "bmsEnergyToCharge", "bmsKwhDischargeTotal", "bmsKwhChargeTotal",
  "bmsAcChargeTotal", "bmsDcChargeTotal", "bmsRegenTotal", "bmsDriveDischargeTotal",
  "bmsChargeTimeToFull", "steeringMode", "statusLiveIntervalMs", "bleDistanceMeters", "bleRssi",
  "bleDistanceFactor"}
Numbers == CarNumbers \cup LinkNumbers \cup BatteryNumbers

Zero(flags, numbers) == [f \in flags |-> 0] @@ [f \in numbers |-> <<0, 1>>]
InitialCar ==
  [variant |-> "hw4", hardware |-> NoName, driver |-> NoName, board |-> "unknown",
   profile |-> <<1, 1>>, nagMode |-> "legacy", apGateReason |-> "waiting",
   variantAutoDetect |-> 1, gtwAutopilotTier |-> <<-1, 1>>, canClockReqMHz |-> <<8, 1>>,
   canClockMHz |-> <<8, 1>>] @@ Zero(CarFlags, CarNumbers)
InitialLink ==
  [f \in {"btnMapLampShort", "btnMapLampLong", "btnMapLampDouble", "btnMapParkShort",
          "btnMapParkLong", "btnMapParkDouble"} |-> "none"]
  @@ [gvretPort |-> <<23, 1>>, espNowChannel |-> <<1, 1>>, haInterval |-> <<5000, 1>>,
      bleDistanceMode |-> "formula", bleDistanceMeters |-> <<-1, 1>>,
      bleDistanceFactor |-> <<2, 1>>, bleRssi |-> <<0, 1>>, bleDistanceCalibrated |-> 0]
  @@ Zero(LinkFlags, LinkNumbers)
InitialBattery ==
  [f \in {"canHealth", "canFrames", "canHz", "canHzMin", "canHzMax"} |-> <<>>]
  @@ [busChassis |-> 1, statusLiveIntervalMs |-> <<250, 1>>, frames |-> <<>>, frameCount |-> 0,
      messages |-> <<>>,
      features |-> [f \in {"fsd", "fsdForce", "profile", "nag", "offset", "isaSpeedChime",
                           "summon"} |-> 1]]
  @@ Zero(BatteryFlags, BatteryNumbers)
initialBoardState == InitialCar @@ InitialLink @@ InitialBattery

-----------------------------------------------------------------------------
(* The feed, the console and the whole reducer.  A part of the picture may *)
(* lack the lists.                                                         *)

ListCap == 100      \* of frames, and of notifications (reducer.ts)

Prepend(x, list, cap) == SubSeq(<<x>> \o list, 1, IF Len(list) < cap THEN Len(list) + 1 ELSE cap)
Set(st, f, v) == IF f \in DOMAIN st THEN [st EXCEPT ![f] = v] ELSE st

addNotification(st, notice) ==
  IF "messages" \in DOMAIN st THEN [st EXCEPT !["messages"] = Prepend(notice, @, ListCap)] ELSE st

applyFrame(st, m) ==
  IF "frames" \notin DOMAIN st THEN st
  ELSE [st EXCEPT !["frames"] = Prepend(m.at[Top("id")], @, ListCap), !["frameCount"] = @ + 1]

\* The log that tells of a summon; other texts only notify.
applyLog(st, m) ==
  LET noted == addNotification(st, "info")
  IN CASE m.at[Top("msg")] = "Summon burst started" -> Set(noted, "summonActive", 1)
       [] m.at[Top("msg")] \in {"Summon burst complete", "Summon stopped"} ->
            Set(noted, "summonActive", 0)
       [] OTHER -> noted

reduceBoardMessage(st, m) ==
  CASE m.t = "boot"   -> addNotification(applyBoot(st, m), "info")
    [] m.t = "status" -> applyStatus(st, m)
    [] m.t = "platform" -> applyPlatform(st, m)
    [] m.t = "status_meta" -> applyStatusMeta(st, m)
    [] m.t = "status_features" -> applyStatusFeatures(st, m)
    [] m.t = "status_can" -> applyStatusCan(st, m)
    [] m.t = "status_state" -> applyStatusState(st, m)
    [] m.t = "status_compact" -> applyStatusCompact(st, m)
    [] m.t = "statusLive" -> applyStatusLive(st, m)
    [] m.t = "frame" -> applyFrame(st, m)
    [] m.t \in {"ack", "pong"} -> addNotification(st, "info")
    [] m.t = "error" -> addNotification(st, "error")
    [] m.t = "log" -> applyLog(st, m)
    [] m.t = "bms" -> applyBms(st, m)
    [] m.t = "tpms" -> Apply(st, m, TpmsRows)
    [] m.t = "powertrain" -> Apply(st, m, PowertrainRows)
    [] m.t = "fwcompat" -> Apply(st, m, FwCompatRows)
    [] m.t = "vehicle" -> Apply(st, m, VehicleRows)
    [] OTHER -> st

-----------------------------------------------------------------------------
(* state/board.ts: an answer without a type is a whole picture.            *)

Snapshot == "none"    \* the type of such an answer

normalizeFeatures(v) ==
  [f \in DOMAIN initialBoardState["features"] |->
     IF f \in DOMAIN v THEN Boolean(v[f]) ELSE initialBoardState["features"][f]]

\* What the answer does not name falls back to its first value, the lists too.
coerceBoardStateSnapshot(st, m) ==
  [f \in DOMAIN st |->
     IF ~Carries(m, Top(f)) THEN initialBoardState[f]
     ELSE LET v == m.at[Top(f)]
          IN CASE f = "features" -> normalizeFeatures(v)
               [] f = "canHealth" -> Read(Health, v, <<>>, NoName)
               [] f \in Numbers  -> <<v, 1>>
               [] OTHER          -> v]

reduceBoardPayload(st, m) ==
  IF m.t = Snapshot THEN coerceBoardStateSnapshot(st, m) ELSE reduceBoardMessage(st, m)

-----------------------------------------------------------------------------
(* The summaries the screens show (selectors.ts, state/resolveChargeState).*)

\* Math.round, for a fraction with a positive denominator.
Round(q) == (2 * q[1] + q[2]) \div (2 * q[2])
Times(n, q) == <<n * q[1], q[2]>>
Positive(q) == q[1] > 0
AtLeastHalf(q) == 2 * q[1] >= q[2]

selectConnectionSummary(st) ==
  LET online == {b \in {"chassisOnline", "vehicleOnline", "bodyOnline"} : st[b] = 1}
  IN CASE online = {} -> "offline" [] Cardinality(online) = 3 -> "online" [] OTHER -> "partial"

Unknown == [state |-> "unavailable", chargeKw |-> <<0, 1>>, soc |-> 0, minutesToFull |-> 0,
            energyToCharge |-> <<0, 1>>]
Draw(st) == IF Positive(Times(-1, st["bmsPower"])) THEN Times(-1, st["bmsPower"]) ELSE <<0, 1>>
Minutes(st) ==
  IF Positive(st["bmsChargeTimeToFull"]) THEN Round(st["bmsChargeTimeToFull"]) ELSE 0

selectChargeSnapshot(st) ==
  LET at(state) == [Unknown EXCEPT !.state = state, !.soc = Round(Times(100, st["bmsSoc"]))]
      going(state, kw) == [at(state) EXCEPT !.chargeKw = kw, !.minutesToFull = Minutes(st),
                                            !.energyToCharge = st["bmsEnergyToCharge"]]
  IN IF st["hasBms"] = 0 \/ st["chassisOnline"] = 0 THEN Unknown
     ELSE CASE AtLeastHalf(Draw(st)) -> going("charging", Draw(st))
            [] st["bmsFullyCharged"] = 1 /\ ~AtLeastHalf(Draw(st)) -> at("fully_charged")
            [] OTHER -> IF Positive(st["bmsContactorState"]) THEN going("standby", <<0, 1>>) ELSE at("disconnected")

resolveChargeState(st) ==
  LET soc == Round(Times(100, st["bmsSoc"]))
      draw == Draw(st)
  IN IF st["hasBms"] = 0 \/ st["chassisOnline"] = 0 THEN Unknown
     ELSE IF st["bmsFullyCharged"] = 1 /\ ~AtLeastHalf(draw)
     THEN [Unknown EXCEPT !.state = "fully_charged", !.soc = soc]
     ELSE IF AtLeastHalf(draw)
     THEN [state |-> "charging", chargeKw |-> draw, soc |-> soc, minutesToFull |-> Minutes(st),
           energyToCharge |-> st["bmsEnergyToCharge"]]
     ELSE IF Positive(st["bmsContactorState"])
     THEN [state |-> "standby", chargeKw |-> <<0, 1>>, soc |-> soc,
           minutesToFull |-> Minutes(st), energyToCharge |-> st["bmsEnergyToCharge"]]
     ELSE [Unknown EXCEPT !.state = "disconnected", !.soc = soc]

resolveApState(tier, handsOn, chassisOnline) ==
  IF chassisOnline = 0 \/ tier = 0 THEN "unavailable"
  ELSE IF handsOn >= 1 THEN "hands_warning"
  ELSE IF tier >= 3 THEN "active" ELSE "inactive"

selectAutopilotIndicatorState(st) ==
  LET state == resolveApState(st["gtwAutopilotTier"][1], st["dasHandsOn"][1], st["chassisOnline"])
  IN [apState |-> state, showHandsWarning |-> state = "hands_warning", showNag |-> st["nag"],
      variant |-> CASE state = "active" -> "success" [] state = "hands_warning" -> "warning"
                    [] OTHER -> "muted"]
===============================================================================
