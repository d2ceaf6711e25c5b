---------------------------- MODULE BoardPicture ----------------------------
(***************************************************************************)
(* What the firmware's status messages say of the board                    *)
(* (src/firmware/lib/client/command/messages.h), and what is left of it in *)
(* the client's picture once the parser and the reducer of the protocol    *)
(* package have read them.                                                 *)
(*                                                                         *)
(* A board is a function from the paths of the full status to values; the  *)
(* other status messages say a part of the same under other paths.         *)
(***************************************************************************)
EXTENDS BoardReducer

In(section, names) == {<<section, n>> : n \in names}

StateFlags == In("state", {"fsd", "fsdForce", "isaChime", "summonInject", "nagOrgBypass",
    "precondition", "trackMode", "apGateEnabled", "apGateOpen", "variantAutoDetect",
    "gtwAutopilotSeen", "rawCan"})
  \cup {<<"state.profile", "pinned">>, <<"state.offset", "pinned">>, <<"state.stream", "on">>}
AssistFlags == In("driverAssist", {"turnSignalLeft", "turnSignalRight", "eceR79", "lhd",
  "assistNav", "assistHandsOff", "assistDev", "laneGraph", "assistTelOff", "apFirst",
  "alcAutoConfirm", "seatbeltEmulation", "wiperPersist", "mirrorAutoFold", "canSim",
  "singleShot", "hasSteeringMode"})
OtherFlags ==
  In("connectivity", {"bleEnabled", "wifiEnabled", "vehicleOnline", "bodyOnline",
                      "chassisOnline", "standby"})
  \cup In("connectivity.bus", CanHealthKey)
  \cup In("vehicle", {"doorFrontLeftOpen", "doorFrontRightOpen", "doorRearLeftOpen",
       "doorRearRightOpen", "driverDoorOpen", "anyDoorOpen", "frunkOpen", "trunkOpen",
       "vehicleLockedState", "hasRegion", "cnLocked", "hasTpms", "hasPowertrain",
       "hasVehicleConfig"})
  \cup {<<"platform", "resolved">>, <<"firmware", "hasVersion">>, <<"firmware", "mqtt">>,
        <<"firmware", "mqttConnected">>, <<"battery", "hasEnhanced">>,
        <<"safety", "banShield">>, <<"safety", "gtwShieldArmed">>}
Counts ==
  {<<"meta", "up">>, <<"state.profile", "value">>, <<"state.offset", "value">>,
   <<"state.stream", "emitted">>}
  \cup In("state", {"dasHandsOn", "detectedHW", "gtwAutopilotTier"})
  \cup In("driverAssist", {"bsmLeftLevel", "bsmRightLevel", "cruiseSetSpeed", "accSpeedLimit",
       "mapSpeedLimit", "maxSpeed", "driveMode", "currentDriveMode", "dasApState",
       "dasLaneChangeState", "steeringMode"})
  \cup In("vehicle", {"regionCode", "regionSpoofCode", "vehicleModel", "vehicleYear"})
  \cup In("platform", {"model", "hwGen", "swYear", "swWeek", "swRelease", "fsdProto", "swCompat"})
  \cup In("firmware", {"year", "release", "minor", "fwBuild", "compat"})
  \cup In("battery", {"nomFullPack", "nomRemain", "idealRemain", "cellVMax", "cellVMin",
                      "maxRegen", "maxDischarge"})
  \cup In("safety", {"banThreat", "banDetectCount", "gtwShieldBlocks"})
  \cup In("can", {"clockReqMHz", "clockMHz", "nagEchoCount", "eapModCount", "txFailCount",
                  "busOffCount"})
Names == In("meta", {"hw", "can", "drv", "variant", "cap", "ready"})
         \cup {<<"state", "nagMode">>, <<"state", "apGateReason">>}
PerBus == In("can", {"frames", "hz", "hzMin", "hzMax"})
HealthPath == <<"can", "health">>
Flags == StateFlags \cup AssistFlags \cup OtherFlags
Paths == Flags \cup Counts \cup Names \cup PerBus \cup {HealthPath, Top("features")}

\* sendStatus
FullStatus(b) == Message("status", b)

\* The seven features of a variant; only the full status adds eap, evd and tlssc.
OfVariant(b) == [f \in DOMAIN initialBoardState["features"] |-> b[Top("features")][f]]

\* sendStatusMeta, sendStatusFeatures, sendStatusCan, sendStatusState, sendStatusCompact
StatusMeta(b) ==
  Message("status_meta",
          [p \in {Top(q[2]) : q \in {r \in Paths : r[1] = "meta"}} |-> b[<<"meta", p[2]>>]])
StatusFeatures(b) == Message("status_features", Top("features") :> OfVariant(b))
Clock(section, b) ==
  <<section, "reqMHz">> :> b[<<"can", "clockReqMHz">>]
  @@ <<section, "activeMHz">> :> b[<<"can", "clockMHz">>]
StatusCan(b) == Message("status_can", Clock("clock", b) @@ Top("health") :> b[HealthPath])
CoreState == In("state", {"fsd", "fsdForce", "nagMode", "precondition", "trackMode",
                          "apGateEnabled", "apGateOpen"})
StatusState(b) ==
  Message("status_state",
          Restrict(b, CoreState \cup {<<"state", "apGateReason">>}
                      \cup {<<s, n>> : s \in {"state.profile", "state.offset"},
                                       n \in {"value", "pinned"}}))
StatusCompact(b) ==
  Message("status_compact",
    Restrict(b, In("meta", {"hw", "variant", "ready", "up"}) \cup CoreState \cup {HealthPath}
       \cup In("connectivity", {"chassisOnline", "vehicleOnline", "bodyOnline", "standby"}))
    @@ <<"state", "profile">> :> b[<<"state.profile", "value">>]
    @@ <<"state", "offset">> :> b[<<"state.offset", "value">>]
    @@ Top("features") :> OfVariant(b) @@ Clock("can.clock", b)
    @@ <<"stream", "on">> :> b[<<"state.stream", "on">>])

-----------------------------------------------------------------------------
(* Boards that differ in one thing from a first one are enough to tell     *)
(* which thing a picture does not show.                                    *)

Base ==
  [p \in Flags |-> 0] @@ [p \in Counts |-> 1] @@ [p \in Names |-> "a"]
  @@ [p \in PerBus |-> [bus \in CanHealthKey |-> 1]]
  @@ HealthPath :> [bus \in CanHealthKey |-> [on |-> 1, det |-> 0]]
  @@ Top("features") :> [f \in BoardFeatures |-> 0]
Other(p) ==
  CASE p \in Flags  -> 1
    [] p \in Counts -> 2
    [] p \in Names  -> "b"
    [] p \in PerBus -> [Base[p] EXCEPT !["body"] = 2]
    [] p = HealthPath -> [Base[p] EXCEPT !["body"].det = 1]
    [] OTHER -> [Base[p] EXCEPT !["fsd"] = 1]
Boards == {Base} \cup {[Base EXCEPT ![p] = Other(p)] : p \in Paths}

Picture(b) == reduceBoardMessage(initialBoardState, normalizeMessage(FullStatus(b)))

\* What the full status says and BoardState (types.ts) has no field for.
NoField == In("meta", {"can", "cap", "ready"}) \cup In("connectivity", {"bleEnabled", "wifiEnabled"})
  \cup {<<"state.stream", "emitted">>}

\* What the full status says and BoardState has a field for, which neither
\* applyBoot nor applyStatus sets.  applyStatusState would set the first two
\* (WiredEndToEnd is the CHANGELOG's word on them), but sendStatusState does not
\* say them: these fields keep their initial values whatever the board says.
Dropped == In("state", {"nagOrgBypass", "rawCan"})
  \cup In("driverAssist", {"lhd", "assistNav", "assistDev", "laneGraph", "assistTelOff"})

\* The paths the picture does not follow are exactly these: every other section
\* or name survives the way from sendStatus (messages.h) through
\* normalizeBootStatusMessage (parser.ts) to applyStatus (reducer.ts).
Followed(p) == Picture([Base EXCEPT ![p] = Other(p)]) # Picture(Base)
LossesAreListed == {p \in Paths : ~Followed(p)} = NoField \cup Dropped

\* CHANGELOG.md: nagOrgBypass and rawCan are "wired end-to-end from firmware
\* boot/status to client state".
WiredEndToEnd == \A p \in In("state", {"nagOrgBypass", "rawCan"}) : Followed(p)

\* The messages that say a part of the same agree with the full status: after it
\* they change nothing, whether the parser lifted their sections or the reducer
\* reads them itself; of the features the seven of the variant stay.
MessagesAgree ==
  \A b \in Boards :
    LET told == Picture(b)
        unmoved(m) == LET after == reduceBoardMessage(told, m)
                      IN \A f \in DOMAIN told :
                           IF f = "features"
                           THEN \A g \in DOMAIN after[f] : after[f][g] = told[f][g]
                           ELSE after[f] = told[f]
    IN \A m \in {StatusMeta(b), StatusFeatures(b), StatusCan(b), StatusState(b),
                 StatusCompact(b)} : unmoved(m) /\ unmoved(normalizeMessage(m))

\* What a message type declares (types.ts), the reducer reads of that message, but
\* for the names listed beside the type, which it leaves aside whether BoardState
\* has a field for them (the Dropped ones, and those only other messages fill) or
\* not; and it reads no name at the top of a message that its type does not
\* declare: the two lists of names are kept by hand.
OfType(rows, names, aside) == [rows |-> rows, names |-> names, aside |-> aside]
TypedMessages ==
  { OfType(BootRows, BootMessage, {"nagOrgBypass", "rawCan"}),
    OfType(StatusRows, StatusMessage, {"nagOrgBypass", "rawCan"}),
    OfType(MetaRows, StatusMetaPayload, {"can", "cap", "ready"}),
    OfType(StateRows, StatusStateMessage,
          {"lhdEnabled", "apFirstEnabled", "laneGraphEnabled", "assistNavEnable", "assistHandsOff",
           "assistDevMode", "assistTelemetryOff", "gtwAutopilotSeen", "vehicleLockedState"}),
    OfType(CompactRows, StatusCompactMessage, {"ready", "rawCan"}),
    OfType(BmsRows, BmsMessage, {}), OfType(TpmsRows, TpmsMessage, {}),
    OfType(PowertrainRows, PowertrainMessage, {}), OfType(PlatformMessageRows, PlatformMessage, {}),
    OfType(FwCompatRows, FwCompatMessage, {"build"}), OfType(VehicleRows, VehicleConfigMessage, {}) }
ReadOf(rows) ==
  {p[2] : p \in {q \in UNION {Range(rows[f].from) : f \in DOMAIN rows} : q[1] = "top"}}
TypesAreRead == \A t \in TypedMessages : ReadOf(t.rows) = t.names \ t.aside

\* The charge summary exists twice, in the protocol package and in the client:
\* the two agree on every battery.
Batteries ==
  [hasBms : {0, 1}, chassisOnline : {0, 1}, bmsFullyCharged : {0, 1},
   bmsPower : {<<n, 10>> : n \in {-20, -6, -5, -4, 0, 4, 6}}, bmsSoc : {<<n, 10>> : n \in {0, 624, 1000}},
   bmsContactorState : {<<0, 1>>, <<2, 1>>}, bmsChargeTimeToFull : {<<n, 100>> : n \in {0, 49, 150}},
   bmsEnergyToCharge : {<<0, 100>>, <<150, 100>>}]
ChargeViewsAgree == \A st \in Batteries : selectChargeSnapshot(st) = resolveChargeState(st)
===============================================================================
