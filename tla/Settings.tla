------------------------------- MODULE Settings -------------------------------
(***************************************************************************)
(* The settings of the firmware: the commands that change them             *)
(* (client/command/dispatch.h and the executors it calls), the frames that *)
(* change them behind the client's back (vehicle/can/handler), the kill    *)
(* switch of GET /api/disable, saveSettings and loadSettings               *)
(* (core/persist/esp32/board.h), and resets at any point of a save.        *)
(*                                                                         *)
(* A save is one put per key, in the order of saveSettings; it runs inside *)
(* the command, so only a reset can come between two puts.  A refused      *)
(* command changes nothing and is not a step.  What the commands do to the *)
(* bus, to the filters and to the controllers is CanLoop's and CanDriver's.*)
(***************************************************************************)
EXTENDS Integers, Sequences

CONSTANTS
  Sessions,    \* what one client and one car do: sets of the names below
  Profiles,    \* arguments of profile:<n>
  OffsetArgs,  \* arguments of offset:<n>
  BoardClock   \* BOARD_CAN_CLOCK_MHZ, the oscillator the build was made for

ASSUME ArgAssumption == Profiles \subseteq Int /\ OffsetArgs \subseteq Int
ASSUME ClockAssumption == BoardClock \in {8, 16}

Variants == {"HW4", "HW3", "LEGACY"}

\* on/off settings of the executors that run before the control-frame gate of
\* executeCommand, and of those that run after it
EarlyToggles == {"apGate", "fsd", "ffsd", "nagOrgDB", "isa", "banS", "tlssc", "sumInj",
                 "precond", "track"}
LateToggles == {"eceR79", "lhd", "assistNav", "assistHof", "assistDev", "laneGraph",
                "assistTel", "eap", "evd", "seatbE", "wipP", "mirAF", "ssTx", "mqttE"}
Toggles == EarlyToggles \cup LateToggles

PutOrderPinsFirst ==                                   \* mutant: pins before values
  << "magic", "ver", "vAuto", "spPin", "offPin", "bleDistC",
     "variant", "fsd", "ffsd", "sp", "offset", "isa", "sumInj", "nagMode", "nagOrgDB",
     "precond", "track", "apGate", "banS", "clkMHz", "drvM", "eceR79", "lhd",
     "assistNav", "assistHof", "assistDev", "laneGraph", "assistTel", "seatbE", "wipP",
     "wipS", "mirAF", "ssTx", "mqttE", "mqttP", "mqttI", "mqttH", "eap", "evd", "tlssc",
     "bleDistM", "bleDistF", "bleDistO" >>
\* The keys of the tcm namespace in the order saveSettings writes them.
PutOrder ==
  << "magic", "ver", "variant", "fsd", "ffsd", "sp", "spPin", "offset", "offPin", "isa",
     "sumInj", "nagMode", "nagOrgDB", "precond", "track", "vAuto", "apGate", "banS",
     "clkMHz", "drvM", "eceR79", "lhd", "assistNav", "assistHof", "assistDev",
     "laneGraph", "assistTel", "seatbE", "wipP", "wipS", "mirAF", "ssTx", "mqttE",
     "mqttP", "mqttI", "mqttH", "eap", "evd", "tlssc", "bleDistM", "bleDistF",
     "bleDistO", "bleDistC" >>
Marks == {"magic", "ver"}
Stored == {PutOrder[i] : i \in DOMAIN PutOrder}
Keys == Stored \ Marks

VARIABLES
  session,   \* which of Sessions this behaviour is; it never changes
  settings,  \* the persisted fields of State
  volatile,  \* regionSpoofCode, alcAutoConfirmEnabled, apFirstEnabled: saved by no key
  flash,     \* the tcm namespace: a function on the keys present in it
  saving,    \* next put of the save in progress, 0 when there is none; saves to follow
  car,       \* hasCtrl, detectedHW and hwAutoDetected
  before,    \* what a reset would have loaded when the save began (history)
  chosen,    \* values the client pinned, of each setting that can be pinned (history)
  moved      \* keys whose setting frames or the kill switch changed since the last save
             \* began or the last reset (history)

vars == <<session, settings, volatile, flash, saving, car, before, chosen, moved>>

\* State's constructor.
Default ==
  [k \in Keys |->
     CASE k = "variant" -> "HW4" [] k = "sp" -> 1 [] k = "vAuto" -> 1
       [] k = "clkMHz" -> BoardClock [] k = "mqttP" -> 1883 [] k = "mqttI" -> 2000
       [] k = "mqttH" -> "" [] k = "bleDistM" -> 2 [] k = "bleDistF" -> 2 [] OTHER -> 0]
NothingVolatile == [region |-> 0, alc |-> 0, apFirst |-> 0]

\* loadSettings, then setup(), which takes the clock from the driver's default.
Loaded(f) == [k \in Keys |-> IF k \in DOMAIN f THEN f[k] ELSE Default[k]]
Booted(f) ==
  [(IF Marks \subseteq DOMAIN f THEN Loaded(f) ELSE Default)
     EXCEPT !["clkMHz"] = BoardClock]

\* A setting follows the car until the client pins it.
Pinnable == {"variant", "sp", "offset", "bleDistO"}
IsPinned(s, k) ==
  CASE k = "variant" -> s["vAuto"] = 0
    [] k = "sp" -> s["spPin"] = 1
    [] k = "offset" -> s["offPin"] = 1
    [] OTHER -> s["bleDistC"] = 1

Idle == saving.at = 0

\* A board out of the box, or one that has saved its defaults.
FirstFlash(fresh) ==
  IF fresh THEN [k \in {} |-> 0]
  ELSE [k \in Stored |-> IF k \in Marks THEN 1 ELSE Default[k]]

SettingsInit ==
  /\ session \in Sessions
  /\ flash = FirstFlash("fresh" \in session)
  /\ settings = Booted(flash)
  /\ volatile = NothingVolatile
  /\ saving = [at |-> 0, more |-> 0]
  /\ car = [ctrl |-> FALSE, hw |-> 0, known |-> FALSE]
  /\ before = settings
  /\ chosen = [k \in Pinnable |-> {}]
  /\ moved = {}

(***************************************************************************)
(* Saving: one put per step.                                               *)
(***************************************************************************)
Save(more) ==
  /\ saving' = [at |-> 1, more |-> more]
  /\ before' = Booted(flash)
  /\ moved' = {}

SaveWiped ==                                           \* mutant: namespace cleared first
  /\ saving' = [at |-> 1, more |-> 0] /\ before' = Booted(flash) /\ moved' = {}
  /\ flash' = [k \in {} |-> 0]
SaveOnce == Save(0) /\ flash' = flash

ValueOf(k) == IF k \in Marks THEN 1 ELSE settings[k]

\* The put that follows the one at i; puts of what is stored already change
\* nothing a reset could load and are passed over.  0 when none is left.
NextPut(i, f) ==
  LET due == {j \in (i + 1)..Len(PutOrder) :
                LET k == PutOrder[j] IN k \notin DOMAIN f \/ f[k] # ValueOf(k)} IN
    IF due = {} THEN 0 ELSE CHOOSE j \in due : \A h \in due : j <= h

PutKey ==
  /\ ~Idle
  /\ LET k == PutOrder[saving.at]
         f == [j \in DOMAIN flash \cup {k} |-> IF j = k THEN ValueOf(k) ELSE flash[j]]
         n == NextPut(saving.at, f) IN
       /\ flash' = f
       /\ IF n > 0
            THEN saving' = [saving EXCEPT !.at = n] /\ UNCHANGED chosen
            ELSE /\ saving' = IF saving.more > 0 THEN [at |-> 1, more |-> saving.more - 1]
                              ELSE [at |-> 0, more |-> 0]
                 /\ chosen' = [j \in Pinnable |->
                                 IF IsPinned(settings, j) THEN {settings[j]} ELSE {}]
  /\ UNCHANGED <<session, settings, volatile, car, before, moved>>

(***************************************************************************)
(* Commands                                                                *)
(***************************************************************************)
Does(name) == Idle /\ name \in session

Pins(k, v) == chosen' = [chosen EXCEPT ![k] = @ \cup {v}]

\* features() and the variant tests of the executors.
ToggleAccepted(k) ==
  /\ k \in LateToggles => car.ctrl
  /\ k = "isa" => settings["variant"] = "HW4"
  /\ k \in {"sumInj", "precond", "track"} => settings["variant"] # "LEGACY"

ToggleCmdUnsaved(k, on) ==                             \* mutant: no save after the gate
  /\ Does(k) /\ ToggleAccepted(k)
  /\ settings' = [settings EXCEPT ![k] = on]
  /\ IF k \in LateToggles THEN UNCHANGED <<saving, before, moved, flash>> ELSE SaveOnce
  /\ UNCHANGED chosen
ToggleCmd(k, on) ==
  /\ Does(k) /\ ToggleAccepted(k)
  /\ settings' = [settings EXCEPT ![k] = on]
  /\ SaveOnce
  /\ UNCHANGED chosen

ProfileCmd(n) ==
  /\ Does("profile") /\ n \in 0..4
  /\ settings' = [settings EXCEPT !["sp"] = n, !["spPin"] = 1]
  /\ Pins("sp", n) /\ SaveOnce

ProfileLockCmd ==
  /\ Does("profile:lock")
  /\ settings' = [settings EXCEPT !["spPin"] = 1]
  /\ Pins("sp", settings["sp"]) /\ SaveOnce

ProfileAutoCmd ==
  /\ Does("profile:auto")
  /\ settings' = [settings EXCEPT !["spPin"] = 0]
  /\ SaveOnce /\ UNCHANGED chosen

OffsetMax == IF car.hw = 3 \/ settings["variant"] = "HW4" THEN 63 ELSE 100

OffsetCmd(n) ==
  /\ Does("offset") /\ settings["variant"] # "LEGACY"
  /\ n >= 0 /\ n <= OffsetMax
  /\ settings' = [settings EXCEPT !["offset"] = n, !["offPin"] = 1]
  /\ Pins("offset", n) /\ SaveOnce

OffsetAutoCmd ==
  /\ Does("offset:auto") /\ settings["variant"] # "LEGACY"
  /\ settings' = [settings EXCEPT !["offPin"] = 0]
  /\ SaveOnce /\ UNCHANGED chosen

NagModeCmd(m) ==
  /\ Does("nag:mode")
  /\ settings' = [settings EXCEPT !["nagMode"] = m]
  /\ SaveOnce /\ UNCHANGED chosen

VariantCmd(v) ==
  /\ Does("variant")
  /\ settings' = [settings EXCEPT !["variant"] = v, !["vAuto"] = 0]
  /\ Pins("variant", v) /\ SaveOnce

VariantAutoCmd ==
  /\ Does("variant:auto")
  /\ settings' = [settings EXCEPT !["vAuto"] = 1]
  /\ SaveOnce /\ UNCHANGED chosen

\* The dispatcher then hands the clock to the driver and reads it back unchanged.
ClockCmd(mhz) ==
  /\ Does("canclock")
  /\ settings' = [settings EXCEPT !["clkMHz"] = mhz]
  /\ SaveOnce /\ UNCHANGED chosen

\* Saved by the executor and once more by the dispatcher.
DriveModeCmd(m) ==
  /\ Does("drivemode") /\ car.ctrl
  /\ settings' = [settings EXCEPT !["drvM"] = m]
  /\ Save(1) /\ UNCHANGED <<flash, chosen>>

MqttCmd(k, v) ==
  /\ Does("mqtt") /\ car.ctrl
  /\ settings' = [settings EXCEPT ![k] = v]
  /\ SaveOnce /\ UNCHANGED chosen

DistanceCmd(k, v) ==
  /\ Does("blekey") /\ car.ctrl
  /\ settings' = [settings EXCEPT ![k] = v]
  /\ SaveOnce /\ UNCHANGED chosen

CalibrateCmd(v) ==
  /\ Does("blekey") /\ car.ctrl
  /\ settings' = [settings EXCEPT !["bleDistO"] = v, !["bleDistC"] = 1]
  /\ Pins("bleDistO", v) /\ SaveOnce

\* Executors that save, of settings that saveSettings has no key for.
VolatileCmd(name, v) ==
  /\ Does(name)
  /\ name = "apFirst" => car.ctrl
  /\ volatile' = [volatile EXCEPT ![name] = v]
  /\ SaveOnce /\ UNCHANGED <<settings, chosen>>

Mhz == {0, 8, 12, 16, 20}
NagModes == 0..7
SomePorts == {1883, 8883}
SomeIntervals == {500, 2000, 60000}
SomeHosts == {"", "broker"}
SomeOffsets == {0, 1, 2}       \* BLE calibration offsets, as abstract readings

SettingCmd ==
  \/ \E k \in Toggles, on \in {0, 1} : ToggleCmd(k, on)
  \/ \E n \in Profiles : ProfileCmd(n)
  \/ ProfileLockCmd \/ ProfileAutoCmd
  \/ \E n \in OffsetArgs : OffsetCmd(n)
  \/ OffsetAutoCmd
  \/ \E m \in NagModes : NagModeCmd(m)
  \/ \E v \in Variants : VariantCmd(v)
  \/ VariantAutoCmd
  \/ \E c \in Mhz : ClockCmd(c)
  \/ \E m \in 0..3 : DriveModeCmd(m)
  \/ \E p \in SomePorts : MqttCmd("mqttP", p)
  \/ \E i \in SomeIntervals : MqttCmd("mqttI", i)
  \/ MqttCmd("mqttH", "broker")
  \/ \E m \in 0..3 : DistanceCmd("bleDistM", m)
  \/ \E f \in 1..4 : DistanceCmd("bleDistF", f)
  \/ \E o \in SomeOffsets : CalibrateCmd(o)

Command ==
  /\ \/ SettingCmd /\ UNCHANGED volatile
     \/ \E c \in 0..5 : VolatileCmd("region", c)
     \/ \E name \in {"alc", "apFirst"}, on \in {0, 1} : VolatileCmd(name, on)
  /\ UNCHANGED <<session, car>>

(***************************************************************************)
(* What changes settings without a command, and without a save.            *)
(***************************************************************************)
Unsaved ==
  /\ moved' = moved \cup {k \in Keys : settings'[k] # settings[k]}
  /\ UNCHANGED <<session, volatile, flash, saving, before, chosen>>

\* GET /api/disable: FSD is switched off in memory.
Disable ==
  /\ Does("disable")
  /\ settings' = [settings EXCEPT !["fsd"] = 0]
  /\ Unsaved /\ UNCHANGED car

TrackProfileAlways(p) == settings' = [settings EXCEPT !["sp"] = p]   \* mutant: pin ignored
TrackProfile(p) ==
  /\ settings["spPin"] = 0
  /\ settings' = [settings EXCEPT !["sp"] = p]

\* The follow-distance stalk, mapped by each variant's own table.
FollowDistance ==
  /\ Does("stalk")
  /\ \E p \in CASE settings["variant"] = "HW4" -> 0..4 [] OTHER -> 0..2 : TrackProfile(p)
  /\ Unsaved /\ UNCHANGED car

\* FSD mux 0 carries the driver's own profile and, on HW3, speed offset.
Clamp100(n) == IF n < 0 THEN 0 ELSE IF n > 100 THEN 100 ELSE n
FsdMux0(steps) ==
  /\ Does("mux") /\ settings["fsd"] = 1 /\ settings["variant"] # "HW4"
  /\ settings' =
       [settings EXCEPT
          !["sp"] = IF settings["spPin"] = 0 /\ steps \in 0..2 THEN steps ELSE @,
          !["offset"] = IF settings["offPin"] = 0 /\ settings["variant"] = "HW3"
                          THEN Clamp100(5 * steps) ELSE @]
  /\ Unsaved /\ UNCHANGED car

\* The variant a frame reveals; leaving LEGACY resets the profile, pinned or not.
Switched(v) ==
  [settings EXCEPT !["variant"] = v,
                   !["sp"] = IF settings["variant"] = "LEGACY" /\ v # "LEGACY" THEN 1 ELSE @]

HwVariant(hw) == CASE hw = 3 -> "HW4" [] hw = 2 -> "HW3" [] OTHER -> "LEGACY"

CarConfig(hw) ==
  /\ Does("detect")
  /\ car' = [car EXCEPT !.hw = hw, !.known = TRUE]
  /\ settings' = IF settings["vAuto"] = 1 THEN Switched(HwVariant(hw)) ELSE settings
  /\ Unsaved

InferVariant ==
  /\ Does("detect") /\ settings["vAuto"] = 1 /\ ~car.known
  /\ \/ settings["variant"] = "LEGACY" /\ settings' = Switched("HW4")
     \/ settings["variant"] # "LEGACY" /\ settings' = Switched("LEGACY")
  /\ Unsaved /\ UNCHANGED car

\* The control frame opens the second half of executeCommand; silence closes it.
Control(seen) ==
  /\ Idle
  /\ car' = [car EXCEPT !.ctrl = seen]
  /\ UNCHANGED settings /\ Unsaved

Car ==
  \/ FollowDistance
  \/ \E steps \in {-1, 0, 2, 13, 21} : FsdMux0(steps)
  \/ \E hw \in 0..3 : CarConfig(hw)
  \/ InferVariant
  \/ \E seen \in BOOLEAN : Control(seen)

\* Power loss or a reset, at any point, then setup().
Restart ==
  /\ settings' = Booted(flash)
  /\ volatile' = NothingVolatile
  /\ saving' = [at |-> 0, more |-> 0]
  /\ car' = [ctrl |-> FALSE, hw |-> 0, known |-> FALSE]
  /\ moved' = {}
  /\ UNCHANGED <<session, flash, before, chosen>>

SettingsNext == PutKey \/ Command \/ Disable \/ Car \/ Restart

SettingsSpec == SettingsInit /\ [][SettingsNext]_vars

(***************************************************************************)
(* Properties                                                              *)
(***************************************************************************)
Domain(k) ==
  CASE k = "variant" -> Variants [] k = "sp" -> 0..4 [] k = "offset" -> 0..100
    [] k = "nagMode" -> NagModes [] k = "clkMHz" -> Mhz
    [] k \in {"drvM", "wipS", "bleDistM"} -> 0..3
    [] k = "mqttP" -> SomePorts [] k = "mqttI" -> SomeIntervals [] k = "mqttH" -> SomeHosts
    [] k = "bleDistF" -> 1..4 [] k = "bleDistO" -> SomeOffsets [] OTHER -> {0, 1}

InDomain(s) == DOMAIN s = Keys /\ \A k \in Keys : s[k] \in Domain(k)

SettingsTypeOK ==
  /\ session \in Sessions
  /\ InDomain(settings) /\ InDomain(before)
  /\ DOMAIN flash \subseteq Stored
  /\ \A k \in DOMAIN flash : flash[k] \in (IF k \in Marks THEN {1} ELSE Domain(k))
  /\ volatile \in [region : 0..5, alc : {0, 1}, apFirst : {0, 1}]
  /\ saving \in [at : 0..Len(PutOrder), more : {0, 1}]
  /\ car \in [ctrl : BOOLEAN, hw : 0..3, known : BOOLEAN]
  /\ DOMAIN chosen = Pinnable /\ \A k \in Pinnable : chosen[k] \subseteq Domain(k)
  /\ moved \subseteq Keys

\* What frames and the kill switch may have made of a setting: one that follows
\* the car is unpinned, the profile may also be the 1 that leaving LEGACY writes
\* over a pin, and the kill switch leaves FSD off.
MayMove(k) ==
  CASE k \in {"variant", "offset"} -> ~IsPinned(settings, k)
    [] k = "sp" -> ~IsPinned(settings, k) \/ settings["sp"] = 1
    [] k = "fsd" -> settings["fsd"] = 0
    [] OTHER -> FALSE

\* Only a setting that a frame or the kill switch changed after the last save,
\* since neither saves, runs ahead of the flash.
MayDiffer(k) == k \in moved /\ MayMove(k)

\* Between commands a reset loads every setting that saveSettings has a key for
\* as it is in force, whatever sequence of commands, frames and interrupted saves
\* came before, with these exceptions: a variant, profile or offset that followed
\* the car since the last save, the profile 1 of leaving LEGACY, FSD after the
\* kill switch, and the oscillator, which setup() overwrites with the default
\* (ClockSurvives).  The fields without a key, volatile, are not among Keys:
\* FlagsSurvive is about them.
RestartKeepsSaved ==
  Idle => LET loaded == Booted(flash) IN
            \A k \in Keys \ {"clkMHz"} : loaded[k] = settings[k] \/ MayDiffer(k)

\* A save cut short, on an empty or a full flash, loads each setting as it was
\* before the save or as it was to become, and never a third value.
CrashLoadsOldOrNew ==
  ~Idle => LET loaded == Booted(flash) IN
             \A k \in Keys \ {"clkMHz"} : loaded[k] \in {before[k], settings[k]}

\* A setting in force as pinned, or that a reset at this very moment would load
\* as pinned, has a value its client pinned: saveSettings writes each value
\* before its pin, so an interrupted save never pins what the car had set.  A
\* profile may also be the 1 that leaving LEGACY writes over a pin.
Authentic(s) ==
  \A k \in Pinnable :
    IsPinned(s, k) => s[k] \in chosen[k] \/ (k = "sp" /\ s[k] = 1)
PinnedIsChosen == Authentic(settings) /\ Authentic(Booted(flash))

(* What the documentation says and the code does not do. *)

\* commands.md and types.h call the region spoof, the lane change confirmation
\* and AP-First persisted: between commands a reset does not change them.
FlagsSurvive == [][Idle /\ Restart => volatile' = volatile]_vars

\* can_clock.h: canclock:<mhz> is persisted; between commands a reset keeps it.
ClockSurvives == [][Idle /\ Restart => settings'["clkMHz"] = settings["clkMHz"]]_vars
===============================================================================
