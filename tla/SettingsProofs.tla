---------------------------- MODULE SettingsProofs ----------------------------
(***************************************************************************)
(* For every client, car and set of arguments: a reset between commands    *)
(* loads the settings saved (and so in force, but for those that moved     *)
(* since and the oscillator), a reset between two puts of a save loads     *)
(* each setting old or new, and nothing pins a value its client did not    *)
(* choose.                                                                 *)
(*                                                                         *)
(* What makes them inductive is the state of a save in progress: the keys  *)
(* before the next put hold the settings already, so the save that ends    *)
(* has stored all of them, whatever flash it began on; the marks are the   *)
(* first keys to be put; and a value is put before its pin.                *)
(***************************************************************************)
EXTENDS Settings, WellFoundedInduction, TLAPS

Same(k) == Booted(flash)[k] = settings[k] \/ MayDiffer(k)

\* What is in flash is what is in force, for the keys a save has passed.
Passed ==
  \A i \in 1..Len(PutOrder) :
    i < saving.at => /\ PutOrder[i] \in DOMAIN flash
                     /\ flash[PutOrder[i]] = ValueOf(PutOrder[i])

SettingsInv ==
  /\ saving \in [at : Nat, more : Int]
  /\ saving.at \in 0..Len(PutOrder)
  /\ DOMAIN settings = Keys
  /\ Idle => \A k \in Keys \ {"clkMHz"} : Same(k)
  /\ ~Idle => Passed

LEMMA OrderLength == Len(PutOrder) \in Nat /\ Len(PutOrder) > 0
                     /\ DOMAIN PutOrder = 1..Len(PutOrder)
  BY DEF PutOrder

\* Whatever the flash holds, setup() fills in every setting.
LEMMA BootedIsTotal ==
  ASSUME NEW f
  PROVE  DOMAIN Booted(f) = Keys
  BY DEF Booted, Loaded, Default

\* A flash with all the keys loads as it is, apart from the oscillator.
LEMMA FullFlashLoads ==
  ASSUME NEW f, Stored \subseteq DOMAIN f, NEW k \in Keys \ {"clkMHz"}
  PROVE  Booted(f)[k] = f[k]
  <1>1. Marks \subseteq DOMAIN f
    <2>1. PutOrder[1] = "magic" /\ PutOrder[2] = "ver" /\ 1 \in DOMAIN PutOrder
          /\ 2 \in DOMAIN PutOrder
      BY DEF PutOrder
    <2> QED BY <2>1 DEF Marks, Stored
  <1>2. k \in Stored BY DEF Keys
  <1>3. Loaded(f)[k] = f[k] BY <1>2 DEF Loaded
  <1>4. Booted(f) = [Loaded(f) EXCEPT !["clkMHz"] = BoardClock] BY <1>1 DEF Booted
  <1> QED BY <1>3, <1>4 DEF Loaded

LEMMA LeastOfNats ==
  ASSUME NEW S, S \subseteq Nat, S # {}
  PROVE  \E m \in S : \A h \in S : m <= h
  <1> DEFINE lt == OpToRel(<, Nat)
  <1>1. \E m \in S : \A h \in S : <<h, m>> \notin lt
    <2>1. IsWellFoundedOn(lt, Nat) BY NatLessThanWellFounded
    <2> HIDE DEF lt
    <2> QED BY <2>1, WFMin
  <1>2. PICK m \in S : \A h \in S : <<h, m>> \notin lt BY <1>1
  <1>3. ASSUME NEW h \in S PROVE m <= h
    <2>1. <<h, m>> \notin lt BY <1>2
    <2>2. h \in Nat /\ m \in Nat OBVIOUS
    <2>3. ~(h < m) BY <2>1, <2>2 DEF OpToRel
    <2> QED BY <2>2, <2>3
  <1> QED BY <1>3

\* The put after i is a later one, and when there is none every later key is
\* stored already.
LEMMA NextPutIsLater ==
  ASSUME NEW i \in 1..Len(PutOrder), NEW f
  PROVE  /\ NextPut(i, f) = 0 \/ NextPut(i, f) \in (i + 1)..Len(PutOrder)
         /\ \A j \in (i + 1)..Len(PutOrder) :
              (NextPut(i, f) = 0 \/ j < NextPut(i, f))
                => PutOrder[j] \in DOMAIN f /\ f[PutOrder[j]] = ValueOf(PutOrder[j])
  <1> DEFINE due == {j \in (i + 1)..Len(PutOrder) :
                       \/ PutOrder[j] \notin DOMAIN f
                       \/ f[PutOrder[j]] # ValueOf(PutOrder[j])}
             Least(j) == \A h \in due : j <= h
  <1>1. NextPut(i, f) = IF due = {} THEN 0 ELSE CHOOSE j \in due : Least(j)
    BY DEF NextPut
  <1>2. due \subseteq (i + 1)..Len(PutOrder) OBVIOUS
  <1>3. \A j \in (i + 1)..Len(PutOrder) :
          j \notin due => PutOrder[j] \in DOMAIN f /\ f[PutOrder[j]] = ValueOf(PutOrder[j])
    OBVIOUS
  <1>4. Len(PutOrder) \in Nat BY OrderLength
  <1> HIDE DEF due
  <1>5. CASE due = {}
    <2>1. NextPut(i, f) = 0 BY <1>1, <1>5
    <2> QED BY <1>3, <1>5, <2>1
  <1>6. CASE due # {}
    <2>1. due \subseteq Nat BY <1>2, <1>4
    <2>2. \E j \in due : Least(j) BY <2>1, <1>6, LeastOfNats
    <2>3. NextPut(i, f) = CHOOSE j \in due : Least(j) BY <1>1, <1>6
    <2>4. NextPut(i, f) \in due /\ Least(NextPut(i, f)) BY <2>2, <2>3
    <2>5. NextPut(i, f) \in (i + 1)..Len(PutOrder) BY <2>4, <1>2
    <2>6. ASSUME NEW j \in (i + 1)..Len(PutOrder),
                 NextPut(i, f) = 0 \/ j < NextPut(i, f)
          PROVE  j \notin due
      BY <2>4, <2>5, <2>6, <1>4
    <2> QED BY <1>3, <2>5, <2>6
  <1> QED BY <1>5, <1>6

LEMMA InvInit == SettingsInit => SettingsInv
<1> SUFFICES ASSUME SettingsInit PROVE SettingsInv OBVIOUS
<1>1. saving = [at |-> 0, more |-> 0] BY DEF SettingsInit
<1>2. settings = Booted(flash) BY DEF SettingsInit
<1>3. DOMAIN settings = Keys BY <1>2, BootedIsTotal
<1>4. Idle BY <1>1 DEF Idle
<1>5. \A k \in Keys \ {"clkMHz"} : Same(k) BY <1>2 DEF Same
<1> QED BY <1>1, <1>3, <1>4, <1>5, OrderLength DEF SettingsInv

\* Every command ends in a save, which at its first put has passed no key.
LEMMA SavingStarts ==
  ASSUME SettingsInv, DOMAIN settings' = DOMAIN settings,
         NEW m \in Int, saving' = [at |-> 1, more |-> m]
  PROVE  SettingsInv'
<1>1. saving'.at = 1 /\ saving' \in [at : Nat, more : Int] OBVIOUS
<1>2. saving'.at \in 0..Len(PutOrder) BY <1>1, OrderLength
<1>3. ~Idle' BY <1>1 DEF Idle
<1>4. Passed' BY <1>1 DEF Passed
<1>5. DOMAIN settings' = Keys BY DEF SettingsInv
<1> QED BY <1>1, <1>2, <1>3, <1>4, <1>5 DEF SettingsInv

LEMMA CommandInv ==
  ASSUME SettingsInv, Command
  PROVE  SettingsInv'
<1> USE DEF SaveOnce, Save
<1>1. ASSUME SettingCmd PROVE SettingsInv'
  <2>1. ASSUME NEW k \in Toggles, NEW on \in {0, 1}, ToggleCmd(k, on) PROVE SettingsInv'
    BY <2>1, SavingStarts DEF ToggleCmd
  <2>2. ASSUME NEW n \in Profiles, ProfileCmd(n) PROVE SettingsInv'
    BY <2>2, SavingStarts DEF ProfileCmd
  <2>3. CASE ProfileLockCmd BY <2>3, SavingStarts DEF ProfileLockCmd
  <2>4. CASE ProfileAutoCmd BY <2>4, SavingStarts DEF ProfileAutoCmd
  <2>5. ASSUME NEW n \in OffsetArgs, OffsetCmd(n) PROVE SettingsInv'
    BY <2>5, SavingStarts DEF OffsetCmd
  <2>6. CASE OffsetAutoCmd BY <2>6, SavingStarts DEF OffsetAutoCmd
  <2>7. ASSUME NEW m \in NagModes, NagModeCmd(m) PROVE SettingsInv'
    BY <2>7, SavingStarts DEF NagModeCmd
  <2>8. ASSUME NEW v \in Variants, VariantCmd(v) PROVE SettingsInv'
    BY <2>8, SavingStarts DEF VariantCmd
  <2>9. CASE VariantAutoCmd BY <2>9, SavingStarts DEF VariantAutoCmd
  <2>10. ASSUME NEW c \in Mhz, ClockCmd(c) PROVE SettingsInv'
    BY <2>10, SavingStarts DEF ClockCmd
  <2>11. ASSUME NEW m \in 0..3, DriveModeCmd(m) PROVE SettingsInv'
    BY <2>11, SavingStarts DEF DriveModeCmd
  <2>12. ASSUME NEW k, NEW v, MqttCmd(k, v) PROVE SettingsInv'
    BY <2>12, SavingStarts DEF MqttCmd
  <2>13. ASSUME NEW k, NEW v, DistanceCmd(k, v) PROVE SettingsInv'
    BY <2>13, SavingStarts DEF DistanceCmd
  <2>14. ASSUME NEW v, CalibrateCmd(v) PROVE SettingsInv'
    BY <2>14, SavingStarts DEF CalibrateCmd
  <2> QED
    BY <1>1, <2>1, <2>2, <2>3, <2>4, <2>5, <2>6, <2>7, <2>8, <2>9, <2>10, <2>11, <2>12,
       <2>13, <2>14 DEF SettingCmd
<1>2. ASSUME NEW name, NEW v, VolatileCmd(name, v) PROVE SettingsInv'
  BY <1>2, SavingStarts DEF VolatileCmd
<1> QED BY <1>1, <1>2 DEF Command

\* A step that saves nothing may move only the settings that may differ, and
\* must leave the pins alone.
LEMMA UnsavedInv ==
  ASSUME SettingsInv, Idle, Unsaved, DOMAIN settings' = DOMAIN settings,
         \A k \in {"vAuto", "spPin", "offPin", "bleDistC"} : settings'[k] = settings[k],
         \A k \in Keys : settings'[k] = settings[k] \/ MayMove(k)'
  PROVE  SettingsInv'
<1>1. saving' = saving /\ flash' = flash BY DEF Unsaved
<1>2. Idle' BY <1>1 DEF Idle
<1>3. ASSUME NEW k \in Keys \ {"clkMHz"} PROVE Same(k)'
  <2>1. CASE settings'[k] # settings[k]
    <3>1. k \in moved' BY <2>1 DEF Unsaved
    <3> QED BY <2>1, <3>1 DEF Same, MayDiffer
  <2>2. CASE settings'[k] = settings[k] /\ Booted(flash)[k] = settings[k]
    BY <1>1, <2>2 DEF Same
  <2>3. CASE settings'[k] = settings[k] /\ MayDiffer(k)
    <3>1. ASSUME NEW j \in Pinnable PROVE IsPinned(settings', j) <=> IsPinned(settings, j)
      BY DEF IsPinned, Pinnable
    <3>2. MayMove(k)'
      <4>1. CASE k = "variant" BY <2>3, <3>1, <4>1 DEF MayDiffer, MayMove, Pinnable
      <4>2. CASE k = "offset" BY <2>3, <3>1, <4>2 DEF MayDiffer, MayMove, Pinnable
      <4>3. CASE k = "sp" BY <2>3, <3>1, <4>3 DEF MayDiffer, MayMove, Pinnable
      <4>4. CASE k \notin {"variant", "offset", "sp"}
        BY <2>3, <4>4 DEF MayDiffer, MayMove
      <4> QED BY <4>1, <4>2, <4>3, <4>4
    <3>3. k \in moved' BY <2>3 DEF MayDiffer, Unsaved
    <3> QED BY <3>2, <3>3 DEF Same, MayDiffer
  <2>4. Same(k) BY DEF SettingsInv
  <2> QED BY <2>1, <2>2, <2>3, <2>4 DEF Same
<1> QED BY <1>1, <1>2, <1>3 DEF SettingsInv

LEMMA PinKeys == {"vAuto", "spPin", "offPin", "bleDistC"} \subseteq Keys
<1>1. /\ PutOrder[16] = "vAuto" /\ PutOrder[7] = "spPin" /\ PutOrder[9] = "offPin"
      /\ PutOrder[43] = "bleDistC" /\ {7, 9, 16, 43} \subseteq DOMAIN PutOrder
  BY DEF PutOrder
<1> QED BY <1>1 DEF Keys, Stored, Marks

\* An update of two settings leaves the others alone.
LEMMA TwoUpdates ==
  ASSUME NEW s, DOMAIN s = Keys, NEW a, NEW b, NEW x, NEW y,
         NEW t, t = [s EXCEPT ![a] = x, ![b] = y]
  PROVE  /\ DOMAIN t = Keys
         /\ \A k \in Keys : k # a /\ k # b => t[k] = s[k]
         /\ a \in Keys /\ a # b => t[a] = x
         /\ b \in Keys => t[b] = y
<1> DEFINE m == [s EXCEPT ![a] = x]
<1>1. DOMAIN m = Keys /\ \A k \in Keys : k # a => m[k] = s[k]
  OBVIOUS
<1> QED BY <1>1

LEMMA TrackProfileMoves ==
  ASSUME NEW p, TrackProfile(p), DOMAIN settings = Keys
  PROVE  /\ DOMAIN settings' = DOMAIN settings
         /\ \A k \in {"vAuto", "spPin", "offPin", "bleDistC"} : settings'[k] = settings[k]
         /\ \A k \in Keys : settings'[k] = settings[k] \/ MayMove(k)'
<1>1. settings' = [settings EXCEPT !["sp"] = p] /\ settings["spPin"] = 0
  BY DEF TrackProfile
<1>2. settings'["spPin"] = 0 BY <1>1
<1>3. MayMove("sp")' BY <1>2 DEF MayMove, IsPinned
<1> QED BY <1>1, <1>3

LEMMA SwitchedMoves ==
  ASSUME NEW v, settings' = Switched(v), settings["vAuto"] = 1, DOMAIN settings = Keys
  PROVE  /\ DOMAIN settings' = DOMAIN settings
         /\ \A k \in {"vAuto", "spPin", "offPin", "bleDistC"} : settings'[k] = settings[k]
         /\ \A k \in Keys : settings'[k] = settings[k] \/ MayMove(k)'
<1>1. PICK sp : /\ settings' = [settings EXCEPT !["variant"] = v, !["sp"] = sp]
                /\ sp = settings["sp"] \/ sp = 1
  BY DEF Switched
<1>2. /\ DOMAIN settings' = Keys
      /\ \A k \in Keys : k # "variant" /\ k # "sp" => settings'[k] = settings[k]
      /\ "sp" \in Keys => settings'["sp"] = sp
  BY <1>1, TwoUpdates
<1>3. settings'["vAuto"] = 1 BY <1>2, PinKeys
<1>4. MayMove("variant")' BY <1>3 DEF MayMove, IsPinned
<1>5. ASSUME "sp" \in Keys, sp = 1 PROVE MayMove("sp")'
  <2>1. settings'["sp"] = 1 BY <1>2, <1>5
  <2> QED BY <2>1 DEF MayMove
<1> QED BY <1>1, <1>2, <1>4, <1>5, PinKeys

LEMMA FsdMux0Moves ==
  ASSUME NEW steps, FsdMux0(steps), DOMAIN settings = Keys
  PROVE  /\ DOMAIN settings' = DOMAIN settings
         /\ \A k \in {"vAuto", "spPin", "offPin", "bleDistC"} : settings'[k] = settings[k]
         /\ \A k \in Keys : settings'[k] = settings[k] \/ MayMove(k)'
<1>1. PICK sp, off :
        /\ settings' = [settings EXCEPT !["sp"] = sp, !["offset"] = off]
        /\ sp = settings["sp"] \/ settings["spPin"] = 0
        /\ off = settings["offset"] \/ settings["offPin"] = 0
  BY DEF FsdMux0
<1>2. /\ DOMAIN settings' = Keys
      /\ \A k \in Keys : k # "sp" /\ k # "offset" => settings'[k] = settings[k]
      /\ "sp" \in Keys => settings'["sp"] = sp
      /\ "offset" \in Keys => settings'["offset"] = off
  BY <1>1, TwoUpdates
<1>3. settings'["spPin"] = settings["spPin"] /\ settings'["offPin"] = settings["offPin"]
  BY <1>2, PinKeys
<1>4. settings["spPin"] = 0 => MayMove("sp")' BY <1>3 DEF MayMove, IsPinned
<1>5. settings["offPin"] = 0 => MayMove("offset")' BY <1>3 DEF MayMove, IsPinned
<1> QED BY <1>1, <1>2, <1>4, <1>5, PinKeys

LEMMA CarInv ==
  ASSUME SettingsInv, Car
  PROVE  SettingsInv'
<1>1. DOMAIN settings = Keys BY DEF SettingsInv
<1>2. CASE FollowDistance
  <2>1. PICK p : TrackProfile(p) BY <1>2 DEF FollowDistance
  <2> QED BY <1>1, <1>2, <2>1, TrackProfileMoves, UnsavedInv DEF FollowDistance, Does
<1>3. ASSUME NEW steps, FsdMux0(steps) PROVE SettingsInv'
  <2>1. Unsaved /\ Idle BY <1>3 DEF FsdMux0, Does
  <2> QED BY <1>1, <1>3, <2>1, FsdMux0Moves, UnsavedInv
<1>4. ASSUME NEW hw, CarConfig(hw) PROVE SettingsInv'
  <2>1. Unsaved /\ Idle BY <1>4 DEF CarConfig, Does
  <2>2. CASE settings["vAuto"] = 1
    <3>1. settings' = Switched(HwVariant(hw)) BY <1>4, <2>2 DEF CarConfig
    <3> QED BY <1>1, <2>1, <2>2, <3>1, SwitchedMoves, UnsavedInv
  <2>3. CASE settings["vAuto"] # 1
    <3>1. settings' = settings BY <1>4, <2>3 DEF CarConfig
    <3> QED BY <2>1, <3>1, UnsavedInv
  <2> QED BY <2>2, <2>3
<1>5. CASE InferVariant
  <2>1. Unsaved /\ Idle /\ settings["vAuto"] = 1 BY <1>5 DEF InferVariant, Does
  <2>2. PICK v : settings' = Switched(v) BY <1>5 DEF InferVariant
  <2> QED BY <1>1, <2>1, <2>2, SwitchedMoves, UnsavedInv
<1>6. ASSUME NEW seen, Control(seen) PROVE SettingsInv'
  <2>1. Unsaved /\ Idle /\ settings' = settings BY <1>6 DEF Control
  <2> QED BY <2>1, UnsavedInv
<1> QED BY <1>2, <1>3, <1>4, <1>5, <1>6 DEF Car

LEMMA DisableInv ==
  ASSUME SettingsInv, Disable
  PROVE  SettingsInv'
<1>1. Unsaved /\ Idle /\ settings' = [settings EXCEPT !["fsd"] = 0]
  BY DEF Disable, Does
<1>2. "fsd" \in Keys => MayMove("fsd")' BY <1>1 DEF MayMove, SettingsInv
<1> QED BY <1>1, <1>2, UnsavedInv DEF SettingsInv

\* The put at saving.at stores its key, the ones passed over are stored already.
LEMMA PutInv ==
  ASSUME SettingsInv, PutKey
  PROVE  SettingsInv'
<1> DEFINE at == saving.at
           key == PutOrder[at]
           f == [j \in DOMAIN flash \cup {key} |->
                   IF j = key THEN ValueOf(key) ELSE flash[j]]
           n == NextPut(at, f)
<1>1. ~Idle /\ at \in 1..Len(PutOrder) /\ Len(PutOrder) \in Nat
  BY OrderLength DEF PutKey, SettingsInv, Idle
<1>2. flash' = f /\ settings' = settings BY DEF PutKey
<1>3. \A k : ValueOf(k)' = ValueOf(k) BY <1>2 DEF ValueOf
<1>4. ASSUME NEW i \in 1..Len(PutOrder), i <= at
      PROVE  PutOrder[i] \in DOMAIN f /\ f[PutOrder[i]] = ValueOf(PutOrder[i])
  <2>1. i < at => PutOrder[i] \in DOMAIN flash /\ flash[PutOrder[i]] = ValueOf(PutOrder[i])
    BY <1>1 DEF SettingsInv, Passed
  <2>2. i < at \/ i = at BY <1>1, <1>4
  <2> QED BY <2>1, <2>2
<1>5. ASSUME NEW i \in 1..Len(PutOrder), n = 0 \/ i < n
      PROVE  PutOrder[i] \in DOMAIN f /\ f[PutOrder[i]] = ValueOf(PutOrder[i])
  <2>1. CASE i <= at BY <1>4, <2>1
  <2>2. CASE ~(i <= at)
    <3>1. i \in (at + 1)..Len(PutOrder) BY <1>1, <2>2
    <3> HIDE DEF f
    <3> QED BY <1>1, <1>5, <3>1, NextPutIsLater
  <2> QED BY <2>1, <2>2
<1>6. n = 0 \/ n \in (at + 1)..Len(PutOrder)
  <2> HIDE DEF f
  <2> QED BY <1>1, NextPutIsLater
<1>7. DOMAIN settings' = Keys BY <1>2 DEF SettingsInv
<1> HIDE DEF f
<1>8. CASE n > 0
  <2>1. saving' = [saving EXCEPT !.at = n] BY <1>8 DEF PutKey, f
  <2>2. saving'.at = n /\ saving' \in [at : Nat, more : Int] /\ n \in 0..Len(PutOrder)
    BY <1>1, <1>6, <1>8, <2>1 DEF SettingsInv
  <2>3. ~Idle' BY <1>8, <2>2 DEF Idle
  <2>4. Passed' BY <1>2, <1>3, <1>5, <2>2 DEF Passed
  <2> QED BY <1>7, <2>2, <2>3, <2>4 DEF SettingsInv
<1>9. CASE ~(n > 0)
  <2>1. n = 0 BY <1>1, <1>6, <1>9
  <2>2. saving' = IF saving.more > 0 THEN [at |-> 1, more |-> saving.more - 1]
                  ELSE [at |-> 0, more |-> 0]
    BY <1>9 DEF PutKey, f
  <2>3. CASE saving.more > 0
    <3>1. saving.more - 1 \in Int BY DEF SettingsInv
    <3> QED BY <1>2, <2>2, <2>3, <3>1, SavingStarts
  <2>4. CASE ~(saving.more > 0)
    <3>1. saving' = [at |-> 0, more |-> 0] BY <2>2, <2>4
    <3>2. Idle' BY <3>1 DEF Idle
    <3>3. \A k \in Stored : k \in DOMAIN f /\ f[k] = ValueOf(k)
      BY <1>5, <2>1, OrderLength DEF Stored
    <3>4. ASSUME NEW k \in Keys \ {"clkMHz"} PROVE Same(k)'
      <4>1. Booted(f)[k] = f[k] BY <3>3, FullFlashLoads
      <4>2. f[k] = settings[k] BY <3>3 DEF ValueOf, Keys
      <4> QED BY <1>2, <4>1, <4>2 DEF Same
    <3> QED BY <1>7, <3>1, <3>2, <3>4, <1>1 DEF SettingsInv
  <2> QED BY <2>3, <2>4
<1> QED BY <1>6, <1>8, <1>9

LEMMA RestartInv ==
  ASSUME SettingsInv, Restart
  PROVE  SettingsInv'
<1>1. settings' = Booted(flash) /\ flash' = flash /\ saving' = [at |-> 0, more |-> 0]
  BY DEF Restart
<1>2. DOMAIN settings' = Keys BY <1>1, BootedIsTotal
<1>3. \A k \in Keys \ {"clkMHz"} : Same(k)' BY <1>1 DEF Same
<1>4. Idle' BY <1>1 DEF Idle
<1> QED BY <1>1, <1>2, <1>3, <1>4, OrderLength DEF SettingsInv

LEMMA InvNext ==
  ASSUME SettingsInv, [SettingsNext]_vars
  PROVE  SettingsInv'
<1>1. CASE PutKey BY <1>1, PutInv
<1>2. CASE Command BY <1>2, CommandInv
<1>3. CASE Disable BY <1>3, DisableInv
<1>4. CASE Car BY <1>4, CarInv
<1>5. CASE Restart BY <1>5, RestartInv
<1>6. CASE UNCHANGED vars
  BY <1>6 DEF vars, SettingsInv, Idle, Same, Passed, MayDiffer, MayMove, IsPinned, ValueOf
<1> QED BY <1>1, <1>2, <1>3, <1>4, <1>5, <1>6 DEF SettingsNext

\* Between commands a reset loads every setting that has a key as it is in
\* force, but for one that a frame or the kill switch changed since the last save
\* of board.h, and the oscillator: whatever commands, frames and interrupted saves
\* came before.
THEOREM SavedSurvive == SettingsSpec => []RestartKeepsSaved
<1>1. SettingsInv /\ [SettingsNext]_vars => SettingsInv' BY InvNext
<1>2. SettingsInv => RestartKeepsSaved
  BY DEF SettingsInv, RestartKeepsSaved, Same
<1> QED BY <1>1, <1>2, InvInit, PTL DEF SettingsSpec

(***************************************************************************)
(* Saves that are cut short.  The two marks are the first keys to be put,  *)
(* so a flash without them holds nothing else, and the put of any other    *)
(* key changes what a reset loads in that key only.                        *)
(***************************************************************************)
MarksFirst == \A k \in DOMAIN flash \ Marks : Marks \subseteq DOMAIN flash

LEMMA MarkIndices ==
  /\ PutOrder[1] = "magic" /\ PutOrder[2] = "ver"
  /\ {1, 2} \subseteq 1..Len(PutOrder) /\ Len(PutOrder) \in Nat
  BY DEF PutOrder

\* What is in flash after a put.
Written == [j \in DOMAIN flash \cup {PutOrder[saving.at]} |->
              IF j = PutOrder[saving.at] THEN ValueOf(PutOrder[saving.at]) ELSE flash[j]]

LEMMA MarksStored ==
  ASSUME SettingsInv, ~Idle, PutOrder[saving.at] \notin Marks
  PROVE  Marks \subseteq DOMAIN flash
<1>1. saving.at \in 1..Len(PutOrder) BY OrderLength DEF SettingsInv, Idle
<1>2. saving.at # 1 /\ saving.at # 2 BY MarkIndices DEF Marks
<1>3. 1 < saving.at /\ 2 < saving.at BY <1>1, <1>2, MarkIndices
<1>4. Passed BY DEF SettingsInv
<1>5. PutOrder[1] \in DOMAIN flash /\ PutOrder[2] \in DOMAIN flash
  BY <1>3, <1>4, MarkIndices DEF Passed
<1> QED BY <1>5, MarkIndices DEF Marks

\* A flash that holds nothing but marks loads as an empty one.
LEMMA MarksAloneLoadDefaults ==
  ASSUME NEW f, DOMAIN f \subseteq Marks, NEW k \in Keys \ {"clkMHz"}
  PROVE  Booted(f)[k] = Default[k]
<1>1. k \notin DOMAIN f BY DEF Keys
<1>2. Loaded(f)[k] = Default[k] BY <1>1 DEF Loaded
<1>3. DOMAIN Loaded(f) = Keys /\ DOMAIN Default = Keys BY DEF Loaded, Default
<1> QED BY <1>2, <1>3 DEF Booted

LEMMA MarkedLoads ==
  ASSUME NEW f, Marks \subseteq DOMAIN f, NEW k \in Keys \ {"clkMHz"}
  PROVE  Booted(f)[k] = IF k \in DOMAIN f THEN f[k] ELSE Default[k]
<1>1. Loaded(f)[k] = IF k \in DOMAIN f THEN f[k] ELSE Default[k] BY DEF Loaded
<1>2. DOMAIN Loaded(f) = Keys BY DEF Loaded
<1> QED BY <1>1, <1>2 DEF Booted

\* A put changes what a reset loads in its own key, to the value in force.
LEMMA PutLoads ==
  ASSUME SettingsInv, MarksFirst, ~Idle, NEW k \in Keys \ {"clkMHz"}
  PROVE  Booted(Written)[k] = IF k = PutOrder[saving.at] THEN settings[k] ELSE Booted(flash)[k]
<1> DEFINE key == PutOrder[saving.at]
<1>1. DOMAIN Written = DOMAIN flash \cup {key} BY DEF Written
<1>2. /\ Written[key] = ValueOf(key)
      /\ \A j \in DOMAIN flash : j # key => Written[j] = flash[j]
  BY DEF Written
<1>3. k \notin Marks BY DEF Keys
<1>4. CASE Marks \subseteq DOMAIN flash
  <2>1. Marks \subseteq DOMAIN Written BY <1>1, <1>4
  <2>2. Booted(Written)[k] = IF k \in DOMAIN Written THEN Written[k] ELSE Default[k]
    BY <2>1, MarkedLoads
  <2>3. Booted(flash)[k] = IF k \in DOMAIN flash THEN flash[k] ELSE Default[k]
    BY <1>4, MarkedLoads
  <2>4. ValueOf(k) = settings[k] BY <1>3 DEF ValueOf
  <2> QED BY <1>1, <1>2, <2>2, <2>3, <2>4
<1>5. CASE ~(Marks \subseteq DOMAIN flash)
  <2>1. DOMAIN flash \subseteq Marks BY <1>5 DEF MarksFirst
  <2>2. key \in Marks BY <1>5, MarksStored
  <2>3. DOMAIN Written \subseteq Marks BY <1>1, <2>1, <2>2
  <2>4. Booted(Written)[k] = Default[k] BY <2>3, MarksAloneLoadDefaults
  <2>5. Booted(flash)[k] = Default[k] BY <2>1, MarksAloneLoadDefaults
  <2> QED BY <1>3, <2>2, <2>4, <2>5
<1> QED BY <1>4, <1>5

LEMMA PutWrites == PutKey => ~Idle /\ flash' = Written /\ UNCHANGED <<settings, before>>
  BY DEF PutKey, Written

LEMMA MarksPut ==
  ASSUME SettingsInv, MarksFirst, PutKey
  PROVE  MarksFirst'
<1>1. ~Idle /\ flash' = Written BY PutWrites
<1>2. DOMAIN Written = DOMAIN flash \cup {PutOrder[saving.at]} BY DEF Written
<1> QED BY <1>1, <1>2, MarksStored DEF MarksFirst

\* A command leaves the flash alone and begins a save from what it would load.
LEMMA CommandBegins ==
  ASSUME Command
  PROVE  /\ Idle /\ ~Idle' /\ UNCHANGED flash
         /\ before' = Booted(flash)
<1> USE DEF SaveOnce, Save, Does
<1>1. SettingCmd => Idle /\ saving'.at = 1 /\ UNCHANGED flash /\ before' = Booted(flash)
  BY DEF SettingCmd, ToggleCmd, ProfileCmd, ProfileLockCmd, ProfileAutoCmd, OffsetCmd,
         OffsetAutoCmd, NagModeCmd, VariantCmd, VariantAutoCmd, ClockCmd, DriveModeCmd,
         MqttCmd, DistanceCmd, CalibrateCmd
<1>2. ASSUME NEW name, NEW v, VolatileCmd(name, v)
      PROVE  Idle /\ saving'.at = 1 /\ UNCHANGED flash /\ before' = Booted(flash)
  BY <1>2 DEF VolatileCmd
<1> QED BY <1>1, <1>2 DEF Command, Idle

\* Frames and the kill switch come between saves and touch neither the flash
\* nor what the client chose.
LEMMA UnsavedSteps ==
  ASSUME Car \/ Disable
  PROVE  Idle /\ Idle' /\ UNCHANGED <<flash, before, chosen>>
<1>1. Idle /\ Unsaved
  BY DEF Car, FollowDistance, FsdMux0, CarConfig, InferVariant, Control, Disable, Does
<1> QED BY <1>1 DEF Unsaved, Idle

CrashInv == MarksFirst /\ CrashLoadsOldOrNew

LEMMA CrashNext ==
  ASSUME SettingsInv, CrashInv, [SettingsNext]_vars
  PROVE  CrashInv'
<1>0. MarksFirst /\ CrashLoadsOldOrNew BY DEF CrashInv
<1>1. CASE PutKey
  <2>1. ~Idle /\ flash' = Written /\ UNCHANGED <<settings, before>> BY <1>1, PutWrites
  <2>2. ASSUME NEW k \in Keys \ {"clkMHz"} PROVE Booted(flash')[k] \in {before'[k], settings'[k]}
    <3>1. Booted(Written)[k] = IF k = PutOrder[saving.at] THEN settings[k] ELSE Booted(flash)[k]
      BY <1>0, <2>1, PutLoads
    <3>2. Booted(flash)[k] \in {before[k], settings[k]} BY <1>0, <2>1 DEF CrashLoadsOldOrNew
    <3> QED BY <2>1, <3>1, <3>2
  <2> QED BY <1>0, <1>1, <2>2, MarksPut DEF CrashInv, CrashLoadsOldOrNew
<1>2. CASE Command
  BY <1>0, <1>2, CommandBegins DEF CrashInv, CrashLoadsOldOrNew, MarksFirst
<1>3. CASE Car \/ Disable
  BY <1>0, <1>3, UnsavedSteps DEF CrashInv, CrashLoadsOldOrNew, MarksFirst
<1>4. CASE Restart
  <2>1. Idle' /\ UNCHANGED flash BY <1>4 DEF Restart, Idle
  <2> QED BY <1>0, <2>1 DEF CrashInv, CrashLoadsOldOrNew, MarksFirst
<1>5. CASE UNCHANGED vars
  BY <1>0, <1>5 DEF CrashInv, CrashLoadsOldOrNew, MarksFirst, vars, Idle
<1> QED BY <1>1, <1>2, <1>3, <1>4, <1>5 DEF SettingsNext

LEMMA CrashInit == SettingsInit => CrashInv
<1> SUFFICES ASSUME SettingsInit PROVE CrashInv OBVIOUS
<1>1. Idle BY DEF SettingsInit, Idle
<1>2. DOMAIN flash = {} \/ DOMAIN flash = Stored BY DEF SettingsInit, FirstFlash
<1>3. Marks \subseteq Stored BY MarkIndices, OrderLength DEF Marks, Stored
<1> QED BY <1>1, <1>2, <1>3 DEF CrashInv, CrashLoadsOldOrNew, MarksFirst

\* A reset in the middle of saveSettings loads each setting as it was or as it
\* was to become, although the puts are not atomic together, on an empty flash
\* and on one that earlier interrupted saves left.
THEOREM CrashedSaveLoads == SettingsSpec => []CrashLoadsOldOrNew
<1>1. SettingsInit => CrashInv BY CrashInit
<1>2. SettingsInv /\ [SettingsNext]_vars => SettingsInv' BY InvNext
<1>3. SettingsInv /\ CrashInv /\ [SettingsNext]_vars => CrashInv' BY CrashNext
<1>4. CrashInv => CrashLoadsOldOrNew BY DEF CrashInv
<1> QED BY <1>1, <1>2, <1>3, <1>4, InvInit, PTL DEF SettingsSpec

(***************************************************************************)
(* Pins.  While a save runs, the flash may still hold the old pin beside   *)
(* the new value; that is harmless because a value can only move away from *)
(* a pin by a command that chose it.                                       *)
(***************************************************************************)
Chose(k, v) == v \in chosen[k] \/ (k = "sp" /\ v = 1)

PinInv ==
  /\ DOMAIN chosen = Pinnable
  /\ \A k \in Pinnable :
       /\ IsPinned(settings, k) => Chose(k, settings[k])
       /\ IsPinned(Booted(flash), k) => Chose(k, Booted(flash)[k]) /\ Chose(k, settings[k])

PinKey(k) == CASE k = "variant" -> "vAuto" [] k = "sp" -> "spPin"
               [] k = "offset" -> "offPin" [] OTHER -> "bleDistC"

LEMMA PinKeyFacts ==
  ASSUME NEW k \in Pinnable
  PROVE  /\ k \in Keys \ {"clkMHz"} /\ PinKey(k) \in Keys \ {"clkMHz"}
         /\ PinKey(k) # k /\ PinKey(k) \notin {"variant", "sp", "offset", "fsd"}
         /\ \A s, t : s[PinKey(k)] = t[PinKey(k)] => (IsPinned(s, k) <=> IsPinned(t, k))
         /\ ~IsPinned(Default, k)
<1>1. /\ PutOrder[3] = "variant" /\ PutOrder[6] = "sp" /\ PutOrder[8] = "offset"
      /\ PutOrder[42] = "bleDistO" /\ {3, 6, 8, 42} \subseteq DOMAIN PutOrder
  BY DEF PutOrder
<1>2. k \in Keys BY <1>1 DEF Keys, Stored, Marks, Pinnable
<1>3. PinKey(k) \in {"vAuto", "spPin", "offPin", "bleDistC"} BY DEF PinKey
<1>4. PinKey(k) \in Keys BY <1>3, PinKeys
<1>5. \A s, t : s[PinKey(k)] = t[PinKey(k)] => (IsPinned(s, k) <=> IsPinned(t, k))
  BY DEF PinKey, IsPinned, Pinnable
<1>6. ~IsPinned(Default, k)
  <2>1. Default["vAuto"] = 1 /\ Default["spPin"] = 0 /\ Default["offPin"] = 0 /\ Default["bleDistC"] = 0
    BY PinKeys DEF Default
  <2> QED BY <2>1 DEF IsPinned, Pinnable
<1> QED BY <1>2, <1>3, <1>4, <1>5, <1>6 DEF Pinnable, PinKey

\* What a command may do to a setting that can be pinned.
Moves(k) ==
  /\ chosen[k] \subseteq chosen'[k]
  /\ settings'[k] = settings[k] \/ settings'[k] \in chosen'[k]
  /\ IsPinned(settings', k) => IsPinned(settings, k) \/ settings'[k] \in chosen'[k]

\* Settings that neither can be pinned nor are pins.
Plain == Keys \ (Pinnable \cup {PinKey(k) : k \in Pinnable})

LEMMA PlainUpdate ==
  ASSUME DOMAIN settings = Keys, NEW a, a \notin Keys \/ a \in Plain, NEW x,
         settings' = [settings EXCEPT ![a] = x], UNCHANGED chosen, NEW k \in Pinnable
  PROVE  Moves(k)
<1>1. k \in Keys /\ PinKey(k) \in Keys BY PinKeyFacts
<1>2. a # k /\ a # PinKey(k) BY <1>1 DEF Plain
<1>3. settings'[k] = settings[k] /\ settings'[PinKey(k)] = settings[PinKey(k)]
  BY <1>1, <1>2
<1> QED BY <1>3, PinKeyFacts DEF Moves

LEMMA UnpinUpdate ==
  ASSUME DOMAIN settings = Keys, NEW a \in Pinnable, NEW x,
         settings' = [settings EXCEPT ![PinKey(a)] = x],
         ~IsPinned(settings', a), UNCHANGED chosen, NEW k \in Pinnable
  PROVE  Moves(k)
<1>1. k \in Keys /\ PinKey(k) \in Keys /\ k # PinKey(a)
  BY PinKeyFacts DEF Pinnable, PinKey
<1>2. settings'[k] = settings[k] BY <1>1
<1>3. CASE k = a BY <1>2, <1>3 DEF Moves
<1>4. CASE k # a
  <2>1. PinKey(k) # PinKey(a) BY <1>4 DEF Pinnable, PinKey
  <2>2. settings'[PinKey(k)] = settings[PinKey(k)] BY <1>1, <2>1
  <2> QED BY <1>2, <2>2, PinKeyFacts DEF Moves
<1> QED BY <1>3, <1>4

LEMMA PinUpdate ==
  ASSUME DOMAIN settings = Keys, DOMAIN chosen = Pinnable, NEW a \in Pinnable, NEW v, NEW x,
         settings' = [settings EXCEPT ![a] = v, ![PinKey(a)] = x],
         Pins(a, v), NEW k \in Pinnable
  PROVE  Moves(k)
<1>1. k \in Keys /\ PinKey(k) \in Keys /\ a \in Keys /\ a # PinKey(a) /\ k # PinKey(a)
      /\ a # PinKey(k)
  BY PinKeyFacts DEF Pinnable, PinKey
<1>2. chosen' = [chosen EXCEPT ![a] = @ \cup {v}] BY DEF Pins
<1>3. CASE k = a
  <2>1. settings'[k] = v BY <1>1, <1>3, TwoUpdates
  <2>2. chosen'[k] = chosen[k] \cup {v} BY <1>2, <1>3
  <2> QED BY <2>1, <2>2 DEF Moves
<1>4. CASE k # a
  <2>1. PinKey(k) # PinKey(a) BY <1>4 DEF Pinnable, PinKey
  <2>2. settings'[k] = settings[k] /\ settings'[PinKey(k)] = settings[PinKey(k)]
    BY <1>1, <1>4, <2>1, TwoUpdates
  <2>3. chosen'[k] = chosen[k] BY <1>2, <1>4
  <2>4. IsPinned(settings', k) <=> IsPinned(settings, k)
    <3>1. \A s, t : s[PinKey(k)] = t[PinKey(k)] => (IsPinned(s, k) <=> IsPinned(t, k))
      BY PinKeyFacts
    <3> QED BY <2>2, <3>1
  <2> QED BY <2>2, <2>3, <2>4 DEF Moves
<1> QED BY <1>3, <1>4

LEMMA PlainKeys ==
  \A j \in Toggles \cup {"nagMode", "clkMHz", "drvM", "mqttP", "mqttI", "mqttH", "bleDistM",
                         "bleDistF"} :
    j \notin Keys \/ j \in Plain
<1> DEFINE Pins4 == {"vAuto", "spPin", "offPin", "bleDistC"}
           Free(j) == j \notin Pinnable /\ j \notin Pins4
<1>1. \A j \in EarlyToggles : Free(j) BY DEF EarlyToggles, Pinnable
<1>2. \A j \in LateToggles : Free(j) BY DEF LateToggles, Pinnable
<1>3. \A j \in {"nagMode", "clkMHz", "drvM", "mqttP", "mqttI", "mqttH", "bleDistM", "bleDistF"} :
        Free(j)
  BY DEF Pinnable
<1>4. \A k \in Pinnable : PinKey(k) \in Pins4 BY DEF PinKey
<1> HIDE DEF Pins4
<1> QED BY <1>1, <1>2, <1>3, <1>4 DEF Plain, Toggles

LEMMA CommandMoves ==
  ASSUME Command, DOMAIN settings = Keys, DOMAIN chosen = Pinnable
  PROVE  DOMAIN chosen' = Pinnable /\ \A k \in Pinnable : Moves(k)
<1> DEFINE Fine == DOMAIN chosen' = Pinnable /\ \A k \in Pinnable : Moves(k)
<1>1. ASSUME NEW a, a \notin Keys \/ a \in Plain, NEW x,
             settings' = [settings EXCEPT ![a] = x], UNCHANGED chosen
      PROVE  Fine
  BY <1>1, PlainUpdate
<1>2. ASSUME NEW a \in Pinnable, NEW v, NEW x,
             settings' = [settings EXCEPT ![a] = v, ![PinKey(a)] = x], Pins(a, v)
      PROVE  Fine
  <2>1. DOMAIN chosen' = Pinnable BY <1>2 DEF Pins
  <2> QED BY <1>2, <2>1, PinUpdate
<1>3. ASSUME NEW a \in Pinnable, NEW x, settings' = [settings EXCEPT ![PinKey(a)] = x],
             ~IsPinned(settings', a), UNCHANGED chosen
      PROVE  Fine
  BY <1>3, UnpinUpdate
<1>4. {"variant", "sp", "offset", "bleDistO"} = Pinnable BY DEF Pinnable
<1>5. /\ PinKey("variant") = "vAuto" /\ PinKey("sp") = "spPin"
      /\ PinKey("offset") = "offPin" /\ PinKey("bleDistO") = "bleDistC"
  BY DEF PinKey
<1>6. ASSUME SettingCmd PROVE Fine
  <2>1. ASSUME NEW k \in Toggles, NEW on \in {0, 1}, ToggleCmd(k, on) PROVE Fine
    BY <1>1, <2>1, PlainKeys DEF ToggleCmd
  <2>2. ASSUME NEW n, ProfileCmd(n) PROVE Fine
    BY <1>2, <1>4, <1>5, <2>2 DEF ProfileCmd
  <2>3. CASE ProfileLockCmd
    <3>1. "spPin" \in Keys /\ "sp" \in Keys BY <1>4, PinKeys, PinKeyFacts
    <3>2. settings' = [settings EXCEPT !["sp"] = settings["sp"], !["spPin"] = 1]
      BY <2>3, <3>1 DEF ProfileLockCmd
    <3> QED BY <1>2, <1>4, <1>5, <2>3, <3>2 DEF ProfileLockCmd
  <2>4. CASE ProfileAutoCmd
    <3>1. settings' = [settings EXCEPT !["spPin"] = 0] /\ UNCHANGED chosen BY <2>4 DEF ProfileAutoCmd
    <3>2. settings'["spPin"] = 0 BY <3>1, PinKeys
    <3>3. ~IsPinned(settings', "sp") BY <3>2 DEF IsPinned
    <3> QED BY <1>3, <1>4, <1>5, <3>1, <3>3
  <2>5. ASSUME NEW n, OffsetCmd(n) PROVE Fine
    BY <1>2, <1>4, <1>5, <2>5 DEF OffsetCmd
  <2>6. CASE OffsetAutoCmd
    <3>1. settings' = [settings EXCEPT !["offPin"] = 0] /\ UNCHANGED chosen BY <2>6 DEF OffsetAutoCmd
    <3>2. settings'["offPin"] = 0 BY <3>1, PinKeys
    <3>3. ~IsPinned(settings', "offset") BY <3>2 DEF IsPinned
    <3> QED BY <1>3, <1>4, <1>5, <3>1, <3>3
  <2>7. ASSUME NEW m, NagModeCmd(m) PROVE Fine
    BY <1>1, <2>7, PlainKeys DEF NagModeCmd
  <2>8. ASSUME NEW v, VariantCmd(v) PROVE Fine
    BY <1>2, <1>4, <1>5, <2>8 DEF VariantCmd
  <2>9. CASE VariantAutoCmd
    <3>1. settings' = [settings EXCEPT !["vAuto"] = 1] /\ UNCHANGED chosen BY <2>9 DEF VariantAutoCmd
    <3>2. settings'["vAuto"] = 1 BY <3>1, PinKeys
    <3>3. ~IsPinned(settings', "variant") BY <3>2 DEF IsPinned
    <3> QED BY <1>3, <1>4, <1>5, <3>1, <3>3
  <2>10. ASSUME NEW c, ClockCmd(c) PROVE Fine
    BY <1>1, <2>10, PlainKeys DEF ClockCmd
  <2>11. ASSUME NEW m, DriveModeCmd(m) PROVE Fine
    BY <1>1, <2>11, PlainKeys DEF DriveModeCmd
  <2>12. ASSUME NEW k \in {"mqttP", "mqttI", "mqttH"}, NEW v, MqttCmd(k, v) PROVE Fine
    BY <1>1, <2>12, PlainKeys DEF MqttCmd
  <2>13. ASSUME NEW k \in {"bleDistM", "bleDistF"}, NEW v, DistanceCmd(k, v) PROVE Fine
    BY <1>1, <2>13, PlainKeys DEF DistanceCmd
  <2>14. ASSUME NEW v, CalibrateCmd(v) PROVE Fine
    BY <1>2, <1>4, <1>5, <2>14 DEF CalibrateCmd
  <2> HIDE DEF Fine
  <2> QED
    BY <1>6, <2>1, <2>2, <2>3, <2>4, <2>5, <2>6, <2>7, <2>8, <2>9, <2>10, <2>11, <2>12,
       <2>13, <2>14 DEF SettingCmd
<1>7. ASSUME NEW name, NEW v, VolatileCmd(name, v) PROVE Fine
  BY <1>7 DEF VolatileCmd, Moves
<1> HIDE DEF Fine
<1>8. Fine BY <1>6, <1>7 DEF Command
<1> QED BY <1>8 DEF Fine

\* Frames and the kill switch leave the pins alone and move only settings that
\* may differ from the flash.
LEMMA UnsavedMoves ==
  ASSUME SettingsInv, Car \/ Disable
  PROVE  /\ \A k \in {"vAuto", "spPin", "offPin", "bleDistC"} : settings'[k] = settings[k]
         /\ \A k \in Keys : settings'[k] = settings[k] \/ MayMove(k)'
<1>1. DOMAIN settings = Keys BY DEF SettingsInv
<1>2. CASE FollowDistance
  <2>1. PICK p : TrackProfile(p) BY <1>2 DEF FollowDistance
  <2> QED BY <1>1, <2>1, TrackProfileMoves
<1>3. CASE \E steps : FsdMux0(steps) BY <1>1, <1>3, FsdMux0Moves
<1>4. ASSUME NEW hw, CarConfig(hw) PROVE settings' = settings \/ (settings["vAuto"] = 1 /\ \E v : settings' = Switched(v))
  BY <1>4 DEF CarConfig
<1>5. CASE InferVariant
  <2>1. PICK v : settings' = Switched(v) BY <1>5 DEF InferVariant
  <2> QED BY <1>1, <1>5, <2>1, SwitchedMoves DEF InferVariant
<1>6. CASE \E seen : Control(seen) BY <1>6 DEF Control
<1>7. CASE Disable
  <2>1. settings' = [settings EXCEPT !["fsd"] = 0] BY <1>7 DEF Disable
  <2>2. "fsd" \in Keys => MayMove("fsd")' BY <1>1, <2>1 DEF MayMove
  <2> QED BY <1>1, <2>1, <2>2
<1>8. CASE \E hw : CarConfig(hw) BY <1>1, <1>4, <1>8, SwitchedMoves
<1> QED BY <1>2, <1>3, <1>5, <1>6, <1>7, <1>8 DEF Car

LEMMA PinCommand ==
  ASSUME SettingsInv, PinInv, Command
  PROVE  PinInv'
<1>1. DOMAIN settings = Keys /\ DOMAIN chosen = Pinnable BY DEF SettingsInv, PinInv
<1>2. DOMAIN chosen' = Pinnable /\ \A k \in Pinnable : Moves(k) BY <1>1, CommandMoves
<1>3. flash' = flash BY CommandBegins
<1>4. ASSUME NEW k \in Pinnable
      PROVE  /\ IsPinned(settings', k) => Chose(k, settings[k])'
             /\ IsPinned(Booted(flash), k) => Chose(k, Booted(flash)[k])' /\ Chose(k, settings[k])'
  <2>1. /\ chosen[k] \subseteq chosen'[k]
        /\ settings'[k] = settings[k] \/ settings'[k] \in chosen'[k]
        /\ IsPinned(settings', k) => IsPinned(settings, k) \/ settings'[k] \in chosen'[k]
    BY <1>2 DEF Moves
  <2>2. /\ IsPinned(settings, k) => Chose(k, settings[k])
        /\ IsPinned(Booted(flash), k) => Chose(k, Booted(flash)[k]) /\ Chose(k, settings[k])
    BY DEF PinInv
  <2>3. Chose(k, settings[k]) => Chose(k, settings[k])' BY <2>1 DEF Chose
  <2>4. Chose(k, Booted(flash)[k]) => Chose(k, Booted(flash)[k])' BY <1>3, <2>1 DEF Chose
  <2>5. settings'[k] \in chosen'[k] => Chose(k, settings[k])' BY DEF Chose
  <2> QED BY <2>1, <2>2, <2>3, <2>4, <2>5
<1>5. Booted(flash)' = Booted(flash) BY <1>3 DEF Booted, Loaded
<1> QED BY <1>2, <1>4, <1>5 DEF PinInv

LEMMA PinUnsaved ==
  ASSUME SettingsInv, SettingsInv', PinInv, Car \/ Disable
  PROVE  PinInv'
<1>1. Idle' /\ UNCHANGED <<flash, chosen>> BY UnsavedSteps
<1>2. DOMAIN chosen' = Pinnable BY <1>1 DEF PinInv
<1>3. ASSUME NEW k \in Pinnable
      PROVE  /\ IsPinned(settings', k) => Chose(k, settings'[k])
             /\ IsPinned(Booted(flash), k) => Chose(k, Booted(flash)[k]) /\ Chose(k, settings'[k])
  <2>1. /\ k \in Keys /\ PinKey(k) \in Keys \ {"clkMHz"}
        /\ PinKey(k) \in {"vAuto", "spPin", "offPin", "bleDistC"}
    BY PinKeyFacts DEF PinKey
  <2>2. settings'[PinKey(k)] = settings[PinKey(k)] BY <2>1, UnsavedMoves
  <2>3. \A s, t : s[PinKey(k)] = t[PinKey(k)] => (IsPinned(s, k) <=> IsPinned(t, k))
    BY PinKeyFacts
  <2>4. IsPinned(settings', k) <=> IsPinned(settings, k) BY <2>2, <2>3
  <2>5. settings'[k] = settings[k] \/ MayMove(k)' BY <2>1, UnsavedMoves
  <2>6. MayMove(k)' => ~IsPinned(settings', k) \/ (k = "sp" /\ settings'[k] = 1)
    BY DEF MayMove, Pinnable
  <2>7. Same(PinKey(k))' BY <1>1, <2>1 DEF SettingsInv
  <2>8. ~MayDiffer(PinKey(k))' BY <2>1 DEF MayDiffer, MayMove
  <2>9. Booted(flash)[PinKey(k)] = settings'[PinKey(k)] BY <1>1, <2>7, <2>8 DEF Same
  <2>10. IsPinned(Booted(flash), k) <=> IsPinned(settings', k) BY <2>3, <2>9
  <2>11. IsPinned(settings, k) => Chose(k, settings[k]) BY DEF PinInv
  <2>12. IsPinned(Booted(flash), k) => Chose(k, Booted(flash)[k]) BY DEF PinInv
  <2> QED BY <2>4, <2>5, <2>6, <2>10, <2>11, <2>12 DEF Chose
<1> QED BY <1>1, <1>2, <1>3 DEF PinInv, Chose

\* The value of a setting is put before its pin.
LEMMA PinsComeLater ==
  ASSUME NEW k \in Pinnable
  PROVE  \E i \in 1..Len(PutOrder) :
           /\ PutOrder[i] = k
           /\ \A j \in 1..i : PutOrder[j] # PinKey(k)
<1>1. CASE k = "variant"
  <2>1. PutOrder[3] = "variant" /\ 3 \in 1..Len(PutOrder)
        /\ \A j \in 1..3 : PutOrder[j] # "vAuto"
    BY DEF PutOrder
  <2> QED BY <1>1, <2>1 DEF PinKey
<1>2. CASE k = "sp"
  <2>1. PutOrder[6] = "sp" /\ 6 \in 1..Len(PutOrder) /\ \A j \in 1..6 : PutOrder[j] # "spPin"
    BY DEF PutOrder
  <2> QED BY <1>2, <2>1 DEF PinKey
<1>3. CASE k = "offset"
  <2>1. PutOrder[8] = "offset" /\ 8 \in 1..Len(PutOrder)
        /\ \A j \in 1..8 : PutOrder[j] # "offPin"
    BY DEF PutOrder
  <2> QED BY <1>3, <2>1 DEF PinKey
<1>4. CASE k = "bleDistO"
  <2>1. PutOrder[42] = "bleDistO" /\ 42 \in 1..Len(PutOrder)
        /\ \A j \in 1..42 : PutOrder[j] # "bleDistC"
    BY DEF PutOrder
  <2> QED BY <1>4, <2>1 DEF PinKey
<1> QED BY <1>1, <1>2, <1>3, <1>4 DEF Pinnable

LEMMA ValueBeforePin ==
  ASSUME SettingsInv, ~Idle, NEW k \in Pinnable, PutOrder[saving.at] = PinKey(k)
  PROVE  Booted(flash)[k] = settings[k]
<1>1. PICK i \in 1..Len(PutOrder) : PutOrder[i] = k /\ \A j \in 1..i : PutOrder[j] # PinKey(k)
  BY PinsComeLater
<1>2. saving.at \in 1..Len(PutOrder) BY OrderLength DEF SettingsInv, Idle
<1>3. i < saving.at BY <1>1, <1>2, OrderLength
<1>4. k \in DOMAIN flash /\ flash[k] = ValueOf(k) BY <1>1, <1>3 DEF SettingsInv, Passed
<1>5. k \in Keys \ {"clkMHz"} /\ PinKey(k) \notin Marks BY PinKeyFacts DEF Keys
<1>6. Booted(flash)[k] = flash[k] BY <1>4, <1>5, MarksStored, MarkedLoads
<1> QED BY <1>4, <1>5, <1>6 DEF ValueOf, Keys

\* The put that ends a save leaves every setting in force in the flash.
LEMMA LastPutStoresAll ==
  ASSUME SettingsInv, ~Idle, NextPut(saving.at, Written) = 0, NEW k \in Keys \ {"clkMHz"}
  PROVE  Booted(Written)[k] = settings[k]
<1>1. saving.at \in 1..Len(PutOrder) /\ Len(PutOrder) \in Nat
  BY OrderLength DEF SettingsInv, Idle
<1>2. ASSUME NEW i \in 1..Len(PutOrder)
      PROVE  PutOrder[i] \in DOMAIN Written /\ Written[PutOrder[i]] = ValueOf(PutOrder[i])
  <2>1. CASE i < saving.at
    <3>1. PutOrder[i] \in DOMAIN flash /\ flash[PutOrder[i]] = ValueOf(PutOrder[i])
      BY <2>1 DEF SettingsInv, Passed
    <3> QED BY <3>1 DEF Written
  <2>2. CASE i = saving.at BY <2>2 DEF Written
  <2>3. CASE i > saving.at
    <3>1. i \in (saving.at + 1)..Len(PutOrder) BY <1>1, <2>3
    <3> QED BY <1>1, <3>1, NextPutIsLater
  <2> QED BY <1>1, <2>1, <2>2, <2>3
<1>3. \A j \in Stored : j \in DOMAIN Written /\ Written[j] = ValueOf(j)
  BY <1>2, OrderLength DEF Stored
<1>4. k \in Stored /\ k \notin Marks BY DEF Keys
<1>5. Booted(Written)[k] = Written[k] BY <1>3, FullFlashLoads
<1> QED BY <1>3, <1>4, <1>5 DEF ValueOf

\* A put writes a value beside a pin that is still old, or a pin whose value
\* was written before it.
LEMMA PinPut ==
  ASSUME SettingsInv, SettingsInv', MarksFirst, PinInv, PutKey
  PROVE  PinInv'
<1> DEFINE key == PutOrder[saving.at]
<1>1. ~Idle /\ flash' = Written /\ settings' = settings BY PutWrites
<1>2. \/ UNCHANGED chosen
      \/ chosen' = [j \in Pinnable |-> IF IsPinned(settings, j) THEN {settings[j]} ELSE {}]
         /\ NextPut(saving.at, Written) = 0
  <2>1. saving.at \in 1..Len(PutOrder) BY <1>1, OrderLength DEF SettingsInv, Idle
  <2>2. NextPut(saving.at, Written) = 0 \/ NextPut(saving.at, Written) \in (saving.at + 1)..Len(PutOrder)
    BY <2>1, NextPutIsLater
  <2>3. \/ NextPut(saving.at, Written) > 0 /\ UNCHANGED chosen
        \/ /\ ~(NextPut(saving.at, Written) > 0)
           /\ chosen' = [j \in Pinnable |-> IF IsPinned(settings, j) THEN {settings[j]} ELSE {}]
    BY Zenon DEF PutKey, Written
  <2> QED BY <2>1, <2>2, <2>3, OrderLength
<1>3. UNCHANGED chosen => PinInv'
  <2> SUFFICES ASSUME UNCHANGED chosen PROVE PinInv' OBVIOUS
  <2>1. ASSUME NEW k \in Pinnable
        PROVE  /\ IsPinned(settings, k) => Chose(k, settings[k])
               /\ IsPinned(Booted(Written), k)
                    => Chose(k, Booted(Written)[k]) /\ Chose(k, settings[k])
    <3>1. /\ k \in Keys \ {"clkMHz"} /\ PinKey(k) \in Keys \ {"clkMHz"} /\ PinKey(k) # k
          /\ \A s, t : s[PinKey(k)] = t[PinKey(k)] => (IsPinned(s, k) <=> IsPinned(t, k))
      BY PinKeyFacts
    <3>2. /\ Booted(Written)[k] = IF k = key THEN settings[k] ELSE Booted(flash)[k]
          /\ Booted(Written)[PinKey(k)]
               = IF PinKey(k) = key THEN settings[PinKey(k)] ELSE Booted(flash)[PinKey(k)]
      BY <1>1, <3>1, PutLoads
    <3>3. /\ IsPinned(settings, k) => Chose(k, settings[k])
          /\ IsPinned(Booted(flash), k) => Chose(k, Booted(flash)[k]) /\ Chose(k, settings[k])
      BY DEF PinInv
    <3>4. CASE key = PinKey(k)
      <4>1. Booted(flash)[k] = settings[k] BY <1>1, <3>4, ValueBeforePin
      <4>2. Booted(Written)[k] = settings[k] BY <3>2, <4>1
      <4>3. IsPinned(Booted(Written), k) <=> IsPinned(settings, k) BY <3>1, <3>2, <3>4
      <4> QED BY <3>3, <4>2, <4>3
    <3>5. CASE key # PinKey(k)
      <4>1. IsPinned(Booted(Written), k) <=> IsPinned(Booted(flash), k) BY <3>1, <3>2, <3>5
      <4>2. Booted(Written)[k] \in {settings[k], Booted(flash)[k]} BY <3>2
      <4> QED BY <3>3, <4>1, <4>2
    <3> QED BY <3>4, <3>5
  <2>2. DOMAIN chosen' = Pinnable BY DEF PinInv
  <2>3. Booted(flash)' = Booted(Written) BY <1>1 DEF Booted, Loaded
  <2>4. \A k, v : Chose(k, v) <=> (v \in chosen'[k] \/ (k = "sp" /\ v = 1)) BY DEF Chose
  <2> QED BY <1>1, <2>1, <2>2, <2>3, <2>4 DEF PinInv, Chose
<1>4. ASSUME NextPut(saving.at, Written) = 0,
             chosen' = [j \in Pinnable |-> IF IsPinned(settings, j) THEN {settings[j]} ELSE {}]
      PROVE  PinInv'
  <2>1. ASSUME NEW k \in Keys \ {"clkMHz"} PROVE Booted(Written)[k] = settings[k]
    BY <1>1, <1>4, <2>1, LastPutStoresAll
  <2>2. ASSUME NEW k \in Pinnable
        PROVE  /\ IsPinned(settings, k) => settings[k] \in chosen'[k]
               /\ IsPinned(Booted(Written), k) <=> IsPinned(settings, k)
               /\ Booted(Written)[k] = settings[k]
    <3>1. /\ k \in Keys \ {"clkMHz"} /\ PinKey(k) \in Keys \ {"clkMHz"}
          /\ \A s, t : s[PinKey(k)] = t[PinKey(k)] => (IsPinned(s, k) <=> IsPinned(t, k))
      BY PinKeyFacts
    <3>2. IsPinned(settings, k) => settings[k] \in chosen'[k] BY <1>4
    <3> QED BY <2>1, <3>1, <3>2
  <2>3. DOMAIN chosen' = Pinnable BY <1>4
  <2>4. Booted(flash)' = Booted(Written) BY <1>1 DEF Booted, Loaded
  <2>5. ASSUME NEW k \in Pinnable
        PROVE  /\ IsPinned(settings', k) => Chose(k, settings[k])'
               /\ IsPinned(Booted(Written), k)
                    => /\ Booted(Written)[k] \in chosen'[k]
                       /\ Chose(k, settings[k])'
    BY <1>1, <2>2 DEF Chose
  <2> QED BY <2>3, <2>4, <2>5 DEF PinInv, Chose
<1> QED BY <1>2, <1>3, <1>4

LEMMA PinInit == SettingsInit => PinInv
<1> SUFFICES ASSUME SettingsInit PROVE PinInv OBVIOUS
<1>1. settings = Booted(flash) /\ DOMAIN chosen = Pinnable BY DEF SettingsInit
<1>2. ASSUME NEW k \in Keys \ {"clkMHz"} PROVE Booted(flash)[k] = Default[k]
  <2>1. CASE DOMAIN flash = {} BY <2>1, MarksAloneLoadDefaults
  <2>2. CASE flash = [j \in Stored |-> IF j \in Marks THEN 1 ELSE Default[j]]
    <3>1. Booted(flash)[k] = flash[k] BY <2>2, FullFlashLoads
    <3> QED BY <2>2, <3>1 DEF Keys
  <2> QED BY <2>1, <2>2 DEF SettingsInit, FirstFlash
<1>3. ASSUME NEW k \in Pinnable PROVE ~IsPinned(Booted(flash), k)
  <2>1. /\ PinKey(k) \in Keys \ {"clkMHz"} /\ ~IsPinned(Default, k)
        /\ \A s, t : s[PinKey(k)] = t[PinKey(k)] => (IsPinned(s, k) <=> IsPinned(t, k))
    BY PinKeyFacts
  <2>2. Booted(flash)[PinKey(k)] = Default[PinKey(k)] BY <1>2, <2>1
  <2> QED BY <2>1, <2>2
<1> QED BY <1>1, <1>3 DEF PinInv

LEMMA PinNext ==
  ASSUME SettingsInv, SettingsInv', MarksFirst, PinInv, [SettingsNext]_vars
  PROVE  PinInv'
<1>1. CASE PutKey BY <1>1, PinPut
<1>2. CASE Command BY <1>2, PinCommand
<1>3. CASE Car \/ Disable BY <1>3, PinUnsaved
<1>4. CASE Restart
  <2>1. settings' = Booted(flash) /\ flash' = flash /\ chosen' = chosen BY <1>4 DEF Restart
  <2>2. Booted(flash)' = Booted(flash) BY <2>1 DEF Booted, Loaded
  <2> QED BY <2>1, <2>2 DEF PinInv, Chose
<1>5. CASE UNCHANGED vars
  <2>1. settings' = settings /\ flash' = flash /\ chosen' = chosen BY <1>5 DEF vars
  <2>2. Booted(flash)' = Booted(flash) BY <2>1 DEF Booted, Loaded
  <2> QED BY <2>1, <2>2 DEF PinInv, Chose
<1> QED BY <1>1, <1>2, <1>3, <1>4, <1>5 DEF SettingsNext

\* No sequence of commands, frames and resets, not even one that cuts a save
\* between a value and its pin, leaves the board with a pin on a value that its
\* client did not choose.
THEOREM PinnedStaysChosen == SettingsSpec => []PinnedIsChosen
<1>1. SettingsInv /\ [SettingsNext]_vars => SettingsInv' BY InvNext
<1>2. SettingsInit => CrashInv BY CrashInit
<1>3. SettingsInv /\ CrashInv /\ [SettingsNext]_vars => CrashInv' BY CrashNext
<1>4. SettingsInv /\ SettingsInv' /\ CrashInv /\ PinInv /\ [SettingsNext]_vars => PinInv'
  BY PinNext DEF CrashInv
<1>5. PinInv => PinnedIsChosen BY DEF PinInv, PinnedIsChosen, Authentic, Chose
<1> QED BY <1>1, <1>2, <1>3, <1>4, <1>5, InvInit, PinInit, PTL DEF SettingsSpec
===============================================================================
