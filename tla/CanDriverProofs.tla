--------------------------- MODULE CanDriverProofs ---------------------------
(***************************************************************************)
(* The acceptance filters follow the settings, for every set of buses, any *)
(* number of filter slots and receive buffers, and every client.           *)
(*                                                                         *)
(* Two facts about the filter lists carry the proof: the programmed ids    *)
(* are ids, and learning the hardware only shortens the list at its end,   *)
(* so that filters programmed before it stay good.                         *)
(*                                                                         *)
(* One-shot mode stays wanted because a controller that is taken away      *)
(* leaves it in normal mode.                                               *)
(***************************************************************************)
EXTENDS CanDriver, SequenceTheorems, TLAPS

FilterInv == set \in Settings /\ FiltersFollow

\* The lists the filters are made of are sequences of ids.
LEMMA ListsOfIds ==
  ASSUME NEW s
  PROVE  /\ FeatureIds(s) \in Seq(Ids) /\ DiscriminatorIds(s) \in Seq(Ids)
         /\ ChassisBase \in Seq(Ids) /\ VehicleIds \in Seq(Ids) /\ BodyIds \in Seq(Ids)
<1>1. ASSUME NEW id \in Ids, NEW w PROVE Only(id, w) \in Seq(Ids)
  BY <1>1 DEF Only
<1>2. /\ "LEGACY_STALK" \in Ids /\ "LEGACY_FSD_MUX" \in Ids /\ "ISA_SPEED" \in Ids
      /\ "FOLLOW_DIST" \in Ids /\ "FSD_MUX" \in Ids
  BY DEF Ids
<1>3. FeatureIds(s) \in Seq(Ids)
  BY <1>1, <1>2, ConcatProperties, Zenon DEF FeatureIds
<1>4. DiscriminatorIds(s) \in Seq(Ids)
  BY <1>1, <1>2, ConcatProperties, Zenon DEF DiscriminatorIds
<1>5. ChassisBase \in Seq(Ids)
  BY DEF ChassisBase, Ids
<1>6. VehicleIds \in Seq(Ids)
  BY DEF VehicleIds, Ids
<1>7. BodyIds \in Seq(Ids)
  BY DEF BodyIds, Ids
<1> QED BY <1>3, <1>4, <1>5, <1>6, <1>7

\* What the slots take of a list they also take of a longer one.
LEMMA SlotsOfPrefix ==
  ASSUME NEW p \in Seq(Ids), NEW q \in Seq(Ids), NEW n \in Nat
  PROVE  {p[i] : i \in {j \in 1..Len(p) : j <= n}}
           \subseteq {(p \o q)[i] : i \in {j \in 1..Len(p \o q) : j <= n}}
<1> SUFFICES ASSUME NEW i \in 1..Len(p), i <= n
             PROVE  \E k \in {j \in 1..Len(p \o q) : j <= n} : p[i] = (p \o q)[k]
  OBVIOUS
<1>1. Len(p \o q) = Len(p) + Len(q) /\ (p \o q)[i] = p[i]
  BY ConcatProperties
<1> QED BY <1>1

LEMMA ProgrammedIds ==
  ASSUME NEW b \in Slots, NEW s
  PROVE  Programmed(b, s) \subseteq Ids
<1>1. FilterIds(b, s) \in Seq(Ids)
  <2>1. CASE b = Chassis
    BY <2>1, ListsOfIds, ConcatProperties DEF FilterIds
  <2>2. CASE b = Vehicle
    BY <2>2, ListsOfIds DEF FilterIds, Chassis, Vehicle
  <2>3. CASE b = Body
    BY <2>3, ListsOfIds DEF FilterIds, Chassis, Vehicle, Body
  <2> QED BY <2>1, <2>2, <2>3 DEF Slots, Chassis, Vehicle, Body
<1>2. \A i \in 1..Len(FilterIds(b, s)) : FilterIds(b, s)[i] \in Ids
  BY <1>1
<1> QED BY <1>2 DEF Programmed

\* Only these fields of the settings matter to the filters.
LEMMA ProgrammedSame ==
  ASSUME NEW b \in Slots, NEW s, NEW t,
         s.raw = t.raw, s.variant = t.variant, s.fsd = t.fsd, s.bit19 = t.bit19,
         s.isa = t.isa, s.auto = t.auto, s.hwKnown = t.hwKnown
  PROVE  Programmed(b, s) = Programmed(b, t)
BY DEF Programmed, FilterIds, FeatureIds, DiscriminatorIds

\* Once the hardware is known the discriminators leave the end of the list.
LEMMA ProgrammedKnown ==
  ASSUME NEW b \in Slots, NEW s, NEW t,
         s.raw = t.raw, s.variant = t.variant, s.fsd = t.fsd, s.bit19 = t.bit19,
         s.isa = t.isa, t.hwKnown
  PROVE  Programmed(b, t) \subseteq Programmed(b, s)
<1>1. FeatureIds(s) = FeatureIds(t)
  BY DEF FeatureIds
<1>2. CASE t.raw
  BY <1>2 DEF Programmed
<1>3. CASE ~t.raw /\ b # Chassis
  <2>1. FilterIds(b, s) = FilterIds(b, t)
    BY <1>3 DEF FilterIds, Slots, Chassis, Vehicle, Body
  <2> QED BY <1>3, <2>1 DEF Programmed
<1>4. CASE ~t.raw /\ b = Chassis
  <2> DEFINE p == ChassisBase \o FeatureIds(t)
  <2>1. p \in Seq(Ids) /\ DiscriminatorIds(s) \in Seq(Ids)
    BY ListsOfIds, ConcatProperties
  <2>2. DiscriminatorIds(t) = <<>>
    BY DEF DiscriminatorIds, Only
  <2>3. FilterIds(b, s) = ChassisBase \o FeatureIds(s) \o DiscriminatorIds(s)
    BY <1>4 DEF FilterIds, Chassis, Vehicle, Body
  <2>4. FilterIds(b, t) = ChassisBase \o FeatureIds(t) \o DiscriminatorIds(t)
    BY <1>4 DEF FilterIds, Chassis, Vehicle, Body
  <2>5. FilterIds(b, s) = p \o DiscriminatorIds(s)
    BY <1>1, <2>3
  <2>6. FilterIds(b, t) = p \o <<>>
    BY <2>2, <2>4
  <2> HIDE DEF p
  <2>7. FilterIds(b, t) = p
    BY <2>1, <2>6, ConcatEmptySeq
  <2>8. FilterSlots \in Nat
    BY DriverAssumption
  <2> QED BY <1>4, <2>1, <2>5, <2>7, <2>8, SlotsOfPrefix DEF Programmed
<1> QED BY <1>2, <1>3, <1>4

\* Filters left alone follow settings that call for no further id.
LEMMA FiltersRest ==
  ASSUME NEW s \in Settings, FiltersFollow, set' = s,
         \A b \in Slots : Programmed(b, s) \subseteq Programmed(b, set),
         UNCHANGED <<up, hw, disabled>>
  PROVE  FiltersFollow'
<1>1. Active \subseteq Slots
  BY DriverAssumption
<1>2. SUFFICES ASSUME ~disabled', NEW b \in Active, up'[b]
               PROVE  Programmed(b, set') \subseteq hw'[b]
  BY Zenon DEF FiltersFollow
<1>3. ~disabled /\ up[b] /\ hw'[b] = hw[b]
  BY <1>2
<1>4. Programmed(b, set) \subseteq hw[b]
  BY <1>3, Zenon DEF FiltersFollow
<1>5. Programmed(b, s) \subseteq Programmed(b, set)
  BY <1>1
<1> QED BY <1>3, <1>4, <1>5

\* Filters just applied follow the settings they were applied for.
LEMMA FiltersApplied ==
  ASSUME NEW s, NEW isUp, NEW filters, NEW modes,
         ApplyFilters(s, isUp, filters, modes), set' = s,
         \A b \in Slots : up'[b] => isUp[b]
  PROVE  FiltersFollow'
<1>1. \A b \in Slots : isUp[b] => hw'[b] = Programmed(b, s)
  BY DEF ApplyFilters
<1>2. \A b \in Active : up'[b] => hw'[b] = Programmed(b, set')
  BY <1>1, DriverAssumption
<1> QED BY <1>2 DEF FiltersFollow

LEMMA FiltersReinit ==
  ASSUME FilterInv, NEW good \in Answering, ReinitBuses(good), UNCHANGED set
  PROVE  FilterInv'
<1> DEFINE isUp == [b \in Slots |-> b \in good]
<1>1. up' = isUp /\ ApplyFilters(set, isUp, AllIds, Normal)
  BY Zenon DEF ReinitBuses
<1>2. set' \in Settings
  BY DEF FilterInv
<1> HIDE DEF isUp
<1>3. FiltersFollow'
  BY <1>1, FiltersApplied
<1> QED BY <1>2, <1>3 DEF FilterInv

LEMMA FilterInit == DriverInit => FilterInv
<1> SUFFICES ASSUME DriverInit PROVE FilterInv
  OBVIOUS
<1>1. session \in Sessions /\ set = session.saved /\ set \in Settings
  BY DriverAssumption DEF DriverInit
<1>2. PICK good \in Answering :
        /\ up = [b \in Slots |-> b \in good]
        /\ hw = [b \in Slots |-> IF b \in good THEN Programmed(b, session.saved) ELSE Ids]
  BY Zenon DEF DriverInit
<1>3. \A b \in Active : up[b] => Programmed(b, set) \subseteq hw[b]
  BY <1>1, <1>2, DriverAssumption
<1> QED BY <1>1, <1>3 DEF FilterInv, FiltersFollow

\* Nothing the filters depend on, and no filter, changes.
LEMMA FiltersUntouched ==
  ASSUME FilterInv, UNCHANGED <<set, up, hw, disabled>>
  PROVE  FilterInv'
<1>1. set' \in Settings
  BY DEF FilterInv
<1>2. FiltersFollow'
  BY FiltersRest DEF FilterInv
<1> QED BY <1>1, <1>2 DEF FilterInv

LEMMA FilterCommand ==
  ASSUME FilterInv, Command
  PROVE  FilterInv'
<1>0. set \in Settings /\ FiltersFollow
  BY DEF FilterInv
<1>1. ASSUME NEW cmd, NEW s \in Settings, Apply(cmd, s) PROVE FilterInv'
  <2>1. set' = s /\ ApplyFilters(s, up, hw, mode) /\ up' = up
    BY <1>1 DEF Apply
  <2>2. FiltersFollow'
    BY <2>1, FiltersApplied
  <2> QED BY <2>1, <2>2 DEF FilterInv
<1>2. ASSUME NEW on \in BOOLEAN
      PROVE  /\ [set EXCEPT !.raw = on] \in Settings /\ [set EXCEPT !.fsd = on] \in Settings
             /\ [set EXCEPT !.bit19 = on] \in Settings /\ [set EXCEPT !.isa = on] \in Settings
             /\ [set EXCEPT !.oneShot = on] \in Settings
  BY <1>0, <1>2 DEF Settings
<1>3. ASSUME NEW on \in BOOLEAN, SingleShotCmd(on) PROVE FilterInv'
  <2> DEFINE s == [set EXCEPT !.oneShot = on]
  <2>1. set' = s /\ UNCHANGED <<up, hw, disabled>>
    BY <1>3 DEF SingleShotCmd
  <2>2. s \in Settings
    BY <1>2
  <2>3. \A b \in Slots : Programmed(b, s) = Programmed(b, set)
    BY <1>0, ProgrammedSame DEF Settings
  <2> HIDE DEF s
  <2>4. FiltersFollow'
    BY <1>0, <2>1, <2>2, <2>3, FiltersRest
  <2> QED BY <2>1, <2>2, <2>4 DEF FilterInv
<1>4. [set EXCEPT !.auto = TRUE] \in Settings
  BY <1>0 DEF Settings
<1>5. ASSUME NEW v \in Variants PROVE [set EXCEPT !.variant = v, !.auto = FALSE] \in Settings
  BY <1>0, <1>5 DEF Settings
<1>6. ASSUME NEW good \in Answering, CanClockCmd(good) PROVE FilterInv'
  BY <1>0, <1>6, FiltersReinit DEF CanClockCmd
<1>7. ASSUME Disable PROVE FilterInv'
  <2>1. set' = [set EXCEPT !.fsd = FALSE] /\ disabled' = TRUE
    BY <1>7 DEF Disable
  <2>2. FiltersFollow'
    BY <2>1, Zenon DEF FiltersFollow
  <2> QED BY <1>2, <2>1, <2>2 DEF FilterInv
<1> QED BY <1>1, <1>2, <1>3, <1>4, <1>5, <1>6, <1>7
        DEF Command, RawCmd, FsdCmd, NagCmd, IsaCmd, VariantAutoCmd, VariantCmd

LEMMA FilterLoop ==
  ASSUME FilterInv, DriverLoop
  PROVE  FilterInv'
<1>0. set \in Settings /\ FiltersFollow
  BY DEF FilterInv
<1>1. ASSUME BeginPass \/ SkipBus \/ FoundEmpty \/ ClearFlag \/ ReadNone PROVE FilterInv'
  BY <1>1, FiltersUntouched
     DEF BeginPass, SkipBus, FoundEmpty, ClearFlag, ReadNone, hardware
<1>2. ASSUME NEW good \in Answering, StandbyReinit(good) PROVE FilterInv'
  <2>1. CASE ReinitDue
    BY <1>0, <1>2, <2>1, FiltersReinit DEF StandbyReinit
  <2>2. CASE ~ReinitDue
    BY <1>2, <2>2, FiltersUntouched DEF StandbyReinit, hardware
  <2> QED BY <2>1, <2>2
<1>3. ASSUME NEW due \in BOOLEAN, NEW good \in Answering, PollErrors(due, good)
      PROVE  FilterInv'
  <2> DEFINE off == {b \in Active : due /\ up[b] /\ ctl[b] = "busoff"}
  <2>1. /\ set' = set /\ up' = up /\ disabled' = disabled
        /\ hw' = [b \in Slots |-> IF b \in off THEN Ids ELSE hw[b]]
    BY <1>3 DEF PollErrors, Recovered
  <2> HIDE DEF off
  <2>2. SUFFICES ASSUME ~disabled', NEW b \in Active, up'[b]
                 PROVE  Programmed(b, set) \subseteq hw'[b]
    BY <1>0, <2>1, Zenon DEF FilterInv, FiltersFollow
  <2>3. Programmed(b, set) \subseteq hw[b]
    BY <1>0, <2>1, <2>2 DEF FiltersFollow
  <2>4. b \in Slots
    BY DriverAssumption
  <2> QED BY <2>1, <2>3, <2>4, ProgrammedIds
<1>4. ASSUME ReadFrame PROVE FilterInv'
  <2>1. up' = up /\ HandleMessage(at)
    BY <1>4 DEF ReadFrame
  <2>2. CASE Plain
    BY <2>1, <2>2, FiltersUntouched DEF Plain
  <2>3. ASSUME NEW v \in Variants, InferVariant(v) PROVE FilterInv'
    <3>1. set' = [set EXCEPT !.variant = v] /\ ApplyFilters(set', up, hw, mode)
      BY <2>3 DEF InferVariant
    <3>2. set' \in Settings
      BY <1>0, <3>1 DEF Settings
    <3> QED BY <2>1, <3>1, <3>2, FiltersApplied DEF FilterInv
  <2>4. ASSUME NEW v \in Variants, CarConfig(v) PROVE FilterInv'
    <3>1. set' = [set EXCEPT !.hwKnown = TRUE, !.variant = IF set.auto THEN v ELSE @]
      BY <2>4 DEF CarConfig
    <3>2. set' \in Settings
      BY <1>0, <2>4, <3>1 DEF Settings
    <3>3. CASE set'.variant # set.variant
      <4>1. ApplyFilters(set', up, hw, mode)
        BY <2>4, <3>3 DEF CarConfig
      <4> QED BY <2>1, <3>2, <4>1, FiltersApplied DEF FilterInv
    <3>4. CASE set'.variant = set.variant
      <4>1. UNCHANGED <<hw, disabled>>
        BY <2>4, <3>4 DEF CarConfig
      <4>2. /\ set'.raw = set.raw /\ set'.fsd = set.fsd /\ set'.bit19 = set.bit19
            /\ set'.isa = set.isa /\ set'.hwKnown
        BY <1>0, <3>1 DEF Settings
      <4>3. \A b \in Slots : Programmed(b, set') \subseteq Programmed(b, set)
        BY <3>4, <4>2, ProgrammedKnown
      <4>4. FiltersFollow'
        BY <1>0, <2>1, <3>2, <4>1, <4>3, FiltersRest
      <4> QED BY <3>2, <4>4 DEF FilterInv
    <3> QED BY <3>3, <3>4
  <2> QED BY <2>1, <2>2, <2>3, <2>4 DEF HandleMessage
<1> QED BY <1>1, <1>2, <1>3, <1>4 DEF DriverLoop

LEMMA FilterStep == FilterInv /\ [DriverNext]_driverVars => FilterInv'
<1> SUFFICES ASSUME FilterInv, [DriverNext]_driverVars PROVE FilterInv'
  OBVIOUS
<1>1. CASE Command
  BY <1>1, FilterCommand
<1>2. CASE DriverLoop
  BY <1>2, FilterLoop
<1>3. CASE Environment
  BY <1>3, FiltersUntouched DEF Environment, Arrive, GoBusOff, ComeBack
<1>4. CASE UNCHANGED driverVars
  BY <1>4, FiltersUntouched DEF driverVars, hardware
<1> QED BY <1>1, <1>2, <1>3, <1>4 DEF DriverNext

\* Every available controller accepts at least the frames the settings call for,
\* after any sequence of commands, detected variants, bus-off resets and
\* reinitialisations, until the kill switch leaves the filters behind
\* (filters.h, driverPollBusErrors, driverReinit, handleDisable).
THEOREM FiltersAlwaysFollow == DriverSpec => []FiltersFollow
<1>1. FilterInv => FiltersFollow
  BY DEF FilterInv
<1> QED BY <1>1, FilterInit, FilterStep, PTL DEF DriverSpec

-----------------------------------------------------------------------------
(* One-shot mode.  singleshot:off passes over controllers that are not      *)
(* available, so the mode stays wanted only because none of those is left   *)
(* in one-shot mode: whatever takes a controller away sets it to normal.    *)

OneShotInv ==
  set \in Settings /\ \A b \in Slots : mode[b] = "oneshot" => up[b] /\ set.oneShot

LEMMA OneShotInit == DriverInit => OneShotInv
<1> SUFFICES ASSUME DriverInit PROVE OneShotInv
  OBVIOUS
<1>1. set = session.saved /\ set \in Settings
  BY DriverAssumption DEF DriverInit
<1>2. PICK good \in Answering :
        /\ up = [b \in Slots |-> b \in good]
        /\ mode = [b \in Slots |-> IF b \in good /\ session.saved.oneShot THEN "oneshot" ELSE "normal"]
  BY Zenon DEF DriverInit
<1> QED BY <1>1, <1>2 DEF OneShotInv

\* Filters just applied leave every controller that had its mode in normal mode.
LEMMA OneShotApplied ==
  ASSUME NEW s \in Settings, NEW filters, NEW modes, NEW isUp,
         ApplyFilters(s, isUp, filters, modes), set' = s,
         \A b \in Slots : modes[b] = "oneshot" => isUp[b]
  PROVE  OneShotInv'
<1>1. \A b \in Slots : mode'[b] = (IF isUp[b] THEN "normal" ELSE modes[b])
  BY DEF ApplyFilters
<1>2. \A b \in Slots : mode'[b] # "oneshot"
  BY <1>1
<1> QED BY <1>2 DEF OneShotInv

LEMMA OneShotReinit ==
  ASSUME OneShotInv, NEW good, ReinitBuses(good), UNCHANGED set
  PROVE  OneShotInv'
<1>1. ApplyFilters(set, [b \in Slots |-> b \in good], AllIds, Normal)
  BY Zenon DEF ReinitBuses
<1>2. \A b \in Slots : Normal[b] # "oneshot"
  BY DEF Normal
<1> QED BY <1>1, <1>2, OneShotApplied DEF OneShotInv

\* The modes, the settings and the availability stay as they are.
LEMMA OneShotUntouched ==
  ASSUME OneShotInv, UNCHANGED <<set, up, mode>>
  PROVE  OneShotInv'
BY DEF OneShotInv

LEMMA OneShotCommand ==
  ASSUME OneShotInv, Command
  PROVE  OneShotInv'
<1>0. set \in Settings /\ \A b \in Slots : mode[b] = "oneshot" => up[b] /\ set.oneShot
  BY DEF OneShotInv
<1>1. ASSUME NEW cmd, NEW s \in Settings, Apply(cmd, s) PROVE OneShotInv'
  BY <1>0, <1>1, OneShotApplied DEF Apply
<1>2. ASSUME NEW on \in BOOLEAN
      PROVE  /\ [set EXCEPT !.raw = on] \in Settings /\ [set EXCEPT !.fsd = on] \in Settings
             /\ [set EXCEPT !.bit19 = on] \in Settings /\ [set EXCEPT !.isa = on] \in Settings
  BY <1>0, <1>2 DEF Settings
<1>3. ASSUME NEW on \in BOOLEAN, SingleShotCmd(on) PROVE OneShotInv'
  <2>1. set' = [set EXCEPT !.oneShot = on] /\ up' = up
    BY <1>3 DEF SingleShotCmd
  <2>2. set' \in Settings /\ set'.oneShot = on
    BY <1>0, <1>3, <2>1 DEF Settings
  <2>3. \A b \in Slots :
          mode'[b] = (IF ~up[b] THEN mode[b] ELSE IF on THEN "oneshot" ELSE "normal")
    BY <1>3 DEF SingleShotCmd
  <2>4. \A b \in Slots : mode'[b] = "oneshot" => up[b] /\ on
    BY <1>0, <2>3
  <2> QED BY <2>1, <2>2, <2>4 DEF OneShotInv
<1>4. [set EXCEPT !.auto = TRUE] \in Settings
  BY <1>0 DEF Settings
<1>5. ASSUME NEW v \in Variants PROVE [set EXCEPT !.variant = v, !.auto = FALSE] \in Settings
  BY <1>0, <1>5 DEF Settings
<1>6. ASSUME NEW good \in Answering, CanClockCmd(good) PROVE OneShotInv'
  BY <1>6, OneShotReinit DEF CanClockCmd
<1>7. ASSUME Disable PROVE OneShotInv'
  <2>1. set' = [set EXCEPT !.fsd = FALSE] /\ UNCHANGED <<up, mode>>
    BY <1>7 DEF Disable, hardware
  <2>2. set' \in Settings /\ set'.oneShot = set.oneShot
    BY <1>0, <2>1 DEF Settings
  <2> QED BY <1>0, <2>1, <2>2 DEF OneShotInv
<1> QED BY <1>1, <1>2, <1>3, <1>4, <1>5, <1>6, <1>7
        DEF Command, RawCmd, FsdCmd, NagCmd, IsaCmd, VariantAutoCmd, VariantCmd

LEMMA OneShotLoop ==
  ASSUME OneShotInv, DriverLoop
  PROVE  OneShotInv'
<1>0. set \in Settings /\ \A b \in Slots : mode[b] = "oneshot" => up[b] /\ set.oneShot
  BY DEF OneShotInv
<1>1. ASSUME BeginPass \/ SkipBus \/ FoundEmpty \/ ClearFlag \/ ReadNone PROVE OneShotInv'
  BY <1>1, OneShotUntouched
     DEF BeginPass, SkipBus, FoundEmpty, ClearFlag, ReadNone, hardware
<1>2. ASSUME NEW good \in Answering, StandbyReinit(good) PROVE OneShotInv'
  <2>1. CASE ReinitDue
    BY <1>2, <2>1, OneShotReinit DEF StandbyReinit
  <2>2. CASE ~ReinitDue
    BY <1>2, <2>2, OneShotUntouched DEF StandbyReinit, hardware
  <2> QED BY <2>1, <2>2
<1>3. ASSUME NEW due \in BOOLEAN, NEW good \in Answering, PollErrors(due, good)
      PROVE  OneShotInv'
  <2> DEFINE off == {b \in Active : due /\ up[b] /\ ctl[b] = "busoff"}
  <2>1. /\ set' = set /\ up' = up
        /\ mode' = [b \in Slots |-> IF b \in off THEN "normal" ELSE mode[b]]
    BY <1>3 DEF PollErrors, Recovered
  <2> HIDE DEF off
  <2> QED BY <1>0, <2>1 DEF OneShotInv
<1>4. ASSUME ReadFrame PROVE OneShotInv'
  <2>1. up' = up /\ HandleMessage(at)
    BY <1>4 DEF ReadFrame
  <2>2. CASE Plain
    BY <2>1, <2>2, OneShotUntouched DEF Plain
  <2>3. ASSUME NEW v \in Variants, InferVariant(v) PROVE OneShotInv'
    <3>1. set' = [set EXCEPT !.variant = v] /\ ApplyFilters(set', up, hw, mode)
      BY <2>3 DEF InferVariant
    <3>2. set' \in Settings
      BY <1>0, <3>1 DEF Settings
    <3> QED BY <1>0, <3>1, <3>2, OneShotApplied
  <2>4. ASSUME NEW v \in Variants, CarConfig(v) PROVE OneShotInv'
    <3>1. set' = [set EXCEPT !.hwKnown = TRUE, !.variant = IF set.auto THEN v ELSE @]
      BY <2>4 DEF CarConfig
    <3>2. set' \in Settings /\ set'.oneShot = set.oneShot
      BY <1>0, <2>4, <3>1 DEF Settings
    <3>3. ApplyFilters(set', up, hw, mode) \/ mode' = mode
      BY <2>4 DEF CarConfig
    <3>4. CASE ApplyFilters(set', up, hw, mode)
      BY <1>0, <3>2, <3>4, OneShotApplied
    <3>5. CASE mode' = mode
      BY <1>0, <2>1, <3>2, <3>5 DEF OneShotInv
    <3> QED BY <3>3, <3>4, <3>5
  <2> QED BY <2>1, <2>2, <2>3, <2>4 DEF HandleMessage
<1> QED BY <1>1, <1>2, <1>3, <1>4 DEF DriverLoop

LEMMA OneShotStep == OneShotInv /\ [DriverNext]_driverVars => OneShotInv'
<1> SUFFICES ASSUME OneShotInv, [DriverNext]_driverVars PROVE OneShotInv'
  OBVIOUS
<1>1. CASE Command
  BY <1>1, OneShotCommand
<1>2. CASE DriverLoop
  BY <1>2, OneShotLoop
<1>3. CASE Environment
  BY <1>3, OneShotUntouched DEF Environment, Arrive, GoBusOff, ComeBack
<1>4. CASE UNCHANGED driverVars
  BY <1>4, OneShotUntouched DEF driverVars, hardware
<1> QED BY <1>1, <1>2, <1>3, <1>4 DEF DriverNext

\* After singleshot:off no controller is left in one-shot mode, one that failed,
\* was reset or reinitialised meanwhile included (driverSetOneShot, driverReinit,
\* applyFilters).
THEOREM OneShotStaysWanted == DriverSpec => []OneShotIsWanted
<1>1. OneShotInv => OneShotIsWanted
  BY DriverAssumption DEF OneShotInv, OneShotIsWanted
<1> QED BY <1>1, OneShotInit, OneShotStep, PTL DEF DriverSpec
===============================================================================
