------------------------- MODULE CartridgeChangeProofs -------------------------
(***************************************************************************)
(* Proofs about CartridgeChange for any thresholds, levels, names and jobs *)
(* and any number of faults: the type invariant, that no new chip is taken *)
(* over in silence, that nothing is reported of a cartridge that stays,    *)
(* and that a replacement is reported by the third complete poll.          *)
(***************************************************************************)
EXTENDS CartridgeChange, FiniteSetTheorems, TLAPS

-----------------------------------------------------------------------------
(* The identities: what is remembered is not newer than what a poll can read, and a chip
   that is remembered without a slot is told or the history is blind. *)

Newest == First(seen, cart)
SlotChip == IF prev.slot = None THEN None ELSE prev.slot.chip

ChipsKnown ==
    /\ seen # None => seen <= cart
    /\ told # None => told <= Newest
    /\ prev.ids # None => prev.ids <= Newest /\ told # None
    /\ SlotChip # None => SlotChip <= Newest /\ told # None
    /\ prev.slot = None /\ prev.ids # None => blind \/ prev.ids <= told

(* The histories of NoFalseAlarm, and what holds in them. *)

Harmless ==
    /\ changes = 0 /\ budget["resets"] = 0 /\ ~misled
    /\ budget["up"] <= (IF legacy THEN 0 ELSE 2) /\ budget["name"] <= 1
    /\ budget["reboots"] = 0 \/ budget["zero"] <= 1

OneCartridge ==
    cart = 1 /\ seen \in {None, 1} /\ prev.ids \in {None, 1} /\ SlotChip \in {None, 1}

\* No counter is remembered higher than it is.
CountersBehind ==
    /\ prev.total # None => prev.total <= ctr
    /\ prev.ref # None => prev.ref <= ctr
    /\ prev.supply # None => prev.supply <= supply
    /\ prev.slot # None =>
          /\ prev.total # None
          /\ prev.slot.page # None => prev.slot.page <= ctr
          /\ prev.slot.supply # None => prev.slot.supply <= supply

\* A total of 0 behind the page of the slot was misread at a reboot.
ZeroAtReboot ==
    /\ rebooted => budget["reboots"] > 0
    /\ prev.slot # None /\ prev.slot.page # None /\ prev.total # None =>
          \/ prev.slot.page = 0 \/ prev.total > 0
          \/ budget["reboots"] > 0 /\ budget["zero"] > 0

\* A name that waits is the wrong one.
NamesRight ==
    /\ prev.name \in {None, name}
    /\ prev.namePend # None => prev.namePend # name /\ budget["name"] > 0

\* No level is remembered lower than it is; a window is a reading that was too high.
LevelsAbove ==
    /\ StoredLevel # None => StoredLevel >= level
    /\ legacy => prev.refill = None
    /\ ~legacy /\ prev.pend # None =>
          /\ prev.pend.new > level + 1 /\ budget["up"] > 0
          /\ prev.pend.hits = 1 => budget["up"] > 1

Calm ==
    Harmless => /\ OneCartridge /\ CountersBehind /\ ZeroAtReboot /\ NamesRight /\ LevelsAbove
                /\ alarms = 0

(* The clock of ReportedInTime: the jump is there to be seen, then waits in a window that
   is confirmed by every complete poll. *)

Window == IF legacy THEN prev.refill ELSE prev.pend

JumpAhead ==
    /\ StoredLevel # None /\ Full - StoredLevel > 20
    /\ legacy \/ prev.pend = None
    /\ prev.total # None /\ prev.total <= ctr /\ ctr + spare < prev.total + FewPages

JumpWaits ==
    /\ Window # None /\ Window.new = Full /\ Window.hits = quiet - 1
    /\ legacy => prev.toner = Full
    /\ prev.total # None /\ Window.total <= ctr /\ ctr + spare < Window.total + FewPages

Clock ==
    /\ quiet < 3
    /\ quiet > -1 => level = Full /\ spare < FewPages
    /\ quiet = 0 => JumpAhead
    /\ quiet > 0 => JumpWaits

IInv == TypeOK /\ ChipsKnown /\ NoChipTakenOver /\ Calm /\ Clock

-----------------------------------------------------------------------------
(* The constants. *)
LEMMA Constants ==
    /\ {NoisePages, FewPages, OverLimit, ZeroGuard, ResetMax, Band, TolMax} \subseteq Nat
    /\ Jobs \subseteq Nat /\ Levels \subseteq Nat
    /\ None \notin Int /\ None \notin Names /\ None \notin Slots /\ None \notin Windows
    /\ "resets" \in Faults /\ "up" \in Faults /\ "name" \in Faults /\ "zero" \in Faults
    /\ "reboots" \in Faults /\ "changes" \in Faults /\ "restarts" \in Faults
  BY CartridgeAssumption DEF Faults

LEMMA FullIsHighest == Full \in Levels /\ \A m \in Levels : m <= Full
  BY CartridgeAssumption DEF Full

(* What a poll can read. *)
LEMMA ReadingFacts ==
    ASSUME TypeOK, NEW r \in Readings
    PROVE  /\ r.total \in {ctr, 0, None} /\ r.level \in OrNone(Levels)
           /\ r.chip \in {cart, Newest, None} /\ r.supply \in {supply, None}
           /\ r.name \in OrNone(Names) /\ r.others \in BOOLEAN
           /\ Newest \in Nat /\ cart \in Nat /\ supply \in Nat /\ ctr \in Nat
  BY DEF Readings, May, TypeOK, OrNone, Newest, First

LEMMA ReadingTypes ==
    ASSUME TypeOK, NEW r \in Readings
    PROVE  /\ r.total \in OrNone(Nat) /\ r.level \in OrNone(Levels) /\ r.chip \in OrNone(Nat)
           /\ r.supply \in OrNone(Nat) /\ r.name \in OrNone(Names)
  BY ReadingFacts DEF OrNone

(* The fields of the snapshot. *)
PrevType ==
    [total : OrNone(Nat), toner : OrNone(Levels), ids : OrNone(Nat),
     supply : OrNone(Nat), slot : OrNone(Slots), name : OrNone(Names),
     namePend : OrNone(Names), lvl : OrNone(Levels), pend : OrNone(Windows),
     refill : OrNone(Windows), ref : OrNone(Nat), over : OrNone(Nat \X Int), up : BOOLEAN]

LEMMA SlotTypes ==
    ASSUME TypeOK, NEW r \in Readings
    PROVE  OldSlot \in Slots /\ NewSlot(r) \in Slots /\ SlotAfter(r) \in OrNone(Slots)
  <1>1. OldSlot \in Slots
    BY DEF TypeOK, OldSlot, First, OrNone, Slots
  <1>2. NewSlot(r) \in Slots
    BY <1>1, ReadingTypes DEF NewSlot, First, OrNone, Slots
  <1> QED BY <1>1, <1>2 DEF SlotAfter, OrNone, TypeOK

LEMMA BaseTypes ==
    ASSUME TypeOK, NEW r \in Readings, Readable(r)
    PROVE  /\ r.total \in Nat /\ prev.total \in Nat /\ Base(r) \in Nat /\ Delta(r) \in Int
           /\ Steady(r) \in OrNone(Levels)
           /\ Base(r) >= prev.total /\ (Base(r) = prev.total \/ Base(r) = prev.ref)
  <1>1. r.total \in Nat /\ prev.total \in Nat /\ prev.ref \in OrNone(Nat)
    BY ReadingTypes DEF TypeOK, Readable, OrNone
  <1>2. /\ Base(r) \in Nat /\ Base(r) >= prev.total
        /\ (Base(r) = prev.total \/ Base(r) = prev.ref)
    BY <1>1, Constants DEF Base, Above, HasRef, OrNone
  <1>3. Delta(r) \in Int
    BY <1>1, <1>2 DEF Delta
  <1>4. Steady(r) \in OrNone(Levels)
    BY ReadingTypes DEF Steady, TypeOK
  <1> QED BY <1>1, <1>2, <1>3, <1>4

LEMMA WindowTypes ==
    ASSUME TypeOK, NEW r \in Readings, Readable(r)
    PROVE  JumpAfter(r) \in OrNone(Windows) /\ RefillAfter(r) \in OrNone(Windows)
  <1>1. /\ r.total \in Nat /\ r.level \in OrNone(Levels) /\ Steady(r) \in OrNone(Levels)
        /\ prev.toner \in OrNone(Levels) /\ prev.lvl \in OrNone(Levels)
        /\ prev.pend \in OrNone(Windows) /\ prev.refill \in OrNone(Windows)
    BY BaseTypes, ReadingTypes DEF TypeOK
  <1>2. JumpAfter(r) \in OrNone(Windows)
    BY <1>1 DEF JumpAfter, OrNone, Windows
  <1>3. ASSUME RefillHolds(r), ~Refilled(r), legacy, Steady(r) # None
        PROVE  [prev.refill EXCEPT !.hits = @ + 1] \in Windows
    <2>1. prev.refill \in Windows /\ prev.refill.hits = 0
      BY <1>1, <1>3 DEF RefillHolds, Refilled, OrNone, Windows
    <2> QED BY <2>1 DEF Windows
  <1>4. ASSUME Steady(r) # None, prev.toner # None
        PROVE  [prev |-> prev.toner, new |-> Steady(r), total |-> r.total, hits |-> 0] \in Windows
    BY <1>1, <1>4 DEF OrNone, Windows
  <1>5. RefillAfter(r) \in OrNone(Windows)
    BY <1>1, <1>3, <1>4 DEF RefillAfter, Both, OrNone
  <1> QED BY <1>2, <1>5

LEMMA NameTypes ==
    ASSUME TypeOK, NEW r \in Readings
    PROVE  NamePendAfter(r) \in OrNone(Names)
  BY ReadingTypes DEF NamePendAfter, NameDiffers, Both, OrNone, TypeOK

(* Every exit saves a snapshot of the type. *)
LEMMA PrevTypes ==
    ASSUME TypeOK, NEW r \in Readings,
           \/ ReadError(r) \/ Baseline(r) \/ Anomaly(r) \/ CounterReset(r)
           \/ Restored(r) \/ Overflow(r) \/ FullPoll(r)
    PROVE  prev' \in PrevType
  <1> DEFINE Ty == TypeOK
  <1>1. prev \in PrevType
    BY DEF TypeOK, PrevType
  <1>2. /\ r.total \in OrNone(Nat) /\ r.level \in OrNone(Levels) /\ r.chip \in OrNone(Nat)
        /\ r.supply \in OrNone(Nat) /\ r.name \in OrNone(Names) /\ None \in OrNone(Levels)
    BY ReadingTypes DEF OrNone
  <1>3. RawToner(r) \in OrNone(Levels)
    BY <1>1, <1>2 DEF RawToner, First, PrevType, OrNone
  <1>4. CASE ReadError(r)
    BY <1>1, <1>2, <1>3, <1>4 DEF ReadError, PrevType
  <1>5. CASE Baseline(r)
    <2>1. First(r.name, prev.name) \in OrNone(Names)
      BY <1>1, <1>2 DEF First, PrevType
    <2> DEFINE ton == IF legacy THEN r.level ELSE None
               slo == IF Candidate(r)
                      THEN [chip |-> r.chip, name |-> r.name, supply |-> r.supply,
                            page |-> r.total, level |-> r.level]
                      ELSE IF r.others THEN None ELSE prev.slot
    <2>2. ton \in OrNone(Levels)
      BY <1>2
    <2>3. [chip |-> r.chip, name |-> r.name, supply |-> r.supply,
           page |-> r.total, level |-> r.level] \in Slots
      BY <1>2 DEF Slots
    <2>4. slo \in OrNone(Slots)
      BY <1>1, <2>3 DEF OrNone, PrevType
    <2>5. None \in OrNone(Windows) /\ None \in OrNone(Nat \X Int)
      BY DEF OrNone
    <2>6. prev' = [prev EXCEPT
              !.total = r.total, !.toner = ton, !.ids = r.chip, !.supply = r.supply,
              !.lvl = r.level, !.name = First(r.name, prev.name), !.refill = None,
              !.over = None, !.up = TRUE, !.slot = slo]
      BY <1>5 DEF Baseline
    <2> HIDE DEF ton, slo
    <2> QED BY <1>1, <1>2, <2>1, <2>2, <2>4, <2>5, <2>6 DEF PrevType
  <1>6. CASE Anomaly(r)
    BY <1>1, <1>3, <1>6 DEF Anomaly, PrevType
  <1>7. CASE CounterReset(r)
    <2>1. (IF legacy THEN r.level ELSE None) \in OrNone(Levels)
      BY <1>2
    <2> QED BY <1>1, <1>2, <1>7, <2>1 DEF CounterReset, PrevType
  <1>8. CASE Restored(r)
    <2>1. None \in OrNone(Nat) /\ None \in OrNone(Nat \X Int)
      BY DEF OrNone
    <2> QED BY <1>1, <1>2, <1>3, <1>8, <2>1 DEF Restored, PrevType
  <1>9. CASE Overflow(r)
    <2>1. Readable(r)
      BY <1>9 DEF Overflow, Examined
    <2>2. /\ r.total \in Nat /\ Base(r) \in Nat /\ Delta(r) \in Int /\ Steady(r) \in OrNone(Levels)
      BY <2>1, BaseTypes
    <2>3. Filtered(r) \in OrNone(Levels)
      BY <1>1, <2>2 DEF Filtered, First, PrevType, OrNone
    <2>4. SharedPend(r) \in OrNone(Windows) /\ SharedNamePend(r) \in OrNone(Names)
      BY <1>1, NameTypes DEF SharedPend, SharedNamePend, PrevType, OrNone
    <2> DEFINE confirmed == prev.over = <<r.total, Delta(r)>>
               tot == IF confirmed THEN r.total ELSE Base(r)
               ov == IF confirmed THEN None ELSE <<r.total, Delta(r)>>
    <2>5. tot \in OrNone(Nat) /\ ov \in OrNone(Nat \X Int)
      BY <2>2 DEF OrNone
    <2>6. prev' = [prev EXCEPT !.total = tot, !.over = ov, !.toner = Filtered(r), !.up = TRUE,
                               !.pend = SharedPend(r), !.namePend = SharedNamePend(r)]
      BY <1>9 DEF Overflow
    <2> HIDE DEF tot, ov
    <2> QED BY <1>1, <2>3, <2>4, <2>5, <2>6 DEF PrevType
  <1>10. CASE FullPoll(r)
    <2>1. Readable(r)
      BY <1>10 DEF FullPoll, Examined
    <2>2. r.total \in OrNone(Nat) /\ Steady(r) \in OrNone(Levels)
      BY <2>1, <1>2, BaseTypes
    <2>3. Filtered(r) \in OrNone(Levels)
      BY <1>1, <2>2 DEF Filtered, First, PrevType, OrNone
    <2>4. JumpAfter(r) \in OrNone(Windows) /\ RefillAfter(r) \in OrNone(Windows)
      BY <2>1, WindowTypes
    <2>5. NamePendAfter(r) \in OrNone(Names) /\ SlotAfter(r) \in OrNone(Slots)
      BY NameTypes, SlotTypes
    <2>6. First(r.chip, prev.ids) \in OrNone(Nat) /\ First(r.supply, prev.supply) \in OrNone(Nat)
      BY <1>1, <1>2 DEF First, PrevType
    <2>7. (IF NamePendAfter(r) = None THEN First(r.name, prev.name) ELSE prev.name) \in OrNone(Names)
      BY <1>1, <1>2 DEF First, PrevType
    <2>8. LevelAfter(r) \in OrNone(Levels) /\ RefLeft(r) \in OrNone(Nat) /\ None \in OrNone(Nat \X Int)
      BY <1>1, <1>2 DEF LevelAfter, RefLeft, First, OrNone, PrevType
    <2> QED BY <1>10, <2>2, <2>3, <2>4, <2>5, <2>6, <2>7, <2>8 DEF FullPoll, PrevType
  <1> QED BY <1>4, <1>5, <1>6, <1>7, <1>8, <1>9, <1>10

Exits(r) == ReadError(r) \/ Baseline(r) \/ Anomaly(r) \/ CounterReset(r)
            \/ Restored(r) \/ Overflow(r) \/ FullPoll(r)

LEMMA PollExits == ASSUME Poll PROVE \E r \in Readings : Exits(r)
  BY DEF Poll, Exits

LEMMA ExitsPoll == ASSUME NEW r \in Readings, Exits(r) PROVE Polled(r)
  BY DEF Exits, ReadError, Baseline, Anomaly, CounterReset, Restored, Overflow, FullPoll, Silent

LEMMA WrongIsCounted ==
    ASSUME TypeOK, NEW r \in Readings, Polled(r)
    PROVE  /\ budget' \in [Faults -> Nat]
           /\ \A f \in Faults : /\ budget'[f] >= budget[f]
                                /\ Wrong(f, r) => budget'[f] = budget[f] + 1
  BY DEF Polled, TypeOK, Weight

LEMMA BudgetGrows ==
    ASSUME TypeOK, NEW r \in Readings, Polled(r)
    PROVE  /\ budget["zero"] \in Nat /\ budget["name"] \in Nat /\ budget["up"] \in Nat
           /\ budget["reboots"] \in Nat /\ budget["resets"] \in Nat
           /\ budget'["zero"] \in Nat /\ budget'["name"] \in Nat /\ budget'["up"] \in Nat
           /\ budget'["reboots"] \in Nat /\ budget'["resets"] \in Nat
           /\ budget'["zero"] >= budget["zero"] /\ budget'["name"] >= budget["name"]
           /\ budget'["up"] >= budget["up"] /\ budget'["reboots"] >= budget["reboots"]
           /\ budget'["resets"] >= budget["resets"]
  <1>1. /\ budget \in [Faults -> Nat] /\ budget' \in [Faults -> Nat]
        /\ \A f \in Faults : budget'[f] >= budget[f]
    BY WrongIsCounted DEF TypeOK
  <1> QED BY <1>1, Constants

(* An exit is silent, or reports what the detectors found. *)
LEMMA Reports ==
    ASSUME TypeOK, NEW r \in Readings, Exits(r)
    PROVE  \/ alarms' = alarms /\ quiet' = -1
           \/ Examined(r) /\ Overflow(r) /\ Report(r) /\ quiet' = -1
           \/ Examined(r) /\ FullPoll(r) /\ Report(r)
  BY DEF Exits, ReadError, Baseline, Anomaly, CounterReset, Restored, Overflow, FullPoll, Silent

LEMMA EventsType ==
    ASSUME NEW r
    PROVE  /\ Events(r) \in Nat
           /\ (Events(r) = 0) <=> ~(Detected(r) \/ NameChanged(r) \/ Refilled(r) \/ Jumped(r))
  <1> DEFINE D == {d \in 1..4 : \/ d = 1 /\ Detected(r)
                                \/ d = 2 /\ NameChanged(r)
                                \/ d = 3 /\ Refilled(r)
                                \/ d = 4 /\ Jumped(r)}
  <1>1. IsFiniteSet(1..4) /\ D \subseteq 1..4
    <2>1. 1 \in Int /\ 4 \in Int
      OBVIOUS
    <2> QED BY <2>1, FS_Interval
  <1>2. IsFiniteSet(D)
    BY <1>1, FS_Subset
  <1>3. Cardinality(D) \in Nat /\ (Cardinality(D) = 0 <=> D = {})
    BY <1>2, FS_CardinalityType, FS_EmptySet
  <1>4. (D = {}) <=> ~(Detected(r) \/ NameChanged(r) \/ Refilled(r) \/ Jumped(r))
    <2>1. 1 \in 1..4 /\ 2 \in 1..4 /\ 3 \in 1..4 /\ 4 \in 1..4
      OBVIOUS
    <2>2. \A d \in 1..4 : d = 1 \/ d = 2 \/ d = 3 \/ d = 4
      OBVIOUS
    <2> HIDE DEF D
    <2>3. /\ 1 \in D <=> Detected(r)
          /\ 2 \in D <=> NameChanged(r)
          /\ 3 \in D <=> Refilled(r)
          /\ 4 \in D <=> Jumped(r)
      BY <2>1 DEF D
    <2> QED BY <1>1, <2>2, <2>3
  <1>5. Events(r) = Cardinality(D)
    BY DEF Events
  <1> HIDE DEF D
  <1> QED BY <1>3, <1>4, <1>5

(* What becomes of the histories at an exit. *)
LEMMA HistoryTypes ==
    ASSUME TypeOK, NEW r \in Readings, Exits(r)
    PROVE  alarms' \in 0..2 /\ told' \in OrNone(Nat) /\ quiet' \in Int
  <1>1. First(r.chip, told) \in OrNone(Nat)
    BY ReadingTypes DEF First, TypeOK
  <1>2. told' \in OrNone(Nat)
    BY <1>1 DEF Exits, ReadError, Baseline, Anomaly, CounterReset, Restored, Overflow,
                FullPoll, Report, TypeOK
  <1>3. alarms' \in 0..2
    BY Reports, EventsType DEF Report, TypeOK
  <1>4. quiet' \in Int
    BY Reports DEF FullPoll, TypeOK
  <1> QED BY <1>2, <1>3, <1>4

-----------------------------------------------------------------------------
(* The fields of the snapshot after each exit. *)
LEMMA ReadErrorSaves ==
    ASSUME TypeOK, NEW r \in Readings, ReadError(r)
    PROVE  /\ prev'.toner = RawToner(r)
           /\ prev'.ids = r.chip
           /\ prev'.supply = r.supply
           /\ prev'.total = prev.total /\ prev'.slot = prev.slot /\ prev'.name = prev.name
           /\ prev'.namePend = prev.namePend /\ prev'.lvl = prev.lvl
           /\ prev'.pend = prev.pend /\ prev'.refill = prev.refill /\ prev'.ref = prev.ref
  <1>1. prev \in PrevType
    BY DEF TypeOK, PrevType
  <1> QED BY <1>1 DEF ReadError, PrevType

LEMMA BaselineSaves ==
    ASSUME TypeOK, NEW r \in Readings, Baseline(r)
    PROVE  /\ prev'.total = r.total
           /\ prev'.toner = (IF legacy THEN r.level ELSE None)
           /\ prev'.ids = r.chip
           /\ prev'.supply = r.supply
           /\ prev'.lvl = r.level
           /\ prev'.name = First(r.name, prev.name)
           /\ prev'.refill = None
           /\ prev'.slot = (IF Candidate(r)
                             THEN [chip |-> r.chip, name |-> r.name, supply |-> r.supply,
                                   page |-> r.total, level |-> r.level]
                             ELSE IF r.others THEN None ELSE prev.slot)
           /\ prev'.namePend = prev.namePend /\ prev'.pend = prev.pend
           /\ prev'.ref = prev.ref
  <1>1. prev \in PrevType
    BY DEF TypeOK, PrevType
  <1> QED BY <1>1 DEF Baseline, PrevType

LEMMA AnomalySaves ==
    ASSUME TypeOK, NEW r \in Readings, Anomaly(r)
    PROVE  /\ prev'.toner = RawToner(r)
           /\ prev'.total = prev.total /\ prev'.ids = prev.ids
           /\ prev'.supply = prev.supply /\ prev'.slot = prev.slot
           /\ prev'.name = prev.name /\ prev'.namePend = prev.namePend
           /\ prev'.lvl = prev.lvl /\ prev'.pend = prev.pend /\ prev'.refill = prev.refill
           /\ prev'.ref = prev.ref
  <1>1. prev \in PrevType
    BY DEF TypeOK, PrevType
  <1> QED BY <1>1 DEF Anomaly, PrevType

LEMMA ResetSaves ==
    ASSUME TypeOK, NEW r \in Readings, CounterReset(r)
    PROVE  /\ prev'.total = r.total
           /\ prev'.ref = prev.total
           /\ prev'.toner = (IF legacy THEN r.level ELSE None)
           /\ prev'.ids = prev.ids /\ prev'.supply = prev.supply /\ prev'.slot = prev.slot
           /\ prev'.name = prev.name /\ prev'.namePend = prev.namePend
           /\ prev'.lvl = prev.lvl /\ prev'.pend = prev.pend /\ prev'.refill = prev.refill
  <1>1. prev \in PrevType
    BY DEF TypeOK, PrevType
  <1> QED BY <1>1 DEF CounterReset, PrevType

LEMMA RestoredSaves ==
    ASSUME TypeOK, NEW r \in Readings, Restored(r)
    PROVE  /\ prev'.total = r.total
           /\ prev'.ref = None
           /\ prev'.toner = RawToner(r)
           /\ prev'.ids = prev.ids /\ prev'.supply = prev.supply /\ prev'.slot = prev.slot
           /\ prev'.name = prev.name /\ prev'.namePend = prev.namePend
           /\ prev'.lvl = prev.lvl /\ prev'.pend = prev.pend /\ prev'.refill = prev.refill
  <1>1. prev \in PrevType
    BY DEF TypeOK, PrevType
  <1> QED BY <1>1 DEF Restored, PrevType

LEMMA OverflowSaves ==
    ASSUME TypeOK, NEW r \in Readings, Overflow(r)
    PROVE  /\ prev'.total = (IF prev.over = <<r.total, Delta(r)>> THEN r.total ELSE Base(r))
           /\ prev'.toner = Filtered(r)
           /\ prev'.pend = SharedPend(r)
           /\ prev'.namePend = SharedNamePend(r)
           /\ prev'.ids = prev.ids /\ prev'.supply = prev.supply /\ prev'.slot = prev.slot
           /\ prev'.name = prev.name /\ prev'.lvl = prev.lvl /\ prev'.refill = prev.refill
           /\ prev'.ref = prev.ref
  <1>1. prev \in PrevType
    BY DEF TypeOK, PrevType
  <1> QED BY <1>1 DEF Overflow, PrevType

LEMMA FullPollSaves ==
    ASSUME TypeOK, NEW r \in Readings, FullPoll(r)
    PROVE  /\ prev'.total = r.total
           /\ prev'.toner = Filtered(r)
           /\ prev'.ids = First(r.chip, prev.ids)
           /\ prev'.supply = First(r.supply, prev.supply)
           /\ prev'.slot = SlotAfter(r)
           /\ prev'.name = (IF NamePendAfter(r) = None THEN First(r.name, prev.name)
                             ELSE prev.name)
           /\ prev'.namePend = NamePendAfter(r)
           /\ prev'.lvl = LevelAfter(r)
           /\ prev'.pend = JumpAfter(r)
           /\ prev'.refill = RefillAfter(r)
           /\ prev'.ref = RefLeft(r)
  BY DEF FullPoll

-----------------------------------------------------------------------------
(* Types. *)

LEMMA SpendTypes ==
    ASSUME TypeOK, NEW f \in Faults, Spend(f)
    PROVE  /\ budget' \in [Faults -> Nat]
           /\ \A g \in Faults : budget'[g] = IF g = f THEN budget[g] + 1 ELSE budget[g]
  <1>1. budget \in [Faults -> Nat] /\ budget' = [budget EXCEPT ![f] = @ + 1]
    BY DEF Spend, TypeOK
  <1> QED BY <1>1

LEMMA TypeStep ==
    ASSUME TypeOK, quiet < 3, [Next]_vars
    PROVE  TypeOK'
  <1>1. CASE DevicePrint
    <2>1. PICK n \in Jobs : /\ ctr' = ctr + n /\ supply' = supply + n
                            /\ quiet' = IF n <= spare THEN quiet ELSE -1
                            /\ spare' = IF n <= spare THEN spare - n ELSE 0
                            /\ level' \in Levels
      BY <1>1 DEF DevicePrint
    <2>2. n \in Nat
      BY Constants
    <2> QED BY <1>1, <2>1, <2>2 DEF DevicePrint, TypeOK
  <1>2. CASE Replace
    <2>1. budget' \in [Faults -> Nat] /\ level' \in Levels /\ spare' \in Nat /\ quiet' \in -1..3
      BY <1>2, SpendTypes, Constants, FullIsHighest, CartridgeAssumption DEF Replace, TypeOK
    <2> QED BY <1>2, <2>1 DEF Replace, TypeOK
  <1>3. CASE Reboot
    <2>1. budget' \in [Faults -> Nat]
      BY <1>3, SpendTypes, Constants DEF Reboot
    <2> QED BY <1>3, <2>1 DEF Reboot, TypeOK, history
  <1>4. CASE ServiceReset
    <2>1. budget' \in [Faults -> Nat]
      BY <1>4, SpendTypes, Constants DEF ServiceReset
    <2> QED BY <1>4, <2>1 DEF ServiceReset, TypeOK
  <1>5. CASE Restart
    <2>1. prev' \in PrevType
      <3>1. prev' = [total |-> prev.total, toner |-> prev.toner, ids |-> prev.ids,
                     supply |-> prev.supply, slot |-> prev.slot, name |-> None,
                     namePend |-> None, lvl |-> None, pend |-> None, refill |-> None,
                     ref |-> None, over |-> None, up |-> FALSE]
        BY <1>5 DEF Restart, Blank
      <3>2. prev \in PrevType
        BY DEF TypeOK, PrevType
      <3> QED BY <3>1, <3>2 DEF PrevType, OrNone
    <2>2. budget' \in [Faults -> Nat]
      BY <1>5, SpendTypes, Constants DEF Restart
    <2>3. None \in OrNone(Nat) /\ -1 \in -1..3
      BY DEF OrNone
    <2> QED BY <1>5, <2>1, <2>2, <2>3 DEF Restart, TypeOK, PrevType
  <1>6. CASE Poll
    <2>1. PICK r \in Readings : Exits(r)
      BY <1>6, PollExits
    <2>2. prev' \in PrevType
      BY <2>1, PrevTypes DEF Exits
    <2>3. Polled(r) /\ budget' \in [Faults -> Nat]
      BY <2>1, ExitsPoll, WrongIsCounted
    <2>4. alarms' \in 0..2 /\ told' \in OrNone(Nat) /\ quiet' \in Int
      BY <2>1, HistoryTypes
    <2>5. quiet' \in -1..3
      BY <2>1, Reports DEF FullPoll, TypeOK
    <2>6. seen' \in OrNone(Nat)
      BY <2>3, ReadingTypes DEF Polled, First, TypeOK
    <2>7. blind' \in BOOLEAN /\ misled' \in BOOLEAN /\ rebooted' \in BOOLEAN
      BY <2>3 DEF Polled, TypeOK
    <2> QED BY <2>2, <2>3, <2>4, <2>5, <2>6, <2>7 DEF Polled, TypeOK, PrevType
  <1>7. CASE UNCHANGED vars
    BY <1>7 DEF vars, device, history, TypeOK
  <1> QED BY <1>1, <1>2, <1>3, <1>4, <1>5, <1>6, <1>7 DEF Next

-----------------------------------------------------------------------------
(* Identities. *)

(* A chip that is read is not older than what is remembered. *)
LEMMA ReadChipIsNewest ==
    ASSUME TypeOK, ChipsKnown, NEW r \in Readings, Polled(r)
    PROVE  /\ Newest' \in Nat /\ Newest' >= Newest
           /\ seen' # None => seen' <= cart'
           /\ r.chip # None => r.chip \in Nat /\ r.chip = Newest' /\ r.chip >= Newest
  BY ReadingFacts, Constants DEF Polled, Newest, First, ChipsKnown, TypeOK, OrNone

(* The chip of the old slot is what is remembered, and the new slot holds the one that is
   read, or the old one. *)
LEMMA SlotChips ==
    ASSUME TypeOK, ChipsKnown, NoChipTakenOver, NEW r \in Readings
    PROVE  /\ OldSlot.chip = IF prev.slot = None THEN prev.ids ELSE SlotChip
           /\ OldSlot.chip \in OrNone(Nat)
           /\ OldSlot.chip # None => told # None /\ OldSlot.chip <= Newest
           /\ OldSlot.chip # None /\ ~blind => OldSlot.chip <= told
           /\ NewSlot(r).chip = First(r.chip, OldSlot.chip)
           /\ Candidate(r) \/ r.chip = None
           /\ r.chip # None /\ OldSlot.chip # None /\ r.chip # OldSlot.chip => Detected(r)
  <1>1. OldSlot.chip = IF prev.slot = None THEN prev.ids ELSE SlotChip
    BY DEF OldSlot, First, SlotChip
  <1>2. OldSlot.chip \in OrNone(Nat)
    BY SlotTypes DEF Slots
  <1>3. /\ OldSlot.chip # None => told # None /\ OldSlot.chip <= Newest
        /\ OldSlot.chip # None /\ ~blind => OldSlot.chip <= told
    BY <1>1 DEF ChipsKnown, NoChipTakenOver, SlotChip
  <1>4. NewSlot(r).chip = First(r.chip, OldSlot.chip)
    BY DEF NewSlot
  <1>5. Candidate(r) \/ r.chip = None
    BY DEF Candidate
  <1>6. ASSUME r.chip # None, OldSlot.chip # None, r.chip # OldSlot.chip
        PROVE  Detected(r)
    BY <1>4, <1>5, <1>6 DEF Detected, EngineEmits, Both, First
  <1> QED BY <1>1, <1>2, <1>3, <1>4, <1>5, <1>6

(* What is told grows. *)
LEMMA ToldGrows ==
    ASSUME TypeOK, ChipsKnown, NoChipTakenOver, NEW r \in Readings, Exits(r)
    PROVE  /\ told' \in {told, First(r.chip, told)}
           /\ told' # None => told' <= Newest'
           /\ told # None => told' # None /\ told' >= told
  <1>1. told' \in {told, First(r.chip, told)}
    BY DEF Exits, ReadError, Baseline, Anomaly, CounterReset, Restored, Overflow, FullPoll, Report
  <1>2. /\ Newest' \in Nat /\ Newest' >= Newest /\ Newest \in Nat
        /\ r.chip # None => r.chip \in Nat /\ r.chip = Newest' /\ r.chip >= Newest
    BY ReadChipIsNewest, ReadingFacts, ExitsPoll
  <1> QED BY <1>1, <1>2 DEF ChipsKnown, First, TypeOK, OrNone

LEMMA ChipsStep ==
    ASSUME TypeOK, TypeOK', ChipsKnown, NoChipTakenOver, NEW r \in Readings, Exits(r)
    PROVE  ChipsKnown' /\ NoChipTakenOver'
  <1> USE Constants
  <1>1. Polled(r)
    BY ExitsPoll
  <1>2. /\ Newest' \in Nat /\ Newest' >= Newest /\ Newest \in Nat
        /\ seen' # None => seen' <= cart'
        /\ r.chip # None => r.chip \in Nat /\ r.chip = Newest' /\ r.chip >= Newest
    BY <1>1, ReadChipIsNewest, ReadingFacts
  <1>3. /\ told' \in {told, First(r.chip, told)}
        /\ told' # None => told' <= Newest'
        /\ told # None => told' # None /\ told' >= told
    BY ToldGrows
  <1>4. /\ told \in OrNone(Nat) /\ told' \in OrNone(Nat) /\ prev.ids \in OrNone(Nat)
        /\ prev.slot \in OrNone(Slots) /\ prev'.slot \in OrNone(Slots)
        /\ r.chip \in OrNone(Nat) /\ blind \in BOOLEAN /\ blind' \in BOOLEAN
    BY ReadingTypes DEF TypeOK
  <1>5. SlotChip \in OrNone(Nat) /\ SlotChip' \in OrNone(Nat)
    BY <1>4 DEF SlotChip, OrNone, Slots
  <1>6. ~blind' => ~blind /\ ~(prev'.slot = None /\ Both(prev'.ids, told') /\ prev'.ids > told')
    BY <1>1 DEF Polled
  \* It is enough to look at the two chips that are remembered.
  <1>7. SUFFICES /\ prev'.ids # None => prev'.ids <= Newest' /\ told' # None
                 /\ SlotChip' # None => SlotChip' <= Newest' /\ told' # None
                 /\ SlotChip' # None /\ ~blind' => SlotChip' <= told'
    <2>1. prev'.ids \in OrNone(Nat)
      BY DEF TypeOK
    <2>2. ASSUME prev'.ids # None => told' # None
          PROVE  prev'.slot = None /\ prev'.ids # None => blind' \/ prev'.ids <= told'
      BY <1>4, <1>6, <2>1, <2>2 DEF Both, OrNone
    <2> QED BY <1>2, <1>3, <2>2 DEF ChipsKnown, NoChipTakenOver, SlotChip
  <1>8. /\ OldSlot.chip = IF prev.slot = None THEN prev.ids ELSE SlotChip
        /\ OldSlot.chip \in OrNone(Nat)
        /\ OldSlot.chip # None => told # None /\ OldSlot.chip <= Newest
        /\ OldSlot.chip # None /\ ~blind => OldSlot.chip <= told
        /\ NewSlot(r).chip = First(r.chip, OldSlot.chip)
        /\ Candidate(r) \/ r.chip = None
        /\ r.chip # None /\ OldSlot.chip # None /\ r.chip # OldSlot.chip => Detected(r)
    BY SlotChips
  <1>9. /\ prev.ids # None => prev.ids <= Newest /\ told # None
        /\ SlotChip # None => SlotChip <= Newest /\ told # None
        /\ SlotChip # None /\ ~blind => SlotChip <= told
    BY DEF ChipsKnown, NoChipTakenOver, SlotChip
  \* What is kept stays known.
  <1>10. ASSUME prev'.slot = prev.slot
         PROVE  /\ SlotChip' # None => SlotChip' <= Newest' /\ told' # None
                /\ SlotChip' # None /\ ~blind' => SlotChip' <= told'
    BY <1>2, <1>3, <1>4, <1>5, <1>6, <1>9, <1>10 DEF SlotChip, OrNone
  <1>11. ASSUME prev'.ids = prev.ids
         PROVE  prev'.ids # None => prev'.ids <= Newest' /\ told' # None
    BY <1>2, <1>3, <1>4, <1>9, <1>11 DEF OrNone
  <1>12. CASE ReadError(r)
    <2>1. /\ prev'.slot = prev.slot /\ prev'.ids = r.chip
          /\ told' = IF OldSlot.chip = None THEN First(r.chip, told) ELSE told
      BY <1>12, ReadErrorSaves DEF ReadError
    <2> QED BY <2>1, <1>2, <1>4, <1>8, <1>10 DEF First, OrNone
  <1>13. CASE Baseline(r)
    <2>1. /\ prev'.ids = r.chip /\ told' = First(r.chip, told)
          /\ prev'.slot = IF Candidate(r)
                   THEN [chip |-> r.chip, name |-> r.name, supply |-> r.supply,
                         page |-> r.total, level |-> r.level]
                   ELSE IF r.others THEN None ELSE prev.slot
      BY <1>13, BaselineSaves DEF Baseline
    <2>2. prev'.ids # None => prev'.ids <= Newest' /\ told' # None
      <3>1. r.chip # None => told' = r.chip
        BY <2>1 DEF First
      <3> QED BY <2>1, <3>1, <1>2
    <2>3. CASE Candidate(r)
      <3>1. SlotChip' = r.chip
        BY <2>1, <2>3, ReadingTypes DEF SlotChip, Slots
      <3> QED BY <2>1, <2>2, <3>1, <1>2 DEF First
    <2>4. CASE ~Candidate(r) /\ r.others
      BY <2>1, <2>2, <2>4 DEF SlotChip
    <2>5. CASE ~Candidate(r) /\ ~r.others
      BY <2>1, <2>2, <2>5, <1>10
    <2> QED BY <2>3, <2>4, <2>5
  <1>14. CASE Anomaly(r)
    BY <1>10, <1>11, <1>14 DEF Anomaly, TypeOK
  <1>15. CASE CounterReset(r)
    BY <1>10, <1>11, <1>15 DEF CounterReset, TypeOK
  <1>16. CASE Restored(r)
    BY <1>10, <1>11, <1>16 DEF Restored, TypeOK
  <1>17. CASE Overflow(r)
    BY <1>10, <1>11, <1>17 DEF Overflow, TypeOK
  <1>18. CASE FullPoll(r)
    <2>1. /\ prev'.ids = First(r.chip, prev.ids) /\ prev'.slot = SlotAfter(r)
          /\ told' = IF Detected(r) \/ OldSlot.chip = None THEN First(r.chip, told) ELSE told
      BY <1>18 DEF FullPoll, Report
    <2>2. CASE r.chip # None
      <3>1. told' # None
        BY <2>1, <2>2, <1>3, <1>8 DEF First
      <3>2. prev'.slot = NewSlot(r) /\ prev'.slot \in Slots /\ SlotChip' = r.chip
        BY <2>1, <2>2, <1>8, SlotTypes DEF SlotAfter, SlotChip, First
      <3>3. ~blind' => r.chip <= told'
        <4>1. CASE Detected(r) \/ OldSlot.chip = None
          BY <2>1, <2>2, <4>1, <1>2 DEF First
        <4>2. CASE ~Detected(r) /\ OldSlot.chip # None
          BY <2>1, <2>2, <4>2, <1>4, <1>6, <1>8 DEF First
        <4> QED BY <4>1, <4>2
      <3> QED BY <2>1, <2>2, <3>1, <3>2, <3>3, <1>2 DEF First
    <2>3. CASE r.chip = None
      <3>1. told' = told /\ prev'.ids = prev.ids
        BY <2>1, <2>3 DEF First
      <3>2. CASE Candidate(r)
        <4>1. prev'.slot = NewSlot(r) /\ prev'.slot \in Slots /\ SlotChip' = OldSlot.chip
          BY <2>1, <2>3, <3>2, <1>8, SlotTypes DEF SlotAfter, SlotChip, First
        <4>2. /\ SlotChip' # None => SlotChip' <= Newest' /\ told' # None
              /\ SlotChip' # None /\ ~blind' => SlotChip' <= told'
          BY <3>1, <4>1, <1>2, <1>4, <1>6, <1>8 DEF OrNone
        <4> QED BY <3>1, <4>2, <1>11
      <3>3. CASE ~Candidate(r) /\ r.others
        BY <2>1, <3>1, <3>3, <1>11 DEF SlotAfter, SlotChip
      <3>4. CASE ~Candidate(r) /\ ~r.others
        BY <2>1, <3>1, <3>4, <1>10, <1>11 DEF SlotAfter
      <3> QED BY <3>2, <3>3, <3>4
    <2> QED BY <2>2, <2>3
  <1> QED BY <1>12, <1>13, <1>14, <1>15, <1>16, <1>17, <1>18 DEF Exits

-----------------------------------------------------------------------------
(* False alarms. *)

Quiet == OneCartridge /\ CountersBehind /\ ZeroAtReboot /\ NamesRight /\ LevelsAbove

\* What a poll of a harmless history reads, and what it costs to read it wrong.
TrueReading(r) ==
    /\ r.chip \in {1, None} /\ r.supply \in {supply, None} /\ r.total \in {ctr, 0, None}
    /\ r.total # None /\ r.total < ctr => r.total = 0 /\ budget'["zero"] = budget["zero"] + 1
    /\ r.name \notin {None, name} =>
          budget'["name"] = budget["name"] + 1 /\ prev'.name # r.name
    /\ r.level # None /\ r.level > level => budget'["up"] = budget["up"] + 1
    /\ r.level # None /\ r.level < level => StoredLevel' # r.level

LEMMA BudgetTypes ==
    ASSUME TypeOK
    PROVE  /\ budget["zero"] \in Nat /\ budget["name"] \in Nat /\ budget["up"] \in Nat
           /\ budget["reboots"] \in Nat /\ budget["resets"] \in Nat
  BY Constants DEF TypeOK

LEMMA HarmlessPoll ==
    ASSUME TypeOK, Calm, NEW r \in Readings, Polled(r), Harmless'
    PROVE  Harmless /\ Quiet /\ alarms = 0 /\ TrueReading(r)
  <1>1. /\ budget' \in [Faults -> Nat]
        /\ \A f \in Faults : /\ budget'[f] >= budget[f]
                             /\ Wrong(f, r) => budget'[f] = budget[f] + 1
    BY WrongIsCounted
  <1>3. /\ changes' = changes /\ legacy' = legacy
        /\ ~misled' => /\ ~misled
                       /\ ~(r.level # None /\ r.level < level /\ StoredLevel' = r.level)
                       /\ ~(r.name \notin {None, name} /\ prev'.name = r.name)
    BY DEF Polled
  <1>4. Harmless
    BY <1>3, BudgetGrows DEF Harmless
  <1>5. Quiet /\ alarms = 0
    BY <1>4 DEF Calm, Quiet
  <1>6. r.chip \in {1, None} /\ r.supply \in {supply, None} /\ r.total \in {ctr, 0, None}
    BY <1>5, ReadingFacts DEF Quiet, OneCartridge, Newest, First
  <1>7. r.total # None /\ r.total < ctr => r.total = 0 /\ budget'["zero"] = budget["zero"] + 1
    <2>1. r.total # None /\ r.total < ctr => Wrong("zero", r)
      BY <1>6, Constants DEF Wrong, TypeOK
    <2> QED BY <2>1, <1>1, <1>6, Constants DEF TypeOK
  <1>8. r.name \notin {None, name} => budget'["name"] = budget["name"] + 1
    <2>1. r.name \notin {None, name} => Wrong("name", r)
      BY DEF Wrong
    <2> QED BY <2>1, <1>1, Constants
  <1>9. r.level # None /\ r.level > level => budget'["up"] = budget["up"] + 1
    <2>1. r.level # None /\ r.level > level => Wrong("up", r)
      BY DEF Wrong
    <2> QED BY <2>1, <1>1, Constants
  <1>10. ~misled'
    BY DEF Harmless
  <1> QED BY <1>3, <1>4, <1>5, <1>6, <1>7, <1>8, <1>9, <1>10 DEF TrueReading

(* No detector finds anything. *)
LEMMA NothingFell ==
    ASSUME TypeOK, TypeOK', NEW r \in Readings, Polled(r), Harmless, Harmless', Quiet, TrueReading(r), Examined(r)
    PROVE  ~Detected(r)
  <1> USE Constants
  <1>1. /\ r.total \in Nat /\ prev.total \in Nat /\ r.total >= prev.total
        /\ r.total \in {ctr, 0} /\ ctr \in Nat /\ supply \in Nat
    BY BaseTypes, ReadingFacts DEF Examined, Dropped, TypeOK, TrueReading
  <1>2. OldSlot \in Slots /\ NewSlot(r) \in Slots
    BY SlotTypes
  <1>3. OldSlot.chip \in {None, 1} /\ NewSlot(r).chip \in {None, 1}
    BY DEF Quiet, OneCartridge, OldSlot, NewSlot, First, SlotChip, TrueReading
  <1>4. ~Fell(OldSlot.supply, NewSlot(r).supply)
    <2>1. OldSlot.supply # None => OldSlot.supply <= supply
      BY DEF Quiet, CountersBehind, OldSlot, First
    <2>2. NewSlot(r).supply \in {supply, OldSlot.supply}
      BY DEF NewSlot, First, TrueReading
    <2> QED BY <1>1, <1>2, <2>1, <2>2 DEF Fell, Both, Slots, OrNone
  <1>5. ~Fell(OldSlot.page, NewSlot(r).page)
    <2>1. NewSlot(r).page = r.total
      BY DEF NewSlot
    <2>2. OldSlot.page # None => OldSlot.page <= ctr
      BY DEF Quiet, CountersBehind, OldSlot, First
    <2>3. CASE r.total = ctr
      BY <1>1, <1>2, <2>1, <2>2, <2>3 DEF Fell, Both, Slots, OrNone
    <2>4. CASE r.total < ctr
      <3>1. r.total = 0 /\ prev.total = 0 /\ budget'["zero"] = budget["zero"] + 1
        BY <2>4, <1>1 DEF TrueReading
      <3>2. budget'["reboots"] >= budget["reboots"]
        BY WrongIsCounted
      <3>3. OldSlot.page = None \/ OldSlot.page = 0
        BY <3>1, <3>2, <1>1, BudgetTypes DEF Quiet, ZeroAtReboot, OldSlot, First, Harmless, TypeOK
      <3> QED BY <3>3 DEF Fell, Both
    <2> QED BY <1>1, <2>3, <2>4
  <1> QED BY <1>3, <1>4, <1>5 DEF Detected, EngineEmits, Both

LEMMA NameStays ==
    ASSUME TypeOK, NEW r \in Readings, Polled(r), Harmless, Harmless', Quiet, TrueReading(r)
    PROVE  /\ ~NameChanged(r)
           /\ NamePendAfter(r) # None => NamePendAfter(r) # name /\ budget'["name"] > 0
  <1> USE Constants, BudgetTypes
  <1>1. /\ prev.name \in {None, name}
        /\ prev.namePend # None => prev.namePend # name /\ budget["name"] > 0
    BY DEF Quiet, NamesRight
  <1>2. r.name \notin {None, name} => budget'["name"] = budget["name"] + 1
    BY DEF TrueReading
  <1>3. budget'["name"] <= 1
    BY DEF Harmless
  <1>4. ~NameChanged(r)
    BY <1>1, <1>2, <1>3 DEF NameChanged, NameDiffers, Both
  <1>5. NameDiffers(r) => r.name \notin {None, name}
    BY <1>1 DEF NameDiffers, Both
  <1>6. budget'["name"] >= budget["name"] /\ budget'["name"] \in Nat
    BY BudgetGrows
  <1> QED BY <1>1, <1>2, <1>4, <1>5, <1>6 DEF NamePendAfter

(* The legacy colour: a level that counts is the one before, or one that is not lower than
   what the cartridge holds, so that nothing jumps. *)
LEMMA NothingJumps ==
    ASSUME TypeOK, TypeOK', NEW r \in Readings, Polled(r), Harmless, Harmless', Quiet,
           TrueReading(r), Examined(r), legacy
    PROVE  /\ ~Refilled(r) /\ RefillAfter(r) = None
           /\ Steady(r) # None => Steady(r) \in Levels
           /\ Steady(r) # None /\ Steady(r) < level => Steady(r) = r.level
  <1>1. prev.refill = None /\ (prev.toner # None => prev.toner >= level)
    BY DEF Quiet, LevelsAbove, StoredLevel
  <1>2. Steady(r) \in OrNone(Levels) /\ prev.toner \in OrNone(Levels) /\ level \in Levels
        /\ r.level \in OrNone(Levels)
    BY BaseTypes, ReadingTypes DEF Examined, TypeOK
  <1>3. ~Refilled(r)
    BY <1>1 DEF Refilled, RefillHolds
  <1>4. r.level # None => r.level <= level
    <2>1. budget["up"] = 0 /\ budget'["up"] = 0
      <3>1. legacy' = legacy
        BY DEF Polled
      <3>2. budget["up"] <= 0 /\ budget'["up"] <= 0
        BY <3>1, Zenon DEF Harmless
      <3> QED BY <3>2, BudgetGrows
    <2>2. ~(r.level # None /\ r.level > level)
      BY <2>1 DEF TrueReading
    <2>3. r.level # None => r.level \in Nat /\ level \in Nat
      BY <1>2, Constants DEF OrNone
    <2> QED BY <2>2, <2>3
  <1>5. Steady(r) # None /\ prev.toner # None => Steady(r) - prev.toner <= 20
    <2> SUFFICES ASSUME Steady(r) # None, prev.toner # None PROVE Steady(r) - prev.toner <= 20
      OBVIOUS
    <2>1. Steady(r) \in Nat /\ prev.toner \in Nat /\ level \in Nat /\ prev.toner >= level
      BY <1>1, <1>2, Constants DEF OrNone
    <2>2. Steady(r) = prev.toner \/ Steady(r) = r.level
      BY DEF Steady
    <2>3. Steady(r) <= prev.toner
      BY <1>4, <2>1, <2>2
    <2> QED BY <2>1, <2>3
  <1>6. RefillAfter(r) = None
    BY <1>1, <1>2, <1>3, <1>5, Constants DEF RefillAfter, Both, OrNone
  <1>7. Steady(r) # None /\ Steady(r) < level => Steady(r) = r.level
    <2>1. \/ Steady(r) = r.level
          \/ Steady(r) = prev.toner /\ prev.toner # None
      BY DEF Steady
    <2>2. Steady(r) = prev.toner /\ prev.toner # None => Steady(r) >= level
      BY <1>1
    <2>3. Steady(r) # None => Steady(r) \in Nat /\ level \in Nat
      BY <1>2, Constants DEF OrNone
    <2> QED BY <2>1, <2>2, <2>3
  <1> QED BY <1>2, <1>3, <1>6, <1>7 DEF OrNone

(* The other colours: a window is opened, confirmed and closed by a reading that is too
   high, which happens twice at most. *)
LEMMA JumpNeedsThree ==
    ASSUME TypeOK, TypeOK', NEW r \in Readings, Polled(r), Harmless, Harmless', Quiet,
           TrueReading(r), Examined(r), ~legacy
    PROVE  /\ ~Jumped(r)
           /\ JumpAfter(r) # None =>
                 /\ JumpAfter(r).new > level + 1 /\ budget'["up"] > 0
                 /\ JumpAfter(r).hits = 1 => budget'["up"] > 1
  <1> USE Constants, BudgetTypes
  <1>1. /\ prev.lvl # None => prev.lvl >= level
        /\ prev.pend # None =>
              /\ prev.pend.new > level + 1 /\ budget["up"] > 0
              /\ prev.pend.hits = 1 => budget["up"] > 1
    BY DEF Quiet, LevelsAbove, StoredLevel
  <1>2. /\ r.level \in OrNone(Levels) /\ prev.lvl \in OrNone(Levels) /\ level \in Levels
        /\ prev.pend \in OrNone(Windows) /\ r.total \in Nat /\ Levels \subseteq Nat
    BY ReadingTypes, BaseTypes DEF Examined, TypeOK
  <1>3. /\ budget'["up"] >= budget["up"] /\ budget'["up"] <= 2 /\ budget'["up"] \in Nat
        /\ r.level # None /\ r.level > level => budget'["up"] = budget["up"] + 1
    BY BudgetGrows DEF Harmless, Polled, TrueReading
  <1>4. prev.pend # None /\ r.level # None /\ JumpHolds(r) =>
            budget'["up"] = budget["up"] + 1 /\ prev.pend.hits = 0
    <2>1. SUFFICES ASSUME prev.pend # None, r.level # None, JumpHolds(r)
                   PROVE  budget'["up"] = budget["up"] + 1 /\ prev.pend.hits = 0
      OBVIOUS
    <2>2. prev.pend.new \in Nat /\ prev.pend.hits \in 0..1 /\ r.level \in Nat /\ level \in Nat
      BY <1>2, <2>1 DEF OrNone, Windows
    <2>3. r.level > level
      BY <1>1, <2>1, <2>2 DEF JumpHolds, Holds
    <2> QED BY <1>1, <1>3, <2>1, <2>2, <2>3
  <1>5. ~Jumped(r)
    BY <1>4 DEF Jumped
  <1>6. CASE prev.pend # None /\ JumpAfter(r) # None
    <2>1. prev.pend \in Windows
      BY <1>2, <1>6 DEF OrNone
    <2>2. CASE JumpHolds(r)
      <3>1. JumpAfter(r) = [prev.pend EXCEPT !.hits = 1] /\ r.level # None
        BY <1>6, <2>2 DEF JumpAfter
      <3>2. JumpAfter(r).new = prev.pend.new
        BY <2>1, <3>1 DEF Windows
      <3> QED BY <1>1, <1>3, <1>4, <1>5, <1>6, <2>2, <3>1, <3>2
    <2>3. CASE ~JumpHolds(r)
      <3>1. JumpAfter(r) = prev.pend
        BY <1>6, <2>3 DEF JumpAfter
      <3> QED BY <1>1, <1>3, <1>5, <1>6, <3>1
    <2> QED BY <2>2, <2>3
  <1>7. CASE prev.pend = None /\ JumpAfter(r) # None
    <2>1. /\ prev.lvl # None /\ r.level # None /\ r.level - prev.lvl > 20
          /\ JumpAfter(r) = [prev |-> prev.lvl, new |-> r.level, total |-> r.total, hits |-> 0]
      BY <1>7 DEF JumpAfter
    <2>2. r.level \in Nat /\ prev.lvl \in Nat /\ level \in Nat
      BY <1>2, <2>1 DEF OrNone
    <2>3. JumpAfter(r).new = r.level /\ JumpAfter(r).hits = 0
      BY <2>1
    <2> QED BY <1>1, <1>3, <1>5, <2>1, <2>2, <2>3
  <1> QED BY <1>5, <1>6, <1>7

LEMMA NothingFound ==
    ASSUME TypeOK, TypeOK', NEW r \in Readings, Polled(r), Harmless, Harmless', Quiet,
           TrueReading(r), Examined(r)
    PROVE  ~Detected(r) /\ ~Changed(r) /\ Events(r) = 0
  <1>1. ~Detected(r) /\ ~NameChanged(r)
    BY NothingFell, NameStays
  <1>2. ~Refilled(r) /\ ~Jumped(r)
    BY NothingJumps, JumpNeedsThree DEF Refilled, Jumped, TypeOK
  <1> QED BY <1>1, <1>2, EventsType DEF Changed

(* What each exit keeps of a harmless history. *)
LEMMA OneCartridgeStep ==
    ASSUME TypeOK, TypeOK', NEW r \in Readings, Exits(r), Quiet, TrueReading(r)
    PROVE  OneCartridge'
  <1>1. /\ r.chip \in {None, 1} /\ cart = 1 /\ seen \in {None, 1}
        /\ prev.ids \in {None, 1} /\ SlotChip \in {None, 1}
    BY DEF Quiet, OneCartridge, TrueReading
  <1>2. cart' = 1 /\ seen' \in {None, 1}
    BY <1>1, ExitsPoll DEF Polled, First
  <1>3. prev'.ids \in {r.chip, prev.ids}
    BY ReadErrorSaves, BaselineSaves, AnomalySaves, ResetSaves, RestoredSaves, OverflowSaves,
       FullPollSaves DEF Exits, First
  <1>4. OldSlot.chip \in {None, 1}
    BY <1>1 DEF OldSlot, First, SlotChip
  <1>5. SlotChip' \in {None, 1}
    <2>1. \/ prev'.slot = prev.slot
          \/ prev'.slot = None
          \/ prev'.slot # None /\ prev'.slot.chip \in {r.chip, OldSlot.chip}
      <3>1. CASE Baseline(r)
        <4>1. [chip |-> r.chip, name |-> r.name, supply |-> r.supply,
               page |-> r.total, level |-> r.level] \in Slots
          BY ReadingTypes DEF Slots
        <4> QED BY <3>1, <4>1, BaselineSaves, Constants
      <3>2. CASE FullPoll(r)
        <4>1. NewSlot(r).chip \in {r.chip, OldSlot.chip} /\ NewSlot(r) # None
          BY SlotTypes, Constants DEF NewSlot, First
        <4>2. prev'.slot = SlotAfter(r)
          BY <3>2, FullPollSaves
        <4> QED BY <4>1, <4>2 DEF SlotAfter
      <3>3. CASE ReadError(r) \/ Anomaly(r) \/ CounterReset(r)
        BY <3>3, ReadErrorSaves, AnomalySaves, ResetSaves
      <3>4. CASE Restored(r) \/ Overflow(r)
        BY <3>4, RestoredSaves, OverflowSaves
      <3> QED BY <3>1, <3>2, <3>3, <3>4 DEF Exits
    <2> QED BY <1>1, <1>4, <2>1 DEF SlotChip
  <1> QED BY <1>1, <1>2, <1>3, <1>5 DEF OneCartridge

LEMMA NamesStep ==
    ASSUME TypeOK, TypeOK', NEW r \in Readings, Exits(r), Harmless, Harmless', Quiet,
           TrueReading(r)
    PROVE  NamesRight'
  <1>1. /\ prev.name \in {None, name} /\ name' = name
        /\ prev.namePend # None => prev.namePend # name /\ budget["name"] > 0
    BY ExitsPoll DEF Quiet, NamesRight, Polled
  <1>2. r.name \notin {None, name} => prev'.name # r.name
    BY DEF TrueReading
  <1>3. NamePendAfter(r) # None => NamePendAfter(r) # name /\ budget'["name"] > 0
    BY ExitsPoll, NameStays
  <1>4. prev'.name \in {prev.name, First(r.name, prev.name)}
    BY ReadErrorSaves, BaselineSaves, AnomalySaves, ResetSaves, RestoredSaves, OverflowSaves,
       FullPollSaves DEF Exits
  <1>5. prev'.name \in {None, name}
    BY <1>1, <1>2, <1>4 DEF First
  <1>6. prev'.namePend \in {prev.namePend, NamePendAfter(r), None}
    BY ReadErrorSaves, BaselineSaves, AnomalySaves, ResetSaves, RestoredSaves, OverflowSaves,
       FullPollSaves DEF Exits, SharedNamePend
  <1>7. budget'["name"] >= budget["name"] /\ budget'["name"] \in Nat /\ budget["name"] \in Nat
    BY BudgetGrows, ExitsPoll
  <1> QED BY <1>1, <1>3, <1>5, <1>6, <1>7 DEF NamesRight

LEMMA LevelsStep ==
    ASSUME TypeOK, TypeOK', NEW r \in Readings, Exits(r), Harmless, Harmless', Quiet,
           TrueReading(r)
    PROVE  LevelsAbove'
  <1> USE Constants
  <1>1. Polled(r) /\ legacy' = legacy /\ level' = level /\ level \in Nat
    BY ExitsPoll DEF Polled, TypeOK
  <1>2. /\ r.level \in OrNone(Levels) /\ StoredLevel \in OrNone(Levels)
        /\ StoredLevel' \in OrNone(Levels)
    BY ReadingTypes DEF StoredLevel, TypeOK
  <1>3. /\ StoredLevel # None => StoredLevel >= level
        /\ legacy => prev.refill = None
        /\ ~legacy /\ prev.pend # None =>
              /\ prev.pend.new > level + 1 /\ budget["up"] > 0
              /\ prev.pend.hits = 1 => budget["up"] > 1
    BY DEF Quiet, LevelsAbove
  \* A level that is stored is the one before, or the one that was read.
  <1>4. StoredLevel' \in {StoredLevel, r.level, None}
    <2>1. Examined(r) => Steady(r) \in {r.level, prev.toner}
      BY DEF Steady
    <2>2. CASE legacy
      BY <1>1, <2>1, <2>2, ReadErrorSaves, BaselineSaves, AnomalySaves, ResetSaves, RestoredSaves, OverflowSaves,
         FullPollSaves
         DEF Exits, Overflow, FullPoll, StoredLevel, RawToner, Filtered, First
    <2>3. CASE ~legacy
      BY <1>1, <2>3, ReadErrorSaves, BaselineSaves, AnomalySaves, ResetSaves, RestoredSaves, OverflowSaves,
         FullPollSaves
         DEF Exits, StoredLevel, LevelAfter, First
    <2> QED BY <2>2, <2>3
  <1>5. StoredLevel' # None => StoredLevel' >= level
    <2>1. r.level # None /\ r.level < level => StoredLevel' # r.level
      BY DEF TrueReading
    <2>2. /\ r.level # None => r.level \in Nat
          /\ StoredLevel # None => StoredLevel \in Nat
      BY <1>2 DEF OrNone
    <2>3. CASE StoredLevel' = StoredLevel
      BY <1>3, <2>3
    <2>4. CASE StoredLevel' = r.level
      BY <1>1, <2>1, <2>2, <2>4
    <2> QED BY <1>4, <2>3, <2>4
  <1>6. legacy => prev'.refill = None
    <2>1. prev'.refill \in {prev.refill, None} \/ FullPoll(r)
      BY ReadErrorSaves, BaselineSaves, AnomalySaves, ResetSaves, RestoredSaves, OverflowSaves,
         FullPollSaves DEF Exits
    <2>2. FullPoll(r) /\ legacy => prev'.refill = None
      BY <1>1, NothingJumps DEF FullPoll
    <2> QED BY <1>3, <2>1, <2>2
  <1>7. ~legacy /\ prev'.pend # None =>
              /\ prev'.pend.new > level + 1 /\ budget'["up"] > 0
              /\ prev'.pend.hits = 1 => budget'["up"] > 1
    <2>1. prev'.pend \in {prev.pend, None} \/ FullPoll(r)
      BY ReadErrorSaves, BaselineSaves, AnomalySaves, ResetSaves, RestoredSaves, OverflowSaves,
         FullPollSaves DEF Exits, SharedPend
    <2>2. CASE prev'.pend \in {prev.pend, None}
      BY <1>1, <1>3, <2>2, BudgetGrows
    <2>3. CASE FullPoll(r)
      BY <1>1, <2>3, JumpNeedsThree DEF FullPoll
    <2> QED BY <2>1, <2>2, <2>3
  <1> QED BY <1>1, <1>5, <1>6, <1>7 DEF LevelsAbove

(* The slot after an exit: the one before, none, or one of this poll. *)
LEMMA SlotIsOfPoll ==
    ASSUME TypeOK, TypeOK', NEW r \in Readings, Exits(r)
    PROVE  \/ prev'.slot = prev.slot /\ ~Baseline(r)
           \/ prev'.slot = prev.slot /\ Baseline(r)
           \/ prev'.slot = None
           \/ /\ Baseline(r) \/ FullPoll(r)
              /\ prev'.slot \in Slots /\ prev'.slot.page = r.total /\ prev'.total = r.total
              /\ prev'.slot.supply \in {r.supply, OldSlot.supply} \cup {None}
  <1>1. CASE Baseline(r)
    <2>1. [chip |-> r.chip, name |-> r.name, supply |-> r.supply,
           page |-> r.total, level |-> r.level] \in Slots
      BY ReadingTypes DEF Slots
    <2> QED BY <1>1, <2>1, BaselineSaves
  <1>2. CASE FullPoll(r)
    <2>1. /\ NewSlot(r) \in Slots /\ NewSlot(r).page = r.total
          /\ NewSlot(r).supply \in {r.supply, OldSlot.supply}
      BY SlotTypes DEF NewSlot, First
    <2> QED BY <1>2, <2>1, FullPollSaves DEF SlotAfter, FullPoll, Baseline, Examined, Readable
  <1>3. CASE ~Baseline(r) /\ ~FullPoll(r)
    BY <1>3, ReadErrorSaves, BaselineSaves, AnomalySaves, ResetSaves, RestoredSaves, OverflowSaves,
       FullPollSaves DEF Exits
  <1> QED BY <1>1, <1>2, <1>3

LEMMA CountersStep ==
    ASSUME TypeOK, TypeOK', NEW r \in Readings, Exits(r), Harmless, Harmless', Quiet,
           TrueReading(r)
    PROVE  CountersBehind'
  <1> USE Constants
  <1>1. /\ ctr' = ctr /\ supply' = supply /\ ctr \in Nat /\ supply \in Nat
        /\ r.total \in {ctr, 0, None} /\ r.supply \in {supply, None}
    BY ExitsPoll DEF Polled, TypeOK, TrueReading
  <1>2. /\ prev.total # None => prev.total <= ctr
        /\ prev.ref # None => prev.ref <= ctr
        /\ prev.supply # None => prev.supply <= supply
        /\ prev.slot # None =>
              /\ prev.total # None
              /\ prev.slot.page # None => prev.slot.page <= ctr
              /\ prev.slot.supply # None => prev.slot.supply <= supply
    BY DEF Quiet, CountersBehind
  <1>3. OldSlot.supply # None => OldSlot.supply <= supply
    BY <1>2 DEF OldSlot, First
  <1>4. /\ prev'.total \in {prev.total, r.total, prev.ref} \cup {None}
        /\ prev'.total # None \/ (prev.total = None /\ prev'.slot = prev.slot)
    <2>1. CASE Overflow(r)
      <3>1. Readable(r)
        BY <2>1 DEF Overflow, Examined
      <3>2. r.total # None /\ Base(r) # None /\ (Base(r) = prev.total \/ Base(r) = prev.ref)
        BY <3>1, BaseTypes
      <3> QED BY <2>1, <3>2, OverflowSaves
    <2>2. CASE ~Overflow(r)
      <3>1. FullPoll(r) => r.total # None
        BY DEF FullPoll, Examined, Readable
      <3> QED BY <2>2, <3>1, ReadErrorSaves, BaselineSaves, AnomalySaves, ResetSaves, RestoredSaves, OverflowSaves,
       FullPollSaves
              DEF Exits, Baseline, CounterReset, Restored, Readable, Anomaly
    <2> QED BY <2>1, <2>2
  <1>5. prev'.ref \in {prev.ref, prev.total, None}
    BY ReadErrorSaves, BaselineSaves, AnomalySaves, ResetSaves, RestoredSaves, OverflowSaves,
       FullPollSaves DEF Exits, RefLeft
  <1>6. prev'.supply \in {prev.supply, r.supply}
    BY ReadErrorSaves, BaselineSaves, AnomalySaves, ResetSaves, RestoredSaves, OverflowSaves,
       FullPollSaves DEF Exits, First
  <1>7. /\ prev'.total # None => prev'.total <= ctr
        /\ prev'.ref # None => prev'.ref <= ctr
        /\ prev'.supply # None => prev'.supply <= supply
    BY <1>1, <1>2, <1>4, <1>5, <1>6
  <1>8. prev'.slot # None =>
              /\ prev'.total # None
              /\ prev'.slot.page # None => prev'.slot.page <= ctr
              /\ prev'.slot.supply # None => prev'.slot.supply <= supply
    <2>1. CASE prev'.slot = prev.slot
      BY <1>2, <1>4, <2>1
    <2>2. CASE /\ Baseline(r) \/ FullPoll(r)
               /\ prev'.slot \in Slots /\ prev'.slot.page = r.total /\ prev'.total = r.total
               /\ prev'.slot.supply \in {r.supply, OldSlot.supply} \cup {None}
      <3>1. r.total # None
        BY <2>2 DEF Baseline, FullPoll, Examined, Readable
      <3> QED BY <1>1, <1>3, <2>2, <3>1
    <2> QED BY <2>1, <2>2, SlotIsOfPoll
  <1> QED BY <1>1, <1>7, <1>8 DEF CountersBehind

LEMMA ZeroStep ==
    ASSUME TypeOK, TypeOK', NEW r \in Readings, Exits(r), Harmless, Harmless', Quiet,
           TrueReading(r)
    PROVE  ZeroAtReboot'
  <1> USE Constants
  <1>1. /\ rebooted' = FALSE
        /\ budget["zero"] \in Nat /\ budget'["zero"] \in Nat /\ budget'["zero"] >= budget["zero"]
        /\ budget["reboots"] \in Nat /\ budget'["reboots"] \in Nat
        /\ budget'["reboots"] >= budget["reboots"]
    BY ExitsPoll, BudgetGrows DEF Polled
  <1>2. /\ prev.total \in OrNone(Nat) /\ prev'.total \in OrNone(Nat) /\ ctr \in Nat
        /\ r.total \in {ctr, 0, None} /\ prev.ref \in OrNone(Nat) /\ prev.slot \in OrNone(Slots)
    BY DEF TypeOK, TrueReading
  <1>3. /\ rebooted => budget["reboots"] > 0
        /\ prev.slot # None /\ prev.slot.page # None /\ prev.total # None =>
              \/ prev.slot.page = 0 \/ prev.total > 0
              \/ budget["reboots"] > 0 /\ budget["zero"] > 0
    BY DEF Quiet, ZeroAtReboot
  <1>4. SUFFICES ASSUME prev'.slot # None, prev'.slot.page # None, prev'.total # None,
                        prev'.slot.page # 0, ~(prev'.total > 0)
                 PROVE  budget'["reboots"] > 0 /\ budget'["zero"] > 0
    BY <1>1 DEF ZeroAtReboot
  <1>5. prev'.total = 0
    BY <1>2, <1>4 DEF OrNone
  <1>6. prev'.slot = prev.slot
    BY <1>4, <1>5, SlotIsOfPoll
  <1>7. prev.total # None
    BY <1>4, <1>6 DEF Quiet, CountersBehind
  <1>8. prev.total = 0 => budget["reboots"] > 0 /\ budget["zero"] > 0
    BY <1>2, <1>3, <1>4, <1>6, <1>7 DEF OrNone
  <1>9. prev.total # 0 => CounterReset(r)
    <2>1. SUFFICES ASSUME prev.total # 0, ~CounterReset(r) PROVE FALSE
      OBVIOUS
    <2>2. prev.total \in Nat /\ prev.total > 0
      BY <1>2, <1>7, <2>1 DEF OrNone
    <2>3. ~Baseline(r) /\ ~ReadError(r) /\ ~Anomaly(r)
      BY <1>5, <1>7, <2>1, ReadErrorSaves, AnomalySaves DEF Baseline
    <2>4. ~Restored(r)
      <3>1. Restored(r) => prev'.total = r.total /\ r.total > 0
        BY RestoredSaves DEF Restored, InBand, HasRef
      <3> QED BY <1>2, <1>5, <3>1
    <2>5. Examined(r) => r.total \in Nat /\ r.total > 0 /\ Base(r) \in Nat /\ Base(r) > 0
      BY <2>2, BaseTypes DEF Examined, Dropped
    <2>6. ~Overflow(r)
      <3>1. Overflow(r) => Examined(r)
        BY DEF Overflow
      <3>2. Overflow(r) => prev'.total \in {r.total, Base(r)}
        BY OverflowSaves
      <3> QED BY <1>5, <2>5, <3>1, <3>2
    <2>7. ~FullPoll(r)
      BY <1>5, <2>5, FullPollSaves DEF FullPoll
    <2> QED BY <2>1, <2>3, <2>4, <2>6, <2>7 DEF Exits
  <1>10. CASE CounterReset(r)
    <2>1. rebooted /\ r.total = 0 /\ r.total < prev.total /\ prev.total \in Nat
      BY <1>2, <1>5, <1>10, ResetSaves DEF CounterReset, Strong, Dropped, Readable, OrNone
    <2>2. r.total < ctr
      BY <1>2, <2>1 DEF Quiet, CountersBehind
    <2>3. budget'["zero"] = budget["zero"] + 1
      BY <2>1, <2>2, <1>2 DEF TrueReading
    <2> QED BY <1>1, <1>3, <2>1, <2>3
  <1> QED BY <1>1, <1>8, <1>9, <1>10

LEMMA CalmPoll ==
    ASSUME TypeOK, TypeOK', Calm, NEW r \in Readings, Exits(r)
    PROVE  Calm'
  <1>1. SUFFICES ASSUME Harmless'
                 PROVE  (OneCartridge /\ CountersBehind /\ ZeroAtReboot /\ NamesRight
                         /\ LevelsAbove /\ alarms = 0)'
    BY DEF Calm
  <1>2. Polled(r) /\ Harmless /\ Quiet /\ alarms = 0 /\ TrueReading(r)
    BY <1>1, ExitsPoll, HarmlessPoll
  <1>3. alarms' = 0
    <2>1. CASE alarms' = alarms
      BY <1>2, <2>1
    <2>2. CASE Examined(r) /\ Report(r)
      BY <1>1, <1>2, <2>2, NothingFound DEF Report
    <2> QED BY <2>1, <2>2, Reports
  <1> QED BY <1>1, <1>2, <1>3, OneCartridgeStep, CountersStep, ZeroStep, NamesStep, LevelsStep

-----------------------------------------------------------------------------
(* Reports in time. *)

(* At the first complete poll after the replacement the level jumps. *)
LEMMA FirstPoll ==
    ASSUME TypeOK, TypeOK', NEW r \in Readings, FullPoll(r), JumpAhead, quiet = 0, level = Full,
           r.level = level, Events(r) = 0, spare \in Nat
    PROVE  JumpWaits'
  <1> USE Constants
  <1>1. Polled(r) /\ Readable(r) /\ quiet' = 1 /\ spare' = spare /\ ctr' = ctr /\ legacy' = legacy
    BY ExitsPoll DEF Exits, FullPoll, Examined, Polled
  <1>2. /\ r.total \in Nat /\ prev.total \in Nat /\ Base(r) \in Nat /\ Base(r) >= prev.total
        /\ r.total \in {ctr, 0} /\ ctr \in Nat /\ r.total >= prev.total
        /\ Full \in Nat /\ Full \in Levels
    <2>1. r.total \in {ctr, 0} /\ r.total >= prev.total
      BY <1>1, BaseTypes, ReadingFacts DEF FullPoll, Examined, Dropped, Readable
    <2> QED BY <1>1, <2>1, BaseTypes, ReadingFacts, FullIsHighest
  <1>3. /\ StoredLevel \in Nat /\ Full - StoredLevel > 20 /\ r.level = Full
        /\ ctr + spare < prev.total + FewPages
    BY DEF JumpAhead, StoredLevel, TypeOK, OrNone
  <1>4. Delta(r) < FewPages /\ r.total <= ctr /\ ctr + spare < r.total + FewPages
    BY <1>2, <1>3 DEF Delta
  <1>5. ~Detected(r) /\ ~NameChanged(r) /\ ~Refilled(r) /\ ~Jumped(r) /\ ~Changed(r)
    BY EventsType DEF Changed
  <1>6. CASE legacy
    <2>1. prev.toner \in Nat /\ Full - prev.toner > 20 /\ prev.toner # None
      BY <1>3, <1>6 DEF StoredLevel
    <2>2. Steady(r) = Full
      BY <1>2, <1>3, <2>1 DEF Steady
    <2>3. RefillAfter(r) = [prev |-> prev.toner, new |-> Full, total |-> r.total, hits |-> 0]
      BY <1>2, <1>4, <1>5, <1>6, <2>1, <2>2 DEF RefillAfter, Both
    <2>4. prev'.refill = RefillAfter(r) /\ prev'.toner = Full /\ prev'.total = r.total
      BY <1>2, <1>6, <2>2, FullPollSaves DEF Filtered, First
    <2>5. prev'.refill # None
      <3>1. prev.toner \in Levels
        BY <2>1 DEF TypeOK, OrNone
      <3> QED BY <1>2, <2>3, <2>4, <3>1 DEF Windows
    <2> QED BY <1>1, <1>2, <1>4, <1>6, <2>3, <2>4, <2>5 DEF JumpWaits, Window
  <1>7. CASE ~legacy
    <2>1. prev.lvl \in Nat /\ Full - prev.lvl > 20 /\ prev.lvl # None /\ prev.pend = None
      BY <1>3, <1>7 DEF StoredLevel, JumpAhead
    <2>2. JumpAfter(r) = [prev |-> prev.lvl, new |-> Full, total |-> r.total, hits |-> 0]
      BY <1>2, <1>3, <1>4, <1>5, <1>7, <2>1 DEF JumpAfter
    <2>3. prev'.pend = JumpAfter(r) /\ prev'.total = r.total
      BY FullPollSaves
    <2>4. prev'.pend # None
      <3>1. prev.lvl \in Levels
        BY <2>1 DEF TypeOK, OrNone
      <3> QED BY <1>2, <2>2, <2>3, <3>1 DEF Windows
    <2> QED BY <1>1, <1>2, <1>4, <1>7, <2>2, <2>3, <2>4 DEF JumpWaits, Window
  <1> QED BY <1>6, <1>7

(* Each later one confirms the window, and the third reports it. *)
LEMMA LaterPoll ==
    ASSUME TypeOK, TypeOK', NEW r \in Readings, FullPoll(r), JumpWaits, quiet \in {1, 2},
           level = Full, r.level = level, Events(r) = 0, spare \in Nat
    PROVE  quiet = 1 /\ JumpWaits'
  <1> USE Constants
  <1>1. /\ Polled(r) /\ Readable(r) /\ quiet' = quiet + 1 /\ spare' = spare /\ ctr' = ctr
        /\ legacy' = legacy
    BY ExitsPoll DEF Exits, FullPoll, Examined, Polled
  <1>2. /\ r.total \in Nat /\ prev.total \in Nat /\ Base(r) \in Nat /\ Base(r) >= prev.total
        /\ r.total <= ctr /\ ctr \in Nat /\ r.level = Full
        /\ Full \in Nat /\ Full \in Levels
    BY <1>1, BaseTypes, ReadingFacts, FullIsHighest
  <1>3. /\ Window # None /\ Window.new = Full /\ Window.hits = quiet - 1
        /\ legacy => prev.toner = Full
        /\ Window.total <= ctr /\ ctr + spare < Window.total + FewPages
    BY DEF JumpWaits
  <1>4. ~Detected(r) /\ ~NameChanged(r) /\ ~Refilled(r) /\ ~Jumped(r) /\ ~Changed(r)
    BY EventsType DEF Changed
  <1>5. CASE legacy
    <2>1. prev.refill \in Windows /\ Window = prev.refill
      BY <1>3, <1>5 DEF Window, TypeOK, OrNone
    <2>2. Steady(r) = Full /\ prev.toner = Full /\ Full # None
      BY <1>2, <1>3, <1>5 DEF Steady
    <2>3. prev.refill.total \in Nat
      BY <2>1 DEF Windows
    <2>4. RefillHolds(r)
      BY <1>2, <1>3, <2>1, <2>2, <2>3 DEF RefillHolds, Holds
    <2>5. quiet = 1
      BY <1>3, <1>4, <1>5, <2>1, <2>2, <2>4 DEF Refilled
    <2>6. RefillAfter(r) = [prev.refill EXCEPT !.hits = @ + 1]
      BY <1>2, <1>3, <1>4, <1>5, <2>1, <2>2, <2>4 DEF RefillAfter, Both
    <2>7. prev'.refill = RefillAfter(r) /\ prev'.toner = Full /\ prev'.total = r.total
      BY <1>2, <1>5, <2>2, FullPollSaves DEF Filtered, First
    <2>8. /\ prev'.refill # None /\ prev'.refill.new = Full /\ prev'.refill.hits = 1
          /\ prev'.refill.total = prev.refill.total
      BY <1>3, <2>1, <2>5, <2>6, <2>7 DEF Windows
    <2> QED BY <1>1, <1>2, <1>3, <1>5, <2>1, <2>5, <2>7, <2>8 DEF JumpWaits, Window
  <1>6. CASE ~legacy
    <2>1. prev.pend \in Windows /\ Window = prev.pend
      BY <1>3, <1>6 DEF Window, TypeOK, OrNone
    <2>2. prev.pend.total \in Nat
      BY <2>1 DEF Windows
    <2>3. JumpHolds(r) /\ r.level # None
      BY <1>2, <1>3, <2>1, <2>2 DEF JumpHolds, Holds
    <2>4. quiet = 1
      BY <1>3, <1>4, <1>6, <2>1, <2>3 DEF Jumped
    <2>5. JumpAfter(r) = [prev.pend EXCEPT !.hits = 1]
      BY <1>3, <1>4, <1>6, <2>1, <2>3 DEF JumpAfter
    <2>6. prev'.pend = JumpAfter(r) /\ prev'.total = r.total
      BY FullPollSaves
    <2>7. /\ prev'.pend # None /\ prev'.pend.new = Full /\ prev'.pend.hits = 1
          /\ prev'.pend.total = prev.pend.total
      <3>1. prev'.pend \in Windows
        BY <2>1, <2>5, <2>6 DEF Windows
      <3> QED BY <1>3, <2>1, <2>5, <2>6, <3>1 DEF Windows
    <2> QED BY <1>1, <1>2, <1>3, <1>6, <2>1, <2>4, <2>6, <2>7 DEF JumpWaits, Window
  <1> QED BY <1>5, <1>6

LEMMA ClockPoll ==
    ASSUME TypeOK, TypeOK', Clock, NEW r \in Readings, Exits(r)
    PROVE  Clock'
  <1>1. Polled(r) /\ spare' = spare /\ level' = level /\ spare \in Nat
    BY ExitsPoll DEF Polled, TypeOK
  <1>2. CASE quiet' = -1
    BY <1>2 DEF Clock
  <1>3. CASE quiet' # -1
    <2>1. /\ FullPoll(r) /\ quiet # -1 /\ Events(r) = 0 /\ r.level = level /\ quiet' = quiet + 1
      BY <1>3, Reports, EventsType DEF FullPoll
    <2>2. quiet \in {0, 1, 2} /\ level = Full /\ spare < FewPages
      BY <2>1 DEF Clock, TypeOK
    <2>3. CASE quiet = 0
      BY <1>1, <2>1, <2>2, <2>3, FirstPoll DEF Clock
    <2>4. CASE quiet \in {1, 2}
      <3>1. JumpWaits
        BY <2>4 DEF Clock
      <3>2. quiet = 1 /\ JumpWaits'
        BY <1>1, <2>1, <2>2, <2>4, <3>1, LaterPoll
      <3> QED BY <1>1, <2>1, <2>2, <3>2, FullIsHighest DEF Clock
    <2> QED BY <2>2, <2>3, <2>4
  <1> QED BY <1>2, <1>3

-----------------------------------------------------------------------------
(* The other actions, and the theorems. *)

LEMMA InitIInv == Init => IInv
  <1> SUFFICES ASSUME Init PROVE IInv
    OBVIOUS
  <1> USE Constants
  <1>1. TypeOK
    <2>1. prev \in PrevType
      BY DEF Init, PrevType, Blank, OrNone
    <2>2. budget \in [Faults -> Nat] /\ seen \in OrNone(Nat) /\ told \in OrNone(Nat)
      BY DEF Init, OrNone
    <2>3. -1 \in -1..3 /\ 0 \in 0..2
      OBVIOUS
    <2> QED BY <2>1, <2>2, <2>3 DEF Init, TypeOK, PrevType
  <1>2. ChipsKnown /\ NoChipTakenOver
    BY DEF Init, Blank, ChipsKnown, NoChipTakenOver, SlotChip
  <1>3. Calm
    <2>1. OneCartridge /\ CountersBehind /\ NamesRight /\ LevelsAbove /\ alarms = 0
      BY DEF Init, Blank, OneCartridge, CountersBehind, NamesRight, LevelsAbove, SlotChip,
             StoredLevel
    <2>2. ZeroAtReboot
      BY DEF Init, Blank, ZeroAtReboot
    <2> QED BY <2>1, <2>2 DEF Calm
  <1>4. Clock
    BY DEF Init, Clock
  <1> QED BY <1>1, <1>2, <1>3, <1>4 DEF IInv

LEMMA PrintStep ==
    ASSUME IInv, TypeOK', DevicePrint PROVE IInv'
  <1> USE Constants
  <1>1. PICK n \in Jobs : /\ ctr' = ctr + n /\ supply' = supply + n
                          /\ quiet' = IF n <= spare THEN quiet ELSE -1
                          /\ spare' = IF n <= spare THEN spare - n ELSE 0
                          /\ level' \in Levels
                          /\ level' = level \/ (level' < level /\ n >= FewPages)
    BY DEF DevicePrint
  <1>2. /\ n \in Nat /\ ctr \in Nat /\ supply \in Nat /\ spare \in Nat /\ level \in Nat
        /\ level' \in Nat /\ level' <= level
    BY <1>1 DEF IInv, TypeOK
  <1>3. /\ UNCHANGED <<kind, legacy, rebooted, cart, name, seen, prev, budget,
                       changes, alarms, told, blind, misled>>
    BY DEF DevicePrint
  <1>4. ChipsKnown' /\ NoChipTakenOver'
    BY <1>3 DEF IInv, ChipsKnown, NoChipTakenOver, Newest, SlotChip
  <1>5. Calm'
    <2>1. Harmless' = Harmless
      BY <1>3 DEF Harmless
    <2>2. OneCartridge /\ ZeroAtReboot /\ NamesRight => (OneCartridge /\ ZeroAtReboot /\ NamesRight)'
      BY <1>3 DEF OneCartridge, ZeroAtReboot, NamesRight, SlotChip
    <2>3. CountersBehind => CountersBehind'
      BY <1>1, <1>2, <1>3 DEF CountersBehind, IInv, TypeOK, OrNone, Slots
    <2>4. LevelsAbove => LevelsAbove'
      <3>1. /\ StoredLevel' = StoredLevel /\ StoredLevel \in OrNone(Levels)
            /\ prev.pend # None => prev.pend.new \in Nat
        BY <1>3 DEF StoredLevel, IInv, TypeOK, OrNone, Windows
      <3>2. StoredLevel # None => StoredLevel \in Nat
        BY <3>1 DEF OrNone
      <3>3. StoredLevel # None /\ StoredLevel >= level => StoredLevel >= level'
        BY <1>2, <3>2
      <3>4. prev.pend # None /\ prev.pend.new > level + 1 => prev.pend.new > level' + 1
        BY <1>2, <3>1
      <3> QED BY <1>3, <3>1, <3>3, <3>4 DEF LevelsAbove
    <2> QED BY <1>3, <2>1, <2>2, <2>3, <2>4 DEF IInv, Calm
  <1>6. Clock'
    <2>1. CASE quiet' = -1
      BY <2>1 DEF Clock
    <2>2. CASE quiet' # -1
      <3>1. n <= spare /\ quiet' = quiet /\ spare' = spare - n /\ quiet > -1
        BY <1>1, <2>2 DEF IInv, TypeOK
      <3>2. level = Full /\ spare < FewPages /\ level' = level
        BY <1>1, <1>2, <3>1 DEF IInv, Clock
      <3>3. ctr' + spare' = ctr + spare /\ ctr' >= ctr /\ spare' < FewPages /\ ctr' \in Nat
        BY <1>1, <1>2, <3>1, <3>2
      <3>4. JumpAhead => JumpAhead'
        BY <1>1, <1>2, <1>3, <3>3 DEF JumpAhead, StoredLevel, IInv, TypeOK, OrNone
      <3>5. JumpWaits => JumpWaits'
        BY <1>1, <1>2, <1>3, <3>1, <3>3 DEF JumpWaits, Window, IInv, TypeOK, OrNone, Windows
      <3> QED BY <3>1, <3>2, <3>3, <3>4, <3>5 DEF IInv, Clock
    <2> QED BY <2>1, <2>2
  <1> QED BY <1>4, <1>5, <1>6 DEF IInv

LEMMA ReplaceStep ==
    ASSUME IInv, TypeOK', Replace PROVE IInv'
  <1> USE Constants
  <1>1. /\ cart' = cart + 1 /\ changes' = changes + 1 /\ level' = Full /\ spare' = FewPages - 1
        /\ UNCHANGED <<kind, legacy, ctr, rebooted, seen, prev, alarms, told, blind, misled>>
        /\ quiet' \in {0, -1} /\ cart \in Nat /\ ctr \in Nat
    BY DEF Replace, IInv, TypeOK
  <1>2. ChipsKnown' /\ NoChipTakenOver'
    <2>1. Newest \in Nat /\ Newest' \in Nat /\ Newest' >= Newest
      BY <1>1 DEF Newest, First, IInv, TypeOK, OrNone
    <2>2. seen # None => seen <= cart'
      BY <1>1 DEF IInv, ChipsKnown, TypeOK, OrNone
    <2>3. /\ told # None => told <= Newest'
          /\ prev.ids # None => prev.ids <= Newest'
          /\ SlotChip # None => SlotChip <= Newest'
      BY <2>1 DEF IInv, ChipsKnown, TypeOK, OrNone, SlotChip, Slots
    <2>4. SlotChip' = SlotChip
      BY <1>1 DEF SlotChip
    <2> QED BY <1>1, <2>2, <2>3, <2>4 DEF IInv, ChipsKnown, NoChipTakenOver
  <1>3. Calm'
    BY <1>1 DEF Calm, Harmless, IInv, TypeOK
  <1>4. Clock'
    <2>1. quiet' = 0 => StoredLevel = level /\ Full - level > 20 /\ prev.total = ctr
                        /\ (legacy \/ prev.pend = None)
      BY DEF Replace
    <2>2. quiet' = 0 => JumpAhead'
      <3>1. level # None /\ StoredLevel' = StoredLevel
        BY <1>1 DEF IInv, TypeOK, StoredLevel
      <3> QED BY <1>1, <2>1, <3>1 DEF JumpAhead
    <2>3. spare' < FewPages
      BY <1>1
    <2> QED BY <1>1, <2>2, <2>3, FullIsHighest DEF Clock
  <1> QED BY <1>2, <1>3, <1>4 DEF IInv

(* Reboot, service reset and restart. *)
LEMMA HarmlessSpends ==
    ASSUME TypeOK, NEW f \in Faults, Spend(f), changes' = changes, misled' = misled,
           legacy' = legacy, Harmless'
    PROVE  /\ Harmless /\ f # "resets"
           /\ \A g \in {"up", "zero", "name", "reboots"} :
                 budget[g] \in Nat /\ budget'[g] >= budget[g] /\ budget'[g] \in Nat
           /\ f = "reboots" => budget'["reboots"] > 0
  <1>1. \A g \in Faults : /\ budget[g] \in Nat
                          /\ budget'[g] = IF g = f THEN budget[g] + 1 ELSE budget[g]
    BY SpendTypes DEF TypeOK
  <1>2. \A g \in {"up", "zero", "name", "reboots", "resets"} :
           /\ budget[g] \in Nat /\ budget'[g] \in Nat /\ budget'[g] >= budget[g]
           /\ g = f => budget'[g] > 0
    BY <1>1, Constants
  <1>3. Harmless
    BY <1>2 DEF Harmless
  <1> QED BY <1>2, <1>3 DEF Harmless

LEMMA SameMemory ==
    ASSUME IInv, TypeOK', NEW f \in Faults, Spend(f), rebooted' = prev.up,
           UNCHANGED <<kind, legacy, cart, name, level, supply, seen, prev,
                       changes, alarms, told, blind, misled, spare>>,
           \/ f = "reboots" /\ ctr' = ctr /\ quiet' = quiet
           \/ f = "resets" /\ quiet' = -1
    PROVE  IInv'
  <1>1. ChipsKnown' /\ NoChipTakenOver'
    BY DEF IInv, ChipsKnown, NoChipTakenOver, Newest, SlotChip
  <1>2. Calm'
    <2>1. SUFFICES ASSUME Harmless'
                   PROVE  (OneCartridge /\ CountersBehind /\ ZeroAtReboot /\ NamesRight
                           /\ LevelsAbove /\ alarms = 0)'
      BY DEF Calm
    <2>2. /\ Harmless /\ f # "resets"
          /\ \A g \in {"up", "zero", "name", "reboots"} :
                 budget[g] \in Nat /\ budget'[g] >= budget[g] /\ budget'[g] \in Nat
          /\ f = "reboots" => budget'["reboots"] > 0
      BY <2>1, HarmlessSpends DEF IInv
    <2>3. /\ OneCartridge /\ CountersBehind /\ ZeroAtReboot /\ NamesRight /\ LevelsAbove
          /\ alarms = 0 /\ ctr' = ctr
      BY <2>2 DEF IInv, Calm
    <2>4. ZeroAtReboot'
      BY <2>2, <2>3 DEF ZeroAtReboot
    <2>5. NamesRight' /\ LevelsAbove'
      BY <2>2, <2>3 DEF NamesRight, LevelsAbove, StoredLevel
    <2>6. OneCartridge' /\ CountersBehind'
      BY <2>3 DEF OneCartridge, CountersBehind, SlotChip
    <2> QED BY <2>3, <2>4, <2>5, <2>6
  <1>3. Clock'
    BY DEF IInv, Clock, JumpAhead, JumpWaits, StoredLevel, Window
  <1> QED BY <1>1, <1>2, <1>3 DEF IInv

LEMMA RestartStep ==
    ASSUME IInv, TypeOK', Restart PROVE IInv'
  <1> USE Constants
  <1>1. /\ prev'.total = prev.total /\ prev'.toner = prev.toner /\ prev'.ids = prev.ids
        /\ prev'.supply = prev.supply /\ prev'.slot = prev.slot /\ prev'.name = None
        /\ prev'.namePend = None /\ prev'.lvl = None /\ prev'.pend = None
        /\ prev'.refill = None /\ prev'.ref = None
    BY DEF Restart, Blank
  <1>2. /\ seen' = None /\ rebooted' = FALSE /\ quiet' = -1 /\ Spend("restarts")
        /\ UNCHANGED <<kind, legacy, ctr, cart, name, level, supply,
                       changes, alarms, told, blind, misled, spare>>
    BY DEF Restart
  <1>3. ChipsKnown' /\ NoChipTakenOver'
    <2>1. Newest \in Nat /\ Newest' = cart /\ Newest <= cart /\ cart \in Nat
      BY <1>2 DEF Newest, First, IInv, ChipsKnown, TypeOK, OrNone
    <2>2. /\ told # None => told <= cart
          /\ prev.ids # None => prev.ids <= cart
          /\ SlotChip # None => SlotChip <= cart
      BY <2>1 DEF IInv, ChipsKnown, TypeOK, OrNone, SlotChip, Slots
    <2>3. SlotChip' = SlotChip
      BY <1>1 DEF SlotChip
    <2> QED BY <1>1, <1>2, <2>1, <2>2, <2>3 DEF IInv, ChipsKnown, NoChipTakenOver
  <1>4. Calm'
    <2>1. SUFFICES ASSUME Harmless'
                   PROVE  (OneCartridge /\ CountersBehind /\ ZeroAtReboot /\ NamesRight
                           /\ LevelsAbove /\ alarms = 0)'
      BY DEF Calm
    <2>2. /\ Harmless
          /\ \A g \in {"up", "zero", "name", "reboots"} :
                 budget[g] \in Nat /\ budget'[g] >= budget[g] /\ budget'[g] \in Nat
      BY <1>2, <2>1, HarmlessSpends DEF IInv
    <2>3. /\ OneCartridge /\ CountersBehind /\ ZeroAtReboot /\ NamesRight /\ LevelsAbove
          /\ alarms = 0
      BY <2>2 DEF IInv, Calm
    <2>4. ZeroAtReboot'
      BY <1>1, <1>2, <2>2, <2>3 DEF ZeroAtReboot
    <2>5. NamesRight' /\ LevelsAbove'
      BY <1>1, <1>2, <2>2, <2>3 DEF NamesRight, LevelsAbove, StoredLevel
    <2>6. OneCartridge' /\ CountersBehind'
      BY <1>1, <1>2, <2>3 DEF OneCartridge, CountersBehind, SlotChip
    <2> QED BY <1>2, <2>3, <2>4, <2>5, <2>6
  <1>5. Clock'
    BY <1>2 DEF Clock
  <1> QED BY <1>3, <1>4, <1>5 DEF IInv

LEMMA Inductive == Spec => []IInv
  <1>1. IInv /\ [Next]_vars => IInv'
    <2> SUFFICES ASSUME IInv, [Next]_vars PROVE IInv'
      OBVIOUS
    <2>1. TypeOK'
      BY TypeStep DEF IInv, Clock
    <2>2. CASE DevicePrint
      BY <2>1, <2>2, PrintStep
    <2>3. CASE Replace
      BY <2>1, <2>3, ReplaceStep
    <2>4. CASE Reboot
      <3>1. "reboots" \in Faults /\ Spend("reboots")
        BY <2>4, Constants DEF Reboot
      <3>2. rebooted' = prev.up /\ ctr' = ctr /\ quiet' = quiet
        BY <2>4 DEF Reboot, history
      <3>3. UNCHANGED <<kind, legacy, cart, name, level, supply, seen, prev,
                        changes, alarms, told, blind, misled, spare>>
        BY <2>4 DEF Reboot, history
      <3> QED BY <2>1, <3>1, <3>2, <3>3, SameMemory
    <2>5. CASE ServiceReset
      BY <2>1, <2>5, SameMemory, Constants DEF ServiceReset
    <2>6. CASE Poll
      <3>1. PICK r \in Readings : Exits(r)
        BY <2>6, PollExits
      <3> QED BY <2>1, <3>1, ChipsStep, CalmPoll, ClockPoll DEF IInv
    <2>7. CASE Restart
      BY <2>1, <2>7, RestartStep
    <2>8. CASE UNCHANGED vars
      BY <2>8 DEF vars, device, history, IInv, TypeOK, ChipsKnown, Newest, SlotChip, NoChipTakenOver,
         Calm, Harmless, OneCartridge, CountersBehind, ZeroAtReboot, NamesRight, LevelsAbove,
         StoredLevel, Clock, JumpAhead, JumpWaits, Window
    <2> QED BY <2>2, <2>3, <2>4, <2>5, <2>6, <2>7, <2>8 DEF Next
  <1> QED BY <1>1, InitIInv, PTL DEF Spec

(* The state of the detectors is well typed. *)
THEOREM CartridgeTypes == Spec => []TypeOK
  BY Inductive, PTL DEF IInv

(* A new chip is never taken over in silence: the slot holds a chip that was reported or
   there at the baseline, through overflows, restarts, reboots and failed readings, for all
   thresholds and any number of faults. *)
THEOREM NoChipTakenOverHolds == Spec => []NoChipTakenOver
  BY Inductive, PTL DEF IInv

(* As long as the cartridge stays nothing is reported, however many readings fail, levels
   are too low, and the program restarts, for any thresholds of the four detectors. *)
THEOREM NoFalseAlarmHolds == Spec => []NoFalseAlarm
  <1>1. IInv => NoFalseAlarm
    BY DEF IInv, Calm, Harmless, NoFalseAlarm
  <1> QED BY <1>1, Inductive, PTL

(* A replacement that shows as a jump of more than 20 points is reported by the third
   complete poll, for any levels, jobs and thresholds. *)
THEOREM ReportedInTimeHolds == Spec => []ReportedInTime
  <1>1. IInv => ReportedInTime
    BY DEF IInv, Clock, ReportedInTime
  <1> QED BY <1>1, Inductive, PTL
=============================================================================
