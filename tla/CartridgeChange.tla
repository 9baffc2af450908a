---------------------------- MODULE CartridgeChange ----------------------------
(***************************************************************************)
(* Detection of a replaced or refilled cartridge, for one toner colour of  *)
(* one printer: the evidence engine (core/cartridge_change_engine.py), and *)
(* in core/collectors/base.py, _counters_event, the two-poll confirmation  *)
(* of a changed supply name, the two-step refill of the "legacy" colour    *)
(* and the two-step level jump of every other colour, with the snapshot    *)
(* that each of the handler's exits saves. Each of the four detectors      *)
(* remembers what it saw; the exits save different parts of that memory.   *)
(*                                                                         *)
(* manual_override = 0 throughout: it switches every detector off, and     *)
(* module TonerOverride is about it. The total is the counter of module    *)
(* CounterLedger with its branches; here they only decide what is saved.   *)
(* A definition introduced by "Variant:" is its successor with a plausible *)
(* bug, kept to test that a property would notice.                         *)
(***************************************************************************)
EXTENDS Integers, FiniteSets

CONSTANTS
    None,          \* Python's None
    Kinds,         \* identities a device can offer: "chip", "counter", "none"
    Levels,        \* toner levels (per cent) that are told apart
    Names,         \* supply names
    NoisePages,    \* 5: a deep drop of the level over fewer pages is noise
    FewPages,      \* 50: a jump over fewer pages is a candidate
    Jobs,          \* pages printed at a time
    OverLimit,     \* dynamic_max_delta: more pages than this is an overflow
    ZeroGuard, ResetMax, Band, TolMax,  \* thresholds of the counter branches
    MaxCtr,        \* bound: value of the page counter
    MaxFaults      \* bound: replacements, reboots, restarts, resets and bad readings

VARIABLES
    kind, legacy,  \* what the device reads out; whether this is the legacy colour
    ctr, rebooted, \* page counter; the uptime is below the one last stored
    cart, name, level, supply,   \* the cartridge in the printer
    seen,          \* the cartridge in the 10-minute cache of cartridge_id
    prev,          \* PrevStore._cache[ip], the fields of this colour
    budget,        \* bounds: how many of each fault so far
    changes, alarms, \* history: replacements; cartridge events logged
    told,          \* history: newest chip known to the log or taken as baseline
    blind,         \* history: a newer identity is remembered without a slot
    misled,        \* history: a level below the real one, or a wrong name, was stored
    quiet, spare   \* history: good polls since an unreported replacement, or -1,
                   \* and the pages that may still be printed meanwhile

device  == <<kind, legacy, ctr, rebooted, cart, name, level, supply>>
history == <<changes, alarms, told, blind, misled, quiet, spare>>
vars    == <<device, seen, prev, budget, history>>

OrNone(S)   == S \cup {None}
First(a, b) == IF a # None THEN a ELSE b
Full      == CHOOSE l \in Levels : \A m \in Levels : m <= l

Slots == [chip : OrNone(Nat), name : OrNone(Names), supply : OrNone(Nat),
          page : OrNone(Nat), level : OrNone(Levels)]
Windows == [prev : Levels, new : Levels, total : Nat, hits : 0..1]

ASSUME CartridgeAssumption ==
    /\ Kinds \subseteq {"chip", "counter", "none"}
    /\ Levels \subseteq 0..100 /\ \E l \in Levels : \A m \in Levels : m <= l
    /\ None \notin Int \cup Names \cup Slots \cup Windows
    /\ {NoisePages, FewPages, OverLimit, ZeroGuard, ResetMax, Band, TolMax} \subseteq Nat
    /\ 0 < NoisePages /\ NoisePages <= FewPages /\ FewPages <= OverLimit
    /\ Jobs \subseteq Nat

Blank == [total |-> None, toner |-> None, ids |-> None, supply |-> None,
          slot |-> None, name |-> None, namePend |-> None, lvl |-> None,
          pend |-> None, refill |-> None, ref |-> None, over |-> None, up |-> FALSE]

Faults == {"changes", "reboots", "restarts", "resets", "zero", "up", "down", "name", "gap"}
Spent  == budget["changes"] + budget["reboots"] + budget["restarts"] + budget["resets"]
          + budget["zero"] + budget["up"] + budget["down"] + budget["name"] + budget["gap"]
Spend(f) == Spent < MaxFaults /\ budget' = [budget EXCEPT ![f] = @ + 1]

TypeOK ==
    /\ kind \in Kinds /\ legacy \in BOOLEAN /\ rebooted \in BOOLEAN
    /\ ctr \in Nat /\ cart \in Nat /\ supply \in Nat /\ seen \in OrNone(Nat)
    /\ name \in Names /\ level \in Levels
    /\ prev \in [total : OrNone(Nat), toner : OrNone(Levels), ids : OrNone(Nat),
                 supply : OrNone(Nat), slot : OrNone(Slots), name : OrNone(Names),
                 namePend : OrNone(Names), lvl : OrNone(Levels), pend : OrNone(Windows),
                 refill : OrNone(Windows), ref : OrNone(Nat), over : OrNone(Nat \X Int),
                 up : BOOLEAN]
    /\ budget \in [Faults -> Nat]
    /\ changes \in Nat /\ alarms \in 0..2 /\ told \in OrNone(Nat)
    /\ blind \in BOOLEAN /\ misled \in BOOLEAN /\ quiet \in -1..3 /\ spare \in Nat

Init ==
    /\ kind \in Kinds /\ legacy \in BOOLEAN
    /\ ctr = ZeroGuard /\ rebooted = FALSE
    /\ cart = 1 /\ name \in Names /\ level \in Levels /\ supply = 0
    /\ seen = None /\ prev = Blank
    /\ budget = [f \in Faults |-> 0]
    /\ changes = 0 /\ alarms = 0 /\ told = None
    /\ blind = FALSE /\ misled = FALSE /\ quiet = -1 /\ spare = 0

-----------------------------------------------------------------------------
(* The device. *)

StoredLevel == IF legacy THEN prev.toner ELSE prev.lvl

\* A few pages do not use up a level.
DevicePrint ==
    /\ \E n \in Jobs :
          /\ ctr + n <= MaxCtr
          /\ ctr' = ctr + n /\ supply' = supply + n
          /\ quiet' = IF n <= spare THEN quiet ELSE -1
          /\ spare' = IF n <= spare THEN spare - n ELSE 0
          /\ level' \in {l \in Levels : l = level \/ (l < level /\ n >= FewPages)}
    /\ UNCHANGED <<kind, legacy, rebooted, cart, name, seen, prev, budget,
                   changes, alarms, told, blind, misled>>

\* A new cartridge, of any name. The clock of ReportedInTime starts when the level
\* the program compares with is the one the old cartridge had, more than 20 points below
\* full, the baseline is up to date, and no earlier jump waits (of the colours whose
\* window a later jump does not replace).
Replace ==
    /\ Spend("changes")
    /\ cart' = cart + 1 /\ name' \in Names /\ level' = Full /\ supply' = 0
    /\ changes' = changes + 1
    /\ quiet' = IF /\ StoredLevel = level /\ Full - level > 20
                   /\ prev.total = ctr /\ (legacy \/ prev.pend = None)
                THEN 0 ELSE -1
    /\ spare' = FewPages - 1
    /\ UNCHANGED <<kind, legacy, ctr, rebooted, seen, prev, alarms, told, blind, misled>>

Reboot ==
    /\ Spend("reboots")
    /\ rebooted' = prev.up
    /\ UNCHANGED <<kind, legacy, ctr, cart, name, level, supply, seen, prev, history>>

\* A service reset zeroes the page counter.
ServiceReset ==
    /\ Spend("resets")
    /\ ctr' = 0 /\ rebooted' = prev.up /\ quiet' = -1
    /\ UNCHANGED <<kind, legacy, cart, name, level, supply, seen, prev,
                   changes, alarms, told, blind, misled, spare>>
-----------------------------------------------------------------------------
(* A poll r = [total, level, chip, supply, name, others]: what was read, None for
   what was not, and whether another colour was read. *)

\* What a poll can get wrong: a total misread as zero, a level too high or too low, a
\* wrong name, and a gap: something that is not read at all. The identity comes from
\* get_cartridge_identity_data, which may have kept it for up to ten minutes.
Wrong(f, r) ==
    CASE f = "zero" -> r.total = 0 /\ ctr # 0
      [] f = "up"   -> r.level # None /\ r.level > level
      [] f = "down" -> r.level # None /\ r.level < level
      [] f = "name" -> r.name \notin {None, name}
      [] f = "gap"  -> \/ None \in {r.total, r.level, r.name}
                       \/ kind = "chip" /\ r.chip = None
                       \/ kind = "counter" /\ r.supply = None
      [] OTHER -> FALSE
May(S) == IF Spent < MaxFaults THEN S ELSE {}

Readings ==
    {r \in [total  : {ctr} \cup May({None, 0}),
            level  : {level} \cup May(Levels \cup {None}),
            chip   : IF kind = "chip" THEN {cart, First(seen, cart)} \cup May({None})
                     ELSE {None},
            supply : IF kind = "counter" THEN {supply} \cup May({None}) ELSE {None},
            name   : {name} \cup May(Names \cup {None}),
            others : BOOLEAN] :
        /\ {r.level, r.chip, r.supply, r.name} # {None} => r.others
        /\ Spent + Cardinality({f \in Faults : Wrong(f, r)}) <= MaxFaults
        /\ (r.level = None) = (r.name = None)}

\* The counter branches (module CounterLedger).
HasRef(r)   == prev.ref # None /\ r.total > 0
InBand(r)   == HasRef(r) /\ prev.ref - Band <= r.total /\ r.total <= prev.ref + TolMax
Above(r)    == HasRef(r) /\ r.total > prev.ref + TolMax
Base(r)     == IF Above(r) /\ prev.total <= prev.ref - Band THEN prev.ref ELSE prev.total
RefLeft(r)  == IF Above(r) THEN None ELSE prev.ref
Delta(r)    == r.total - Base(r)
Dropped(r)  == r.total < prev.total
Strong(r)   == rebooted /\ r.total < ResetMax /\ prev.total >= ZeroGuard

\* A drop of more than 25 points over a handful of pages is noise: the stored level
\* stands in for the reading (of the legacy colour, the one with prev_toner_level).
Steady(r) ==
    IF /\ r.level # None /\ prev.toner # None
       /\ 0 <= Delta(r) /\ Delta(r) < NoisePages /\ prev.toner - r.level > 25
    THEN prev.toner ELSE r.level

\* The slot the engine compares with; the other fields stand in for a lost one.
OldSlot ==
    First(prev.slot, [chip |-> prev.ids, name |-> prev.name, supply |-> prev.supply,
                      page |-> prev.total, level |-> prev.lvl])

\* The slot of this poll: what was not read is carried over.
NewSlot(r) ==
    [chip |-> First(r.chip, OldSlot.chip), name |-> First(r.name, OldSlot.name),
     supply |-> First(r.supply, OldSlot.supply), page |-> r.total,
     level |-> First(r.level, OldSlot.level)]

Both(a, b)  == a # None /\ b # None
Fell(a, b)  == Both(a, b) /\ a > 0 /\ b < a
Weight(P)   == IF P THEN 1 ELSE 0

\* Variant: a reboot silences the chip too.
EngineEmitsUnlessRebooted(old, new) ==
    ~rebooted /\ Both(old.chip, new.chip) /\ old.chip # new.chip

\* evaluate_cartridge_change: a changed chip is enough. Otherwise a counter must have
\* fallen, with a second piece of evidence, and no reboot. A name counts twice (as
\* cartridge_model and as supply_description), so does a level that jumps from low
\* to high (remaining_level and supply_life).
EngineEmits(old, new) ==
    \/ Both(old.chip, new.chip) /\ old.chip # new.chip
    \/ /\ ~rebooted
       /\ Fell(old.supply, new.supply) \/ Fell(old.page, new.page)
       /\ Weight(Fell(old.supply, new.supply)) + Weight(Fell(old.page, new.page))
            + 2 * Weight(Both(old.name, new.name) /\ old.name # new.name)
            + Weight(Both(old.level, new.level) /\ new.level - old.level >= 30)
            + Weight(/\ Both(old.level, new.level) /\ new.level - old.level >= 30
                     /\ old.level <= 35 /\ new.level >= 80) >= 2

\* The engine looks at a colour of which anything was read.
Candidate(r) == {r.level, r.chip, r.supply, r.name} # {None}
Detected(r)  == Candidate(r) /\ EngineEmits(OldSlot, NewSlot(r))

\* cartridge_state is replaced whole: a colour of which nothing was read loses its
\* slot, unless no other colour was read either.
SlotAfter(r) == IF Candidate(r) THEN NewSlot(r) ELSE IF r.others THEN None ELSE prev.slot

\* A different supply name is believed when it is read again; a chip overrides it.
NameDiffers(r) ==
    Both(r.name, prev.name) /\ r.name # prev.name /\ ~Detected(r) /\ r.chip = None
NameChanged(r) == NameDiffers(r) /\ prev.namePend = r.name
NamePendAfter(r) ==
    IF NameChanged(r) \/ (Both(r.name, prev.name) /\ r.name = prev.name) THEN None
    ELSE IF NameDiffers(r) THEN r.name ELSE prev.namePend

Changed(r) == Detected(r) \/ NameChanged(r)

\* A window is still open when the level has stayed and few pages were printed.
Holds(w, lv, pages) == lv >= w.new - 1 /\ pages < FewPages

\* The legacy colour: a jump opens a window, and two polls that find the level still
\* there confirm a REFILL. (A total of 0 in the window counts as no total.)
RefillHolds(r) ==
    /\ prev.refill # None
    /\ Holds(prev.refill, Steady(r),
             r.total - (IF prev.refill.total = 0 THEN Base(r) ELSE prev.refill.total))

Refilled(r) ==
    legacy /\ Steady(r) # None /\ RefillHolds(r) /\ prev.refill.hits = 1
RefillAfter(r) ==
    IF ~legacy \/ ~Both(Steady(r), prev.toner) THEN prev.refill
    ELSE IF Refilled(r) THEN None
    ELSE IF Steady(r) - prev.toner > 20 /\ Delta(r) < FewPages /\ ~Changed(r)
    THEN [prev |-> prev.toner, new |-> Steady(r), total |-> r.total, hits |-> 0]
    ELSE IF prev.refill = None \/ Steady(r) < prev.refill.new - 1 THEN None
    ELSE IF RefillHolds(r) THEN [prev.refill EXCEPT !.hits = @ + 1]
    ELSE prev.refill

\* The other colours, in the same way, with a window of their own. A colour that was
\* not read, or whose change another detector has just reported, loses its window
\* and, in the second case, keeps its old level.
JumpHolds(r) == Holds(prev.pend, r.level, r.total - prev.pend.total)
Jumped(r) ==
    /\ ~legacy /\ r.level # None /\ ~Changed(r)
    /\ prev.pend # None /\ JumpHolds(r) /\ prev.pend.hits = 1

\* Variant: a window survives a level that fell back.
JumpAfterFlap(r) ==
    IF legacy \/ r.level = None \/ Changed(r) \/ Jumped(r) THEN None
    ELSE IF prev.pend # None THEN [prev.pend EXCEPT !.hits = 1]
    ELSE IF prev.lvl # None /\ r.level - prev.lvl > 20 /\ Delta(r) < FewPages
    THEN [prev |-> prev.lvl, new |-> r.level, total |-> r.total, hits |-> 0]
    ELSE None

JumpAfter(r) ==
    IF legacy \/ r.level = None \/ Changed(r) \/ Jumped(r) THEN None
    ELSE IF prev.pend # None
    THEN IF JumpHolds(r) THEN [prev.pend EXCEPT !.hits = 1]
         ELSE IF r.level < prev.pend.new - 1 THEN None ELSE prev.pend
    ELSE IF prev.lvl # None /\ r.level - prev.lvl > 20 /\ Delta(r) < FewPages
    THEN [prev |-> prev.lvl, new |-> r.level, total |-> r.total, hits |-> 0]
    ELSE None
LevelAfter(r) == IF legacy \/ Changed(r) THEN prev.lvl ELSE First(r.level, prev.lvl)

-----------------------------------------------------------------------------
(* The exits of _counters_event. *)

\* What every poll does: the uptime is stored, the identity cache refreshed.
Polled(r) ==
    /\ UNCHANGED <<kind, legacy, ctr, cart, name, level, supply, changes, spare>>
    /\ rebooted' = FALSE
    /\ seen' = First(r.chip, seen)
    /\ budget' = [f \in Faults |-> budget[f] + Weight(Wrong(f, r))]
    /\ blind' = (blind \/ (/\ prev'.slot = None /\ Both(prev'.ids, told')
                           /\ prev'.ids > told'))
    /\ misled' = (misled \/ (r.level # None /\ r.level < level /\ StoredLevel' = r.level)
                         \/ (r.name \notin {None, name} /\ prev'.name = r.name))

\* An exit that logs no cartridge event.
Silent(r) == alarms' = alarms /\ quiet' = -1 /\ Polled(r)

\* The level that an exit saves without having filtered it.
RawToner(r) == IF legacy THEN First(r.level, prev.toner) ELSE None

\* total is None: the identities of this poll replace the stored ones, read or not.
ReadError(r) ==
    /\ r.total = None
    /\ prev' = [prev EXCEPT !.toner = RawToner(r), !.ids = r.chip,
                            !.supply = r.supply, !.up = TRUE]
    /\ told' = IF OldSlot.chip = None THEN First(r.chip, told) ELSE told
    /\ Silent(r)

\* The first poll takes everything as it is.
Baseline(r) ==
    /\ r.total # None /\ prev.total = None
    /\ prev' = [prev EXCEPT
          !.total = r.total, !.toner = IF legacy THEN r.level ELSE None,
          !.ids = r.chip, !.supply = r.supply, !.lvl = r.level,
          !.name = First(r.name, prev.name), !.refill = None, !.over = None, !.up = TRUE,
          !.slot = IF Candidate(r)
                   THEN [chip |-> r.chip, name |-> r.name, supply |-> r.supply,
                         page |-> r.total, level |-> r.level]
                   ELSE IF r.others THEN None ELSE prev.slot]
    /\ told' = First(r.chip, told)
    /\ Silent(r)

Readable(r) == r.total # None /\ prev.total # None

\* SNMP_COUNTER_READ_ERROR and COUNTER_ANOMALY: a total that fell is not believed.
Anomaly(r) ==
    /\ Readable(r) /\ Dropped(r) /\ ~Strong(r)
    /\ prev' = [prev EXCEPT !.toner = RawToner(r), !.up = TRUE]
    /\ told' = told /\ Silent(r)

\* COUNTER_RESET: the level is stored even when it was not read.
CounterReset(r) ==
    /\ Readable(r) /\ Dropped(r) /\ Strong(r)
    /\ prev' = [prev EXCEPT !.total = r.total, !.ref = prev.total, !.up = TRUE,
                            !.toner = IF legacy THEN r.level ELSE None]
    /\ told' = told /\ Silent(r)

\* COUNTER_RESTORED
Restored(r) ==
    /\ Readable(r) /\ ~Dropped(r) /\ InBand(r)
    /\ prev' = [prev EXCEPT !.total = r.total, !.toner = RawToner(r), !.ref = None,
                            !.over = None, !.up = TRUE]
    /\ told' = told /\ Silent(r)

\* The polls that examine the cartridge, and what they log.
Examined(r) == Readable(r) /\ ~Dropped(r) /\ ~InBand(r)
Events(r) == Cardinality({d \in 1..4 : \/ d = 1 /\ Detected(r)
                                       \/ d = 2 /\ NameChanged(r)
                                       \/ d = 3 /\ Refilled(r)
                                       \/ d = 4 /\ Jumped(r)})
Report(r) ==
    /\ alarms' = IF alarms + Events(r) > 2 THEN 2 ELSE alarms + Events(r)
    /\ told' = IF Detected(r) \/ OldSlot.chip = None THEN First(r.chip, told) ELSE told

\* Dictionaries shared with the cached snapshot: what is taken out of them stays out
\* even when the snapshot is not saved, what is put into a new one does not.
SharedPend(r)     == IF Detected(r) THEN None ELSE prev.pend
SharedNamePend(r) == IF prev.namePend = None THEN None ELSE NamePendAfter(r)
Filtered(r)       == IF legacy THEN First(Steady(r), prev.toner) ELSE None

\* PRINT_OVERFLOW and PRINT_GAP return before the cartridge memory is saved.
Overflow(r) ==
    /\ Examined(r) /\ Delta(r) > OverLimit
    /\ Report(r)
    /\ LET confirmed == prev.over = <<r.total, Delta(r)>>
       IN prev' = [prev EXCEPT
             !.total = IF confirmed THEN r.total ELSE Base(r),
             !.over = IF confirmed THEN None ELSE <<r.total, Delta(r)>>,
             !.toner = Filtered(r), !.up = TRUE,
             !.pend = SharedPend(r), !.namePend = SharedNamePend(r)]
    /\ quiet' = -1 /\ Polled(r)

\* Variant: the windows are not saved here either.
FullPollForgetsWindows(r) ==
    /\ Examined(r) /\ Delta(r) <= OverLimit
    /\ Report(r)
    /\ prev' = [prev EXCEPT !.total = r.total, !.toner = Filtered(r), !.up = TRUE,
                            !.slot = SlotAfter(r), !.lvl = LevelAfter(r),
                            !.pend = None, !.refill = None]
    /\ quiet' = IF quiet = -1 \/ Events(r) > 0 \/ r.level # level THEN -1 ELSE quiet + 1
    /\ Polled(r)

\* The poll that reaches the end saves everything.
FullPoll(r) ==
    /\ Examined(r) /\ Delta(r) <= OverLimit
    /\ Report(r)
    /\ prev' = [total |-> r.total, toner |-> Filtered(r),
                ids |-> First(r.chip, prev.ids), supply |-> First(r.supply, prev.supply),
                slot |-> SlotAfter(r),
                name |-> IF NamePendAfter(r) = None THEN First(r.name, prev.name)
                         ELSE prev.name,
                namePend |-> NamePendAfter(r), lvl |-> LevelAfter(r),
                pend |-> JumpAfter(r), refill |-> RefillAfter(r),
                ref |-> RefLeft(r), over |-> None, up |-> TRUE]
    /\ quiet' = IF quiet = -1 \/ Events(r) > 0 \/ r.level # level THEN -1 ELSE quiet + 1
    /\ Polled(r)

Poll == \E r \in Readings :
            \/ ReadError(r) \/ Baseline(r) \/ Anomaly(r) \/ CounterReset(r)
            \/ Restored(r) \/ Overflow(r) \/ FullPoll(r)

\* Only the columns of printer_counters outlive the program.
Restart ==
    /\ Spend("restarts")
    /\ prev' = [Blank EXCEPT !.total = prev.total, !.toner = prev.toner,
                 !.ids = prev.ids, !.supply = prev.supply, !.slot = prev.slot]
    /\ seen' = None /\ rebooted' = FALSE /\ quiet' = -1
    /\ UNCHANGED <<kind, legacy, ctr, cart, name, level, supply,
                   changes, alarms, told, blind, misled, spare>>

Next == DevicePrint \/ Replace \/ Reboot \/ ServiceReset \/ Poll \/ Restart

Spec == Init /\ [][Next]_vars
-----------------------------------------------------------------------------
(* What the detection promises. *)

\* As long as the cartridge of the baseline is in the printer nothing is reported,
\* whatever reboots, restarts, overflows and failed readings do to the memory of the
\* four detectors, and although a level is read too high twice or a wrong name once.
\* Not covered, because the code does alarm: one high reading of the legacy colour
\* (OneBlipIsNoRefill), a low reading or wrong name that was stored (misled), a service
\* reset of the counter; and a total misread as zero at a reboot and at the poll after,
\* which is the fall of the counter that lets a wrong name count.
NoFalseAlarm ==
    /\ changes = 0 /\ budget["resets"] = 0 /\ ~misled
    /\ budget["up"] <= (IF legacy THEN 0 ELSE 2) /\ budget["name"] <= 1
    /\ budget["reboots"] = 0 \/ budget["zero"] <= 1
    => alarms = 0

\* A new chip is never taken over in silence: the slot that the next poll compares
\* with holds a chip that has been reported (or was there at the baseline), also
\* after overflows, restarts and reboots. The exception is the history in which the
\* slot was lost and a failed reading of the total has overwritten cartridge_ids.
NoChipTakenOver ==
    (prev.slot # None /\ prev.slot.chip # None /\ ~blind) => prev.slot.chip <= told

\* A replacement that shows as a jump of the level is reported by the third complete
\* poll after it, when fewer than 50 pages are printed in between. (A jump that waited
\* for 50 pages is neither confirmed nor dropped while the level stays, and the next
\* jump is not seen: the clock does not start there.)
ReportedInTime == quiet < 3

(* Stronger statements that the repository makes, and that the code breaks. *)

\* base.py: "One back-to-back verification is not enough because the noise is
\* sometimes high". One high reading of an idle printer is confirmed by the filter
\* for low readings, which puts it in the place of the two that follow.
OneBlipIsNoRefill ==
    (/\ legacy /\ budget["up"] <= 1
     /\ \A f \in Faults \ {"up"} : budget[f] = 0) => alarms = 0

\* test_cartridge_identity.py: "The id-driven event clears the level jump path
\* pendings (no second event)". The level of that poll is not saved, so that the
\* next poll sees the same jump again.
OneEventPerReplacement ==
    [][(~legacy /\ changes = 1 /\ told = cart) => alarms' = alarms]_vars
=============================================================================
