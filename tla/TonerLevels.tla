------------------------------ MODULE TonerLevels ------------------------------
(***************************************************************************)
(* What the program believes about the toner of one colour: the device,    *)
(* the poll (core/enhanced_collector.py, 1411-1752), which evaluates the   *)
(* override slot, saves PrevStore and runs the yield engine, and the       *)
(* manual reset (web/routes/printers.py, toner_reset), which does not take *)
(* the poll's lock. Poll and reset are two steps each, so that one can     *)
(* come between the two steps of the other.                                *)
(* The cartridge uses one step of its level for a unit of pages. The       *)
(* display of a level the program made up itself (a status code) is a poll *)
(* with a `coded` reading.                                                 *)
(* A definition introduced by "Variant:" is its successor with a plausible *)
(* bug, kept to test that a property would notice.                         *)
(***************************************************************************)
EXTENDS YieldEngine, TonerOverride

CONSTANTS
    Reasons,      \* why a technician resets: "empty", "dirty", "auto"
    MaxCtr,       \* bound: value of the page counter
    Limits,       \* bound: how many of each fault or intervention
    MaxFaults     \* bound: how many of all of them

VARIABLES
    ctr, toner, chip, key,  \* the device: pages, real level, a stuck reading, the cartridge
    slot, manual,           \* PrevStore: toner_overrides[colour], override_*
    disp,                   \* store.printer_data: what the last poll displayed
    poll, reset,            \* a poll, a manual reset, between their two steps
    fresh,                  \* history: the last fill, if polls may yet show it
    fills,                  \* history: counters of the fills that polls have shown
    reads,                  \* history: the level read last, and the counter since which no
                            \* other was read
    ended,                  \* history: the counter at which the last closed cycle ended
    raced,                  \* history: the poll under way, or the last, crossed a reset
    crossed,                \* history: some poll crossed a reset
    held,                   \* history: the counter at the last reset, if no poll crossed it
                            \* and until a release
    budget

device == <<ctr, toner, chip, key>>
history == <<fresh, fills, reads, ended, raced, crossed, held>>
program == <<slot, manual, row, sample, disp, poll, reset>>
vars == <<device, program, history, budget>>

Faults == {"fills", "replaced", "stuck", "thaw", "resets", "none", "up", "down", "zero", "coded"}
Spent == MapThenSumSet(LAMBDA f : budget[f], Faults)
Spend(f) == Spent < MaxFaults /\ budget[f] < Limits[f] /\ budget' = [budget EXCEPT ![f] = @ + 1]

Idle == [pc |-> "idle"]
Reading == IF chip = None THEN toner ELSE chip

Samples == [kind : {"poll", "cycle", "bound"}, from : Nat, to : Nat, drop : 1..MaxLevel]
Displays == [total : Nat, raw : OrNone(Levels), key : OrNone(Keys), level : OrNone(Levels)]
Polls == [pc : {"read"}, level : OrNone(Levels), total : Nat, key : OrNone(Keys),
          coded : BOOLEAN, released : BOOLEAN, active : OrNone(Slots), saved : OrNone(Slots)]
Resets == [pc : {"engine"}, total : Nat, raw : OrNone(Levels), cap : Nat \ {0}]

ASSUME LevelsAssumption ==
    /\ Keys # {} /\ None \notin Faults
    /\ None \notin RowTypes /\ None \notin Slots /\ None \notin Samples /\ None \notin Displays
    /\ None \notin [start : Nat, toner : Levels] /\ None \notin [at : Nat, shown : 0..1]

TypeOK ==
    /\ ctr \in Nat /\ toner \in Levels /\ chip \in OrNone(Levels) /\ key \in Keys
    /\ row \in OrNone(RowTypes) /\ sample \in OrNone(Samples) /\ disp \in OrNone(Displays)
    /\ slot \in OrNone(Slots) /\ manual \in OrNone([start : Nat, toner : Levels])
    /\ poll \in {Idle} \cup Polls /\ reset \in {Idle} \cup Resets
    /\ fresh \in OrNone([at : Nat, shown : 0..1]) /\ fills \subseteq Nat
    /\ reads \in [level : OrNone(Levels), since : Nat] /\ ended \in Nat
    /\ raced \in BOOLEAN /\ crossed \in BOOLEAN /\ held \in OrNone(Nat)
    /\ budget \in [Faults -> Nat]

Init ==
    /\ ctr = 1 /\ toner = MaxLevel /\ chip = None /\ key = CHOOSE k \in Keys : TRUE
    /\ slot = None /\ manual = None /\ row = None /\ sample = None /\ disp = None
    /\ poll = Idle /\ reset = Idle
    /\ fresh = None /\ fills = {} /\ reads = [level |-> None, since |-> 0] /\ ended = 0
    /\ raced = FALSE /\ crossed = FALSE /\ held = None
    /\ budget = [f \in Faults |-> 0]

-----------------------------------------------------------------------------
(* The device. *)

DevicePrint ==
    /\ ctr < MaxCtr /\ ctr' = ctr + 1 /\ toner' = Max({0, toner - 1})
    /\ UNCHANGED <<chip, key, program, history, budget>>

NewFill == fresh' = [at |-> ctr, shown |-> 0]

\* Toner is filled in; the chip may be reset or go on saying what it said.
Fill ==
    /\ Spend("fills")
    /\ toner' = MaxLevel
    /\ \/ chip' = None /\ NewFill
       \/ chip' = Reading /\ UNCHANGED fresh
    /\ UNCHANGED <<ctr, key, program, fills, reads, ended, raced, crossed, held>>

\* A cartridge of another name.
Replace ==
    /\ Spend("replaced")
    /\ key' \in Keys \ {key} /\ toner' = MaxLevel /\ chip' = None /\ NewFill
    /\ UNCHANGED <<ctr, program, fills, reads, ended, raced, crossed, held>>

ChipSticks ==
    /\ Spend("stuck") /\ chip = None /\ chip' = toner
    /\ UNCHANGED <<ctr, toner, key, program, history>>

ChipMoves ==
    /\ Spend("thaw") /\ chip # None /\ chip' = None
    /\ UNCHANGED <<ctr, toner, key, program, history>>

Device == DevicePrint \/ Fill \/ Replace \/ ChipSticks \/ ChipMoves
-----------------------------------------------------------------------------
(* A poll, first step: read, evaluate the slot, take PrevStore as it then is. A reading
   is wrong or missing within its budget; an unread total is 0. *)

Misread(f, lvl, total) ==
    CASE f = "none" -> lvl = None /\ total = ctr
      [] f = "up"   -> lvl # None /\ lvl > Reading /\ total = ctr
      [] f = "down" -> lvl # None /\ lvl < Reading /\ total = ctr
      [] f = "zero" -> lvl = Reading /\ total = 0
      [] f = "coded" -> lvl = None /\ total = ctr

\* The slot after the evaluation: gone, or knowing that the chip was aligned.
Evaluated(s, total, lvl) ==
    IF s = None \/ ValidAfter(s, total) = None \/ Released(s, total, lvl) THEN None
    ELSE Aligned(s, total, lvl)

PollRead ==
    \E lvl \in OrNone(Levels), total \in {ctr, 0}, named \in OrNone({key}), f \in Faults \cup {None} :
        /\ poll.pc = "idle"
        /\ \/ f = None /\ lvl = Reading /\ total = ctr /\ named = key /\ UNCHANGED budget
           \/ f = "none" /\ Misread(f, lvl, total) /\ Spend(f)
           \/ f \in {"up", "down", "zero", "coded"} /\ named = key /\ Misread(f, lvl, total) /\ Spend(f)
        /\ LET old    == Normalised(slot, manual)
               active == Evaluated(old, total, lvl)
           IN  /\ slot' = IF active = old THEN slot ELSE active
               /\ held' = IF active = None THEN None ELSE held
               /\ poll' = [pc |-> "read", level |-> lvl, total |-> total, key |-> named,
                           coded |-> f = "coded", released |-> active # old /\ active = None,
                           active |-> active, saved |-> Normalised(slot', manual)]
        /\ raced' = (reset.pc # "idle") /\ crossed' = (crossed \/ raced')
        /\ reads' = IF lvl \in {None, reads.level} THEN reads
                    ELSE [level |-> lvl, since |-> IF reads.level = None THEN 0 ELSE ctr]
        /\ UNCHANGED <<device, manual, row, sample, disp, reset, fresh, fills, ended>>

(* Second step: _counters_event saves the slots it read, unless the total is bad; then the
   engine, and a slot for a chip it found frozen. *)

Input == [key |-> poll.key, level |-> poll.level, ctr |-> poll.total,
          quarantined |-> poll.active # None,
          shown |-> IF poll.active = None THEN None ELSE Virtual(poll.active, poll.total)]

FrozenSlot(e) ==
    [start |-> Max({0, poll.total - Max({0, poll.total - First(e.ancCtr, poll.total)})}),
     toner |-> e.anc, cap |-> e.cap, mode |-> "auto_frozen_chip", aligned |-> FALSE,
     chipAt |-> None, frozenAt |-> poll.level]
FindsFrozen(e) ==
    poll.active = None /\ e.status \in {"frozen_chip", "overrun_alert"} /\ e.anc # None

SlotAfterPoll(e) ==
    IF FindsFrozen(e) THEN FrozenSlot(e)
    ELSE IF poll.total = 0 THEN slot
    ELSE ValidAfter(poll.saved, poll.total)

\* What polls show of a fill: another cartridge's name, or a jump of the level from what was
\* read before and once more at the next reading, before pages have used it up.
ShowsSwap == row # None /\ IsSwap(Input)
ShowsJump ==
    /\ row # None /\ poll.active = None /\ row.anc # None /\ row.last # None
    /\ poll.level - row.anc >= RefillJump
    /\ IF fresh.shown = 0 THEN poll.level - row.last >= RefillJump
       ELSE row.last - poll.level \in 0..NoiseDrop

NoteFills ==
    IF fresh = None \/ poll.level = None \/ poll.total < fresh.at THEN UNCHANGED <<fresh, fills>>
    ELSE IF ShowsSwap \/ (ShowsJump /\ fresh.shown = 1)
    THEN fresh' = None /\ fills' = fills \cup {fresh.at}
    ELSE fresh' = (IF ShowsJump THEN [fresh EXCEPT !.shown = 1] ELSE None) /\ UNCHANGED fills

NoteCycle == ended' = IF sample' # sample /\ sample'.kind = "cycle" THEN sample'.to ELSE ended

PollRecord ==
    /\ poll.pc = "read"
    /\ IF poll.coded /\ poll.active = None
       THEN \E l \in Levels : Synthetic([Input EXCEPT !.level = l])
       ELSE Snapshot(Input)
    /\ slot' = SlotAfterPoll(row')
    /\ disp' = [total |-> poll.total, raw |-> poll.level, key |-> poll.key, level |-> row'.cur]
    /\ poll' = Idle /\ NoteFills /\ NoteCycle
    /\ UNCHANGED <<device, manual, reset, reads, raced, crossed, held, budget>>

-----------------------------------------------------------------------------
(* A manual reset, of a colour that was just filled: the engine first, with the total on
   display, then PrevStore. *)

ResetEngine ==
    /\ reset.pc = "idle" /\ disp # None /\ toner = MaxLevel /\ Spend("resets")
    /\ \E why \in Reasons :
          /\ ManualRefill([key |-> disp.key, level |-> MaxLevel, ctr |-> disp.total, why |-> why])
          /\ reset' = [pc |-> "engine", total |-> disp.total, raw |-> disp.raw, cap |-> row'.cap]
    /\ raced' = TRUE /\ crossed' = (crossed \/ poll # Idle) /\ NoteCycle
    /\ UNCHANGED <<device, slot, manual, disp, poll, fresh, fills, reads, held>>

ResetStore ==
    /\ reset.pc = "engine"
    /\ slot' = [start |-> reset.total, toner |-> MaxLevel, cap |-> reset.cap,
                mode |-> "manual_reset",
                aligned |-> reset.raw # None /\ Distance(First(reset.raw, 0), MaxLevel) <= AlignTol,
                chipAt |-> reset.raw, frozenAt |-> None]
    /\ manual' = [start |-> reset.total, toner |-> MaxLevel]
    /\ held' = IF poll = Idle THEN reset.total ELSE None
    /\ reset' = Idle /\ raced' = TRUE /\ crossed' = (crossed \/ poll # Idle)
    /\ UNCHANGED <<device, row, sample, disp, poll, fresh, fills, reads, ended, budget>>

Next == Device \/ PollRead \/ PollRecord \/ ResetEngine \/ ResetStore
Spec == Init /\ [][Next]_vars
-----------------------------------------------------------------------------
(* Safety. *)

CallsFrozen ==
    LET found(e) == e # None /\ e.status \in {"frozen_chip", "overrun_alert"}
    IN  poll.pc = "read" /\ poll.active = None /\ row' # row /\ found(row') /\ ~found(row)
StuckForPages == poll.total - reads.since >= FreezePages
Without(faults) == \A f \in faults : budget[f] = 0
NothingRose == Without({"up", "down", "fills", "replaced"})

\* A poll calls a chip frozen only if every reading of the last FreezePages pages was the
\* same, as long as no level rose, by a fill or a wrong reading, and every total was read.
FrozenMeansStuck ==
    [][CallsFrozen /\ NothingRose /\ Without({"zero"}) => StuckForPages]_vars

\* The same, whether the total was read or not (core/yield_engine.py:109: "Pages without
\* any raw_level change above 0% before a chip is flagged as frozen").
FrozenAfterPages == [][CallsFrozen /\ NothingRose => StuckForPages]_vars

\* No sample of a poll spans a fill that polls have shown, if every total was read.
SampleIsOneCartridge ==
    sample # None /\ sample.kind = "poll" /\ Without({"zero"}) => ~ \E f \in fills : sample.from < f /\ f < sample.to

\* What a sample of a poll says was used was used, up to what a reset takes for a full
\* cartridge, if the chip never told a level other than its own and no poll crossed a reset.
SampleDropIsReal ==
    [][sample' # sample /\ sample'.kind = "poll" /\ Without({"up", "down", "thaw"}) /\ ~crossed
         => sample'.drop - AlignTol <= sample'.to - sample'.from]_vars

\* After a manual reset that crosses no poll, and until a release, polls show the level
\* counted down from it.
ManualLevelHolds ==
    held # None /\ ~raced /\ poll.pc = "idle" =>
        /\ slot # None /\ slot.mode = "manual_reset" /\ slot.start = held
        /\ disp.level = Virtual(slot, disp.total)

\* No closed cycle begins before the one closed before it ended, if every total was read.
CyclesDisjoint ==
    [][sample' # sample /\ sample'.kind = "cycle" /\ Without({"zero"})
         => sample'.from >= ended]_vars

\* A slot that was released is gone once the poll has ended (core/collectors/base.py:373,
\* "True if a live/swapped chip proved genuine tracking and override should clear").
ReleasedIsGone ==
    [][poll.pc = "read" /\ poll'.pc = "idle" /\ poll.released /\ ~raced
         => Normalised(slot', manual') = None]_vars
=============================================================================
