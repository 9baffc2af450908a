------------------------------ MODULE YieldEngine ------------------------------
(***************************************************************************)
(* The yield engine (core/yield_engine.py) for one colour of one printer:  *)
(* the row of cartridge_state, how process_cartridge_snapshot moves it at  *)
(* a poll, how register_manual_refill moves it, and the sample of consumed *)
(* pages each may record. One disjunct of Snapshot per branch of the       *)
(* function, in its order. A level is counted in steps of the chip and     *)
(* pages in units of the same size for all thresholds. The statistics over *)
(* many samples (robust median, regime shift, confidence) are a choice:    *)
(* the capacity of the row stays, becomes the new estimate, or snaps back. *)
(* hardware_swap is never TRUE: collect_enhanced takes it from a key of    *)
(* PrevStore that nothing writes (core/enhanced_collector.py:1630).        *)
(* A definition introduced by "Variant:" is its successor with a plausible *)
(* bug, kept to test that a property would notice.                         *)
(***************************************************************************)
EXTENDS TonerUnits

CONSTANTS
    Keys,             \* cartridge keys (model and name)
    RefillJump, Bounce, NoiseDrop, NoisePages,        \* 20 %, 5 %, 25 %, 5 pages
    MinPages, QuantPages, MinPartial, MinZero,        \* 10 pages, 1 % rule, 20 %, 15 %
    FreezePages,      \* pages without a change before a chip is called frozen
    OverrunPages,     \* pages beyond the estimated end that raise the alert
    Rated,            \* reference capacity of the catalog
    MinYield, MaxYield,   \* 300 and 600 000 pages
    BandLow, BandHigh,    \* what a closed cycle may estimate, given Rated
    EmptyPages, ManualPages, DirtyDrop   \* gates of a manual refill: 15 %, 30 %, 25 %

ASSUME YieldAssumption ==
    /\ Rated \in Nat \ {0}
    /\ {RefillJump, Bounce, NoiseDrop, NoisePages, MinPages, QuantPages, MinPartial,
        MinZero, FreezePages, OverrunPages, MinYield, MaxYield, BandLow, BandHigh,
        EmptyPages, ManualPages, DirtyDrop} \subseteq Nat
    /\ Bounce < RefillJump /\ 0 < MinPages /\ 0 < MinPartial /\ 0 < MinYield /\ MinYield <= MaxYield
    /\ None \notin Keys

VARIABLES
    row,      \* cartridge_state of the colour, None before the first poll
    sample    \* the sample accepted last, None before the first

engine == <<row, sample>>

Between(lo, x, hi) == Max({lo, Min({x, hi})})

Estimate(pages, drop) == Rounded(pages * MaxLevel, drop)
Drained(pages, cap) == Rounded(pages * MaxLevel, cap)

RowTypes == [key : OrNone(Keys), cur : OrNone(Levels), last : OrNone(Levels), lastCtr : Nat,
             anc : OrNone(Levels), ancCtr : OrNone(Nat),
             cyc : OrNone(Levels), cycCtr : OrNone(Nat),
             zero : OrNone(Nat), after : Nat,
             status : {"active", "closed", "zero_plateau", "refill_pending",
                       "chip_quarantined", "frozen_chip", "overrun_alert"},
             pend : OrNone(Levels), pendCtr : OrNone(Nat),
             cap : Nat \ {0}, learned : BOOLEAN, some : BOOLEAN]

-----------------------------------------------------------------------------
(* Pieces of a row. r = [key, level, ctr, quarantined, shown]: what a poll gives the
   engine; key None without a model or name, level None without a reading, shown the
   display level of a quarantined chip. In a row, learned says that cap is not the
   reference, some that a sample was accepted. *)

NoPending(e) == [e EXCEPT !.pend = None, !.pendCtr = None]
Seen(e, r) == [e EXCEPT !.cur = r.level, !.last = r.level, !.lastCtr = r.ctr]
Anchored(e, r) == [Seen(e, r) EXCEPT !.anc = r.level, !.ancCtr = r.ctr]
CycleStart(e, r) == [e EXCEPT !.cyc = r.level, !.cycCtr = r.ctr]

\* Everything starts with the cartridge now in the slot.
SwapReset(r) ==
    [key |-> r.key, cur |-> r.level, last |-> r.level, lastCtr |-> r.ctr,
     anc |-> r.level, ancCtr |-> r.ctr, cyc |-> r.level, cycCtr |-> r.ctr,
     zero |-> IF r.level = 0 THEN r.ctr ELSE None, after |-> 0, status |-> "active",
     pend |-> None, pendCtr |-> None, cap |-> Rated, learned |-> FALSE, some |-> FALSE]

FirstRow(r) ==
    IF r.level # None THEN SwapReset(r)
    ELSE [SwapReset(r) EXCEPT !.ancCtr = None, !.cycCtr = None]

\* No identity at a poll is the stored one; an unknown stored one is completed.
IsSwap(r) == r.key # None /\ row.key # None /\ r.key # row.key

\* A learned capacity that is doubtful, or far from the reference, is given up.
Healed(e) ==
    {e} \cup {[e EXCEPT !.cap = Rated, !.learned = FALSE, !.some = b] :
                b \in IF e.learned THEN {e.some, FALSE} ELSE {}}

Identified(r) == [row EXCEPT !.key = First(r.key, @)]

\* The row as the branches find it.
Current(r) == IF IsSwap(r) THEN {SwapReset(r)} ELSE Healed(Identified(r))

\* The row after an accepted sample: the statistics keep or replace its capacity.
Learn(e, est) == {[e EXCEPT !.cap = c, !.learned = @ \/ c # e.cap, !.some = TRUE] :
                    c \in {e.cap, est}}

Sample(kind, from, to, drop) == [kind |-> kind, from |-> from, to |-> to, drop |-> drop]

-----------------------------------------------------------------------------
(* _maybe_close_cycle. A cycle that reached zero consumed all it started with; one that
   was refilled before consumed what lies above the level it ended at. *)

CycleFrom(e) == First(e.cyc, MaxLevel)
Early(e, end) == e.zero = None /\ end > 0
CycleDrop(e, end) == IF Early(e, end) THEN CycleFrom(e) - end ELSE CycleFrom(e)
CycleEstimate(e, at, end) == Estimate(at - e.cycCtr, CycleDrop(e, end))
Closes(e, at, end) ==
    /\ e.cycCtr # None /\ at > e.cycCtr /\ at - e.cycCtr >= MinPages
    /\ CycleFrom(e) > 0
    /\ CycleDrop(e, end) >= IF Early(e, end) THEN MinPartial ELSE MinZero
    /\ CycleEstimate(e, at, end) \in Max({MinYield, BandLow})..Min({MaxYield, BandHigh})

\* What closing the cycle at counter `at` makes of the row and of the sample.
CloseCycle(e, at, end) ==
    IF Closes(e, at, end)
    THEN {<<[l EXCEPT !.status = "closed"], Sample("cycle", e.cycCtr, at, CycleDrop(e, end))>> :
            l \in Learn(e, CycleEstimate(e, at, end))}
    ELSE {<<e, sample>>}

Restarted(e) == [NoPending(e) EXCEPT !.zero = None, !.after = 0, !.status = "active"]
\* Variant: the pages of the next sample count from the cartridge before.
RefilledKeepingCounter(e, r) ==
    [CycleStart(Anchored(Restarted(e), r), r) EXCEPT !.ancCtr = First(e.ancCtr, r.ctr)]
\* Variant: the next cycle goes on from the start of the one before.
RefilledKeepingCycle(e, r) == Anchored(Restarted(e), r)
\* A new cycle starts here: the end of every confirmed refill.
Refilled(e, r) == CycleStart(Anchored(Restarted(e), r), r)

Becomes(e) == row' = e /\ UNCHANGED sample
BecomesRefilled(outcomes, r) ==
    \E o \in outcomes : row' = Refilled(o[1], r) /\ sample' = o[2]

\* Pages beyond the estimated end of what was there at level `lvl`, `pages` ago.
Overrun(e, lvl, pages) == Max({0, pages - Rounded(e.cap * Max({lvl, 1}), MaxLevel)})
Alert(e, over, status) ==
    [e EXCEPT !.after = over,
              !.status = IF over >= OverrunPages THEN "overrun_alert" ELSE status]

-----------------------------------------------------------------------------
(* process_cartridge_snapshot. Each branch has the guards of those before it negated. *)

FirstSnapshot(r) == row = None /\ Becomes(FirstRow(r))

Unread(e) == [e EXCEPT !.last = None, !.anc = None, !.ancCtr = None,
                       !.cyc = None, !.cycCtr = None, !.zero = None]
\* A level the program made up itself is displayed and no more.
Synthetic(r) ==
    IF row = None
    THEN Becomes(Unread(SwapReset(r)))
    ELSE Becomes([row EXCEPT !.cur = r.level])

\* Variant: what the chip says is displayed.
QuarantinedChipShown(e, r) ==
    /\ r.quarantined
    /\ Becomes([e EXCEPT !.cur = r.level, !.lastCtr = r.ctr, !.status = "chip_quarantined"])
\* A chip that was not replaced with the toner: the row follows the estimate.
QuarantinedChip(e, r) ==
    LET pages == IF e.cycCtr = None THEN 0 ELSE Max({0, r.ctr - e.cycCtr})
    IN  /\ r.quarantined
        /\ Becomes([Alert(e, IF r.shown = 0 THEN Overrun(e, CycleFrom(e), pages) ELSE 0,
                          "chip_quarantined") EXCEPT !.cur = r.shown, !.lastCtr = r.ctr])

Begun(e, r) == IF e.cycCtr # None \/ r.level = None THEN e
               ELSE [CycleStart(e, r) EXCEPT !.status = "active"]

MissingLevel(e, r) == r.level = None /\ Becomes(e)

CounterDecreased(e, r) ==
    /\ r.level # None /\ r.ctr < e.lastCtr
    /\ Becomes(NoPending(Anchored(e, r)))

\* What the remaining branches share: a level, and a counter that did not fall.
Readable(e, r) == r.level # None /\ r.ctr >= e.lastCtr

IsNoise(e, r) == e.last # None /\ e.last - r.level > NoiseDrop /\ r.ctr - e.lastCtr < NoisePages
Noise(e, r) ==
    /\ Readable(e, r) /\ IsNoise(e, r)
    /\ Becomes([e EXCEPT !.cur = r.level, !.lastCtr = r.ctr])

IsJump(e, r) == e.last # None /\ r.level - e.last >= RefillJump
Confirms(e, r) == e.pend # None /\ r.level >= e.pend - 1 /\ r.ctr >= e.pendCtr
RefillCandidate(e, r) ==
    /\ Readable(e, r) /\ IsJump(e, r) /\ ~Confirms(e, r)
    /\ Becomes([Seen(e, r) EXCEPT !.pend = r.level, !.pendCtr = r.ctr,
                                  !.status = "refill_pending"])
RefillByJump(e, r) ==
    /\ Readable(e, r) /\ IsJump(e, r) /\ Confirms(e, r)
    /\ BecomesRefilled(CloseCycle(e, e.pendCtr, IF e.zero # None THEN 0 ELSE e.anc), r)

IsBounce(e, r) == e.last # None /\ r.level - e.last \in 1..Bounce
SmallBounce(e, r) == Readable(e, r) /\ IsBounce(e, r) /\ Becomes(Seen(e, r))

Steady(e, r) == Readable(e, r) /\ ~IsNoise(e, r) /\ ~IsJump(e, r) /\ ~IsBounce(e, r)

\* Level 0 starts a plateau; the pages printed on it are counted.
AtZero(e, r) ==
    IF r.level # 0 THEN e
    ELSE [e EXCEPT !.status = "zero_plateau", !.zero = First(@, r.ctr),
                   !.after = IF e.zero = None THEN 0 ELSE Max({0, r.ctr - e.zero})]

FirstAnchor(e, r) ==
    /\ Steady(e, r) /\ e.anc = None
    /\ Becomes(Anchored(AtZero(e, r), r))

IsStale(e, r) == e.anc # None /\ e.pend # None /\ r.level - e.anc >= RefillJump
ClosesZero(e) == e.zero # None /\ (e.after > 0 \/ ~e.some)
ClosesPartial(e) ==
    /\ e.zero = None /\ e.anc > 0 /\ CycleFrom(e) - e.anc >= MinPartial
    /\ e.pendCtr - e.ancCtr >= MinPages
RefillByPlateau(e, r) ==
    /\ Steady(e, r) /\ IsStale(e, r)
    /\ BecomesRefilled(IF ClosesZero(e) THEN CloseCycle(e, e.pendCtr, 0)
                       ELSE IF ClosesPartial(e) THEN CloseCycle(e, e.pendCtr, e.anc)
                       ELSE {<<e, sample>>}, r)

Tracked(e, r) == Steady(e, r) /\ e.anc # None /\ ~IsStale(e, r)
\* Variant: counts from the last poll.
PagesSincePoll(e, r) == r.ctr - e.lastCtr
Pages(e, r) == r.ctr - e.ancCtr
\* Variant: compares with the last poll.
DropSincePoll(e, r) == e.last - r.level
Drop(e, r) == e.anc - r.level

FrozenChip(e, r) ==
    LET virtual == Between(0, e.anc - Drained(Pages(e, r), e.cap), MaxLevel)
    IN  /\ Tracked(e, r) /\ Drop(e, r) <= 0 /\ r.level > 0 /\ Pages(e, r) >= FreezePages
        /\ Becomes([Alert(Seen(e, r),
                          IF virtual = 0 THEN Overrun(e, e.anc, Pages(e, r)) ELSE 0,
                          "frozen_chip") EXCEPT !.cur = virtual])

StableLevel(e, r) ==
    /\ Tracked(e, r) /\ Drop(e, r) <= 0 /\ ~(r.level > 0 /\ Pages(e, r) >= FreezePages)
    /\ Becomes(Seen(AtZero(e, r), r))

\* A chip that was called frozen and moves again is trusted again.
Unfrozen(e, r) ==
    IF e.status \notin {"frozen_chip", "overrun_alert"} THEN e
    ELSE [e EXCEPT !.status = IF r.level = 0 THEN "zero_plateau" ELSE "active",
                   !.after = IF r.level > 0 THEN 0 ELSE @]

Waits(e, r) == Pages(e, r) < MinPages \/ (Drop(e, r) = 1 /\ Pages(e, r) < QuantPages)
InRange(e, r) == Estimate(Pages(e, r), Drop(e, r)) \in MinYield..MaxYield

Consumed(e, r) ==
    LET u == Unfrozen(AtZero(e, r), r)
    IN  /\ Tracked(e, r) /\ Drop(e, r) > 0
        /\ IF Waits(e, r) THEN Becomes(Seen(u, r))
           ELSE IF ~InRange(e, r) THEN Becomes(Anchored(u, r))
           ELSE /\ \E l \in Learn(u, Estimate(Pages(e, r), Drop(e, r))) : row' = Anchored(l, r)
                /\ sample' = Sample("poll", r.ctr - Pages(e, r), r.ctr, Drop(e, r))

Snapshot(r) ==
    \/ FirstSnapshot(r)
    \/ /\ row # None
       /\ \E c \in Current(r) :
            \/ QuarantinedChip(c, r)
            \/ /\ ~r.quarantined
               /\ LET e == Begun(c, r)
                  IN  \/ MissingLevel(e, r) \/ CounterDecreased(e, r) \/ Noise(e, r)
                      \/ RefillCandidate(e, r) \/ RefillByJump(e, r) \/ SmallBounce(e, r)
                      \/ FirstAnchor(e, r) \/ RefillByPlateau(e, r)
                      \/ FrozenChip(e, r) \/ StableLevel(e, r) \/ Consumed(e, r)
-----------------------------------------------------------------------------
(* register_manual_refill: a technician says that the colour is at `level`, and why it was
   replaced: "empty", "dirty" or "auto". m = [key, level, ctr, why]. *)

PagesInCycle(e, m) == IF e.cycCtr = None THEN 0 ELSE Max({0, m.ctr - e.cycCtr})
Trusted(e) == e.status \notin {"chip_quarantined", "frozen_chip", "overrun_alert"}
PartlyUsed(e) == Trusted(e) /\ e.last # None /\ e.last \in 1..CycleFrom(e) - 1

\* The level an unexplained refill is taken to have ended at.
AutoEnd(e, m) ==
    IF e.zero # None THEN 0
    ELSE IF PartlyUsed(e) THEN e.last
    ELSE IF e.cycCtr # None /\ PagesInCycle(e, m) >= ManualPages THEN 0 ELSE CycleFrom(e)

\* Pages printed by a cartridge that was thrown away early are a lower bound.
LowerBound(e, m) == Estimate(PagesInCycle(e, m), Max({1, CycleFrom(e)}))
Ratchet(e, m) ==
    IF /\ PagesInCycle(e, m) >= MinPages /\ LowerBound(e, m) > e.cap
       /\ LowerBound(e, m) \in MinYield..Min({MaxYield, BandHigh})
    THEN {<<[e EXCEPT !.cap = Rounded(4 * @ + 6 * LowerBound(e, m), 10),
                      !.learned = TRUE, !.some = TRUE],
            Sample("bound", e.cycCtr, m.ctr, Max({1, CycleFrom(e)}))>>}
    ELSE {<<e, sample>>}

ClosedBy(e, m) ==
    CASE m.why = "empty" ->
            IF e.cycCtr # None /\ PagesInCycle(e, m) >= EmptyPages
            THEN CloseCycle(e, m.ctr, 0) ELSE {<<e, sample>>}
      [] m.why = "dirty" ->
            IF e.zero # None THEN CloseCycle(e, m.ctr, 0)
            ELSE IF PartlyUsed(e) /\ CycleFrom(e) - e.last >= DirtyDrop
                 THEN CloseCycle(e, m.ctr, e.last)
            ELSE Ratchet(e, m)
      [] OTHER -> CloseCycle(e, m.ctr, AutoEnd(e, m))

ManualRefill(m) ==
    IF row = None \/ IsSwap(m)
    THEN Becomes([SwapReset(m) EXCEPT !.status = "chip_quarantined", !.zero = None])
    ELSE \E o \in ClosedBy(Identified(m), m) :
            /\ row' = [Refilled(o[1], m) EXCEPT !.status = "chip_quarantined"]
            /\ sample' = o[2]
=============================================================================
