----------------------------- MODULE TonerOverride -----------------------------
(***************************************************************************)
(* The override slot of one colour (core/collectors/base.py, 215-511): a   *)
(* level set by hand, or estimated for a chip found frozen, that is shown  *)
(* instead of what the chip says, counted down with the pages, until the   *)
(* chip proves that it follows the toner. PrevStore holds the slot under   *)
(* toner_overrides and, from older versions, one set of override_* keys,   *)
(* which nothing ever clears.                                              *)
(***************************************************************************)
EXTENDS TonerUnits

CONSTANTS
    DefaultCap,       \* printer-wide yield, for a slot without one
    AlignTol,         \* 2 %: a chip this near the level set by hand was reset with it
    AlignRise,        \* 5 %: so was one that rose by more than this
    AlignPages,       \* 30: pages within which a chip may show that
    ReleasePages,     \* 20: pages before a drop of the chip counts
    ReleaseDrop,      \* 20 %: and the largest drop that does
    ThawDrop,         \* 25 %: the largest drop that frees a frozen chip
    ThawPages,        \* 10
    MinRelease        \* 300: smallest yield such a drop may imply

ASSUME OverrideAssumption ==
    /\ DefaultCap \in Nat \ {0}
    /\ {AlignTol, AlignRise, AlignPages, ReleasePages, ReleaseDrop, ThawDrop, ThawPages,
        MinRelease} \subseteq Nat

Slots == [start : Nat, toner : Levels, cap : OrNone(Nat \ {0}),
          mode : {"manual_reset", "auto_frozen_chip"}, aligned : BOOLEAN,
          chipAt : OrNone(Levels), frozenAt : OrNone(Levels)]

\* The override_* keys as a slot: they know neither a yield nor the chip.
LegacySlot(manual) ==
    [start |-> manual.start, toner |-> manual.toner, cap |-> None, mode |-> "manual_reset",
     aligned |-> FALSE, chipAt |-> None, frozenAt |-> None]

\* _normalize_overrides: an empty toner_overrides falls back to the old keys.
Normalised(slot, manual) ==
    IF slot # None THEN slot ELSE IF manual # None THEN LegacySlot(manual) ELSE None

\* _overrides_valid_after_total: a counter behind the start of a slot ends it.
ValidAfter(slot, total) == IF slot # None /\ total < slot.start THEN None ELSE slot

CapOf(slot) == IF slot.cap = None THEN DefaultCap ELSE slot.cap
Distance(a, b) == IF a > b THEN a - b ELSE b - a

\* apply_toner_override: the level by the pages printed since.
Virtual(slot, total) ==
    Max({0, slot.toner - Rounded((total - slot.start) * MaxLevel, CapOf(slot))})

\* The chip agrees with the level set by hand, and did not just happen to.
Aligns(slot, total, chip) ==
    /\ chip # None /\ total - slot.start <= AlignPages
    /\ Distance(chip, slot.toner) <= AlignTol
    /\ \/ slot.chipAt = None \/ Distance(slot.chipAt, slot.toner) <= AlignTol
       \/ chip > slot.chipAt + AlignRise
Aligned(slot, total, chip) == [slot EXCEPT !.aligned = @ \/ Aligns(slot, total, chip)]

\* The chip was reset with the toner and goes down with it.
Follows(slot, total, chip) ==
    /\ slot.mode = "manual_reset" /\ chip # None
    /\ Aligned(slot, total, chip).aligned
    /\ total - slot.start >= ReleasePages
    /\ slot.toner - chip \in 1..ReleaseDrop
    /\ (total - slot.start) * MaxLevel >= MinRelease * (slot.toner - chip)

\* A chip called frozen steps down.
Thaws(slot, total, chip) ==
    /\ slot.mode = "auto_frozen_chip" /\ chip # None /\ slot.frozenAt # None
    /\ slot.frozenAt - chip \in 1..ThawDrop
    /\ total - slot.start >= ThawPages

\* evaluate_override_quarantine; a slot that has not started yet is released too.
Released(slot, total, chip) ==
    total < slot.start \/ Thaws(slot, total, chip) \/ Follows(slot, total, chip)
=============================================================================
