----------------------------- MODULE PageAccount -----------------------------
(***************************************************************************)
(* What page accounting promises, with nothing of how: pages are printed   *)
(* and become due; a charge settles some of the due pages, each of them    *)
(* recorded, skipped or lost, and none of them twice.  A service reset of  *)
(* the device forgets the pages that are due.  The promise may be          *)
(* withdrawn, and is then not given again.                                 *)
(***************************************************************************)
EXTENDS Integers

VARIABLES
    printed,    \* pages printed since monitoring started
    due,        \* of them, the ones no charge has settled
    recorded,   \* pages the events add up to
    skipped,    \* pages deliberately left out of the events
    valid       \* the promise stands

vars == <<printed, due, recorded, skipped, valid>>

Init == printed = 0 /\ due = 0 /\ recorded = 0 /\ skipped = 0 /\ valid = TRUE

PagesPrinted ==
    /\ printed' \in Int /\ printed' > printed
    /\ due' = due + (printed' - printed)
    /\ UNCHANGED <<recorded, skipped, valid>>

Charge ==
    /\ {due', recorded', skipped'} \subseteq Int
    /\ 0 <= due' /\ due' <= due
    /\ recorded' >= recorded /\ skipped' >= skipped
    /\ (recorded' - recorded) + (skipped' - skipped) <= due - due'
    /\ UNCHANGED <<printed, valid>>

Forget ==
    /\ due' = 0
    /\ UNCHANGED <<printed, recorded, skipped, valid>>

Withdraw == valid' = FALSE

Next == (valid /\ (PagesPrinted \/ Charge \/ Forget)) \/ Withdraw

Spec == Init /\ [][Next]_vars

(* While the promise stands the account is never overdrawn. *)
Balanced ==
    valid => /\ {printed, due, recorded, skipped} \subseteq Int
             /\ 0 <= due /\ recorded + skipped + due <= printed
=============================================================================
