---------------------------- MODULE LedgerAccount ----------------------------
(***************************************************************************)
(* CounterLedger as an implementation of PageAccount: what is due is the   *)
(* distance from the charged position to the counter of the device.        *)
(***************************************************************************)
EXTENDS CounterLedger

Account == INSTANCE PageAccount WITH
    printed  <- pages,
    due      <- ctr - charged,
    recorded <- recorded,
    skipped  <- waived,
    valid    <- caveats \subseteq {"event_lost", "factory_reset"}

\* Every step of the device, a poll, a request or a restart is a print, one charge
\* of pages that are due, a service reset or nothing, until one of the harmful
\* caveats happens: what _counters_event adds to recorded and to waived is never
\* more than it moves the charged position, whatever branch it takes.
KeepsAccount == Account!Spec
=============================================================================
