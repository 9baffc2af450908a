---------------------------- MODULE MCCounterLedger ----------------------------
(* CounterLedger with thresholds scaled down but in the order of the code:     *)
(* Band < ZeroGuard < ResetMax, and a tolerance of one page.                   *)
EXTENDS LedgerAccount

MCLimits       == {1, 3}
MCInitCounters == {0, 3}
MCOneCounter   == {3}

\* Every property of the safety runs is conditional on these caveats: a state
\* that has others is not explored further.
OnlyHarmlessCaveats == caveats \subseteq {"event_lost", "factory_reset"}
=============================================================================
