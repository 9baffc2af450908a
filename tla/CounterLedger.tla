----------------------------- MODULE CounterLedger -----------------------------
(***************************************************************************)
(* Page accounting of one printer: the device's page counter, the poll     *)
(* that turns readings into PRINT / PRINT_GAP events                       *)
(* (core/collectors/base.py, _counters_event), the baseline the poll       *)
(* compares with (core/store.py, PrevStore: an in-memory cache in front of *)
(* the printer_counters table), the events table with its deduplication    *)
(* (core/database.py, add_event) and the manual toner reset of the web API *)
(* that writes the same baseline (web/routes/printers.py, toner_reset).    *)
(*                                                                         *)
(* Data that does not decide a counter branch (toner levels, cartridge     *)
(* identities, alert codes, colour split, paper sizes) is left out.        *)
(*                                                                         *)
(* A definition introduced by "Variant:" is not part of the specification: *)
(* it is its successor with a plausible bug, kept to test that a property  *)
(* would notice.                                                           *)
(***************************************************************************)
EXTENDS Integers, FiniteSets

CONSTANTS
    None,            \* Python's None
    ZeroGuard,       \* MIN_DELTA_FOR_FALLBACK * 1000: a "large" previous total
    ResetMax,        \* MAX_TOTAL_AFTER_RESET
    Band,            \* the 10 pages below the reference still taken as a return
    TolMin,          \* the 200 pages above the reference taken as a return
    UptimeMargin,    \* 60 s of tolerance when uptimes are compared
    Limits,          \* values _dynamic_max_reasonable_delta can return
    InitCounters,    \* counter values a device may have when monitoring starts
    MaxUp,           \* bound: uptimes are not told apart beyond this
    MaxPages,        \* bound: pages printed in a behaviour
    MaxJob,          \* bound: pages printed between two steps of the program
    MaxReboots, MaxFactoryResets, MaxRestarts, MaxTonerResets  \* bounds

ASSUME LedgerAssumption ==
    /\ None \notin Int
    /\ ZeroGuard \in Nat /\ ResetMax \in Nat /\ Band \in Nat \ {0} /\ TolMin \in Nat
    /\ Band < ZeroGuard
    /\ UptimeMargin \in Nat
    /\ Limits \subseteq Nat /\ Limits # {}
    /\ InitCounters \subseteq Nat
    /\ MaxUp \in Nat \ {0} /\ MaxPages \in Nat /\ MaxJob \in Nat
    /\ MaxReboots \in Nat /\ MaxFactoryResets \in Nat
    /\ MaxRestarts \in Nat /\ MaxTonerResets \in Nat

VARIABLES
    ctr,        \* the device's page counter
    up,         \* the device's uptime
    cache,      \* PrevStore._cache[ip]: the baseline
    db,         \* printer_counters.print_total, or None when there is no row
    prints,     \* the PRINT rows of the logs table: <<prev_total, current_total>>
    recorded,   \* sum of "pages" over the PRINT and PRINT_GAP rows
    shown,      \* printer_data[ip]["counters"]["total"]
    job,        \* the poll of this printer that holds its per-IP lock
    treset,     \* the toner_reset request in progress
    budget,     \* bounds: how many faults have happened
    pages,      \* history: pages really printed since monitoring started
    charged,    \* history: how far the current counter is charged to the ledger
    waived,     \* history: pages a baseline or a restore deliberately skipped
    caveats     \* history: what has happened that weakens the guarantees

device  == <<ctr, up>>
store   == <<cache, db>>
logs    == <<prints, recorded>>
history == <<pages, charged, waived, caveats>>
vars    == <<device, store, logs, shown, job, treset, budget, history>>

Caveats == {"zero_baseline", "window_lost", "stale_db", "stale_resync",
            "event_lost", "factory_reset"}

OrNone(S) == S \cup {None}

\* A snapshot of PrevStore, restricted to the fields the branches read. pend is
\* the pair (pending_overflow_total, pending_overflow_delta).
Snapshots == [total : OrNone(Nat), up : OrNone(Nat), ref : OrNone(Nat),
              pend : OrNone(Nat \X Nat)]
Blank     == [total |-> None, up |-> None, ref |-> None, pend |-> None]

IdleJob   == [phase |-> "idle", total |-> None, up |-> None, prev |-> Blank]
IdleReset == [phase |-> "idle", total |-> None, up |-> None]

Faults    == {"reboots", "factoryResets", "restarts", "tonerResets"}
Spend(f)  == budget' = [budget EXCEPT ![f] = @ + 1]

Larger(a, b) == IF a >= b THEN a ELSE b

TypeOK ==
    /\ ctr \in Nat /\ up \in Nat
    /\ cache \in Snapshots /\ db \in OrNone(Nat)
    /\ prints \subseteq Nat \X Nat /\ recorded \in Nat
    /\ shown \in OrNone(Nat)
    /\ job \in [phase : {"idle", "read", "done"}, total : OrNone(Nat),
                up : OrNone(Nat), prev : Snapshots]
    /\ treset \in [phase : {"idle", "read"}, total : OrNone(Nat), up : OrNone(Nat)]
    /\ budget \in [Faults -> Nat]
    /\ pages \in Nat /\ charged \in Nat /\ waived \in Nat
    /\ caveats \subseteq Caveats

Init ==
    /\ ctr \in InitCounters /\ up \in 1..MaxUp
    /\ cache = Blank /\ db = None
    /\ prints = {} /\ recorded = 0
    /\ shown = None /\ job = IdleJob /\ treset = IdleReset
    /\ budget = [f \in Faults |-> 0]
    /\ pages = 0 /\ charged = ctr /\ waived = 0 /\ caveats = {}

-----------------------------------------------------------------------------
(* The device. *)

DevicePrint ==
    /\ \E n \in 1..MaxJob :
          /\ pages + n <= MaxPages
          /\ ctr' = ctr + n
          /\ pages' = pages + n
    /\ UNCHANGED <<up, store, logs, shown, job, treset, budget, charged, waived, caveats>>

DeviceTick ==
    /\ up < MaxUp
    /\ up' = up + 1
    /\ UNCHANGED <<ctr, store, logs, shown, job, treset, budget, history>>

\* The counter survives a reboot in NVRAM.
DeviceReboot ==
    /\ budget["reboots"] < MaxReboots
    /\ Spend("reboots")
    /\ up' = 1
    /\ UNCHANGED <<ctr, store, logs, shown, job, treset, history>>

\* A service reset zeroes the counter; it is not done in the middle of a poll.
FactoryReset ==
    /\ budget["factoryResets"] < MaxFactoryResets
    /\ job.phase # "read"
    /\ Spend("factoryResets")
    /\ ctr' = 0 /\ up' = 1
    /\ charged' = 0
    /\ caveats' = caveats \cup {"factory_reset"}
    /\ UNCHANGED <<store, logs, shown, job, treset, pages, waived>>

-----------------------------------------------------------------------------
(* PrevStore.set and add_event. *)

\* _uptime_reset: the uptime went backwards by more than the margin.
UptimeReset(curr, old) ==
    /\ curr # None /\ old # None
    /\ curr > 0 /\ old > 0
    /\ curr < old - UptimeMargin

\* PrevStore.set makes the same comparison itself.
StoreUptimeReset(curr, old) == curr # None /\ old # None /\ curr < old - UptimeMargin

\* The second guard of PrevStore.set: a total of 0 over a large baseline, with no
\* sign of a reboot, does not replace it.
Guarded(old, new) ==
    IF /\ old.total # None /\ old.total >= ZeroGuard
       /\ new.total \in {0, None}
       /\ ~StoreUptimeReset(new.up, old.up)
    THEN [new EXCEPT !.total = old.total]
    ELSE new

\* What the new snapshot replaces: with nothing in the cache (no row, or one that
\* could not be loaded) the table is asked again, and may fail again.
Existing == IF cache = Blank THEN {Blank, [Blank EXCEPT !.total = db]} ELSE {cache}

\* The cache is written first; a failed save is logged and swallowed, so that the
\* table may stay behind.
PrevStoreSet(new) ==
    /\ \E old \in Existing : cache' = Guarded(old, new)
    /\ db' \in {db, cache'.total}

\* Variant: bounds compared with <= and >=.
OverlapsTouching(a, b) == \E r \in prints : r[1] <= b /\ r[2] >= a

\* Range (a, b] overlaps a PRINT row already stored.
Overlaps(a, b) == \E r \in prints : r[1] < b /\ r[2] > a

\* Variant: operands of the difference exchanged.
AddPrintBackwards(a, b) ==
    /\ prints' = prints \cup {<<a, b>>}
    /\ recorded' = recorded + (a - b)
    /\ caveats' = caveats

\* add_event("PRINT"): an overlapping row of the last 300 s makes it skip the
\* insertion; an exception of the database loses the event.
AddPrint(a, b) ==
    \/ /\ prints' = prints \cup {<<a, b>>}
       /\ recorded' = recorded + (b - a)
       /\ caveats' = caveats
    \/ /\ Overlaps(a, b)
       /\ UNCHANGED <<logs, caveats>>
    \/ /\ UNCHANGED logs
       /\ caveats' = caveats \cup {"event_lost"}

AddGap(n) ==
    \/ recorded' = recorded + n /\ caveats' = caveats
    \/ recorded' = recorded /\ caveats' = caveats \cup {"event_lost"}

-----------------------------------------------------------------------------
(* The poll. PollRead holds the per-IP lock, reads the device, then the       *)
(* baseline; exactly one of the branches of _counters_event follows.          *)

\* A total that cannot be read is 0 (None on a Toshiba).
PollRead ==
    /\ job.phase = "idle"
    /\ \E t \in {None, 0, ctr}, u \in {None, up} :
          job' = [phase |-> "read", total |-> t, up |-> u, prev |-> cache]
    /\ UNCHANGED <<device, store, logs, shown, treset, budget, history>>

Prev     == job.prev
Total    == job.total
Rebooted == UptimeReset(job.up, Prev.up)
\* uptime if uptime is not None else prev_uptime
NewUp    == IF job.up # None THEN job.up ELSE Prev.up

Polled   == job.phase = "read"
Readable == Polled /\ Total # None /\ Prev.total # None
Dropped  == Readable /\ Total < Prev.total
Strong   == Total < ResetMax /\ Prev.total >= ZeroGuard /\ Rebooted

RestoreTol(ref) == Larger(TolMin, (ref * 5) \div 1000)
HasRef    == Prev.ref # None /\ Total > 0

\* Variant: any total above the reference counts as a return to it.
InBandWithoutTop == HasRef /\ Prev.ref - Band <= Total
InBand    == HasRef /\ Prev.ref - Band <= Total /\ Total <= Prev.ref + RestoreTol(Prev.ref)
AboveBand == HasRef /\ Total > Prev.ref + RestoreTol(Prev.ref)
Jumped    == AboveBand /\ Prev.total <= Prev.ref - Band

\* Variant: a counter far above the reference is compared with the baseline of 0.
BaseWithoutReference == Prev.total
\* What the rest of the handler compares with, once the band has been examined.
Base      == IF Jumped THEN Prev.ref ELSE Prev.total
RefLeft   == IF AboveBand THEN None ELSE Prev.ref
Delta     == Total - Base
Counting  == Readable /\ Total >= Prev.total /\ ~InBand

EndPoll   == job' = [IdleJob EXCEPT !.phase = "done", !.total = Total]
PollFrame == UNCHANGED <<device, shown, treset, budget, pages>>

\* total is None: the previous snapshot is kept.
CounterReadError ==
    /\ Polled /\ Total = None
    /\ PrevStoreSet([cache EXCEPT !.total = Prev.total, !.up = NewUp, !.ref = Prev.ref])
    /\ EndPoll /\ PollFrame
    /\ UNCHANGED <<logs, charged, waived, caveats>>

\* No baseline yet: take this reading, log no PRINT.
FirstPoll ==
    /\ Polled /\ Total # None /\ Prev.total = None
    /\ PrevStoreSet([cache EXCEPT !.total = Total, !.up = job.up, !.pend = None])
    /\ charged' = Larger(charged, Total)
    /\ waived' = waived + (charged' - charged)
    /\ caveats' = caveats \cup (IF Total < charged THEN {"zero_baseline"} ELSE {})
    /\ EndPoll /\ PollFrame
    /\ UNCHANGED logs

\* A smaller total and no reboot: a bad reading. (suspicious_zero is the case
\* Total = 0 of the same condition; only the name of the event differs.)
SuspiciousRead ==
    /\ Dropped /\ ~Rebooted
    /\ PrevStoreSet([cache EXCEPT !.total = Prev.total, !.up = NewUp, !.ref = Prev.ref])
    /\ EndPoll /\ PollFrame
    /\ UNCHANGED <<logs, charged, waived, caveats>>

\* A smaller total, a reboot and strong evidence: COUNTER_RESET.
CounterReset ==
    /\ Dropped /\ Strong
    /\ PrevStoreSet([cache EXCEPT !.total = Total, !.up = job.up, !.ref = Prev.total])
    /\ charged' = Larger(charged, Total)
    /\ EndPoll /\ PollFrame
    /\ UNCHANGED <<logs, waived, caveats>>

\* A smaller total and a reboot, but no strong evidence: COUNTER_ANOMALY.
UnexplainedDrop ==
    /\ Dropped /\ Rebooted /\ ~Strong
    /\ PrevStoreSet([cache EXCEPT !.total = Prev.total, !.up = NewUp, !.ref = Prev.ref])
    /\ EndPoll /\ PollFrame
    /\ UNCHANGED <<logs, charged, waived, caveats>>

\* The counter is back near the reference of the last reset: COUNTER_RESTORED.
CounterRestored ==
    /\ Readable /\ Total >= Prev.total /\ InBand
    /\ PrevStoreSet([total |-> Total, up |-> NewUp, ref |-> None, pend |-> None])
    /\ charged' = Larger(charged, Total)
    /\ waived' = waived + (charged' - charged)
    /\ EndPoll /\ PollFrame
    /\ UNCHANGED <<logs, caveats>>

\* Variant: the pending pair is not saved.
PrintOverflowForgets ==
    /\ Counting
    /\ \E limit \in Limits : Delta > limit
    /\ Prev.pend # <<Total, Delta>>
    /\ PrevStoreSet([total |-> Base, up |-> NewUp, ref |-> Prev.ref, pend |-> None])
    /\ EndPoll /\ PollFrame
    /\ UNCHANGED <<logs, charged, waived, caveats>>

\* More pages than the limit: PRINT_OVERFLOW, kept pending.
PrintOverflow ==
    /\ Counting
    /\ \E limit \in Limits : Delta > limit
    /\ Prev.pend # <<Total, Delta>>
    /\ PrevStoreSet([total |-> Base, up |-> NewUp, ref |-> Prev.ref,
                     pend |-> <<Total, Delta>>])
    /\ EndPoll /\ PollFrame
    /\ UNCHANGED <<logs, charged, waived, caveats>>

\* Variant: the confirmed total is not saved, the pending pair not cleared.
PrintGapKeepsBaseline ==
    /\ Counting
    /\ \E limit \in Limits : Delta > limit
    /\ Prev.pend = <<Total, Delta>>
    /\ AddGap(Delta)
    /\ PrevStoreSet([cache EXCEPT !.total = Prev.total, !.up = NewUp])
    /\ charged' = Larger(charged, Total)
    /\ EndPoll /\ PollFrame
    /\ UNCHANGED <<prints, waived>>

\* The same jump on a second poll: PRINT_GAP. reset_prev_total is not written.
PrintGap ==
    /\ Counting
    /\ \E limit \in Limits : Delta > limit
    /\ Prev.pend = <<Total, Delta>>
    /\ AddGap(Delta)
    /\ PrevStoreSet([cache EXCEPT !.total = Total, !.up = NewUp, !.pend = None])
    /\ charged' = Larger(charged, Total)
    /\ EndPoll /\ PollFrame
    /\ UNCHANGED <<prints, waived>>

\* Variant: the new snapshot keeps the total of the old one.
FinalSnapshotOfPrev ==
    /\ PrevStoreSet([total |-> Base, up |-> NewUp, ref |-> RefLeft, pend |-> None])
    /\ charged' = Larger(charged, Total)
    /\ EndPoll /\ PollFrame
    /\ UNCHANGED waived

\* The snapshot of a poll whose total is taken.
FinalSnapshot ==
    /\ PrevStoreSet([total |-> Total, up |-> NewUp, ref |-> RefLeft, pend |-> None])
    /\ charged' = Larger(charged, Total)
    /\ EndPoll /\ PollFrame
    /\ UNCHANGED waived

\* A plausible number of pages: PRINT.
RecordPrint ==
    /\ Counting
    /\ Delta > 0
    /\ \E limit \in Limits : Delta <= limit
    /\ AddPrint(Base, Total)
    /\ FinalSnapshot

NothingPrinted ==
    /\ Counting /\ Delta = 0
    /\ FinalSnapshot
    /\ UNCHANGED <<logs, caveats>>

\* poll_one / poll_all put the result in printer_data some time after the poll.
\* A Toshiba whose vendor counter failed may still show the generic one.
Publish ==
    /\ job.phase = "done"
    /\ shown' \in IF job.total = None THEN {0, ctr} ELSE {job.total}
    /\ job' = IdleJob
    /\ UNCHANGED <<device, store, logs, treset, budget, history>>

CountersEvent ==
    \/ CounterReadError \/ FirstPoll \/ SuspiciousRead \/ CounterReset
    \/ UnexplainedDrop \/ CounterRestored \/ PrintOverflow \/ PrintGap
    \/ RecordPrint \/ NothingPrinted

-----------------------------------------------------------------------------
(* toner_reset: a request reads the displayed total and the baseline, and     *)
(* later writes that total as the new baseline.                               *)

TonerResetRead ==
    /\ treset.phase = "idle" /\ shown # None
    /\ budget["tonerResets"] < MaxTonerResets
    /\ Spend("tonerResets")
    /\ treset' = [phase |-> "read", total |-> shown, up |-> cache.up]
    /\ UNCHANGED <<device, store, logs, shown, job, history>>

TonerResetWrite ==
    /\ treset.phase = "read"
    /\ PrevStoreSet([cache EXCEPT !.total = treset.total, !.up = treset.up])
    /\ caveats' = caveats \cup (IF cache'.total = cache.total THEN {}
                              ELSE IF cache.total = None THEN {"zero_baseline"}
                              ELSE {"stale_resync"})
    /\ treset' = IdleReset
    /\ UNCHANGED <<device, logs, shown, job, budget, pages, charged, waived>>

\* The program stops and starts: only the row of printer_counters is left, and it
\* may fail to load. A poll and a request in progress die with the process.
Restart ==
    /\ budget["restarts"] < MaxRestarts
    /\ Spend("restarts")
    /\ cache' \in {[Blank EXCEPT !.total = db], Blank}
    /\ caveats' = caveats \cup (IF cache.ref # None THEN {"window_lost"} ELSE {})
                          \cup (IF cache'.total # cache.total THEN {"stale_db"} ELSE {})
    /\ shown' = None /\ job' = IdleJob /\ treset' = IdleReset
    /\ UNCHANGED <<device, db, logs, pages, charged, waived>>

-----------------------------------------------------------------------------
Device == DevicePrint \/ DeviceTick \/ DeviceReboot \/ FactoryReset

Next ==
    \/ Device
    \/ PollRead \/ CountersEvent \/ Publish
    \/ TonerResetRead \/ TonerResetWrite
    \/ Restart

Spec == Init /\ [][Next]_vars

\* polling_loop polls for ever and a poll always ends.
Fairness == WF_vars(PollRead) /\ WF_vars(CountersEvent) /\ WF_vars(Publish)
LiveSpec == Spec /\ Fairness
-----------------------------------------------------------------------------
(* What the ledger promises. *)

\* The counter value the next count starts from: a baseline of 0 that waits for the
\* counter to return stands for the reference it remembers.
Adopted == IF cache.ref # None /\ cache.total = 0 THEN cache.ref ELSE cache.total

\* No page is recorded that was not printed, whatever zero or failed readings,
\* reboots, service resets, lost events, late publications and restarts that find
\* the baseline intact do to _counters_event. The other caveats are the ways in
\* which the code does record phantom pages.
NoPhantomPages ==
    caveats \subseteq {"event_lost", "factory_reset"} => recorded <= pages

\* No page disappears either: in a history without caveats each printed page is
\* recorded once, or skipped by a first baseline or a COUNTER_RESTORED, or still
\* ahead of the adopted baseline. In particular the PRINT deduplication of
\* add_event never drops a real print.
EveryPageAccounted ==
    (caveats = {} /\ cache.total # None) =>
        recorded + waived + (ctr - Adopted) = pages

\* The PRINT rows are an audit trail: as ranges of the counter they are disjoint,
\* also when some are missing.
PrintRangesDisjoint ==
    caveats \subseteq {"event_lost"} =>
        \A r, s \in prints : r = s \/ r[2] <= s[1] \/ s[2] <= r[1]

\* A COUNTER_RESTORED hides at most the tolerance of the band it accepts: it does
\* not swallow a real print job.
RestoreHidesOnlyTolerance ==
    [][(CounterRestored /\ caveats = {}) => waived' - waived <= RestoreTol(Prev.ref)]_vars

\* Whatever failed, restarted or rebooted before, once the readings of the total are
\* good for ever the baseline reaches the counter: a pending overflow is confirmed,
\* and no guard keeps a good reading out for ever. (The run that checks it has no
\* service reset: the README says what one does.)
LedgerCatchesUp ==
    <>[](job.phase = "read" => job.total = ctr) => <>[](cache.total = ctr)

(* Stronger statements that the comments of the code make, and that it breaks. *)

\* _counters_event: "if counter is suspicious, we don't store it as truth in
\* PrevStore". collect_enhanced passes a read that failed as total = 0, and the first
\* poll takes it as baseline: the next one counts the life of the device as a print.
FirstPollTakesRealBaseline ==
    caveats \subseteq {"zero_baseline"} => recorded <= pages

\* _counters_event: "so we have no phantom pages, no double counting". The
\* reference this relies on is not saved, so a restart forgets it.
NoPhantomAfterRestart ==
    caveats \subseteq {"window_lost"} => recorded <= pages

\* toner_reset: "A manual reset should sync the counter baseline with the current
\* snapshot; Otherwise, the next poll may make a PRINT or COUNTER_RESET error".
\* The total it writes is the displayed one, which may be older than the baseline.
ManualResetNeverRecounts ==
    caveats \subseteq {"stale_resync"} => recorded <= pages
=============================================================================
