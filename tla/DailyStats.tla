------------------------------ MODULE DailyStats ------------------------------
(***************************************************************************)
(* The daily statistics (core/rollup_jobs.py) and the retention policy     *)
(* (core/retention_policy.py), which read and delete the same rows of      *)
(* logs.  core/scheduler.py and tools/run_rollup.py, tools/run_retention.py *)
(* run them as separate processes: at 01:00 for yesterday and at 03:00,    *)
(* late, twice, not at all, or for days an operator names.                 *)
(*                                                                         *)
(* A day has two slots, before and after 03:00: a retention run cuts a day *)
(* in two.  Pages of one printer are counted, one per row of logs;         *)
(* print_events has no writer in this program, so the statistics are those *)
(* read from logs.                                                         *)
(***************************************************************************)
EXTENDS Integers

CONSTANTS
    Days,        \* bound: days 0 .. Days - 1
    Keep,        \* RETENTION_DAYS["logs"]
    Batch,       \* batch_size
    None,
    Pages,       \* bound: pages printed
    Rollups,     \* bound: runs of the statistics
    Purges,      \* bound: runs of the retention policy
    Faults       \* bound: runs that are killed, deletions that fail

ASSUME DailyStatsAssumption ==
    /\ Days \in Nat \ {0} /\ Keep \in Nat /\ Batch \in Nat \ {0}
    /\ {Pages, Rollups, Purges, Faults} \subseteq Nat
    /\ None \notin Int

Slots == 0 .. 2 * Days - 1
AllDays == 0 .. Days - 1
Day(s) == s \div 2

VARIABLES
    now,       \* the current slot
    logs,      \* rows of each slot that are in the table
    stats,     \* daily_stats.total_pages, None when there is no row
    roll,      \* the run of the statistics
    purge,     \* the run of the retention policy
    swept,     \* toner snapshots of the slots before this one are deleted
    printed,   \* history: pages of each slot
    settled,   \* history: days that were summed after they had ended
    reached,   \* history: rows before this slot were asked to be deleted
    budget

vars == <<now, logs, stats, roll, purge, swept, printed, settled, reached, budget>>
history == <<printed, settled, reached>>

NoRoll == [pc |-> "idle", day |-> 0, last |-> 0, late |-> FALSE]
NoPurge == [pc |-> "idle", cutoff |-> 0]

Init ==
    /\ now = 0
    /\ logs = [s \in Slots |-> 0] /\ printed = logs
    /\ stats = [d \in AllDays |-> None]
    /\ roll = NoRoll /\ purge = NoPurge
    /\ swept = 0 /\ settled = {} /\ reached = 0
    /\ budget = [pages |-> Pages, rollups |-> Rollups, purges |-> Purges, faults |-> Faults]

Spend(f) == budget[f] > 0 /\ budget' = [budget EXCEPT ![f] = @ - 1]

\* Time passes.
Tick ==
    /\ now + 1 \in Slots
    /\ now' = now + 1
    /\ UNCHANGED <<logs, stats, roll, purge, swept, history, budget>>

\* add_event stores a PRINT row with the current time.
PagePrinted ==
    /\ Spend("pages")
    /\ logs' = [logs EXCEPT ![now] = @ + 1]
    /\ printed' = [printed EXCEPT ![now] = @ + 1]
    /\ UNCHANGED <<now, stats, roll, purge, swept, settled, reached>>

-----------------------------------------------------------------------------
(* rollup_daily_stats and backfill_daily_stats *)

\* --date, --backfill-days and --backfill-start name any days up to today.
RollStart(first, last) ==
    /\ roll.pc = "idle"
    /\ first <= last /\ last <= Day(now)
    /\ Spend("rollups")
    /\ roll' = [NoRoll EXCEPT !.pc = "discover", !.day = first, !.last = last]
    /\ UNCHANGED <<now, logs, stats, purge, history, swept>>

\* Variant: the range of the day ends at 03:00 of it.
SumToCutoff(rows, d) == rows[2 * d]

Sum(rows, d) == rows[2 * d] + rows[2 * d + 1]

NextDay(r) ==
    IF r.day < r.last THEN [r EXCEPT !.pc = "discover", !.day = @ + 1] ELSE NoRoll

\* A day is left alone when no row of it is found: neither a row of logs nor a
\* toner snapshot, which a polled printer has and a silent one has not.
RollDiscover ==
    /\ roll.pc = "discover"
    /\ \/ /\ Sum(logs, roll.day) > 0 \/ swept < 2 * roll.day + 2
          /\ roll' = [roll EXCEPT !.pc = "compute", !.late = Day(now) > roll.day]
       \/ Sum(logs, roll.day) = 0 /\ roll' = NextDay(roll)
    /\ UNCHANGED <<now, logs, stats, purge, history, budget, swept>>

\* The sums are read again, and written over what is there.
RollCompute ==
    /\ roll.pc = "compute"
    /\ stats' = [stats EXCEPT ![roll.day] = Sum(logs, roll.day)]
    /\ settled' = IF roll.late THEN settled \cup {roll.day} ELSE settled
    /\ roll' = NextDay(roll)
    /\ UNCHANGED <<now, logs, purge, printed, reached, budget, swept>>

-----------------------------------------------------------------------------
(* purge_table *)

\* Variant: the whole day of the cutoff is deleted.
CutoffOfDay(s) == 2 * (Day(s) - Keep) + 2

Cutoff(s) == s - 2 * Keep

PurgeStart ==
    /\ purge.pc = "idle"
    /\ Cutoff(now) > 0
    /\ Spend("purges")
    /\ purge' = [pc |-> "logs", cutoff |-> Cutoff(now)]
    /\ reached' = IF now - 2 * Keep > reached THEN now - 2 * Keep ELSE reached
    /\ UNCHANGED <<now, logs, stats, roll, printed, settled, swept>>

Expired == {s \in Slots : s < purge.cutoff /\ logs[s] > 0}

\* One batch, which is committed: rows in no particular order.
Deleted(s, n) ==
    /\ n \in 1 .. Batch /\ n <= logs[s]
    /\ logs' = [logs EXCEPT ![s] = @ - n]

PurgeBatch ==
    /\ purge.pc = "logs"
    /\ \E s \in Expired : \E n \in 1 .. Batch : Deleted(s, n)
    /\ UNCHANGED <<now, stats, roll, purge, swept, history, budget>>

\* The next table; the one before may have failed, which is only logged.
PurgeLogsDone ==
    /\ purge.pc = "logs"
    /\ \/ Expired = {} /\ UNCHANGED budget
       \/ Spend("faults")
    /\ purge' = [purge EXCEPT !.pc = "snapshots"]
    /\ UNCHANGED <<now, logs, stats, roll, swept, history>>

PurgeSnapshots ==
    /\ purge.pc = "snapshots"
    /\ swept' = IF purge.cutoff > swept THEN purge.cutoff ELSE swept
    /\ purge' = NoPurge
    /\ UNCHANGED <<now, logs, stats, roll, history, budget>>

-----------------------------------------------------------------------------

\* A run that is killed keeps what it has committed.
Killed ==
    /\ Spend("faults")
    /\ \/ roll.pc # "idle" /\ roll' = NoRoll /\ UNCHANGED purge
       \/ purge.pc # "idle" /\ purge' = NoPurge /\ UNCHANGED roll
    /\ UNCHANGED <<now, logs, stats, history, swept>>

Next ==
    \/ Tick \/ PagePrinted
    \/ \E first, last \in AllDays : RollStart(first, last)
    \/ RollDiscover \/ RollCompute
    \/ PurgeStart \/ PurgeBatch \/ PurgeLogsDone \/ PurgeSnapshots
    \/ Killed

Spec == Init /\ [][Next]_vars

-----------------------------------------------------------------------------
(* Properties *)

TypeOK ==
    /\ now \in Slots
    /\ logs \in [Slots -> Nat] /\ printed \in [Slots -> Nat]
    /\ stats \in [AllDays -> Nat \cup {None}]
    /\ roll \in [pc : {"idle", "discover", "compute"}, day : AllDays, last : AllDays,
                 late : BOOLEAN]
    /\ purge \in [pc : {"idle", "logs", "snapshots"}, cutoff : Nat]
    /\ settled \in SUBSET AllDays /\ {reached, swept} \subseteq Nat

\* A day that was summed after it had ended, and that no retention run has
\* reached, holds every page of the day, whatever ran twice, late, partly or
\* for other days in between (rollup_jobs.py, "idempotent regeneration").
SettledDayIsExact ==
    \A d \in settled :
        2 * d >= reached => stats[d] = printed[2 * d] + printed[2 * d + 1]

\* No retention run, started at any hour, deletes a row younger than Keep
\* days: a day that has not been summed for Keep days can still be.
RecentRowsStay ==
    \A s \in Slots : s + 2 * Keep >= now => logs[s] = printed[s]

=============================================================================
