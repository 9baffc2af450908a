------------------------- MODULE TimestampMigration -------------------------
(***************************************************************************)
(* tools/migrate_timestamps_to_utc.py, which rewrites every stored time of *)
(* an installation as UTC, and tools/set_cutover_marker.py, which stores   *)
(* the moment the rule for "Z" labels turns on.                            *)
(*                                                                         *)
(* Times are small integers.  A row shows a time in some format; the       *)
(* instant it was really written is history.  Old versions of the program  *)
(* wrote local time without a label, or with a false "Z" until the version *)
(* installed at Fixed; the version installed at Standard writes UTC with   *)
(* microseconds, which is how a converted row is told from an old one.     *)
(* The offset of the local clock falls from Summer to Winter at DstEnd, so *)
(* the local times after it are shown twice.                               *)
(***************************************************************************)
EXTENDS Integers, FiniteSets

CONSTANTS
    Rows,           \* rows of the tables, without the one of meta
    Meta,           \* the row of meta: its updated_at is a time as well
    Tables,         \* the names of TIME_COLUMNS
    TableOf(_),     \* the table of a row
    Summer, Winter, DstEnd,
    Commit,         \* the commit time of the version installed at Fixed
    Fixed, Standard,
    End,            \* bound: the last instant
    Runs, Marks, Faults, None

Times == 0 .. End
Every == Rows \cup {Meta}
Kinds == {"naive", "z", "offset", "standard", "garbage", "broken"}

ASSUME TimestampAssumption ==
    /\ {Summer, Winter, DstEnd, Commit, Fixed, Standard, End} \subseteq Nat
    /\ Winter <= Summer /\ DstEnd <= Commit - Summer
    /\ Commit <= Fixed /\ Fixed <= Standard /\ Standard <= End
    /\ \A r \in Every : TableOf(r) \in Tables
    /\ {Runs, Marks, Faults} \subseteq Nat
    /\ None \notin Int /\ None \notin [kind : Kinds, at : Int] /\ Meta \notin Rows

VARIABLES
    now,
    rows,      \* the format and the time a row shows, None before it is written
    marker,    \* meta.timezone_cutover_at
    run,       \* the migration that is running
    done,      \* history: rows a run that exited with 0 has gone through
    born,      \* history: the instant a row was written, and in which format
    budget

vars == <<now, rows, marker, run, done, born, budget>>

NoRun == [pc |-> "idle", tables |-> {}, cutover |-> None, dry |-> FALSE, todo |-> {},
          pending |-> [r \in {} |-> None]]

Init ==
    /\ now = 0
    /\ rows = [r \in Every |-> None] /\ born = rows
    /\ marker = None /\ run = NoRun /\ done = {}
    /\ budget = [runs |-> Runs, marks |-> Marks, faults |-> Faults]

Spend(f) == budget[f] > 0 /\ budget' = [budget EXCEPT ![f] = @ - 1]

Tick ==
    /\ now < End
    /\ now' = now + 1
    /\ UNCHANGED <<rows, marker, run, done, born, budget>>

-----------------------------------------------------------------------------
(* The clock of the installation, and what the program has written *)

Offset(t) == IF t < DstEnd THEN Summer ELSE Winter
Local(t) == t + Offset(t)

\* Shown by the local clock twice.
Repeated(l) == DstEnd + Winter <= l /\ l < DstEnd + Summer

Shown(kind, at) == [kind |-> kind, at |-> at]

\* "garbage" is empty or cannot be parsed, and is left as it is.

Written(t) ==
    {Shown("garbage", 0), Shown("broken", 0), Shown("offset", t)}
    \cup (IF t < Standard THEN {Shown("naive", Local(t))} ELSE {Shown("standard", t)})
    \cup (IF t < Fixed THEN {Shown("z", Local(t))}
          ELSE IF t < Standard THEN {Shown("z", t)} ELSE {})

\* SQLite makes a writer wait for the transaction of the migration, or fails
\* the migration (MigrateFails).
Write(r) ==
    /\ rows[r] = None
    /\ run.pc # "migrate"
    /\ \E w \in Written(now) :
        /\ rows' = [rows EXCEPT ![r] = w]
        /\ born' = [born EXCEPT ![r] = [kind |-> w.kind, at |-> now]]
    /\ UNCHANGED <<now, marker, run, done, budget>>

\* main of set_cutover_marker: the commit time, or a --date that is UTC.  The
\* row of meta gets an explicit offset.
SetMarker ==
    /\ run.pc # "migrate"
    /\ Spend("marks")
    /\ marker' \in {Commit, Fixed}
    /\ rows' = [rows EXCEPT ![Meta] = Shown("offset", now)]
    /\ born' = [born EXCEPT ![Meta] = [kind |-> "offset", at |-> now]]
    /\ done' = done \ {Meta}
    /\ UNCHANGED <<now, run>>

-----------------------------------------------------------------------------
(* convert_value *)

\* Variant: a label "Z" is a label "Z", with or without microseconds.
SplitByLabel(w) == IF w.kind = "standard" THEN "z" ELSE w.kind

\* split_awareness
Split(w) == w.kind

\* Variant: the offset of today, for all of the history.
FromLocalFixed(l) == l - Winter

\* replace(tzinfo=TEHRAN): of a time shown twice, the first (fold=0).
FromLocal(l) == IF l - Summer < DstEnd THEN l - Summer ELSE l - Winter

Convertible(w) == Split(w) \in {"naive", "z", "offset"}

Instant(w, cutover) ==
    IF Split(w) = "naive" \/ (Split(w) = "z" /\ w.at < cutover)
    THEN FromLocal(w.at) ELSE w.at

Convert(w, cutover) ==
    IF Convertible(w) THEN Shown("standard", Instant(w, cutover)) ELSE w

\* A value that ends like a standard one, or like one with an offset, and is
\* neither, is not caught by split_awareness: strptime raises.
Raises(w) == Split(w) = "broken"

Stored(tables) == {r \in Every : rows[r] # None /\ TableOf(r) \in tables}

-----------------------------------------------------------------------------
(* main of migrate_timestamps_to_utc *)

\* Exit with 2 without a marker: neither in meta nor as --cutover.
RunStart ==
    /\ run.pc = "idle"
    /\ Spend("runs")
    /\ \E tables \in (SUBSET Tables) \ {{}}, cutover \in {None, Fixed}, dry \in BOOLEAN :
        LET used == IF cutover = None THEN marker ELSE cutover IN
        /\ used # None
        /\ run' = [NoRun EXCEPT !.pc = "scan", !.tables = tables, !.cutover = used, !.dry = dry]
    /\ UNCHANGED <<now, rows, marker, done, born>>

\* Variant: the scan looks at the first table only.
ToConvertOfOne(tables) == {r \in Stored(tables) : Convertible(rows[r]) /\ r # Meta}

ToConvert(tables) == {r \in Stored(tables) : Convertible(rows[r])}

\* scan: a value that raises ends the run; nothing to convert, or a dry run,
\* ends it as well, with 0.
Scan ==
    /\ run.pc = "scan"
    /\ LET seen == Stored(run.tables) IN
       \/ /\ \E r \in seen : Raises(rows[r])
          /\ run' = NoRun /\ UNCHANGED done
       \/ /\ \A r \in seen : ~Raises(rows[r])
          /\ run.dry \/ ToConvert(run.tables) = {}
          /\ run' = NoRun
          /\ done' = IF run.dry THEN done ELSE done \cup seen
       \/ /\ \A r \in seen : ~Raises(rows[r])
          /\ ~run.dry /\ ToConvert(run.tables) # {}
          /\ run' = [run EXCEPT !.pc = "backup"]
          /\ UNCHANGED done
    /\ UNCHANGED <<now, rows, marker, born, budget>>

\* The copy is made, and the transaction begins; rows written since the scan
\* are in it.
Begin ==
    /\ run.pc = "backup"
    /\ run' = [run EXCEPT !.pc = "migrate", !.todo = run.tables, !.pending = rows]
    /\ UNCHANGED <<now, rows, marker, done, born, budget>>

MigrateTable(t) ==
    /\ run.pc = "migrate" /\ t \in run.todo
    /\ \A r \in Stored({t}) : ~Raises(rows[r])
    /\ run' = [run EXCEPT !.todo = @ \ {t},
                          !.pending = [r \in Every |->
                              IF r \in Stored({t}) THEN Convert(rows[r], run.cutover) ELSE @[r]]]
    /\ UNCHANGED <<now, rows, marker, done, born, budget>>

AllMigrated == run.pc = "migrate" /\ run.todo = {}

Finish ==
    /\ AllMigrated
    /\ rows' = run.pending
    /\ done' = done \cup Stored(run.tables)
    /\ run' = NoRun
    /\ UNCHANGED <<now, marker, born, budget>>

\* An exception in the transaction: a value that raises, a disk that is full,
\* a lock of the program; or the process is killed at any step.
MigrateFails ==
    /\ run.pc # "idle"
    /\ \/ Spend("faults")
       \/ /\ run.pc = "migrate"
          /\ \E r \in Stored(run.todo) : Raises(rows[r])
          /\ UNCHANGED budget
    /\ run' = NoRun
    /\ UNCHANGED <<now, rows, marker, done, born>>

Next ==
    \/ Tick \/ SetMarker
    \/ \E r \in Rows : Write(r)
    \/ RunStart \/ Scan \/ Begin
    \/ \E t \in Tables : MigrateTable(t)
    \/ Finish \/ MigrateFails

Spec == Init /\ [][Next]_vars

-----------------------------------------------------------------------------
(* Properties *)

TypeOK ==
    /\ now \in Times
    /\ rows \in [Every -> [kind : Kinds, at : Int] \cup {None}]
    /\ born \in [Every -> [kind : Kinds, at : Times] \cup {None}]
    /\ marker \in Times \cup {None}
    /\ run.pc \in {"idle", "scan", "backup", "migrate"}
    /\ done \in SUBSET Every

\* The blind spot of the cutover rule: a false "Z" whose local time is not
\* before the earliest moment an operator may have given.
BlindSpot(b) == b.kind = "z" /\ b.at < Fixed /\ Local(b.at) >= Commit

\* A local time that the clock showed a second time.
SecondTime(b) == b.kind \in {"naive", "z"} /\ b.at >= DstEnd /\ Repeated(Local(b.at))

\* Every row that is in the standard format shows the instant it was written:
\* whatever markers were set, however often, partly or in vain the migration
\* ran, and whatever the program wrote meanwhile (docs/timezone-contract.md
\* section 8.3), outside the blind spot and the hour that is shown twice.
InstantPreserved ==
    \A r \in Every :
        (rows[r] # None /\ rows[r].kind = "standard")
        => (rows[r].at = born[r].at \/ BlindSpot(born[r]) \/ SecondTime(born[r]))

\* A row in the standard format is never converted again, not even with a
\* later marker: the date of most of them is before it (module docstring,
\* "idempotency").
ConvertedOnce ==
    [][\A r \in Rows : (rows[r] # None /\ rows[r].kind = "standard") => rows'[r] = rows[r]]_vars

\* An exit with 0 says the truth: no row that a run of its tables could have
\* converted is left in an old format, and none comes back.
ZeroMeansConverted ==
    \A r \in done : ~Convertible(rows[r])
=============================================================================
