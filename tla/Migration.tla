------------------------------- MODULE Migration -------------------------------
(***************************************************************************)
(* The move of the data from SQLite to PostgreSQL, as start.ps1 runs it:   *)
(* tools/auto_migrate.py decides, tools/migrate_sqlite_to_pg.py copies one *)
(* table per transaction, and the application starts on PostgreSQL         *)
(* whatever the two answered.  An operator may also run either tool while  *)
(* the application is down (--force, --verify, --check-only).              *)
(*                                                                         *)
(* Rows are pairs of an identifier and an origin: the identifier is what   *)
(* keys and sequences are about, the origin tells copied rows from those   *)
(* the application wrote.  The process may be killed at any step, and      *)
(* PostgreSQL may refuse a statement.                                      *)
(***************************************************************************)
EXTENDS Integers, Sequences, FiniteSetsExt

CONSTANTS
    Tables,      \* the tables that are moved
    Order,       \* TABLE_MIGRATION_ORDER: the tables as a sequence
    Users,       \* the table auto_migrate looks at first
    Seed,        \* the table a migration may empty, DEFAULT_SEED_TABLES
    Identity,    \* IDENTITY_TABLES: their ids come from a sequence
    Sources,     \* the contents SQLite may have: functions from tables to ids
    MaxId,       \* bound: ids of SQLite
    None,
    Inserts,     \* bound: rows the application writes
    Faults,      \* bound: statements that fail for a reason of their own
    Kills        \* bound: times the process is killed

ASSUME MigrationAssumption ==
    /\ Users \in Identity
    /\ Seed \in Identity
    /\ Users # Seed
    /\ Identity \subseteq Tables
    /\ Order \in Seq(Tables)
    /\ {Order[i] : i \in 1 .. Len(Order)} = Tables
    /\ \A i, j \in 1 .. Len(Order) : Order[i] = Order[j] => i = j
    /\ Len(Order) > 0
    /\ "logs" \in Tables
    /\ Sources \subseteq [Tables -> SUBSET (1 .. MaxId)]
    /\ None \notin Nat
    /\ {MaxId, Inserts, Faults, Kills} \subseteq Nat

VARIABLES
    src,      \* the rows of SQLite: ids per table
    skips,    \* "none", "some" or "many" rows of logs have no UTC timestamp
    flaw,     \* a table with values PostgreSQL refuses, and how many, or None
    pg,       \* committed rows per table
    open,     \* rows of the transaction under way
    tx,       \* FALSE: the transaction has failed, further statements fail
    seq,      \* the next id of each identity column
    step,     \* what the tools are doing
    at,       \* the table being copied
    run,      \* who started the migration and with which flags
    code,     \* the exit code of the last migration, None while it runs
    told,     \* the exit code of the last auto_migrate
    app,      \* the application is running on PostgreSQL
    budget

vars == <<src, skips, flaw, pg, open, tx, seq, step, at, run, code, told, app, budget>>
source == <<src, skips, flaw>>
tool == <<open, tx, step, at, run>>

Row(id, from) == [id |-> id, from |-> from]
Ids(rows) == {r.id : r \in rows}
Empty == [t \in Tables |-> {}]
AtOne == [t \in Identity |-> 1]

Init ==
    /\ src \in Sources
    /\ skips \in {"none", "some", "many"}
    /\ flaw \in {None} \cup (Tables \X {"few", "many"})
    /\ pg = Empty /\ open = {} /\ tx = TRUE
    /\ seq = AtOne
    /\ step = "off" /\ at = 1
    /\ run = [by |-> "start", force |-> FALSE, verify |-> TRUE]
    /\ code = None /\ told = None
    /\ app = FALSE
    /\ budget = [inserts |-> Inserts, faults |-> Faults, kills |-> Kills]

Spend(f) == budget[f] > 0 /\ budget' = [budget EXCEPT ![f] = @ - 1]

-----------------------------------------------------------------------------
(* auto_migrate.py *)

\* start.ps1 runs auto_migrate before the application.
Start ==
    /\ step = "off" /\ ~app
    /\ step' = "auto"
    /\ UNCHANGED <<source, pg, open, tx, seq, at, run, code, told, app, budget>>

\* The application starts whatever auto_migrate returned.
Serve(result) ==
    /\ told' = result
    /\ app' = TRUE
    /\ step' = "off"

\* A row in users means that the data has been moved.
AutoKnown ==
    /\ step = "auto"
    /\ pg[Users] # {}
    /\ Serve(0)
    /\ UNCHANGED <<source, pg, open, tx, seq, at, run, code, budget>>

OnlySeed == \A t \in Tables \ {Seed} : pg[t] = {}

AutoRefuses ==
    /\ step = "auto"
    /\ pg[Users] = {} /\ ~OnlySeed
    /\ Serve(1)
    /\ UNCHANGED <<source, pg, open, tx, seq, at, run, code, budget>>

\* TRUNCATE ... RESTART IDENTITY of the seed table.
ClearSeed ==
    /\ pg' = [pg EXCEPT ![Seed] = {}]
    /\ seq' = [seq EXCEPT ![Seed] = 1]

AutoMigrates ==
    /\ step = "auto"
    /\ OnlySeed
    /\ ClearSeed
    /\ step' = "plan"
    /\ run' = [by |-> "start", force |-> FALSE, verify |-> TRUE]
    /\ code' = None
    /\ UNCHANGED <<source, open, tx, at, told, app, budget>>

\* auto_migrate --check-only: the early return comes after the clean-up.
CheckOnly ==
    /\ step = "off"
    /\ OnlySeed
    /\ ClearSeed
    /\ UNCHANGED <<source, tool, code, told, app, budget>>

-----------------------------------------------------------------------------
(* migrate_sqlite_to_pg.py *)

ByHand(force, verify) ==
    /\ step = "off" /\ ~app
    /\ step' = "plan"
    /\ run' = [by |-> "hand", force |-> force, verify |-> verify]
    /\ code' = None
    /\ UNCHANGED <<source, pg, open, tx, seq, at, told, app, budget>>

\* The tool ends; auto_migrate passes its exit code on and start.ps1 goes on.
Exit(result) ==
    /\ code' = result
    /\ IF run.by = "start" THEN Serve(result)
                           ELSE step' = "off" /\ UNCHANGED <<told, app>>

\* Variant: the destination need not be empty.
StopsOnFlaws == flaw # None /\ flaw[2] = "many"

\* Columns that do not fit, more than 5 % of unusable values, or a
\* destination that is not empty.
Stops ==
    \/ flaw # None /\ flaw[2] = "many"
    \/ ~run.force /\ \E t \in Tables : pg[t] # {}

PlanStops ==
    /\ step = "plan"
    /\ Stops
    /\ Exit(2)
    /\ UNCHANGED <<source, pg, open, tx, seq, at, run, budget>>

PlanGoes ==
    /\ step = "plan"
    /\ ~Stops
    /\ IF run.force THEN pg' = Empty /\ seq' = AtOne ELSE UNCHANGED <<pg, seq>>
    /\ step' = "copy" /\ at' = 1
    /\ UNCHANGED <<source, open, tx, run, code, told, app, budget>>

\* The rows of table t that transform_row lets through.
Convertible(t) ==
    {id \in src[t] : t = "logs" /\ skips # "none" => \E n \in src[t] : n < id}

RefusedRow == flaw # None /\ flaw[1] = Order[at]

CopyRows ==
    /\ step = "copy"
    /\ ~RefusedRow
    /\ open' = {Row(id, "source") : id \in Convertible(Order[at])}
    /\ step' = "commit"
    /\ UNCHANGED <<source, pg, tx, seq, at, run, code, told, app, budget>>

\* An error of the server leaves a transaction in which nothing succeeds.
Fails(failed) ==
    /\ step' = "undo"
    /\ tx' = ~failed
    /\ UNCHANGED <<source, pg, open, seq, at, run, code, told, app>>

ServerRefuses ==
    /\ step = "copy" /\ RefusedRow
    /\ Fails(TRUE)
    /\ UNCHANGED budget

ServerFails ==
    /\ step \in {"copy", "commit", "sync"}
    /\ Spend("faults")
    /\ Fails(TRUE)

\* An exception of the tool itself, between two batches of INSERTs.
ToolFails ==
    /\ step = "copy"
    /\ Spend("faults")
    /\ Fails(FALSE)

Commit ==
    /\ step = "commit"
    /\ pg' = [pg EXCEPT ![Order[at]] = @ \cup open]
    /\ open' = {}
    /\ IF at < Len(Order) THEN step' = "copy" /\ at' = at + 1
                          ELSE step' = "sync" /\ UNCHANGED at
    /\ UNCHANGED <<source, tx, seq, run, code, told, app, budget>>

\* Variant: the accounts are missing from the list of identity tables.
SyncedButUsers ==
    [t \in Identity |-> IF t = Users THEN seq[t] ELSE 1 + Max(Ids(pg[t]) \cup {0})]

\* setval(..., MAX(id), true) for every identity table, 1 for an empty one.
Synced == [t \in Identity |-> 1 + Max(Ids(pg[t]) \cup {0})]

\* Variant: skipped rows do not change the exit code.
ResultOfCopy == IF skips = "many" /\ ~run.verify /\ src["logs"] # {} THEN 2 ELSE 0

\* Verification reports a missing row before the timestamps are counted.
Result ==
    CASE skips = "none" \/ src["logs"] = {} -> 0
      [] skips = "many" /\ ~run.verify -> 2
      [] OTHER -> 1

Sync ==
    /\ step = "sync"
    /\ seq' = Synced
    /\ Exit(Result)
    /\ UNCHANGED <<source, pg, open, tx, at, run, budget>>

\* truncate_all_pg_tables on the connection that has just failed.
Undo ==
    /\ step = "undo"
    /\ IF tx THEN pg' = Empty /\ seq' = AtOne ELSE UNCHANGED <<pg, seq>>
    /\ open' = {} /\ tx' = TRUE
    /\ Exit(2)
    /\ UNCHANGED <<source, at, run, budget>>

-----------------------------------------------------------------------------
(* The application, and the end of a process *)

\* A row gets the next id; when that id is taken the row is refused.
AppInserts(t) ==
    /\ app
    /\ Spend("inserts")
    /\ seq' = [seq EXCEPT ![t] = @ + 1]
    /\ pg' = IF seq[t] \in Ids(pg[t]) THEN pg
             ELSE [pg EXCEPT ![t] = @ \cup {Row(seq[t], "app")}]
    /\ UNCHANGED <<source, tool, code, told, app>>

Killed ==
    /\ step # "off"
    /\ Spend("kills")
    /\ step' = "off"
    /\ open' = {} /\ tx' = TRUE
    /\ UNCHANGED <<source, pg, seq, at, run, code, told, app>>

AppStops ==
    /\ app /\ step = "off"
    /\ app' = FALSE
    /\ UNCHANGED <<source, tool, pg, seq, code, told, budget>>

Next ==
    \/ Start \/ AutoKnown \/ AutoRefuses \/ AutoMigrates \/ CheckOnly
    \/ \E force, verify \in BOOLEAN : ByHand(force, verify)
    \/ PlanStops \/ PlanGoes
    \/ CopyRows \/ ServerRefuses \/ ServerFails \/ ToolFails
    \/ Commit \/ Sync \/ Undo
    \/ \E t \in Identity : AppInserts(t)
    \/ Killed \/ AppStops

Spec == Init /\ [][Next]_vars

-----------------------------------------------------------------------------
(* Properties *)

Steps == {"off", "auto", "plan", "copy", "commit", "sync", "undo"}
Rows == [id : Nat \ {0}, from : {"source", "app"}]

TypeOK ==
    /\ src \in Sources
    /\ skips \in {"none", "some", "many"}
    /\ flaw \in {None} \cup (Tables \X {"few", "many"})
    /\ pg \in [Tables -> SUBSET Rows] /\ open \in SUBSET Rows
    /\ tx \in BOOLEAN /\ app \in BOOLEAN
    /\ seq \in [Identity -> Nat \ {0}]
    /\ step \in Steps /\ at \in 1 .. Len(Order)
    /\ run \in [by : {"start", "hand"}, force : BOOLEAN, verify : BOOLEAN]
    /\ {code, told} \subseteq {None, 0, 1, 2}
    /\ budget \in [inserts : 0 .. Inserts, faults : 0 .. Faults, kills : 0 .. Kills]

\* After a migration that ended with 0 or 1, whatever happened before and
\* after it, every identity column hands out an id above all that are there:
\* the first inserts of the application do not collide with copied rows
\* (migrate_sqlite_to_pg.py, "removal of risk R-1").
SequencesAhead ==
    code \in {0, 1} => \A t \in Identity : \A r \in pg[t] : r.id < seq[t]

\* Exit code 0 means that every row of SQLite is in PostgreSQL, and it stays
\* there through restarts and later refused runs, when accounts were among
\* what was moved (without accounts a later start empties the seed table).
ZeroMeansComplete ==
    code = 0 /\ src[Users] # {} =>
        \A t \in Tables : \A id \in src[t] : Row(id, "source") \in pg[t]

\* What the application wrote disappears only when an operator forces a
\* migration, or from the seed table while nobody has an account: neither the
\* automatic rollback nor a refused or repeated migration touches it.
AppRowsSurvive ==
    [][\A t \in Tables : \A r \in pg[t] :
          r.from = "app" /\ r \notin pg'[t] =>
             \/ step = "plan" /\ run.force
             \/ t = Seed /\ OnlySeed]_vars

\* tools/auto_migrate.py: answer 0 at start-up means that the data is there.
StartedMeansComplete ==
    app /\ told = 0 /\ skips = "none" =>
        \A t \in Tables : \A id \in src[t] : Row(id, "source") \in pg[t]

=============================================================================
