----------------------------- MODULE MCMigration -----------------------------
(* Four tables: accounts, page counters (no identity), logs and readings.  *)
EXTENDS Migration

MCTables == {"users", "counters", "logs", "readings"}
MCOrder == <<"users", "counters", "logs", "readings">>
MCIdentity == {"users", "logs", "readings"}

\* An installation in use, one nobody has registered in, and one that has
\* only sensor readings.
MCSources ==
    {[t \in MCTables |-> IF t = "logs" THEN {1, 3} ELSE {1}],
     [t \in MCTables |-> IF t = "users" THEN {} ELSE {2}],
     [t \in MCTables |-> IF t = "readings" THEN {1, 2} ELSE {}]}
=============================================================================
