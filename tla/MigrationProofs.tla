----------------------------- MODULE MigrationProofs -----------------------------
(***************************************************************************)
(* Proofs about Migration for any tables, any contents of SQLite, any      *)
(* order of the tables and any number of faults, kills and inserts: the    *)
(* type invariant, that the identity columns are ahead of their rows, that *)
(* exit code 0 means that everything was copied, and that the rows of the  *)
(* application survive.                                                    *)
(***************************************************************************)
EXTENDS Migration, WellFoundedInduction, TLAPS

\* While the tools run there is no exit code yet, and no application.
Alone ==
    /\ step \in {"plan", "copy", "commit", "sync", "undo"} => code = None
    /\ step # "off" => ~app

\* Every table has a highest id.
Bounded == \E n \in Nat : \A t \in Tables : \A r \in pg[t] : r.id <= n

\* A copy has found its destination empty or has emptied it.
SourceOnly ==
    /\ \A r \in open : r.from = "source" /\ r.id <= MaxId
    /\ step \in {"copy", "commit", "sync", "undo"} =>
          \A t \in Tables : \A r \in pg[t] : r.from = "source"

Copied(t) == \A id \in Convertible(t) : Row(id, "source") \in pg[t]

\* The tables before the one being copied are in PostgreSQL.
CopiedSoFar ==
    /\ step \in {"copy", "commit"} => \A i \in 1 .. Len(Order) : i < at => Copied(Order[i])
    /\ step = "commit" => \A id \in Convertible(Order[at]) : Row(id, "source") \in open
    /\ step = "sync" => \A t \in Tables : Copied(t)

IInv ==
    TypeOK /\ Alone /\ Bounded /\ SourceOnly /\ CopiedSoFar /\ SequencesAhead /\ ZeroMeansComplete
-----------------------------------------------------------------------------
(* The highest id. *)

Below == {p \in Nat \X Nat : p[1] < p[2]}

(* Going down, the numbers end. *)
LEMMA BelowWellFounded == IsWellFoundedOn(Below, Nat)
  BY NatLessThanWellFounded DEF OpToRel, Below

(* A set of numbers has a least one. *)
LEMMA LeastNat ==
    ASSUME NEW T \in SUBSET Nat, T # {}
    PROVE  \E x \in T : \A y \in T : x <= y
  <1>1. PICK x \in T : \A y \in T : ~(<<y, x>> \in Below)
    BY BelowWellFounded, WFMin
  <1>2. \A y \in T : ~(y < x) /\ x \in Nat /\ y \in Nat
    BY <1>1 DEF Below
  <1> QED BY <1>2

(* A bounded set of numbers has a greatest one, and Max is it. *)
LEMMA MaxFacts ==
    ASSUME NEW S \in SUBSET Nat, S # {}, NEW n \in Nat, \A x \in S : x <= n
    PROVE  Max(S) \in S /\ \A x \in S : x <= Max(S)
  <1> DEFINE Bounds == {m \in Nat : \A x \in S : x <= m}
  <1>1. PICK m \in Bounds : \A k \in Bounds : m <= k
    <2>1. n \in Bounds /\ Bounds \in SUBSET Nat
      OBVIOUS
    <2> HIDE DEF Bounds
    <2> QED BY <2>1, LeastNat
  <1>2. m \in S
    <2> SUFFICES ASSUME m \notin S PROVE FALSE
      OBVIOUS
    <2>1. \A x \in S : x <= m - 1 /\ m - 1 \in Nat
      BY <1>1
    <2>2. m - 1 \in Bounds
      BY <2>1
    <2> QED BY <1>1, <2>2
  <1>3. \E x \in S : \A y \in S : x >= y
    BY <1>1, <1>2
  <1> QED BY <1>3 DEF Max

(* What the assumption says of the tables and of the bounds. *)
LEMMA Constants ==
    /\ MaxId \in Nat /\ Inserts \in Nat /\ Faults \in Nat /\ Kills \in Nat
    /\ Len(Order) \in Nat /\ Len(Order) >= 1
    /\ \A i \in 1 .. Len(Order) : Order[i] \in Tables
    /\ \A t \in Tables : \E i \in 1 .. Len(Order) : Order[i] = t
    /\ Users \in Tables /\ Seed \in Tables /\ Users # Seed /\ Identity \subseteq Tables
    /\ "logs" \in Tables
  <1>1. MaxId \in Nat /\ Inserts \in Nat /\ Faults \in Nat /\ Kills \in Nat
    BY MigrationAssumption
  <1>2. Len(Order) \in Nat /\ Len(Order) >= 1 /\ \A i \in 1 .. Len(Order) : Order[i] \in Tables
    <2>1. Order \in Seq(Tables) /\ Len(Order) > 0
      BY MigrationAssumption
    <2> QED BY <2>1
  <1>3. \A t \in Tables : \E i \in 1 .. Len(Order) : Order[i] = t
    BY MigrationAssumption, Zenon
  <1>4. Users \in Tables /\ Seed \in Tables /\ Users # Seed /\ Identity \subseteq Tables
        /\ "logs" \in Tables
    BY MigrationAssumption
  <1> QED BY <1>1, <1>2, <1>3, <1>4

(* An exit code that is still open is none of the three. *)
LEMMA NoneType == None # 0 /\ None # 1 /\ None \notin {0, 1, 2}
  <1>1. None \notin Nat
    BY MigrationAssumption
  <1> QED BY <1>1

(* The ids of SQLite. *)
LEMMA SourceType == ASSUME TypeOK PROVE src \in [Tables -> SUBSET (1 .. MaxId)]
  BY MigrationAssumption DEF TypeOK

(* What the copy of a table reads are rows of SQLite. *)
LEMMA ConvertibleFacts ==
    ASSUME TypeOK, NEW t \in Tables, NEW id \in Convertible(t)
    PROVE  /\ id \in 1 .. MaxId /\ id \in src[t]
           /\ Row(id, "source") \in Rows /\ Row(id, "source").from = "source"
           /\ Row(id, "source").id = id
  BY SourceType, Constants DEF Convertible, Row, Rows

(* The next id that setval leaves is above every row. *)
LEMMA SyncedFacts ==
    ASSUME TypeOK, Bounded
    PROVE  /\ Synced \in [Identity -> Nat \ {0}]
           /\ \A t \in Identity : \A r \in pg[t] : r.id < Synced[t]
  <1> SUFFICES ASSUME NEW t \in Identity
               PROVE  /\ 1 + Max(Ids(pg[t]) \cup {0}) \in Nat \ {0}
                      /\ \A r \in pg[t] : r.id < 1 + Max(Ids(pg[t]) \cup {0})
    BY DEF Synced
  <1> DEFINE S == Ids(pg[t]) \cup {0}
  <1>1. t \in Tables /\ pg[t] \in SUBSET Rows
    BY Constants DEF TypeOK
  <1>2. PICK n \in Nat : \A r \in pg[t] : r.id <= n
    BY <1>1 DEF Bounded
  <1>3. S \in SUBSET Nat /\ S # {} /\ \A x \in S : x <= n
    BY <1>1, <1>2 DEF Ids, Rows
  <1>4. \A r \in pg[t] : r.id \in S
    BY DEF Ids
  <1> HIDE DEF S
  <1>5. Max(S) \in S /\ \A x \in S : x <= Max(S)
    BY <1>3, MaxFacts
  <1>6. Max(S) \in Nat /\ \A r \in pg[t] : r.id \in Nat /\ r.id <= Max(S)
    BY <1>3, <1>4, <1>5
  <1>7. 1 + Max(S) \in Nat \ {0} /\ \A r \in pg[t] : r.id < 1 + Max(S)
    BY <1>6
  <1> QED BY <1>7 DEF S
-----------------------------------------------------------------------------
(* The steps. *)

(* The bounds are not overdrawn. *)
LEMMA SpendType ==
    ASSUME budget \in [inserts : 0 .. Inserts, faults : 0 .. Faults, kills : 0 .. Kills],
           NEW f \in {"inserts", "faults", "kills"}, Spend(f)
    PROVE  budget' \in [inserts : 0 .. Inserts, faults : 0 .. Faults, kills : 0 .. Kills]
  BY Constants DEF Spend

(* An empty destination. *)
LEMMA EmptyType ==
    /\ Empty \in [Tables -> SUBSET Rows] /\ \A t \in Tables : Empty[t] = {}
    /\ AtOne \in [Identity -> Nat \ {0}]
  BY DEF Empty, AtOne

(* Only the seed table is cleared. *)
LEMMA ClearSeedType ==
    ASSUME TypeOK, ClearSeed
    PROVE  /\ pg' \in [Tables -> SUBSET Rows] /\ seq' \in [Identity -> Nat \ {0}]
           /\ pg'[Seed] = {} /\ \A t \in Tables \ {Seed} : pg'[t] = pg[t]
           /\ \A t \in Identity \ {Seed} : seq'[t] = seq[t]
  <1>1. Seed \in Tables /\ Seed \in Identity
    BY MigrationAssumption, Constants
  <1>2. /\ pg \in [Tables -> SUBSET Rows] /\ pg' = [pg EXCEPT ![Seed] = {}]
        /\ seq \in [Identity -> Nat \ {0}] /\ seq' = [seq EXCEPT ![Seed] = 1]
    BY DEF TypeOK, ClearSeed
  <1>3. pg' \in [Tables -> SUBSET Rows] /\ pg'[Seed] = {} /\ \A t \in Tables \ {Seed} : pg'[t] = pg[t]
    BY <1>1, <1>2
  <1>4. seq' \in [Identity -> Nat \ {0}] /\ \A t \in Identity \ {Seed} : seq'[t] = seq[t]
    BY <1>1, <1>2
  <1> QED BY <1>3, <1>4

(* The end of the tool. *)
LEMMA ExitType ==
    ASSUME TypeOK, NEW result \in {0, 1, 2}, Exit(result)
    PROVE  /\ code' = result /\ told' \in {None, 0, 1, 2} /\ app' \in BOOLEAN /\ step' = "off"
  BY DEF TypeOK, Exit, Serve

(* Every variable keeps its type. *)
LEMMA TypeStep == ASSUME TypeOK, Bounded, [Next]_vars PROVE TypeOK'
  <1> USE Constants
  <1>1. CASE Start \/ AutoKnown \/ AutoRefuses \/ AppStops \/ UNCHANGED vars
    BY <1>1 DEF Start, AutoKnown, AutoRefuses, AppStops, Serve, vars, source, tool, TypeOK, Steps
  <1>2. CASE AutoMigrates
    BY <1>2, ClearSeedType DEF AutoMigrates, source, TypeOK, Steps
  <1>3. CASE CheckOnly
    BY <1>3, ClearSeedType DEF CheckOnly, source, tool, TypeOK
  <1>4. CASE \E force, verify \in BOOLEAN : ByHand(force, verify)
    BY <1>4 DEF ByHand, source, TypeOK, Steps
  <1>5. CASE PlanStops
    <2>1. Exit(2) /\ UNCHANGED <<source, pg, open, tx, seq, at, run, budget>>
      BY <1>5 DEF PlanStops
    <2> QED BY <2>1, ExitType DEF source, TypeOK, Steps
  <1>6. CASE PlanGoes
    BY <1>6, EmptyType DEF PlanGoes, source, TypeOK, Steps
  <1>7. CASE CopyRows
    <2>1. open' \in SUBSET Rows
      BY <1>7, ConvertibleFacts DEF CopyRows, TypeOK
    <2> QED BY <1>7, <2>1 DEF CopyRows, source, TypeOK, Steps
  <1>8. CASE ServerRefuses
    BY <1>8 DEF ServerRefuses, Fails, source, TypeOK, Steps
  <1>9. CASE ServerFails \/ ToolFails
    <2>1. budget' \in [inserts : 0 .. Inserts, faults : 0 .. Faults, kills : 0 .. Kills]
      BY <1>9, SpendType DEF ServerFails, ToolFails, TypeOK
    <2> QED BY <1>9, <2>1 DEF ServerFails, ToolFails, Fails, source, TypeOK, Steps
  <1>10. CASE Commit
    <2>1. pg' \in [Tables -> SUBSET Rows]
      BY <1>10 DEF Commit, TypeOK
    <2>2. step' \in Steps /\ at' \in 1 .. Len(Order)
      BY <1>10 DEF Commit, TypeOK, Steps
    <2> QED BY <1>10, <2>1, <2>2 DEF Commit, source, TypeOK
  <1>11. CASE Sync
    <2>1. Result \in {0, 1, 2}
      BY DEF Result
    <2>2. Exit(Result) /\ seq' = Synced /\ UNCHANGED <<source, pg, open, tx, at, run, budget>>
      BY <1>11 DEF Sync
    <2>3. code' \in {0, 1, 2} /\ told' \in {None, 0, 1, 2} /\ app' \in BOOLEAN /\ step' = "off"
      BY <2>1, <2>2, ExitType
    <2> QED BY <2>2, <2>3, SyncedFacts DEF source, TypeOK, Steps
  <1>12. CASE Undo
    <2>1. Exit(2) /\ open' = {} /\ tx' = TRUE /\ UNCHANGED <<source, at, run, budget>>
      BY <1>12 DEF Undo
    <2>2. pg' \in [Tables -> SUBSET Rows] /\ seq' \in [Identity -> Nat \ {0}]
      BY <1>12, EmptyType DEF Undo, TypeOK
    <2> QED BY <2>1, <2>2, ExitType DEF source, TypeOK, Steps
  <1>13. ASSUME NEW t \in Identity, AppInserts(t) PROVE TypeOK'
    <2>1. budget' \in [inserts : 0 .. Inserts, faults : 0 .. Faults, kills : 0 .. Kills]
      BY <1>13, SpendType DEF AppInserts, TypeOK
    <2>2. seq' \in [Identity -> Nat \ {0}] /\ Row(seq[t], "app") \in Rows
      BY <1>13 DEF AppInserts, TypeOK, Row, Rows
    <2>3. pg' \in [Tables -> SUBSET Rows]
      BY <1>13, <2>2 DEF AppInserts, TypeOK
    <2> QED BY <1>13, <2>1, <2>2, <2>3 DEF AppInserts, source, tool, TypeOK
  <1>14. CASE Killed
    <2>1. budget' \in [inserts : 0 .. Inserts, faults : 0 .. Faults, kills : 0 .. Kills]
      BY <1>14, SpendType DEF Killed, TypeOK
    <2> QED BY <1>14, <2>1 DEF Killed, source, TypeOK, Steps
  <1> QED BY <1>1, <1>2, <1>3, <1>4, <1>5, <1>6, <1>7, <1>8, <1>9, <1>10, <1>11, <1>12, <1>13,
             <1>14 DEF Next

(* The tools and the application take turns. *)
LEMMA AloneStep == ASSUME TypeOK, Alone, [Next]_vars PROVE Alone'
  <1> USE DEF Alone
  <1>1. CASE Start \/ AutoKnown \/ AutoRefuses \/ AutoMigrates \/ CheckOnly \/ AppStops
             \/ UNCHANGED vars
    BY <1>1 DEF Start, AutoKnown, AutoRefuses, AutoMigrates, CheckOnly, AppStops, Serve, vars, tool
  <1>2. CASE \E force, verify \in BOOLEAN : ByHand(force, verify)
    BY <1>2 DEF ByHand
  <1>3. CASE PlanStops \/ Sync \/ Undo
    <2>1. step' = "off"
      BY <1>3 DEF PlanStops, Sync, Undo, Exit, Serve
    <2> QED BY <2>1
  <1>4. CASE PlanGoes \/ CopyRows \/ Commit
    BY <1>4 DEF PlanGoes, CopyRows, Commit
  <1>5. CASE ServerRefuses \/ ServerFails \/ ToolFails
    BY <1>5 DEF ServerRefuses, ServerFails, ToolFails, Fails
  <1>6. CASE Killed \/ \E t \in Identity : AppInserts(t)
    BY <1>6 DEF Killed, AppInserts, tool
  <1> QED BY <1>1, <1>2, <1>3, <1>4, <1>5, <1>6 DEF Next

(* What a step does to the tables: nothing, or it clears the seed table while no other has
   a row, empties all, adds the rows of a transaction or a row of the application. *)
LEMMA TablesStep ==
    ASSUME TypeOK, [Next]_vars
    PROVE  \/ UNCHANGED pg /\ (seq' = seq \/ Sync \/ \E t \in Identity : AppInserts(t))
           \/ ClearSeed /\ OnlySeed /\ (AutoMigrates \/ CheckOnly)
           \/ pg' = Empty /\ seq' = AtOne /\ ((PlanGoes /\ run.force) \/ (Undo /\ code' = 2))
           \/ Commit
           \/ \E t \in Identity : /\ AppInserts(t) /\ seq[t] \notin Ids(pg[t])
                                  /\ pg' = [pg EXCEPT ![t] = @ \cup {Row(seq[t], "app")}]
                                  /\ seq' = [seq EXCEPT ![t] = @ + 1]
  <1>1. CASE Start \/ AutoKnown \/ AutoRefuses \/ AppStops \/ Killed \/ UNCHANGED vars
    <2>1. pg' = pg /\ seq' = seq
      BY <1>1 DEF Start, AutoKnown, AutoRefuses, AppStops, Killed, vars
    <2> QED BY <2>1
  <1>2. CASE AutoMigrates \/ CheckOnly
    BY <1>2 DEF AutoMigrates, CheckOnly
  <1>3. CASE (\E force, verify \in BOOLEAN : ByHand(force, verify)) \/ PlanStops \/ CopyRows
             \/ ServerRefuses \/ ServerFails \/ ToolFails
    BY <1>3 DEF ByHand, PlanStops, CopyRows, ServerRefuses, ServerFails, ToolFails, Fails
  <1>4. CASE PlanGoes
    BY <1>4 DEF PlanGoes
  <1>5. CASE Sync
    BY <1>5 DEF Sync
  <1>6. CASE Undo
    BY <1>6 DEF Undo, Exit
  <1>7. CASE \E t \in Identity : AppInserts(t)
    BY <1>7 DEF AppInserts
  <1> QED BY <1>1, <1>2, <1>3, <1>4, <1>5, <1>6, <1>7 DEF Next

(* A step adds the rows of SQLite or one of the application. *)
LEMMA BoundedStep == ASSUME TypeOK, Bounded, SourceOnly, [Next]_vars PROVE Bounded'
  <1> USE Constants
  <1>1. PICK n \in Nat : \A t \in Tables : \A r \in pg[t] : r.id <= n
    BY DEF Bounded
  <1>2. pg \in [Tables -> SUBSET Rows] /\ \A t \in Tables : \A r \in pg[t] : r.id \in Nat
    BY DEF TypeOK, Rows
  <1>3. CASE UNCHANGED pg
    BY <1>1, <1>3 DEF Bounded
  <1>4. CASE pg' = Empty
    BY <1>4, EmptyType DEF Bounded
  <1>5. CASE ClearSeed
    BY <1>1, <1>5, ClearSeedType DEF Bounded
  <1>6. CASE Commit
    <2>1. \A t \in Tables : pg'[t] \subseteq pg[t] \cup open
      BY <1>2, <1>6 DEF Commit
    <2>2. \A r \in open : r.id <= MaxId /\ r.id \in Nat
      BY DEF SourceOnly, TypeOK, Rows
    <2>3. n + MaxId \in Nat /\ \A t \in Tables : \A r \in pg'[t] : r.id <= n + MaxId
      BY <1>1, <1>2, <2>1, <2>2
    <2> QED BY <2>3 DEF Bounded
  <1>7. ASSUME NEW t \in Identity, pg' = [pg EXCEPT ![t] = @ \cup {Row(seq[t], "app")}]
        PROVE  Bounded'
    <2>1. seq[t] \in Nat /\ t \in Tables
      BY DEF TypeOK
    <2>2. \A z \in Tables : pg'[z] \subseteq pg[z] \cup {Row(seq[t], "app")}
      BY <1>2, <1>7, <2>1
    <2>3. Row(seq[t], "app").id = seq[t]
      BY DEF Row
    <2>4. n + seq[t] \in Nat /\ \A z \in Tables : \A r \in pg'[z] : r.id <= n + seq[t]
      BY <1>1, <1>2, <2>1, <2>2, <2>3
    <2> QED BY <2>4 DEF Bounded
  <1> QED BY <1>3, <1>4, <1>5, <1>6, <1>7, TablesStep

(* What is copied comes from SQLite, into tables that were empty. *)
LEMMA SourceStep == ASSUME TypeOK, Alone, SourceOnly, [Next]_vars PROVE SourceOnly'
  <1> USE Constants DEF SourceOnly
  <1>1. CASE Start \/ AutoKnown \/ AutoRefuses \/ AutoMigrates \/ CheckOnly \/ AppStops \/ Killed
             \/ UNCHANGED vars
    <2>1. CASE UNCHANGED vars
      BY <2>1 DEF vars
    <2>2. CASE ~UNCHANGED vars
      BY <1>1, <2>2 DEF Start, AutoKnown, AutoRefuses, AutoMigrates, CheckOnly, AppStops, Killed,
                        Serve, tool
    <2> QED BY <2>1, <2>2
  <1>2. CASE \E force, verify \in BOOLEAN : ByHand(force, verify)
    BY <1>2 DEF ByHand
  <1>3. CASE PlanStops \/ Sync
    BY <1>3 DEF PlanStops, Sync, Exit, Serve
  <1>4. CASE Undo
    BY <1>4 DEF Undo, Exit, Serve
  <1>5. CASE PlanGoes
    <2>1. open' = open /\ \A t \in Tables : pg'[t] = {}
      BY <1>5, EmptyType DEF PlanGoes, Stops
    <2> QED BY <2>1
  <1>6. CASE CopyRows
    <2>1. \A r \in open' : r.from = "source" /\ r.id <= MaxId
      BY <1>6, ConvertibleFacts DEF CopyRows, TypeOK
    <2> QED BY <1>6, <2>1 DEF CopyRows
  <1>7. CASE ServerRefuses \/ ServerFails \/ ToolFails
    BY <1>7 DEF ServerRefuses, ServerFails, ToolFails, Fails
  <1>8. CASE Commit
    <2>1. open' = {} /\ \A t \in Tables : pg'[t] \subseteq pg[t] \cup open
      BY <1>8 DEF Commit, TypeOK
    <2> QED BY <1>8, <2>1 DEF Commit
  <1>9. CASE \E t \in Identity : AppInserts(t)
    <2>1. step' = "off" /\ open' = open
      BY <1>9 DEF AppInserts, tool, Alone
    <2> QED BY <2>1
  <1> QED BY <1>1, <1>2, <1>3, <1>4, <1>5, <1>6, <1>7, <1>8, <1>9 DEF Next

(* Each commit adds the table that was read, in order. *)
LEMMA CopiedStep == ASSUME TypeOK, Alone, CopiedSoFar, [Next]_vars PROVE CopiedSoFar'
  <1> USE Constants DEF CopiedSoFar
  <1>1. UNCHANGED <<src, skips>> => \A t \in Tables : Convertible(t)' = Convertible(t)
    BY DEF Convertible
  <1>2. CASE step' \notin {"copy", "commit", "sync"}
    BY <1>2
  <1>3. CASE UNCHANGED vars
    BY <1>3 DEF vars, Copied, Convertible
  <1>4. CASE PlanGoes
    BY <1>4 DEF PlanGoes
  <1>5. CASE CopyRows
    <2>1. UNCHANGED <<src, skips, pg, at>> /\ step = "copy" /\ step' = "commit"
      BY <1>5 DEF CopyRows, source
    <2>2. \A i \in 1 .. Len(Order) : i < at => Copied(Order[i])'
      BY <1>1, <2>1 DEF Copied
    <2>3. \A id \in Convertible(Order[at]) : Row(id, "source") \in open'
      BY <1>5 DEF CopyRows
    <2>4. Order[at] \in Tables
      BY DEF TypeOK
    <2> QED BY <1>1, <2>1, <2>2, <2>3, <2>4
  <1>6. CASE Commit
    <2>1. UNCHANGED <<src, skips>> /\ step = "commit" /\ at \in 1 .. Len(Order)
      BY <1>6 DEF Commit, source, TypeOK
    <2>2. \A t \in Tables : pg[t] \subseteq pg'[t]
      BY <1>6 DEF Commit, TypeOK
    <2>3. open \subseteq pg'[Order[at]]
      BY <1>6 DEF Commit, TypeOK
    <2>4. \A i \in 1 .. Len(Order) : i <= at => Copied(Order[i])'
      BY <1>1, <2>1, <2>2, <2>3 DEF Copied
    <2>5. CASE at < Len(Order)
      <3>1. step' = "copy" /\ at' = at + 1
        BY <1>6, <2>5 DEF Commit
      <3> QED BY <2>1, <2>4, <3>1
    <2>6. CASE ~(at < Len(Order))
      <3>1. step' = "sync" /\ at = Len(Order)
        BY <1>6, <2>1, <2>6 DEF Commit
      <3>2. \A i \in 1 .. Len(Order) : Copied(Order[i])'
        BY <2>4, <3>1
      <3>3. \A t \in Tables : Copied(t)'
        BY <3>2 DEF Copied, Convertible
      <3> QED BY <3>1, <3>3
    <2> QED BY <2>5, <2>6
  <1>7. CASE \E t \in Identity : AppInserts(t)
    BY <1>2, <1>7 DEF AppInserts, tool, Alone
  <1>8. CASE CheckOnly \/ AppStops
    BY <1>2, <1>8 DEF CheckOnly, AppStops, tool
  <1>9. CASE Start \/ AutoKnown \/ AutoRefuses \/ AutoMigrates \/ Killed
             \/ (\E force, verify \in BOOLEAN : ByHand(force, verify)) \/ ServerRefuses
             \/ ServerFails \/ ToolFails
    BY <1>2, <1>9 DEF Start, AutoKnown, AutoRefuses, AutoMigrates, Killed, ByHand, ServerRefuses,
                      ServerFails, ToolFails, Fails, Serve
  <1>10. CASE PlanStops \/ Sync \/ Undo
    BY <1>2, <1>10 DEF PlanStops, Sync, Undo, Exit, Serve
  <1> QED BY <1>3, <1>4, <1>5, <1>6, <1>7, <1>8, <1>9, <1>10 DEF Next

(* The sequences stay ahead: setval looks at the rows, and a row that the application writes
   takes the number that the sequence leaves. *)
LEMMA AheadStep == ASSUME TypeOK, Alone, Bounded, SequencesAhead, [Next]_vars PROVE SequencesAhead'
  <1> USE Constants DEF SequencesAhead
  <1>1. code' \in {0, 1} => code' = code \/ Sync
    <2>1. CASE PlanStops \/ Undo
      BY <2>1 DEF PlanStops, Undo, Exit
    <2>2. CASE Start \/ AutoKnown \/ AutoRefuses \/ AutoMigrates \/ CheckOnly \/ PlanGoes
               \/ CopyRows \/ ServerRefuses \/ ServerFails \/ ToolFails \/ Commit \/ Killed
               \/ AppStops \/ UNCHANGED vars \/ (\E force, verify \in BOOLEAN : ByHand(force, verify))
               \/ \E t \in Identity : AppInserts(t)
      BY <2>2, NoneType
         DEF Start, AutoKnown, AutoRefuses, AutoMigrates, CheckOnly, PlanGoes, CopyRows,
             ServerRefuses, ServerFails, ToolFails, Fails, Commit, Killed, AppStops, vars, ByHand,
             AppInserts
    <2> QED BY <2>1, <2>2 DEF Next
  <1>2. CASE Sync
    BY <1>2, SyncedFacts DEF Sync
  <1>3. ASSUME code' \in {0, 1}, code' = code, ~Sync
        PROVE  \A t \in Identity : \A r \in pg'[t] : r.id < seq'[t]
    <2>1. \A t \in Identity : \A r \in pg[t] : r.id < seq[t]
      BY <1>3
    <2>2. step \notin {"plan", "copy", "commit", "sync", "undo"}
      BY <1>3, NoneType DEF Alone
    <2>3. pg \in [Tables -> SUBSET Rows] /\ seq \in [Identity -> Nat \ {0}]
          /\ \A t \in Tables : \A r \in pg[t] : r.id \in Nat
      BY DEF TypeOK, Rows
    <2>4. CASE ClearSeed
      BY <2>1, <2>4, ClearSeedType
    <2>5. ASSUME NEW t \in Identity, AppInserts(t)
          PROVE  \A z \in Identity : \A r \in pg'[z] : r.id < seq'[z]
      <3>1. seq' = [seq EXCEPT ![t] = @ + 1] /\ seq'[t] = seq[t] + 1 /\ seq[t] \in Nat
        BY <2>3, <2>5 DEF AppInserts
      <3>2. pg'[t] \subseteq pg[t] \cup {Row(seq[t], "app")} /\ Row(seq[t], "app").id = seq[t]
        BY <2>3, <2>5 DEF AppInserts, Row
      <3>3. \A z \in Identity \ {t} : pg'[z] = pg[z] /\ seq'[z] = seq[z]
        BY <2>3, <2>5 DEF AppInserts
      <3> QED BY <2>1, <2>3, <3>1, <3>2, <3>3
    <2>6. CASE UNCHANGED <<pg, seq>>
      BY <2>1, <2>6
    <2> QED BY <1>3, <2>2, <2>4, <2>5, <2>6, TablesStep DEF PlanGoes, Undo, Commit
  <1> QED BY <1>1, <1>2, <1>3

(* What exit code 0 says is true when it is given, and stays true. *)
LEMMA CompleteStep ==
    ASSUME TypeOK, Alone, CopiedSoFar, ZeroMeansComplete, [Next]_vars PROVE ZeroMeansComplete'
  <1> USE Constants
  <1>1. SUFFICES ASSUME code' = 0, src'[Users] # {}
                 PROVE  \A t \in Tables : \A id \in src'[t] : Row(id, "source") \in pg'[t]
    BY DEF ZeroMeansComplete
  <1>2. src' = src
    BY DEF Next, Start, AutoKnown, AutoRefuses, AutoMigrates, CheckOnly, PlanGoes, CopyRows,
           ServerRefuses, ServerFails, ToolFails, Fails, Commit, Killed, AppStops, vars, ByHand,
           AppInserts, PlanStops, Sync, Undo, source
  <1>3. CASE Sync
    <2>1. Result = 0 /\ pg' = pg /\ step = "sync"
      BY <1>1, <1>3 DEF Sync, Exit
    <2>2. skips = "none" \/ src["logs"] = {}
      BY <2>1 DEF Result
    <2>3. \A t \in Tables : \A id \in src[t] : id \in Convertible(t)
      BY <2>2 DEF Convertible
    <2> QED BY <1>2, <2>1, <2>3 DEF CopiedSoFar, Copied
  <1>4. CASE ~Sync
    <2>1. code = 0 /\ step \notin {"plan", "copy", "commit", "sync", "undo"}
      <3>1. CASE PlanStops \/ Undo
        BY <1>1, <3>1 DEF PlanStops, Undo, Exit
      <3>2. CASE ~PlanStops /\ ~Undo
        <4>1. code' = code \/ code' = None
          BY <1>4, <3>2
             DEF Next, Start, AutoKnown, AutoRefuses, AutoMigrates, CheckOnly, PlanGoes, CopyRows,
                 ServerRefuses, ServerFails, ToolFails, Fails, Commit, Killed, AppStops, vars,
                 ByHand, AppInserts
        <4> QED BY <1>1, <4>1, NoneType DEF Alone
      <3> QED BY <3>1, <3>2
    <2>2. \A t \in Tables : \A id \in src[t] : Row(id, "source") \in pg[t]
      BY <1>1, <1>2, <2>1 DEF ZeroMeansComplete
    <2>3. pg[Users] # {}
      BY <1>1, <1>2, <2>2, SourceType
    <2>4. \A t \in Tables : pg[t] \subseteq pg'[t]
      <3>1. ~(ClearSeed /\ OnlySeed) /\ ~PlanGoes /\ ~Undo /\ ~Commit
        BY <2>1, <2>3 DEF OnlySeed, PlanGoes, Undo, Commit
      <3>2. CASE \E t \in Identity : pg' = [pg EXCEPT ![t] = @ \cup {Row(seq[t], "app")}]
        BY <3>2 DEF TypeOK
      <3>3. CASE UNCHANGED pg
        BY <3>3
      <3> QED BY <3>1, <3>2, <3>3, TablesStep
    <2> QED BY <1>2, <2>2, <2>4
  <1> QED BY <1>3, <1>4
-----------------------------------------------------------------------------
(* The theorems. *)

(* The inductive invariant. *)
LEMMA Inductive == Spec => []IInv
  <1>1. Init => IInv
    <2> SUFFICES ASSUME Init PROVE IInv
      OBVIOUS
    <2>1. pg = Empty /\ open = {} /\ step = "off" /\ code = None /\ app = FALSE
      BY DEF Init
    <2>2. TypeOK
      <3>1. /\ src \in Sources /\ skips \in {"none", "some", "many"}
            /\ flaw \in {None} \cup (Tables \X {"few", "many"})
            /\ tx = TRUE /\ at = 1 /\ told = None /\ seq = AtOne
            /\ run = [by |-> "start", force |-> FALSE, verify |-> TRUE]
            /\ budget = [inserts |-> Inserts, faults |-> Faults, kills |-> Kills]
        BY DEF Init
      <3>2. budget \in [inserts : 0 .. Inserts, faults : 0 .. Faults, kills : 0 .. Kills]
        BY <3>1, Constants
      <3>3. at \in 1 .. Len(Order) /\ step \in Steps
        BY <2>1, <3>1, Constants DEF Steps
      <3> QED BY <2>1, <3>1, <3>2, <3>3, EmptyType DEF TypeOK
    <2>3. Bounded
      BY <2>1, EmptyType DEF Bounded
    <2>4. Alone /\ SourceOnly /\ CopiedSoFar /\ SequencesAhead /\ ZeroMeansComplete
      BY <2>1, NoneType
         DEF Alone, SourceOnly, CopiedSoFar, SequencesAhead, ZeroMeansComplete
    <2> QED BY <2>2, <2>3, <2>4 DEF IInv
  <1>2. IInv /\ [Next]_vars => IInv'
    BY TypeStep, AloneStep, BoundedStep, SourceStep, CopiedStep, AheadStep, CompleteStep DEF IInv
  <1> QED BY <1>1, <1>2, PTL DEF Spec

(* Every variable keeps its type. *)
THEOREM MigrationTypes == Spec => []TypeOK
  BY Inductive, PTL DEF IInv

(* After a migration that ended with 0 or 1 no insert meets a row that is there. *)
THEOREM SequencesAheadHolds == Spec => []SequencesAhead
  BY Inductive, PTL DEF IInv

(* Exit code 0 means that every row of SQLite is in PostgreSQL, and stays there. *)
THEOREM ZeroMeansCompleteHolds == Spec => []ZeroMeansComplete
  BY Inductive, PTL DEF IInv

(* The rows of the application outlive every run of the tools that is not forced. *)
THEOREM AppRowsSurviveHolds == Spec => AppRowsSurvive
  <1>1. ASSUME IInv, [Next]_vars, NEW t \in Tables, NEW r \in pg[t], r.from = "app", r \notin pg'[t]
        PROVE  (step = "plan" /\ run.force) \/ (t = Seed /\ OnlySeed)
    <2>1. step \notin {"copy", "commit", "sync", "undo"}
      BY <1>1, Constants DEF IInv, SourceOnly
    <2>2. CASE ClearSeed /\ OnlySeed
      BY <1>1, <2>2, ClearSeedType DEF IInv
    <2>3. CASE \E z \in Identity : pg' = [pg EXCEPT ![z] = @ \cup {Row(seq[z], "app")}]
      BY <1>1, <2>3 DEF IInv, TypeOK
    <2>4. pg' # pg
      BY <1>1
    <2> QED BY <1>1, <2>1, <2>2, <2>3, <2>4, TablesStep DEF IInv, PlanGoes, Undo, Commit
  <1>2. IInv /\ [Next]_vars =>
            \A t \in Tables : \A r \in pg[t] :
                r.from = "app" /\ r \notin pg'[t] =>
                    \/ step = "plan" /\ run.force
                    \/ t = Seed /\ OnlySeed
    BY <1>1
  <1> QED BY <1>2, Inductive, PTL DEF AppRowsSurvive, Spec
=============================================================================
