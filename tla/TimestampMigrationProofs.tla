------------------------- MODULE TimestampMigrationProofs -------------------------
(***************************************************************************)
(* Proofs about TimestampMigration for any rows, tables, offsets and       *)
(* versions, and any number of runs, markers and failures: the type        *)
(* invariant, that a converted row shows the instant it was written, that  *)
(* it is converted once, and that exit code 0 tells the truth.             *)
(***************************************************************************)
EXTENDS TimestampMigration, TLAPS

RowType == [kind : Kinds, at : Int] \cup {None}
NoPending == [r \in {} |-> None]
RunType ==
    [pc : {"idle", "scan", "backup", "migrate"}, tables : SUBSET Tables, cutover : Times \cup {None},
     dry : BOOLEAN, todo : SUBSET Tables, pending : [Every -> RowType] \cup {NoPending}]
Typed == TypeOK /\ run \in RunType

\* A marker is the commit time or the time of the installation.
MarkersMeant ==
    /\ marker \in {Commit, Fixed, None}
    /\ run.pc # "idle" => run.cutover \in {Commit, Fixed}

\* A time in a format shows the instant b.at as that format did then.
Shows(w, b) ==
    /\ w.kind = b.kind
    /\ w.kind = "naive" => w.at = Local(b.at)
    /\ w.kind = "z" => w.at = IF b.at < Fixed THEN Local(b.at) ELSE b.at
    /\ w.kind \in {"offset", "standard"} => w.at = b.at
Preserved(w, b) ==
    w.kind = "standard" /\ (w.at = b.at \/ BlindSpot(b) \/ SecondTime(b))
\* A row is as it was written, or converted.
Faithful(w, b) == w # None => b \in [kind : Kinds, at : Times] /\ (Shows(w, b) \/ Preserved(w, b))
RowsFaithful == \A r \in Every : Faithful(rows[r], born[r])

\* The transaction holds every row as it is or converted: all rows of the tables it has
\* gone through, and the rows cannot change before it ends.
PendingOfRows ==
    run.pc = "migrate" =>
        /\ run.pending \in [Every -> RowType]
        /\ \A r \in Every :
              \/ run.pending[r] = rows[r] /\ r \notin Stored(run.tables \ run.todo)
              \/ rows[r] # None /\ run.pending[r] = Convert(rows[r], run.cutover)

\* A run has gone through rows that are there.
DoneAreConverted == \A r \in done : rows[r] # None /\ ~Convertible(rows[r])

IInv == Typed /\ MarkersMeant /\ RowsFaithful /\ PendingOfRows /\ DoneAreConverted

(* The constants. *)
LEMMA Constants ==
    /\ {Summer, Winter, DstEnd, Commit, Fixed, Standard, End} \subseteq Nat
    /\ Winter <= Summer /\ Commit <= Fixed /\ Fixed <= Standard /\ Standard <= End
    /\ Commit \in Times /\ Fixed \in Times /\ Times \subseteq Nat
    /\ Meta \in Every /\ Meta \notin Rows /\ Rows \subseteq Every
    /\ None \notin Int /\ None \notin [kind : Kinds, at : Int]
  BY TimestampAssumption DEF Times, Every

(* The local clock, and the way back: wrong for the second showing of a time only. *)
LEMMA BackFromLocal ==
    ASSUME NEW t \in Times
    PROVE  /\ Local(t) \in Int /\ FromLocal(Local(t)) \in Int
           /\ FromLocal(Local(t)) = t \/ (t >= DstEnd /\ Repeated(Local(t)))
  BY Constants DEF Local, Offset, FromLocal, Repeated

LEMMA FromLocalType == ASSUME NEW l \in Int PROVE FromLocal(l) \in Int
  BY Constants DEF FromLocal

(* What the program writes shows the instant it is written. *)
LEMMA WrittenFacts ==
    ASSUME NEW t \in Times, NEW w \in Written(t)
    PROVE  /\ w \in [kind : Kinds, at : Int]
           /\ Shows(w, [kind |-> w.kind, at |-> t])
  <1>1. t \in Int /\ 0 \in Int /\ Local(t) \in Int /\ Fixed \in Nat /\ Standard \in Nat
    BY BackFromLocal, Constants
  <1>2. \/ w \in {Shown("garbage", 0), Shown("broken", 0), Shown("offset", t)}
        \/ w \in {Shown("naive", Local(t)), Shown("standard", t)}
        \/ w = Shown("z", Local(t)) /\ t < Fixed
        \/ w = Shown("z", t) /\ ~(t < Fixed)
    <2>1. CASE t < Standard
      BY <2>1 DEF Written
    <2>2. CASE ~(t < Standard)
      BY <2>2 DEF Written
    <2> QED BY <2>1, <2>2
  <1>3. w \in [kind : Kinds, at : Int]
    BY <1>1, <1>2 DEF Shown, Kinds
  <1>4. Shows(w, [kind |-> w.kind, at |-> t])
    BY <1>2 DEF Shown, Shows
  <1> QED BY <1>3, <1>4

(* The conversion of a row that is not there yet in the standard format. *)
LEMMA ConvertFacts ==
    ASSUME NEW w \in [kind : Kinds, at : Int], NEW b, Faithful(w, b), w # None,
           NEW cutover \in {Commit, Fixed}
    PROVE  /\ Convert(w, cutover) \in [kind : Kinds, at : Int]
           /\ Faithful(Convert(w, cutover), b)
           /\ ~Convertible(Convert(w, cutover))
           /\ ~Convertible(w) => Convert(w, cutover) = w
  <1>1. CASE ~Convertible(w)
    BY <1>1 DEF Convert
  <1>2. CASE Convertible(w)
    <2>1. w.kind \in {"naive", "z", "offset"}
      BY <1>2 DEF Convertible, Split
    <2>2. b \in [kind : Kinds, at : Times] /\ Shows(w, b) /\ b.at \in Times /\ b.at \in Nat
      BY <2>1, Constants DEF Faithful, Preserved
    <2>3. Convert(w, cutover) = Shown("standard", Instant(w, cutover))
      BY <1>2 DEF Convert
    <2>4. w.at \in Int /\ FromLocal(w.at) \in Int
      BY FromLocalType
    <2>5. Instant(w, cutover) \in Int
      BY <2>4 DEF Instant
    <2>6. Instant(w, cutover) = b.at \/ BlindSpot(b) \/ SecondTime(b)
      <3>1. CASE w.kind = "naive"
        BY <2>2, <3>1, BackFromLocal DEF Instant, Split, Shows, SecondTime
      <3>2. CASE w.kind = "z" /\ b.at < Fixed
        <4>1. w.at = Local(b.at) /\ b.kind = "z"
          BY <2>2, <3>2 DEF Shows
        <4>2. CASE w.at < cutover
          BY <2>2, <3>2, <4>1, <4>2, BackFromLocal DEF Instant, Split, SecondTime
        <4>3. CASE ~(w.at < cutover)
          BY <2>2, <2>4, <3>2, <4>1, <4>3, Constants DEF BlindSpot
        <4> QED BY <4>2, <4>3
      <3>3. CASE w.kind = "z" /\ ~(b.at < Fixed)
        <4>1. w.at = b.at
          BY <2>2, <3>3 DEF Shows
        <4>2. ~(w.at < cutover)
          BY <2>2, <3>3, <4>1, Constants
        <4> QED BY <3>3, <4>1, <4>2 DEF Instant, Split
      <3>4. CASE w.kind = "offset"
        BY <2>2, <3>4 DEF Instant, Split, Shows
      <3> QED BY <2>1, <3>1, <3>2, <3>3, <3>4
    <2>7. Shown("standard", Instant(w, cutover)) \in [kind : Kinds, at : Int]
      BY <2>5 DEF Shown, Kinds
    <2>8. Preserved(Shown("standard", Instant(w, cutover)), b)
      BY <2>6 DEF Preserved, Shown
    <2>9. ~Convertible(Shown("standard", Instant(w, cutover)))
      BY DEF Convertible, Split, Shown
    <2> QED BY <1>2, <2>2, <2>3, <2>7, <2>8, <2>9 DEF Faithful
  <1> QED BY <1>1, <1>2

(* No run. *)
LEMMA NoRunType == NoRun \in RunType /\ NoRun.pc = "idle"
  BY DEF NoRun, RunType, NoPending

(* The invariant holds at first. *)
LEMMA InitIInv == Init => IInv
  <1> SUFFICES ASSUME Init PROVE IInv
    OBVIOUS
  <1>1. now \in Times
    BY Constants DEF Init, Times
  <1>2. Typed
    BY <1>1, NoRunType DEF Init, Typed, TypeOK
  <1>3. MarkersMeant /\ PendingOfRows
    BY NoRunType DEF Init, MarkersMeant, PendingOfRows
  <1>4. RowsFaithful /\ DoneAreConverted
    BY DEF Init, RowsFaithful, Faithful, DoneAreConverted
  <1> QED BY <1>2, <1>3, <1>4 DEF IInv
-----------------------------------------------------------------------------
(* Time, and what the program and the operator write. *)

LEMMA TickStep == ASSUME IInv, Tick PROVE IInv'
  <1>1. now' \in Times
    BY Constants DEF Tick, IInv, Typed, TypeOK, Times
  <1>2. Typed'
    BY <1>1 DEF Tick, IInv, Typed, TypeOK
  <1> QED BY <1>2 DEF Tick, IInv, MarkersMeant, RowsFaithful, PendingOfRows, DoneAreConverted, Stored

(* A row gets a new value while no transaction is open. *)
LEMMA RowWritten ==
    ASSUME IInv, run.pc # "migrate", NEW r \in Every, NEW w \in Written(now),
           rows' = [rows EXCEPT ![r] = w],
           born' = [born EXCEPT ![r] = [kind |-> w.kind, at |-> now]],
           done' \subseteq done, r \notin done', marker' \in {Commit, Fixed, None},
           UNCHANGED <<now, run>>
    PROVE  IInv'
  <1>1. /\ now \in Times /\ w \in [kind : Kinds, at : Int] /\ w.kind \in Kinds
        /\ Shows(w, [kind |-> w.kind, at |-> now])
    BY WrittenFacts DEF IInv, Typed, TypeOK
  <1>2. [kind |-> w.kind, at |-> now] \in [kind : Kinds, at : Times]
    BY <1>1
  <1>3. marker' \in Times \cup {None}
    BY Constants
  <1>4. Typed'
    BY <1>1, <1>2, <1>3 DEF IInv, Typed, TypeOK
  <1>5. /\ rows'[r] = w /\ born'[r] = [kind |-> w.kind, at |-> now]
        /\ \A q \in Every \ {r} : rows'[q] = rows[q] /\ born'[q] = born[q]
    BY DEF IInv, Typed, TypeOK
  <1>6. RowsFaithful'
    <2>1. Faithful(w, [kind |-> w.kind, at |-> now])
      BY <1>1, <1>2 DEF Faithful
    <2> QED BY <1>5, <2>1 DEF IInv, RowsFaithful
  <1>7. DoneAreConverted'
    BY <1>5 DEF IInv, DoneAreConverted, Typed, TypeOK
  <1>8. MarkersMeant' /\ PendingOfRows'
    BY DEF IInv, MarkersMeant, PendingOfRows
  <1> QED BY <1>4, <1>6, <1>7, <1>8 DEF IInv

LEMMA WriteStep == ASSUME IInv, NEW r \in Rows, Write(r) PROVE IInv'
  <1>1. r \in Every /\ r \notin done /\ marker \in {Commit, Fixed, None}
    BY Constants DEF Write, IInv, DoneAreConverted, MarkersMeant
  <1> QED BY <1>1, RowWritten DEF Write

LEMMA SetMarkerStep == ASSUME IInv, SetMarker PROVE IInv'
  <1>1. Shown("offset", now) \in Written(now) /\ Shown("offset", now).kind = "offset"
    BY DEF Written, Shown
  <1> QED BY <1>1, Constants, RowWritten DEF SetMarker
-----------------------------------------------------------------------------
(* The migration. *)

(* A step of a run that touches no row. *)
LEMMA RunStep ==
    ASSUME IInv, UNCHANGED <<now, rows, marker, born>>, run' \in RunType,
           run'.pc # "idle" => run'.cutover \in {Commit, Fixed}, run'.pc # "migrate",
           DoneAreConverted', done' \subseteq Every
    PROVE  IInv'
  <1>1. Typed'
    BY DEF IInv, Typed, TypeOK, RunType
  <1>2. MarkersMeant' /\ PendingOfRows' /\ RowsFaithful'
    BY DEF IInv, MarkersMeant, PendingOfRows, RowsFaithful
  <1> QED BY <1>1, <1>2 DEF IInv

LEMMA RunStartStep == ASSUME IInv, RunStart PROVE IInv'
  <1>1. PICK tables \in SUBSET Tables, used \in {Commit, Fixed}, dry \in BOOLEAN :
            run' = [NoRun EXCEPT !.pc = "scan", !.tables = tables, !.cutover = used, !.dry = dry]
    BY DEF RunStart, IInv, MarkersMeant
  <1>2. run' \in RunType /\ run'.pc = "scan" /\ run'.cutover = used
    BY <1>1, Constants DEF NoRun, RunType, NoPending
  <1>3. DoneAreConverted' /\ done' \subseteq Every
    BY DEF RunStart, IInv, DoneAreConverted, Typed, TypeOK
  <1> QED BY <1>1, <1>2, <1>3, RunStep DEF RunStart

(* A scan that found nothing to convert has found every row of its tables converted. *)
LEMMA ScanStep == ASSUME IInv, Scan PROVE IInv'
  <1>1. CASE run' = NoRun /\ done' = done
    BY <1>1, NoRunType, RunStep DEF Scan, IInv, DoneAreConverted, Typed, TypeOK
  <1>2. CASE run' = NoRun /\ done' = done \cup Stored(run.tables) /\ ToConvert(run.tables) = {}
    <2>1. \A r \in Stored(run.tables) : r \in Every /\ rows[r] # None /\ ~Convertible(rows[r])
      BY <1>2 DEF ToConvert, Stored
    <2>2. UNCHANGED <<now, rows, marker, born>>
      BY DEF Scan
    <2>3. DoneAreConverted' /\ done' \subseteq Every
      BY <1>2, <2>1, <2>2 DEF IInv, DoneAreConverted, Typed, TypeOK, Convertible
    <2> QED BY <1>2, <2>2, <2>3, NoRunType, RunStep
  <1>3. CASE run' = [run EXCEPT !.pc = "backup"] /\ done' = done
    <2>1. run' \in RunType /\ run'.pc = "backup" /\ run'.cutover = run.cutover
      BY <1>3 DEF IInv, Typed, RunType
    <2>2. UNCHANGED <<now, rows, marker, born>> /\ run.cutover \in {Commit, Fixed}
      BY DEF Scan, IInv, MarkersMeant
    <2>3. DoneAreConverted' /\ done' \subseteq Every
      BY <1>3, <2>2 DEF IInv, DoneAreConverted, Typed, TypeOK, Convertible
    <2> QED BY <2>1, <2>2, <2>3, RunStep
  <1> QED BY <1>1, <1>2, <1>3 DEF Scan

LEMMA BeginStep == ASSUME IInv, Begin PROVE IInv'
  <1>1. rows \in [Every -> RowType] /\ run \in RunType /\ run.cutover \in {Commit, Fixed}
    BY DEF Begin, IInv, Typed, TypeOK, RowType, MarkersMeant
  <1>2. /\ run' \in RunType /\ run'.pc = "migrate" /\ run'.cutover = run.cutover
        /\ run'.tables = run.tables /\ run'.todo = run.tables /\ run'.pending = rows
    BY <1>1 DEF Begin, RunType
  <1>3. Typed' /\ MarkersMeant'
    BY <1>1, <1>2 DEF Begin, IInv, Typed, TypeOK, MarkersMeant
  <1>4. PendingOfRows'
    <2>1. Stored(run.tables \ run.tables) = {}
      BY DEF Stored
    <2>2. rows' = rows /\ Stored(run.tables \ run.tables)' = {}
      BY DEF Begin, Stored
    <2> QED BY <1>1, <1>2, <2>2 DEF PendingOfRows, Stored
  <1>5. RowsFaithful' /\ DoneAreConverted'
    BY DEF Begin, IInv, RowsFaithful, DoneAreConverted
  <1> QED BY <1>3, <1>4, <1>5 DEF IInv

(* The rows of one table are converted in the transaction. *)
LEMMA MigrateTableStep == ASSUME IInv, NEW t \in Tables, MigrateTable(t) PROVE IInv'
  <1>1. /\ run.pc = "migrate" /\ run \in RunType /\ run.cutover \in {Commit, Fixed}
        /\ UNCHANGED <<now, rows, marker, done, born>>
        /\ run.pending \in [Every -> RowType] /\ rows \in [Every -> RowType]
    BY DEF MigrateTable, IInv, MarkersMeant, PendingOfRows, Typed, TypeOK, RowType
  <1> DEFINE next == [r \in Every |-> IF r \in Stored({t}) THEN Convert(rows[r], run.cutover)
                                     ELSE run.pending[r]]
  <1>2. next \in [Every -> RowType]
    <2>1. ASSUME NEW r \in Every, r \in Stored({t})
          PROVE  Convert(rows[r], run.cutover) \in RowType
      <3>1. rows[r] # None /\ rows[r] \in [kind : Kinds, at : Int] /\ Faithful(rows[r], born[r])
        BY <1>1, <2>1 DEF Stored, RowType, IInv, RowsFaithful
      <3> QED BY <1>1, <3>1, ConvertFacts DEF RowType
    <2> QED BY <1>1, <2>1
  <1>3. run' = [run EXCEPT !.todo = run.todo \ {t}, !.pending = next]
    BY DEF MigrateTable
  <1> HIDE DEF next
  <1>4. /\ run' \in RunType /\ run'.pc = "migrate" /\ run'.cutover = run.cutover
        /\ run'.tables = run.tables /\ run'.todo = run.todo \ {t} /\ run'.pending = next
    BY <1>1, <1>2, <1>3 DEF RunType
  <1>5. Typed' /\ MarkersMeant' /\ RowsFaithful' /\ DoneAreConverted'
    BY <1>1, <1>4 DEF IInv, Typed, TypeOK, MarkersMeant, RowsFaithful, DoneAreConverted
  <1>6. ASSUME NEW r \in Every
        PROVE  \/ next[r] = rows[r] /\ r \notin Stored(run.tables \ (run.todo \ {t}))
               \/ rows[r] # None /\ next[r] = Convert(rows[r], run.cutover)
    <2>1. CASE r \in Stored({t})
      BY <2>1 DEF next, Stored
    <2>2. CASE r \notin Stored({t})
      <3>1. next[r] = run.pending[r]
        BY <2>2 DEF next
      <3>2. r \in Stored(run.tables \ (run.todo \ {t})) => r \in Stored(run.tables \ run.todo)
        BY <2>2 DEF Stored
      <3> QED BY <1>1, <3>1, <3>2 DEF IInv, PendingOfRows
    <2> QED BY <2>1, <2>2
  <1>7. PendingOfRows'
    BY <1>1, <1>2, <1>4, <1>6 DEF PendingOfRows, Stored
  <1> QED BY <1>5, <1>7 DEF IInv

(* The end of the transaction: a row is as it was or converted, and converted if its table
   was gone through. *)
LEMMA FinishRow ==
    ASSUME IInv, Finish, NEW r \in Every
    PROVE  /\ rows'[r] \in RowType /\ Faithful(rows'[r], born[r])
           /\ rows[r] # None => rows'[r] # None
           /\ rows[r] # None /\ ~Convertible(rows[r]) => rows'[r] = rows[r]
           /\ r \in Stored(run.tables) => rows[r] # None /\ ~Convertible(rows'[r])
  <1>1. /\ run.pc = "migrate" /\ run.todo = {} /\ rows' = run.pending
        /\ run.cutover \in {Commit, Fixed} /\ rows[r] \in RowType /\ Faithful(rows[r], born[r])
    BY DEF Finish, AllMigrated, IInv, MarkersMeant, RowsFaithful, Typed, TypeOK, RowType
  <1>2. \/ rows'[r] = rows[r] /\ r \notin Stored(run.tables \ {})
        \/ rows[r] # None /\ rows'[r] = Convert(rows[r], run.cutover)
    BY <1>1 DEF IInv, PendingOfRows
  <1>3. CASE rows'[r] = rows[r] /\ r \notin Stored(run.tables \ {})
    BY <1>1, <1>3 DEF Stored
  <1>4. CASE rows[r] # None /\ rows'[r] = Convert(rows[r], run.cutover)
    <2>1. rows[r] \in [kind : Kinds, at : Int]
      BY <1>1, <1>4 DEF RowType
    <2> QED BY <1>1, <1>4, <2>1, Constants, ConvertFacts DEF RowType
  <1> QED BY <1>2, <1>3, <1>4

LEMMA FinishStep == ASSUME IInv, Finish PROVE IInv'
  <1>1. run' = NoRun /\ UNCHANGED <<now, marker, born>> /\ done' = done \cup Stored(run.tables)
    BY DEF Finish
  <1>2. rows' \in [Every -> RowType]
    <2>1. rows' = run.pending /\ run.pending \in [Every -> RowType]
      BY DEF Finish, AllMigrated, IInv, PendingOfRows
    <2> QED BY <2>1
  <1>3. Typed'
    BY <1>1, <1>2, NoRunType DEF IInv, Typed, TypeOK, RowType, Stored
  <1>4. MarkersMeant' /\ PendingOfRows'
    BY <1>1, NoRunType DEF IInv, MarkersMeant, PendingOfRows
  <1>5. RowsFaithful'
    BY <1>1, FinishRow DEF RowsFaithful
  <1>6. DoneAreConverted'
    <2>1. \A r \in done : r \in Every /\ rows[r] # None /\ ~Convertible(rows[r])
      BY DEF IInv, DoneAreConverted, Typed, TypeOK
    <2>2. \A r \in Stored(run.tables) : r \in Every
      BY DEF Stored
    <2>3. \A r \in done : rows'[r] # None /\ ~Convertible(rows'[r])
      BY <2>1, FinishRow DEF Convertible
    <2>4. \A r \in Stored(run.tables) : rows'[r] # None /\ ~Convertible(rows'[r])
      BY <2>2, FinishRow DEF Convertible
    <2> QED BY <1>1, <2>3, <2>4 DEF DoneAreConverted
  <1> QED BY <1>3, <1>4, <1>5, <1>6 DEF IInv

(* A run that fails leaves the rows as they were. *)
LEMMA FailsStep == ASSUME IInv, MigrateFails PROVE IInv'
  <1>1. run' = NoRun /\ UNCHANGED <<now, rows, marker, done, born>>
    BY DEF MigrateFails
  <1> QED BY <1>1, NoRunType, RunStep DEF IInv, DoneAreConverted, Typed, TypeOK, Convertible
-----------------------------------------------------------------------------

(* All steps together. *)
LEMMA Inductive == Spec => []IInv
  <1>1. IInv /\ UNCHANGED vars => IInv'
    BY DEF vars, IInv, Typed, TypeOK, RunType, MarkersMeant, RowsFaithful, PendingOfRows, Stored,
       DoneAreConverted
  <1>2. IInv /\ [Next]_vars => IInv'
    BY <1>1, TickStep, WriteStep, SetMarkerStep, RunStartStep, ScanStep, BeginStep,
       MigrateTableStep, FinishStep, FailsStep DEF Next
  <1> QED BY <1>2, InitIInv, PTL DEF Spec

(* The times of the installation and of the migration are well typed. *)
THEOREM TimestampTypes == Spec => []TypeOK
  BY Inductive, PTL DEF IInv, Typed

(* A row in the standard format shows the instant it was written, outside the blind spot of
   the cutover rule and the hour that is shown twice, for any offsets and versions. *)
THEOREM InstantPreservedHolds == Spec => []InstantPreserved
  <1>1. IInv => InstantPreserved
    BY DEF IInv, RowsFaithful, Faithful, Shows, Preserved, InstantPreserved
  <1> QED BY <1>1, Inductive, PTL

(* No row of a table that a run with exit code 0 has gone through is left in an old format. *)
THEOREM ZeroMeansConvertedHolds == Spec => []ZeroMeansConverted
  <1>1. IInv => ZeroMeansConverted
    BY DEF IInv, DoneAreConverted, ZeroMeansConverted
  <1> QED BY <1>1, Inductive, PTL

(* A row in the standard format is never written again. *)
THEOREM ConvertedOnceHolds == Spec => ConvertedOnce
  <1>1. ASSUME IInv, [Next]_vars, NEW r \in Rows, rows[r] # None, rows[r].kind = "standard"
        PROVE  rows'[r] = rows[r]
    <2>1. ~Convertible(rows[r]) /\ r \in Every /\ r # Meta /\ rows \in [Every -> RowType]
      BY <1>1, Constants DEF Convertible, Split, IInv, Typed, TypeOK, RowType
    <2>2. CASE Finish
      BY <1>1, <2>1, <2>2, FinishRow
    <2>3. CASE SetMarker
      BY <2>1, <2>3 DEF SetMarker
    <2>4. ASSUME NEW q \in Rows, Write(q) PROVE rows'[r] = rows[r]
      BY <1>1, <2>1, <2>4 DEF Write
    <2>5. CASE ~Finish /\ ~SetMarker /\ ~(\E q \in Rows : Write(q))
      BY <1>1, <2>5 DEF Next, vars, Tick, RunStart, Scan, Begin, MigrateTable, MigrateFails
    <2> QED BY <2>2, <2>3, <2>4, <2>5
  <1>2. IInv /\ [Next]_vars =>
            [\A r \in Rows : (rows[r] # None /\ rows[r].kind = "standard") => rows'[r] = rows[r]]_vars
    BY <1>1
  <1> QED BY <1>2, Inductive, PTL DEF Spec, ConvertedOnce
=============================================================================
