-------------------------- MODULE CounterLedgerProofs --------------------------
(***************************************************************************)
(* Proofs about CounterLedger for every value of its constants: the type   *)
(* invariant; that no page is recorded that was not printed; that, as long *)
(* as nothing but events is lost, no page is missing and none is recorded  *)
(* twice; and that CounterLedger implements PageAccount.                   *)
(***************************************************************************)
EXTENDS LedgerAccount, TLAPS

(* The tolerance above the reference is a number of pages. *)
LEMMA RestoreTolNat == ASSUME NEW ref \in Nat PROVE RestoreTol(ref) \in Nat
  BY LedgerAssumption DEF RestoreTol, Larger

(* PrevStore.set keeps the baseline and its row well typed. *)
LEMMA PrevStoreSetType ==
    ASSUME TypeOK, NEW new \in Snapshots, PrevStoreSet(new)
    PROVE  cache' \in Snapshots /\ db' \in OrNone(Nat)
  <1>1. Existing \subseteq Snapshots
    BY DEF TypeOK, Existing, Blank, Snapshots, OrNone
  <1>2. cache' \in Snapshots
    <2>1. PICK old \in Existing : cache' = Guarded(old, new)
      BY DEF PrevStoreSet
    <2>2. old \in Snapshots
      BY <1>1, <2>1
    <2> QED BY <2>1, <2>2 DEF Guarded, Snapshots
  <1>3. cache'.total \in OrNone(Nat)
    BY <1>2 DEF Snapshots
  <1> QED BY <1>2, <1>3 DEF PrevStoreSet, TypeOK

(* The end of a poll leaves a well-typed job. *)
LEMMA EndPollType ==
    ASSUME TypeOK, EndPoll, PollFrame
    PROVE  /\ job' \in [phase : {"idle", "read", "done"}, total : OrNone(Nat),
                        up : OrNone(Nat), prev : Snapshots]
           /\ ctr' \in Nat /\ up' \in Nat /\ pages' \in Nat
           /\ shown' \in OrNone(Nat) /\ budget' \in [Faults -> Nat]
           /\ treset' \in [phase : {"idle", "read"}, total : OrNone(Nat), up : OrNone(Nat)]
  BY DEF TypeOK, EndPoll, PollFrame, Total, IdleJob, Blank, Snapshots, OrNone, device

(* What a branch reads is well typed. *)
LEMMA PollType ==
    ASSUME TypeOK
    PROVE  /\ Prev \in Snapshots /\ Prev.total \in OrNone(Nat) /\ Prev.ref \in OrNone(Nat)
           /\ Total \in OrNone(Nat) /\ NewUp \in OrNone(Nat) /\ job.up \in OrNone(Nat)
  BY DEF TypeOK, Prev, Total, NewUp, Snapshots, OrNone

(* A count never starts from None, and is the distance to the reading. *)
LEMMA CountingType ==
    ASSUME TypeOK, Counting
    PROVE  /\ Total \in Nat /\ Prev.total \in Nat /\ Base \in Nat /\ Delta = Total - Base
           /\ RefLeft \in OrNone(Nat)
  BY PollType DEF Counting, Readable, Base, Jumped, AboveBand, HasRef, Delta, RefLeft, OrNone

(* Every variable keeps its type. *)
THEOREM LedgerTypes == Spec => []TypeOK
  <1>1. Init => TypeOK
    BY LedgerAssumption DEF Init, TypeOK, Blank, IdleJob, IdleReset, Snapshots, OrNone
  <1>2. ASSUME TypeOK, [Next]_vars PROVE TypeOK'
    <2> USE <1>2
    <2>1. CASE DevicePrint
      BY <2>1 DEF DevicePrint, TypeOK, store, logs
    <2>2. CASE DeviceTick
      BY <2>2 DEF DeviceTick, TypeOK, store, logs, history
    <2>3. CASE DeviceReboot
      BY <2>3 DEF DeviceReboot, TypeOK, store, logs, history, Spend, Faults
    <2>4. CASE FactoryReset
      BY <2>4 DEF FactoryReset, TypeOK, store, logs, Spend, Faults, Caveats
    <2>5. CASE PollRead
      BY <2>5 DEF PollRead, TypeOK, device, store, logs, history, OrNone
    <2>6. CASE CounterReadError
      <3>1. [cache EXCEPT !.total = Prev.total, !.up = NewUp, !.ref = Prev.ref] \in Snapshots
        BY PollType DEF TypeOK, Snapshots
      <3> QED BY <2>6, <3>1, PrevStoreSetType, EndPollType
              DEF CounterReadError, TypeOK, logs
    <2>7. CASE FirstPoll
      <3>1. [cache EXCEPT !.total = Total, !.up = job.up, !.pend = None] \in Snapshots
        BY PollType DEF TypeOK, Snapshots, OrNone
      <3>2. Total \in Nat
        BY <2>7, PollType DEF FirstPoll, OrNone
      <3>3. charged' \in Nat /\ waived' \in Nat
        BY <2>7, <3>2 DEF FirstPoll, Larger, TypeOK
      <3>4. caveats' \subseteq Caveats
        BY <2>7 DEF FirstPoll, TypeOK, Caveats
      <3> QED BY <2>7, <3>1, <3>3, <3>4, PrevStoreSetType, EndPollType
              DEF FirstPoll, TypeOK, logs
    <2>8. CASE SuspiciousRead
      <3>1. [cache EXCEPT !.total = Prev.total, !.up = NewUp, !.ref = Prev.ref] \in Snapshots
        BY PollType DEF TypeOK, Snapshots
      <3> QED BY <2>8, <3>1, PrevStoreSetType, EndPollType
              DEF SuspiciousRead, TypeOK, logs
    <2>9. CASE CounterReset
      <3>1. [cache EXCEPT !.total = Total, !.up = job.up, !.ref = Prev.total] \in Snapshots
        BY PollType DEF TypeOK, Snapshots
      <3>2. charged' \in Nat
        BY <2>9, PollType DEF CounterReset, Dropped, Readable, Larger, TypeOK, OrNone
      <3> QED BY <2>9, <3>1, <3>2, PrevStoreSetType, EndPollType
              DEF CounterReset, TypeOK, logs
    <2>10. CASE UnexplainedDrop
      <3>1. [cache EXCEPT !.total = Prev.total, !.up = NewUp, !.ref = Prev.ref] \in Snapshots
        BY PollType DEF TypeOK, Snapshots
      <3> QED BY <2>10, <3>1, PrevStoreSetType, EndPollType
              DEF UnexplainedDrop, TypeOK, logs
    <2>11. CASE CounterRestored
      <3>1. [total |-> Total, up |-> NewUp, ref |-> None, pend |-> None] \in Snapshots
        BY PollType DEF Snapshots, OrNone
      <3>2. Total \in Nat
        BY <2>11, PollType DEF CounterRestored, Readable, OrNone
      <3>3. charged' \in Nat /\ waived' \in Nat
        BY <2>11, <3>2 DEF CounterRestored, Larger, TypeOK
      <3> QED BY <2>11, <3>1, <3>3, PrevStoreSetType, EndPollType
              DEF CounterRestored, TypeOK, logs
    <2>12. CASE PrintOverflow
      <3>1. Delta \in Nat
        BY <2>12, CountingType, LedgerAssumption DEF PrintOverflow
      <3>2. [total |-> Base, up |-> NewUp, ref |-> Prev.ref, pend |-> <<Total, Delta>>]
                \in Snapshots
        BY <2>12, <3>1, CountingType, PollType DEF PrintOverflow, Snapshots, OrNone
      <3> QED BY <2>12, <3>2, PrevStoreSetType, EndPollType
              DEF PrintOverflow, TypeOK, logs
    <2>13. CASE PrintGap
      <3>1. Delta \in Nat
        BY <2>13, CountingType, LedgerAssumption DEF PrintGap
      <3>2. [cache EXCEPT !.total = Total, !.up = NewUp, !.pend = None] \in Snapshots
        BY PollType DEF TypeOK, Snapshots, OrNone
      <3>3. recorded' \in Nat /\ caveats' \subseteq Caveats
        BY <2>13, <3>1 DEF PrintGap, AddGap, TypeOK, Caveats
      <3>4. charged' \in Nat
        BY <2>13, CountingType DEF PrintGap, Larger, TypeOK
      <3> QED BY <2>13, <3>2, <3>3, <3>4, PrevStoreSetType, EndPollType
              DEF PrintGap, TypeOK
    <2>14. CASE RecordPrint \/ NothingPrinted
      <3>1. [total |-> Total, up |-> NewUp, ref |-> RefLeft, pend |-> None] \in Snapshots
        BY <2>14, CountingType, PollType DEF RecordPrint, NothingPrinted, Snapshots, OrNone
      <3>2. FinalSnapshot /\ Counting
        BY <2>14 DEF RecordPrint, NothingPrinted
      <3>3. charged' \in Nat
        BY <3>2, CountingType DEF FinalSnapshot, Larger, TypeOK
      <3>4. prints' \subseteq Nat \X Nat /\ recorded' \in Nat /\ caveats' \subseteq Caveats
        <4>1. CASE NothingPrinted
          BY <4>1 DEF NothingPrinted, TypeOK, logs
        <4>2. CASE RecordPrint
          <5>1. Base \in Nat /\ Total \in Nat /\ Total - Base > 0
            BY <4>2, CountingType DEF RecordPrint
          <5>2. AddPrint(Base, Total)
            BY <4>2 DEF RecordPrint
          <5>4. recorded' = recorded + (Total - Base) \/ recorded' = recorded
            BY <5>2 DEF AddPrint, logs
          <5>5. caveats' \subseteq Caveats
            BY <5>2 DEF AddPrint, TypeOK, Caveats
          <5>6. recorded' \in Nat
            BY <5>1, <5>4 DEF TypeOK
          <5>3. prints' \subseteq prints \cup {<<Base, Total>>}
            BY <5>2 DEF AddPrint, logs
          <5> QED BY <5>1, <5>3, <5>5, <5>6 DEF TypeOK
        <4> QED BY <2>14, <4>1, <4>2
      <3> QED BY <3>1, <3>2, <3>3, <3>4, PrevStoreSetType, EndPollType
              DEF FinalSnapshot, TypeOK
    <2>15. CASE Publish
      BY <2>15 DEF Publish, TypeOK, device, store, logs, history, OrNone, IdleJob, Blank, Snapshots
    <2>16. CASE TonerResetRead
      BY <2>16 DEF TonerResetRead, TypeOK, device, store, logs, history, OrNone, Snapshots,
                   Spend, Faults
    <2>17. CASE TonerResetWrite
      <3>1. [cache EXCEPT !.total = treset.total, !.up = treset.up] \in Snapshots
        BY DEF TypeOK, Snapshots
      <3>2. caveats' \subseteq Caveats
        BY <2>17 DEF TonerResetWrite, TypeOK, Caveats
      <3>3. treset' \in [phase : {"idle", "read"}, total : OrNone(Nat), up : OrNone(Nat)]
        BY <2>17 DEF TonerResetWrite, IdleReset, OrNone
      <3> QED BY <2>17, <3>1, <3>2, <3>3, PrevStoreSetType
              DEF TonerResetWrite, TypeOK, device, logs
    <2>18. CASE Restart
      <3>1. cache' \in Snapshots /\ caveats' \subseteq Caveats
        BY <2>18 DEF Restart, TypeOK, Blank, Snapshots, OrNone, Caveats
      <3> QED BY <2>18, <3>1
              DEF Restart, TypeOK, device, logs, Spend, Faults, IdleJob, IdleReset, OrNone,
                  Blank, Snapshots
    <2>19. CASE UNCHANGED vars
      BY <2>19 DEF vars, TypeOK, device, store, logs, history
    <2> QED BY <2>1, <2>2, <2>3, <2>4, <2>5, <2>6, <2>7, <2>8, <2>9, <2>10, <2>11, <2>12,
               <2>13, <2>14, <2>15, <2>16, <2>17, <2>18, <2>19
            DEF Next, Device, CountersEvent
  <1> QED BY <1>1, <1>2, PTL DEF Spec

-----------------------------------------------------------------------------
(* No phantom pages. The invariant says what the ledger may still charge:     *)
(* everything between charged and the counter has been printed and is not     *)
(* recorded yet (Owed), and the next count cannot start below charged         *)
(* (Covered), because the baseline is at or above it or because it is a zero  *)
(* that remembers a reference at or above it.                                 *)

Harmless == caveats \subseteq {"event_lost", "factory_reset"}

Owed == charged <= ctr /\ recorded + (ctr - charged) <= pages

Waiting == cache.total = 0 /\ cache.ref # None

Covered ==
    cache.total # None =>
        \/ charged = 0
        \/ charged <= cache.total /\ cache.total <= ctr
        \/ Waiting /\ charged <= cache.ref /\ cache.ref <= ctr

\* A reference is the large baseline of a reset.
BigReference == cache.ref # None => cache.ref >= ZeroGuard

\* A poll in progress works on the current baseline, and with a reading that is
\* either zero or a true value of the current counter.
FreshPoll ==
    Polled =>
        /\ Prev.total = cache.total /\ Prev.ref = cache.ref
        /\ (Total # None /\ Total # 0) =>
               /\ charged <= Total /\ Total <= ctr
               /\ (charged # 0 /\ Waiting) => cache.ref <= Total

\* No row waits in the table behind an empty cache.
DbFollows == cache.total = None => db = None

LedgerInv == Harmless => Owed /\ Covered /\ BigReference /\ FreshPoll /\ DbFollows

(* What PrevStore.set leaves: the new snapshot, except that its second guard may
   keep a large total where a zero or nothing was to be written. *)
LEMMA PrevStoreSetEffect ==
    ASSUME TypeOK, DbFollows, NEW new \in Snapshots, PrevStoreSet(new)
    PROVE  /\ cache'.ref = new.ref
           /\ \/ cache'.total = new.total
              \/ /\ cache.total # None /\ cache.total >= ZeroGuard
                 /\ new.total \in {0, None}
                 /\ cache'.total = cache.total
           /\ (cache'.total # None \/ cache'.total = cache.total) => DbFollows'
  <1>1. PICK old \in Existing : cache' = Guarded(old, new)
    BY DEF PrevStoreSet
  <1>2. old \in Snapshots /\ old.total = cache.total
    BY <1>1 DEF Existing, DbFollows, Blank, Snapshots, TypeOK, OrNone
  <1>3. (cache'.total # None \/ cache'.total = cache.total) => DbFollows'
    BY DEF PrevStoreSet, DbFollows
  <1> QED BY <1>1, <1>2, <1>3 DEF Guarded, Snapshots

(* A poll that leaves the baseline and the ledger alone keeps the invariant. *)
LEMMA BaselineKept ==
    ASSUME TypeOK, TypeOK', LedgerInv, Harmless', Polled, PollFrame,
           job'.phase = "done", UNCHANGED <<recorded, charged, caveats>>,
           cache'.total = Prev.total, cache'.ref = Prev.ref, DbFollows'
    PROVE  LedgerInv'
  BY DEF LedgerInv, Harmless, Owed, Covered, Waiting, BigReference, FreshPoll, Polled,
         PollFrame, device, TypeOK, Prev

(* What _counters_event counts from is never below what is already charged: this
   is where the restore band and the reference of the last reset are needed. *)
LEMMA BaseAboveCharged ==
    ASSUME TypeOK, LedgerInv, Harmless, Counting, Total # 0
    PROVE  charged <= Base
  <1> USE DEF LedgerInv, FreshPoll, Covered, BigReference, Waiting
  <1>1. Total \in Nat /\ Prev.total \in Nat /\ charged \in Nat /\ Polled
    BY CountingType DEF TypeOK, Counting, Readable
  <1>2. CASE charged = 0
    BY <1>1, <1>2, CountingType
  <1>3. CASE charged # 0 /\ charged <= cache.total
    <2>1. charged <= Prev.total
      BY <1>1, <1>3
    <2>2. CASE Jumped
      <3>1. Prev.ref \in Nat /\ Prev.total <= Prev.ref - Band
        BY <2>2, PollType DEF Jumped, AboveBand, HasRef, OrNone
      <3> QED BY <1>1, <2>1, <2>2, <3>1, LedgerAssumption DEF Base
    <2>3. CASE ~Jumped
      BY <2>1, <2>3 DEF Base
    <2> QED BY <2>2, <2>3
  <1>4. CASE charged # 0 /\ ~(charged <= cache.total)
    <2>1. Waiting /\ charged <= cache.ref /\ cache.ref <= Total /\ Prev.ref = cache.ref
      <3>1. Total # None /\ Prev.total # None /\ Prev.total = cache.total /\ Prev.ref = cache.ref
        BY <1>1, LedgerAssumption
      <3>2. Waiting /\ charged <= cache.ref
        BY <1>1, <1>4, <3>1
      <3> QED BY <1>1, <1>4, <3>1, <3>2
    <2>2. Prev.ref \in Nat /\ Prev.ref >= ZeroGuard /\ Prev.total = 0
      BY <1>1, <2>1, PollType DEF OrNone
    <2>3. RestoreTol(Prev.ref) \in Nat
      BY <2>2, RestoreTolNat
    <2>4. HasRef /\ Prev.ref - Band <= Total
      BY <1>1, <2>1, <2>2, LedgerAssumption DEF HasRef
    <2>5. Total > Prev.ref + RestoreTol(Prev.ref)
      BY <1>1, <2>2, <2>3, <2>4 DEF Counting, InBand
    <2>6. Jumped
      BY <2>2, <2>4, <2>5, LedgerAssumption DEF Jumped, AboveBand
    <2> QED BY <2>1, <2>6 DEF Base
  <1> QED BY <1>2, <1>3, <1>4

(* A poll that takes a true reading as the new baseline and records at most the
   distance from the baseline it compared with keeps the invariant. *)
LEMMA BaselineAdvanced ==
    ASSUME TypeOK, TypeOK', LedgerInv, Harmless, Polled, PollFrame, job'.phase = "done",
           Total \in Nat, Total # 0, cache'.total = Total,
           cache'.ref # None => cache'.ref >= ZeroGuard,
           charged' = Larger(charged, Total),
           NEW b \in Nat, charged <= b,
           recorded' = recorded \/ recorded' = recorded + (Total - b)
    PROVE  LedgerInv'
  <1>1. charged <= Total /\ Total <= ctr /\ Owed
    BY LedgerAssumption DEF LedgerInv, FreshPoll
  <1>2. charged' = Total /\ ctr' = ctr /\ pages' = pages
    BY <1>1 DEF Larger, PollFrame, device, TypeOK
  <1>3. Owed'
    <2>1. ctr \in Nat /\ charged \in Nat /\ recorded \in Nat /\ pages \in Nat
      BY DEF TypeOK
    <2>2. recorded + (ctr - charged) <= pages /\ charged <= Total
      BY <1>1 DEF Owed
    <2>3. recorded' + (ctr - Total) <= pages
      BY <1>1, <2>1, <2>2
    <2> QED BY <1>1, <1>2, <2>3 DEF Owed
  <1>4. Covered' /\ BigReference'
    BY <1>1, <1>2 DEF Covered, BigReference, TypeOK
  <1>5. FreshPoll'
    BY DEF FreshPoll, Polled
  <1>6. DbFollows'
    BY LedgerAssumption DEF DbFollows
  <1> QED BY <1>3, <1>4, <1>5, <1>6 DEF LedgerInv

(* Every step keeps the invariant. *)
LEMMA LedgerStep ==
    ASSUME TypeOK, TypeOK', LedgerInv, [Next]_vars PROVE LedgerInv'
  <1> SUFFICES ASSUME Harmless' PROVE LedgerInv'
    BY DEF LedgerInv
  <1>1. CASE DevicePrint
    <2>1. PICK n \in 1..MaxJob : ctr' = ctr + n /\ pages' = pages + n
      BY <1>1 DEF DevicePrint
    <2>2. n \in Nat /\ ctr \in Nat /\ pages \in Nat /\ charged \in Nat /\ recorded \in Nat
      BY LedgerAssumption DEF TypeOK
    <2>3. UNCHANGED <<cache, db, job, recorded, charged, caveats>>
      BY <1>1 DEF DevicePrint, store, logs
    <2>4. Harmless /\ Owed /\ Covered /\ BigReference /\ FreshPoll /\ DbFollows
      BY <2>3 DEF LedgerInv, Harmless
    <2>5. Owed' /\ BigReference'
      BY <2>1, <2>2, <2>3, <2>4 DEF Owed, BigReference
    <2>6. cache.total \in OrNone(Nat) /\ cache.ref \in OrNone(Nat) /\ Total \in OrNone(Nat)
      BY PollType DEF TypeOK, Snapshots
    <2>7. Covered'
      BY <2>1, <2>2, <2>3, <2>4, <2>6 DEF Covered, Waiting, OrNone
    <2>8. FreshPoll'
      BY <2>1, <2>2, <2>3, <2>4, <2>6 DEF FreshPoll, Polled, Waiting, Prev, Total, OrNone
    <2> QED BY <2>3, <2>4, <2>5, <2>7, <2>8 DEF LedgerInv, DbFollows
  <1>2. CASE DeviceTick \/ DeviceReboot \/ Publish \/ TonerResetRead \/ UNCHANGED vars
    <2>1. /\ UNCHANGED <<ctr, cache, db, recorded, pages, charged, caveats>>
          /\ job' = job \/ job'.phase = "idle"
      BY <1>2 DEF DeviceTick, DeviceReboot, Publish, TonerResetRead, vars, device, store,
                  logs, history, IdleJob
    <2> QED BY <2>1 DEF LedgerInv, Harmless, Owed, Covered, Waiting, BigReference,
                        FreshPoll, Polled, Prev, Total, DbFollows
  <1>3. CASE FactoryReset
    <2>1. /\ ctr' = 0 /\ charged' = 0 /\ job'.phase # "read"
          /\ UNCHANGED <<cache, db, recorded, pages>>
      BY <1>3 DEF FactoryReset, store, logs
    <2>2. Harmless
      BY <1>3 DEF FactoryReset, Harmless
    <2>3. ctr \in Nat /\ pages \in Nat /\ charged \in Nat /\ recorded \in Nat
      BY DEF TypeOK
    <2>4. Owed'
      BY <2>1, <2>2, <2>3 DEF LedgerInv, Owed
    <2> QED BY <2>1, <2>2, <2>4
            DEF LedgerInv, Covered, BigReference, FreshPoll, Polled, DbFollows
  <1>4. CASE PollRead
    <2>1. /\ UNCHANGED <<ctr, cache, db, recorded, pages, charged, caveats>>
          /\ job'.prev = cache /\ job'.total \in {None, 0, ctr}
      BY <1>4 DEF PollRead, device, store, logs, history
    <2>2. Owed /\ Covered /\ BigReference /\ DbFollows
      BY <2>1 DEF LedgerInv, Harmless
    <2>3. /\ ctr \in Nat /\ charged \in Nat
          /\ cache.total \in OrNone(Nat) /\ cache.ref \in OrNone(Nat)
      BY DEF TypeOK, Snapshots
    <2>4. (charged # 0 /\ Waiting) => cache.ref <= ctr
      BY <2>2, <2>3, LedgerAssumption DEF Covered, Waiting, OrNone
    <2>5. FreshPoll'
      <3>1. charged <= ctr
        BY <2>2 DEF Owed
      <3>2. Prev'.total = cache'.total /\ Prev'.ref = cache'.ref /\ Total' \in {None, 0, ctr}
        BY <2>1 DEF Prev, Total
      <3>3. (charged # 0 /\ Waiting)' => cache'.ref <= ctr
        BY <2>1, <2>4 DEF Waiting
      <3>4. (Total' # None /\ Total' # 0) => Total' = ctr' /\ charged' <= ctr'
        BY <2>1, <3>1, <3>2
      <3>5. (charged' # 0 /\ Waiting') => cache'.ref <= ctr'
        BY <2>1, <3>3
      <3> QED BY <3>2, <3>4, <3>5, <2>3, <2>1 DEF FreshPoll
    <2> QED BY <2>1, <2>2, <2>5
            DEF LedgerInv, Owed, Covered, Waiting, BigReference, DbFollows
  <1>5. CASE TonerResetWrite
    <2>1. [cache EXCEPT !.total = treset.total, !.up = treset.up] \in Snapshots
      BY DEF TypeOK, Snapshots
    <2>3. cache'.total = cache.total /\ Harmless
      BY <1>5 DEF TonerResetWrite, Harmless
    <2>2. cache'.ref = cache.ref /\ DbFollows'
      <3>1. DbFollows
        BY <2>3 DEF LedgerInv
      <3>2. PrevStoreSet([cache EXCEPT !.total = treset.total, !.up = treset.up])
        BY <1>5 DEF TonerResetWrite
      <3>3. cache'.ref = [cache EXCEPT !.total = treset.total, !.up = treset.up].ref
        BY <2>1, <3>1, <3>2, PrevStoreSetEffect
      <3>4. DbFollows'
        BY <2>1, <2>3, <3>1, <3>2, PrevStoreSetEffect
      <3> QED BY <3>3, <3>4 DEF TypeOK, Snapshots
    <2> QED BY <1>5, <2>2, <2>3
            DEF TonerResetWrite, LedgerInv, Owed, Covered, Waiting, BigReference, FreshPoll,
                Polled, Prev, Total, device, logs
  <1>6. CASE Restart
    <2>1. cache.ref = None /\ cache'.total = cache.total /\ Harmless
      BY <1>6 DEF Restart, Harmless
    <2>2. cache'.ref = None /\ job'.phase = "idle" /\ db' = db
      BY <1>6 DEF Restart, Blank, IdleJob
    <2> QED BY <1>6, <2>1, <2>2
            DEF Restart, LedgerInv, DbFollows, Owed, Covered, Waiting, BigReference, FreshPoll, Polled,
                device, logs
  <1>7. CASE CountersEvent
    <2>1. Polled /\ PollFrame /\ job'.phase = "done" /\ Harmless
      BY <1>7 DEF CountersEvent, CounterReadError, FirstPoll, SuspiciousRead, CounterReset,
                  UnexplainedDrop, CounterRestored, PrintOverflow, PrintGap, RecordPrint,
                  NothingPrinted, FinalSnapshot, Counting, Dropped, Readable, EndPoll, IdleJob,
                  AddPrint, AddGap, Harmless
    <2>2. /\ Owed /\ Covered /\ BigReference /\ FreshPoll /\ DbFollows
          /\ Prev.total = cache.total /\ Prev.ref = cache.ref
      BY <2>1 DEF LedgerInv, FreshPoll
    <2>3. CASE CounterReadError \/ SuspiciousRead \/ UnexplainedDrop
      <3>1. [cache EXCEPT !.total = Prev.total, !.up = NewUp, !.ref = Prev.ref] \in Snapshots
        BY PollType DEF TypeOK, Snapshots
      <3>2. PrevStoreSet([cache EXCEPT !.total = Prev.total, !.up = NewUp, !.ref = Prev.ref])
        BY <2>3 DEF CounterReadError, SuspiciousRead, UnexplainedDrop
      <3>3. cache'.total = Prev.total /\ cache'.ref = Prev.ref /\ DbFollows'
        <4> DEFINE new == [cache EXCEPT !.total = Prev.total, !.up = NewUp, !.ref = Prev.ref]
        <4>1. new.total = Prev.total /\ new.ref = Prev.ref
          BY DEF TypeOK, Snapshots
        <4>2. PrevStoreSet(new) /\ new \in Snapshots
          BY <3>1, <3>2
        <4> HIDE DEF new
        <4>3. cache'.total = Prev.total /\ cache'.ref = Prev.ref
          BY <2>2, <4>1, <4>2, PrevStoreSetEffect
        <4>4. DbFollows'
          BY <2>2, <4>2, <4>3, PrevStoreSetEffect
        <4> QED BY <4>3, <4>4
      <3> QED BY <2>1, <2>3, <3>3, BaselineKept
              DEF CounterReadError, SuspiciousRead, UnexplainedDrop, logs
    <2>4. CASE FirstPoll
      <3>1. Total \in Nat /\ charged <= Total
        <4>1. Total \in Nat /\ charged \in Nat
          BY <2>4, PollType DEF FirstPoll, OrNone, TypeOK
        <4>2. ~(Total < charged)
          BY <2>4 DEF FirstPoll, Harmless
        <4> QED BY <4>1, <4>2
      <3>2. [cache EXCEPT !.total = Total, !.up = job.up, !.pend = None] \in Snapshots
        BY PollType DEF TypeOK, Snapshots, OrNone
      <3>3. cache'.total = Total /\ cache'.ref = cache.ref /\ DbFollows'
        <4> DEFINE new == [cache EXCEPT !.total = Total, !.up = job.up, !.pend = None]
        <4>1. new.total = Total /\ new.ref = cache.ref
          BY DEF TypeOK, Snapshots
        <4>2. PrevStoreSet(new) /\ new \in Snapshots /\ cache.total = None
          BY <2>2, <2>4, <3>2 DEF FirstPoll
        <4> HIDE DEF new
        <4>3. cache'.total = Total /\ cache'.ref = cache.ref
          BY <2>2, <4>1, <4>2, PrevStoreSetEffect
        <4>4. DbFollows'
          BY <3>1, <4>3, LedgerAssumption DEF DbFollows
        <4> QED BY <4>3, <4>4
      <3>4. CASE Total # 0
        <4>1. cache'.ref # None => cache'.ref >= ZeroGuard
          BY <2>2, <3>3 DEF BigReference
        <4>2. charged' = Larger(charged, Total) /\ recorded' = recorded /\ charged \in Nat
          BY <2>4 DEF FirstPoll, logs, TypeOK
        <4> QED BY <2>1, <3>1, <3>3, <3>4, <4>1, <4>2, BaselineAdvanced
      <3>5. CASE Total = 0
        <4>1. charged = 0 /\ charged' = 0
          BY <2>4, <3>1, <3>5 DEF FirstPoll, Larger, TypeOK
        <4> QED BY <2>1, <2>2, <2>4, <3>3, <4>1
                DEF FirstPoll, LedgerInv, Owed, Covered, Waiting, BigReference, FreshPoll,
                    Polled, PollFrame, device, logs, TypeOK
      <3> QED BY <3>4, <3>5
    <2>5. CASE CounterReset
      <3>1. Total \in Nat /\ Prev.total \in Nat /\ Prev.total >= ZeroGuard /\ Total < Prev.total
        BY <2>5, PollType DEF CounterReset, Dropped, Strong, Readable, OrNone
      <3>2. [cache EXCEPT !.total = Total, !.up = job.up, !.ref = Prev.total] \in Snapshots
        BY PollType DEF TypeOK, Snapshots
      <3>3. /\ cache'.ref = Prev.total
            /\ cache'.total = Total \/ (Total = 0 /\ cache'.total = cache.total)
        <4> DEFINE new == [cache EXCEPT !.total = Total, !.up = job.up, !.ref = Prev.total]
        <4>1. PrevStoreSet(new)
          BY <2>5 DEF CounterReset
        <4>2. new.total = Total /\ new.ref = Prev.total /\ new \in Snapshots
          BY <3>2 DEF TypeOK, Snapshots
        <4> HIDE DEF new
        <4>3. /\ cache'.ref = new.ref
              /\ \/ cache'.total = new.total
                 \/ /\ cache.total >= ZeroGuard
                    /\ new.total \in {0, None}
                    /\ cache'.total = cache.total
          BY <2>2, <4>1, <4>2, PrevStoreSetEffect
        <4> QED BY <3>1, <4>2, <4>3, LedgerAssumption
      <3>4. charged' = Larger(charged, Total) /\ recorded' = recorded /\ charged \in Nat
        BY <2>5 DEF CounterReset, logs, TypeOK
      <3>5. CASE Total # 0
        BY <2>1, <3>1, <3>3, <3>4, <3>5, BaselineAdvanced
      <3>6. CASE Total = 0
        <4>1. charged' = charged
          BY <3>4, <3>6 DEF Larger
        <4>2. charged = 0 \/ (charged <= cache.total /\ cache.total <= ctr)
          BY <2>2, <3>1, LedgerAssumption DEF Covered, Waiting
        <4>3. Covered'
          <5>1. ctr' = ctr /\ Prev.total = cache.total /\ cache.total # None
            BY <2>1, <2>2, <3>1, LedgerAssumption DEF PollFrame, device
          <5>2. CASE cache'.total = cache.total
            BY <4>1, <4>2, <5>1, <5>2 DEF Covered
          <5>3. CASE cache'.total = 0
            <6>1. Waiting'
              BY <3>1, <3>3, <5>3, LedgerAssumption DEF Waiting
            <6> QED BY <2>2, <3>3, <4>1, <4>2, <5>1, <6>1 DEF Covered
          <5> QED BY <3>3, <3>6, <5>2, <5>3
        <4>4. DbFollows'
          BY <2>2, <3>1, <3>3, <3>6, LedgerAssumption DEF DbFollows
        <4> QED BY <2>1, <2>2, <3>1, <3>3, <3>4, <4>1, <4>3, <4>4
                DEF LedgerInv, Owed, BigReference, FreshPoll, Polled, PollFrame, device
      <3> QED BY <3>5, <3>6
    <2>6. CASE CounterRestored
      <3>1. Total \in Nat /\ Total > 0
        BY <2>6, PollType DEF CounterRestored, Readable, InBand, HasRef, OrNone
      <3>2. [total |-> Total, up |-> NewUp, ref |-> None, pend |-> None] \in Snapshots
        BY PollType DEF Snapshots, OrNone
      <3>3. cache'.total = Total /\ cache'.ref = None
        BY <2>2, <2>6, <3>1, <3>2, PrevStoreSetEffect, LedgerAssumption
           DEF CounterRestored, OrNone
      <3>4. charged' = Larger(charged, Total) /\ recorded' = recorded /\ charged \in Nat
        BY <2>6 DEF CounterRestored, logs, TypeOK
      <3> QED BY <2>1, <3>1, <3>3, <3>4, BaselineAdvanced
    <2>7. CASE PrintOverflow
      <3>1. /\ Total \in Nat /\ Prev.total \in Nat /\ Base \in Nat /\ Total > Base
            /\ Delta \in Nat
        BY <2>7, CountingType, LedgerAssumption DEF PrintOverflow
      <3>2. [total |-> Base, up |-> NewUp, ref |-> Prev.ref, pend |-> <<Total, Delta>>]
                \in Snapshots
        BY <3>1, PollType DEF Snapshots, OrNone
      <3>3. cache'.ref = Prev.ref /\ cache'.total = Base
        <4>1. Base = 0 => ~(Prev.total >= ZeroGuard)
          BY <2>2, <3>1, PollType, LedgerAssumption
             DEF Base, Jumped, AboveBand, HasRef, BigReference, OrNone
        <4> QED BY <2>2, <2>7, <3>1, <3>2, <4>1, PrevStoreSetEffect, LedgerAssumption
                DEF PrintOverflow
      <3>4. Total # 0 /\ charged <= Base /\ Base <= ctr
        <4>1. Total # 0 /\ charged <= Base
          BY <2>1, <2>7, <3>1, BaseAboveCharged DEF PrintOverflow
        <4>2. Total <= ctr
          BY <2>1, <2>2, <3>1, <4>1, LedgerAssumption DEF FreshPoll
        <4> QED BY <3>1, <4>1, <4>2 DEF TypeOK
      <3>5. DbFollows'
        BY <3>1, <3>3, LedgerAssumption DEF DbFollows
      <3> QED BY <2>1, <2>2, <2>7, <3>1, <3>3, <3>4, <3>5
              DEF PrintOverflow, LedgerInv, Owed, Covered, BigReference, FreshPoll, Polled,
                  PollFrame, device, logs, TypeOK
    <2>8. CASE PrintGap
      <3>1. Total \in Nat /\ Prev.total \in Nat /\ Base \in Nat /\ Total > Base /\ Total # 0
        BY <2>8, CountingType, LedgerAssumption DEF PrintGap
      <3>2. [cache EXCEPT !.total = Total, !.up = NewUp, !.pend = None] \in Snapshots
        BY PollType DEF TypeOK, Snapshots, OrNone
      <3>3. cache'.total = Total /\ cache'.ref = cache.ref
        <4> DEFINE new == [cache EXCEPT !.total = Total, !.up = NewUp, !.pend = None]
        <4>1. PrevStoreSet(new)
          BY <2>8 DEF PrintGap
        <4>2. new.total = Total /\ new.ref = cache.ref /\ new \in Snapshots
          BY <3>2 DEF TypeOK, Snapshots
        <4> HIDE DEF new
        <4>3. /\ cache'.ref = new.ref
              /\ \/ cache'.total = new.total
                 \/ /\ cache.total >= ZeroGuard
                    /\ new.total \in {0, None}
                    /\ cache'.total = cache.total
          BY <2>2, <4>1, <4>2, PrevStoreSetEffect
        <4> QED BY <3>1, <4>2, <4>3, LedgerAssumption
      <3>4. cache'.ref # None => cache'.ref >= ZeroGuard
        BY <2>2, <3>3 DEF BigReference
      <3>5. charged <= Base
        BY <2>1, <2>8, <3>1, BaseAboveCharged DEF PrintGap
      <3>6. /\ charged' = Larger(charged, Total)
            /\ recorded' = recorded \/ recorded' = recorded + (Total - Base)
        BY <2>8, CountingType DEF PrintGap, AddGap
      <3> QED BY <2>1, <3>1, <3>3, <3>4, <3>5, <3>6, BaselineAdvanced
    <2>9. CASE RecordPrint \/ NothingPrinted
      <3>1. /\ Total \in Nat /\ Prev.total \in Nat /\ Base \in Nat /\ Counting /\ FinalSnapshot
            /\ RefLeft \in OrNone(Nat) /\ Total >= Prev.total
        BY <2>9, CountingType DEF RecordPrint, NothingPrinted, Counting
      <3>2. [total |-> Total, up |-> NewUp, ref |-> RefLeft, pend |-> None] \in Snapshots
        BY <3>1, PollType DEF Snapshots, OrNone
      <3>3. cache'.ref = RefLeft /\ cache'.total = Total
        BY <2>2, <3>1, <3>2, PrevStoreSetEffect, LedgerAssumption DEF FinalSnapshot
      <3>4. RefLeft = None \/ RefLeft = Prev.ref
        BY DEF RefLeft
      <3>5. cache'.ref # None => cache'.ref >= ZeroGuard
        BY <2>2, <3>3, <3>4 DEF BigReference
      <3>6. charged' = Larger(charged, Total)
        BY <3>1 DEF FinalSnapshot
      <3>7. recorded' = recorded \/ recorded' = recorded + (Total - Base)
        BY <2>9 DEF RecordPrint, NothingPrinted, AddPrint, logs
      <3>8. CASE Total # 0
        <4>1. charged <= Base
          BY <2>1, <3>1, <3>8, BaseAboveCharged
        <4> QED BY <2>1, <3>1, <3>3, <3>5, <3>6, <3>7, <3>8, <4>1, BaselineAdvanced
      <3>9. CASE Total = 0
        <4>1. Prev.total = 0 /\ RefLeft = Prev.ref /\ Base = 0
          BY <3>1, <3>9 DEF RefLeft, Base, Jumped, AboveBand, HasRef
        <4>2. recorded' = recorded /\ charged' = charged
          BY <3>6, <3>7, <3>9, <4>1 DEF Larger, TypeOK
        <4>3. DbFollows'
          BY <3>1, <3>3, LedgerAssumption DEF DbFollows
        <4> QED BY <2>1, <2>2, <3>3, <3>9, <4>1, <4>2, <4>3
                DEF LedgerInv, Owed, Covered, Waiting, BigReference, FreshPoll, Polled,
                    PollFrame, device
      <3> QED BY <3>8, <3>9
    <2> QED BY <1>7, <2>3, <2>4, <2>5, <2>6, <2>7, <2>8, <2>9 DEF CountersEvent
  <1> QED BY <1>1, <1>2, <1>3, <1>4, <1>5, <1>6, <1>7 DEF Next, Device

(* No page is recorded that was not printed, for all thresholds, limits and
   numbers of faults, as long as no restart lost or staled the baseline, no first
   poll took a failed reading and no manual reset wrote a stale total. *)
THEOREM NoPhantomPagesHolds == Spec => []NoPhantomPages
  <1>1. Init => LedgerInv
    BY LedgerAssumption
       DEF Init, LedgerInv, Owed, Covered, BigReference, FreshPoll, Polled, Blank, IdleJob,
           DbFollows
  <1>2. LedgerInv /\ TypeOK /\ TypeOK' /\ [Next]_vars => LedgerInv'
    BY LedgerStep
  <1>3. LedgerInv /\ TypeOK => NoPhantomPages
    BY DEF LedgerInv, Harmless, Owed, NoPhantomPages, TypeOK
  <1> QED BY <1>1, <1>2, <1>3, LedgerTypes, PTL DEF Spec
-----------------------------------------------------------------------------
(* Exactly once: the baseline is the position up to which the counter is charged, so that
   no page is lost, no two PRINT rows overlap and a COUNTER_RESTORED hides no more than its
   tolerance. *)

Undisturbed == caveats \subseteq {"event_lost"}

\* The next count starts where the last charge ended.
AdoptedIsCharged == cache.total # None => Adopted = charged

\* A remembered reference is behind the charged position, and large.
RefCharged == cache.ref # None => cache.ref <= charged /\ cache.ref >= ZeroGuard

\* The PRINT rows end at or before the charged position, and do not overlap.
RowsCharged == \A r \in prints : r[2] <= charged
RowsDisjoint == \A r, s \in prints : r = s \/ r[2] <= s[1] \/ s[2] <= r[1]

\* Nothing is missing as long as no event is.
Complete == caveats = {} => recorded + waived + (ctr - charged) = pages

Exact == Undisturbed => AdoptedIsCharged /\ RefCharged /\ RowsCharged /\ RowsDisjoint /\ Complete

(* A poll that has a baseline compares with the charged position. *)
LEMMA CountsFromCharged ==
    ASSUME TypeOK, LedgerInv, Exact, Undisturbed, Counting, Total # 0
    PROVE  Base = charged /\ charged <= Total
  <1> USE DEF Exact
  <1>1. Harmless /\ Polled
    BY DEF Undisturbed, Harmless, Counting, Readable
  <1>2. /\ Total \in Nat /\ Prev.total \in Nat /\ charged \in Nat /\ Prev.ref \in OrNone(Nat)
        /\ Total # None /\ Prev.total # None
    BY CountingType, PollType, LedgerAssumption DEF TypeOK
  <1>3. /\ Prev.total = cache.total /\ Prev.ref = cache.ref /\ charged <= Total
        /\ (charged # 0 /\ Waiting) => cache.ref <= Total
    BY <1>1, <1>2 DEF LedgerInv, FreshPoll
  <1>4. CASE cache.ref # None /\ cache.total = 0
    <2>1. Prev.ref \in Nat /\ Prev.ref = charged /\ Prev.ref >= ZeroGuard
      BY <1>2, <1>3, <1>4 DEF AdoptedIsCharged, Adopted, RefCharged, OrNone
    <2>2. HasRef /\ Prev.ref - Band <= Total /\ RestoreTol(Prev.ref) \in Nat
      BY <1>2, <1>3, <2>1, RestoreTolNat, LedgerAssumption DEF HasRef
    <2>3. AboveBand
      BY <1>2, <2>1, <2>2 DEF Counting, InBand, AboveBand
    <2>4. Jumped
      BY <1>2, <1>3, <1>4, <2>1, <2>3, LedgerAssumption DEF Jumped
    <2> QED BY <1>3, <2>1, <2>4 DEF Base
  <1>5. CASE ~(cache.ref # None /\ cache.total = 0)
    <2>1. Prev.total = charged
      BY <1>2, <1>3, <1>5 DEF AdoptedIsCharged, Adopted
    <2>2. ~Jumped
      <3>1. CASE cache.ref = None
        BY <1>3, <3>1 DEF Jumped, AboveBand, HasRef
      <3>2. CASE cache.ref # None
        <4>1. Prev.ref \in Nat /\ Prev.ref <= Prev.total
          BY <1>2, <1>3, <2>1, <3>2 DEF RefCharged, OrNone
        <4> QED BY <1>2, <4>1, LedgerAssumption DEF Jumped
      <3> QED BY <3>1, <3>2
    <2> QED BY <1>3, <2>1, <2>2 DEF Base
  <1> QED BY <1>4, <1>5

(* A poll that leaves baseline and accounts alone changes nothing of it. *)
LEMMA ExactKept ==
    ASSUME Exact, Undisturbed, PollFrame,
           UNCHANGED <<prints, recorded, charged, waived, caveats>>,
           cache'.total = cache.total, cache'.ref = cache.ref
    PROVE  Exact'
  BY DEF Exact, Undisturbed, PollFrame, device, AdoptedIsCharged, Adopted, RefCharged,
         RowsCharged, RowsDisjoint, Complete

(* A reading above zero that is taken as baseline, and a reference that is none or
   behind the old position. *)
LEMMA ExactAdvanced ==
    ASSUME TypeOK, Exact, Undisturbed, Undisturbed', PollFrame, Total \in Nat, Total # 0,
           charged <= Total, charged' = Total, cache'.total = Total,
           cache'.ref = None \/ cache'.ref = cache.ref,
           prints' = prints \/ prints' = prints \cup {<<charged, Total>>},
           caveats' = {} => (recorded' - recorded) + (waived' - waived) = Total - charged,
           recorded' \in Nat, waived' \in Nat,
           caveats \subseteq caveats'
    PROVE  Exact'
  <1>1. AdoptedIsCharged'
    BY DEF AdoptedIsCharged, Adopted
  <1>2. charged \in Nat /\ cache.ref \in OrNone(Nat) /\ prints \subseteq Nat \X Nat
    BY DEF TypeOK, Snapshots
  <1>3. RefCharged'
    <2>1. CASE cache'.ref = None
      BY <2>1 DEF RefCharged
    <2>2. CASE cache'.ref # None
      <3>1. cache.ref \in Nat /\ cache.ref <= charged /\ cache.ref >= ZeroGuard
        BY <1>2, <2>2 DEF Exact, RefCharged, OrNone
      <3> QED BY <1>2, <2>2, <3>1 DEF RefCharged
    <2> QED BY <2>1, <2>2
  <1>4. \A r \in prints : r[2] \in Nat /\ r[2] <= charged
    BY <1>2 DEF Exact, RowsCharged
  <1>5. \A r \in prints' : r \in prints \/ r = <<charged, Total>>
    OBVIOUS
  <1>6. RowsCharged'
    BY <1>2, <1>4, <1>5 DEF RowsCharged
  <1>7. RowsDisjoint'
    <2> SUFFICES ASSUME NEW r \in prints', NEW s \in prints'
                 PROVE  r = s \/ r[2] <= s[1] \/ s[2] <= r[1]
      BY DEF RowsDisjoint
    <2>1. CASE r \in prints /\ s \in prints
      BY <2>1 DEF Exact, RowsDisjoint
    <2>2. CASE r \in prints /\ s = <<charged, Total>>
      BY <1>4, <2>2
    <2>3. CASE s \in prints /\ r = <<charged, Total>>
      BY <1>4, <2>3
    <2> QED BY <1>5, <2>1, <2>2, <2>3
  <1>8. Complete'
    <2> SUFFICES ASSUME caveats' = {} PROVE recorded' + waived' + (ctr' - charged') = pages'
      BY DEF Complete
    <2>1. recorded + waived + (ctr - charged) = pages
      BY DEF Exact, Complete
    <2>2. ctr' = ctr /\ pages' = pages
      BY DEF PollFrame, device
    <2>3. /\ ctr \in Nat /\ pages \in Nat /\ recorded \in Nat /\ waived \in Nat
          /\ (recorded' - recorded) + (waived' - waived) = Total - charged
      BY DEF TypeOK
    <2>4. /\ charged' = Total /\ Total \in Nat /\ charged \in Nat
          /\ recorded' \in Nat /\ waived' \in Nat
      BY <1>2
    <2> DEFINE r == recorded' w == waived'
    <2> HIDE DEF r, w
    <2>5. r \in Nat /\ w \in Nat /\ (r - recorded) + (w - waived) = Total - charged
      BY <2>3, <2>4 DEF r, w
    <2>6. r + w + (ctr - Total) = pages
      BY <2>1, <2>3, <2>4, <2>5
    <2>7. recorded' + waived' + (ctr - Total) = pages
      BY <2>6 DEF r, w
    <2> QED BY <2>2, <2>4, <2>7
  <1> QED BY <1>1, <1>3, <1>6, <1>7, <1>8 DEF Exact

(* Every step keeps the positions exact. *)
LEMMA ExactStep ==
    ASSUME TypeOK, TypeOK', LedgerInv, Exact, [Next]_vars PROVE Exact'
  <1> SUFFICES ASSUME Undisturbed' PROVE Exact'
    BY DEF Exact
  <1>0. caveats \subseteq caveats' => Undisturbed
    BY DEF Undisturbed
  <1>1. CASE DevicePrint
    <2>1. PICK n \in 1..MaxJob : ctr' = ctr + n /\ pages' = pages + n
      BY <1>1 DEF DevicePrint
    <2>2. /\ n \in Nat /\ ctr \in Nat /\ pages \in Nat /\ charged \in Nat /\ recorded \in Nat
          /\ waived \in Nat
      BY LedgerAssumption DEF TypeOK
    <2>3. UNCHANGED <<cache, prints, recorded, charged, waived, caveats>>
      BY <1>1 DEF DevicePrint, store, logs
    <2>4. AdoptedIsCharged /\ RefCharged /\ RowsCharged /\ RowsDisjoint /\ Complete
      BY <2>3, <1>0 DEF Exact
    <2>5. Complete'
      BY <2>1, <2>2, <2>3, <2>4 DEF Complete
    <2> QED BY <2>3, <2>4, <2>5
            DEF Exact, AdoptedIsCharged, Adopted, RefCharged, RowsCharged, RowsDisjoint
  <1>2. CASE DeviceTick \/ DeviceReboot \/ PollRead \/ Publish \/ TonerResetRead \/ UNCHANGED vars
    <2>1. UNCHANGED <<ctr, cache, prints, recorded, pages, charged, waived, caveats>>
      BY <1>2 DEF DeviceTick, DeviceReboot, PollRead, Publish, TonerResetRead, vars, device,
                  store, logs, history
    <2> QED BY <2>1, <1>0
            DEF Exact, AdoptedIsCharged, Adopted, RefCharged, RowsCharged, RowsDisjoint, Complete
  <1>3. CASE FactoryReset
    BY <1>3 DEF FactoryReset, Undisturbed
  <1>4. CASE TonerResetWrite
    <2>1. cache'.total = cache.total /\ Undisturbed
      BY <1>4 DEF TonerResetWrite, Undisturbed
    <2>2. cache'.ref = cache.ref
      <3> DEFINE new == [cache EXCEPT !.total = treset.total, !.up = treset.up]
      <3>1. new \in Snapshots /\ new.ref = cache.ref
        BY DEF TypeOK, Snapshots
      <3>2. PrevStoreSet(new) /\ DbFollows
        BY <1>4, <2>1 DEF TonerResetWrite, LedgerInv, Undisturbed, Harmless
      <3> HIDE DEF new
      <3> QED BY <3>1, <3>2, PrevStoreSetEffect
    <2>3. UNCHANGED <<ctr, prints, recorded, pages, charged, waived>>
      BY <1>4 DEF TonerResetWrite, device, logs
    <2>4. Complete'
      <3>1. caveats \subseteq caveats'
        BY <1>4 DEF TonerResetWrite
      <3> QED BY <2>1, <2>3, <3>1 DEF Exact, Complete
    <2> QED BY <2>1, <2>2, <2>3, <2>4
            DEF Exact, AdoptedIsCharged, Adopted, RefCharged, RowsCharged, RowsDisjoint
  <1>5. CASE Restart
    <2>1. /\ cache.ref = None /\ cache'.ref = None /\ cache'.total = cache.total
          /\ caveats' = caveats /\ UNCHANGED <<ctr, prints, recorded, pages, charged, waived>>
      BY <1>5 DEF Restart, Undisturbed, Blank, device, logs
    <2> QED BY <2>1, <1>0
            DEF Exact, AdoptedIsCharged, Adopted, RefCharged, RowsCharged, RowsDisjoint, Complete
  <1>6. CASE CountersEvent
    <2>1. PollFrame /\ Undisturbed /\ caveats \subseteq caveats' /\ Polled
      BY <1>6, <1>0
         DEF CountersEvent, CounterReadError, FirstPoll, SuspiciousRead, CounterReset,
             UnexplainedDrop, CounterRestored, PrintOverflow, PrintGap, RecordPrint,
             NothingPrinted, FinalSnapshot, AddPrint, AddGap, Counting, Dropped, Readable
    <2>2. /\ Harmless /\ FreshPoll /\ DbFollows /\ Owed
          /\ Prev.total = cache.total /\ Prev.ref = cache.ref
      BY <2>1 DEF LedgerInv, FreshPoll, Undisturbed, Harmless
    <2>3. AdoptedIsCharged /\ RefCharged
      BY <2>1 DEF Exact
    <2>4. /\ charged \in Nat /\ ctr \in Nat /\ recorded \in Nat /\ waived \in Nat
          /\ recorded' \in Nat /\ waived' \in Nat
      BY DEF TypeOK
    <2>5. CASE CounterReadError \/ SuspiciousRead \/ UnexplainedDrop
      <3> DEFINE new == [cache EXCEPT !.total = Prev.total, !.up = NewUp, !.ref = Prev.ref]
      <3>1. new \in Snapshots /\ new.total = Prev.total /\ new.ref = Prev.ref
        BY PollType DEF TypeOK, Snapshots
      <3>2. PrevStoreSet(new)
        BY <2>5 DEF CounterReadError, SuspiciousRead, UnexplainedDrop
      <3> HIDE DEF new
      <3>3. cache'.total = cache.total /\ cache'.ref = cache.ref
        BY <2>2, <3>1, <3>2, PrevStoreSetEffect
      <3>4. UNCHANGED <<prints, recorded, charged, waived, caveats>>
        BY <2>5 DEF CounterReadError, SuspiciousRead, UnexplainedDrop, logs
      <3> QED BY <2>1, <3>3, <3>4, ExactKept
    <2>6. CASE FirstPoll
      <3>1. Total \in Nat /\ cache.total = None /\ ~(Total < charged)
        BY <2>1, <2>2, <2>6, PollType DEF FirstPoll, OrNone, Undisturbed
      <3> DEFINE new == [cache EXCEPT !.total = Total, !.up = job.up, !.pend = None]
      <3>2. new \in Snapshots /\ new.total = Total /\ new.ref = cache.ref
        BY PollType DEF TypeOK, Snapshots, OrNone
      <3>3. PrevStoreSet(new)
        BY <2>6 DEF FirstPoll
      <3> HIDE DEF new
      <3>4. cache'.total = Total /\ cache'.ref = cache.ref
        BY <2>2, <3>1, <3>2, <3>3, PrevStoreSetEffect
      <3>5. /\ charged' = Total /\ charged <= Total /\ waived' = waived + (Total - charged)
            /\ UNCHANGED <<prints, recorded>>
        BY <2>4, <2>6, <3>1 DEF FirstPoll, Larger, logs
      <3>6. CASE Total # 0
        BY <2>1, <2>4, <3>1, <3>4, <3>5, <3>6, ExactAdvanced
      <3>7. CASE Total = 0
        <4>1. charged = 0 /\ charged' = 0 /\ waived' = waived /\ caveats' = caveats
          BY <2>4, <2>6, <3>1, <3>5, <3>7 DEF FirstPoll
        <4>2. cache'.ref = None
          <5>1. cache.ref \in OrNone(Nat)
            BY DEF TypeOK, Snapshots
          <5> QED BY <2>3, <3>4, <4>1, <5>1, LedgerAssumption DEF RefCharged, OrNone
        <4> QED BY <2>1, <3>4, <3>5, <3>7, <4>1, <4>2
                DEF Exact, AdoptedIsCharged, Adopted, RefCharged, RowsCharged, RowsDisjoint,
                    Complete, PollFrame, device
      <3> QED BY <3>6, <3>7
    <2>7. CASE CounterReset
      <3>1. Total \in Nat /\ Prev.total \in Nat /\ Prev.total >= ZeroGuard /\ Total < Prev.total
        BY <2>7, PollType DEF CounterReset, Dropped, Strong, Readable, OrNone
      <3>2. Prev.total = charged
        <4>1. Prev.total # 0 /\ Prev.total # None
          BY <3>1, LedgerAssumption
        <4> QED BY <2>2, <2>3, <4>1 DEF AdoptedIsCharged, Adopted
      <3>3. Total = 0
        BY <2>1, <2>2, <3>1, <3>2, LedgerAssumption DEF FreshPoll
      <3> DEFINE new == [cache EXCEPT !.total = Total, !.up = job.up, !.ref = Prev.total]
      <3>4. new \in Snapshots /\ new.total = Total /\ new.ref = Prev.total
        BY PollType DEF TypeOK, Snapshots
      <3>5. PrevStoreSet(new)
        BY <2>7 DEF CounterReset
      <3> HIDE DEF new
      <3>6. cache'.ref = charged /\ (cache'.total = 0 \/ cache'.total = charged)
        <4>1. /\ cache'.ref = new.ref
              /\ cache'.total = new.total \/ cache'.total = cache.total
          BY <2>2, <3>4, <3>5, PrevStoreSetEffect
        <4> QED BY <2>2, <3>2, <3>3, <3>4, <4>1
      <3>7. charged' = charged /\ UNCHANGED <<prints, recorded, waived, caveats>>
        BY <2>4, <2>7, <3>3 DEF CounterReset, Larger, logs
      <3>8. charged # None /\ charged >= ZeroGuard
        BY <3>1, <3>2, LedgerAssumption
      <3>9. AdoptedIsCharged' /\ RefCharged'
        BY <2>4, <3>6, <3>7, <3>8 DEF AdoptedIsCharged, Adopted, RefCharged
      <3> QED BY <2>1, <3>7, <3>9
              DEF Exact, RowsCharged, RowsDisjoint, Complete, PollFrame, device
    <2>8. CASE CounterRestored
      <3>1. Total \in Nat /\ Total > 0 /\ Prev.total # None
        BY <2>8, PollType DEF CounterRestored, Readable, InBand, HasRef, OrNone
      <3>2. charged <= Total
        BY <2>1, <2>2, <3>1, LedgerAssumption DEF FreshPoll
      <3>3. [total |-> Total, up |-> NewUp, ref |-> None, pend |-> None] \in Snapshots
        BY PollType DEF Snapshots, OrNone
      <3>4. cache'.total = Total /\ cache'.ref = None
        BY <2>2, <2>8, <3>1, <3>3, PrevStoreSetEffect, LedgerAssumption
           DEF CounterRestored, OrNone
      <3>5. /\ charged' = Total /\ waived' = waived + (Total - charged)
            /\ UNCHANGED <<prints, recorded>>
        BY <2>4, <2>8, <3>1, <3>2 DEF CounterRestored, Larger, logs
      <3> QED BY <2>1, <2>4, <3>1, <3>2, <3>4, <3>5, ExactAdvanced
    <2>9. CASE PrintOverflow
      <3>1. /\ Total \in Nat /\ Prev.total \in Nat /\ Base \in Nat /\ Total > Base
            /\ Delta \in Nat /\ Counting /\ Total # 0
        BY <2>9, CountingType, LedgerAssumption DEF PrintOverflow
      <3>2. Base = charged
        BY <2>1, <3>1, CountsFromCharged
      <3>3. [total |-> Base, up |-> NewUp, ref |-> Prev.ref, pend |-> <<Total, Delta>>]
                \in Snapshots
        BY <3>1, PollType DEF Snapshots, OrNone
      <3>4. cache'.ref = cache.ref /\ cache'.total = charged
        <4>1. Base = 0 => ~(Prev.total >= ZeroGuard)
          BY <2>2, <3>1, PollType, LedgerAssumption
             DEF Base, Jumped, AboveBand, HasRef, BigReference, OrNone, LedgerInv
        <4> QED BY <2>2, <2>9, <3>1, <3>2, <3>3, <4>1, PrevStoreSetEffect, LedgerAssumption
                DEF PrintOverflow
      <3>5. UNCHANGED <<prints, recorded, charged, waived, caveats>>
        BY <2>9 DEF PrintOverflow, logs
      <3>6. AdoptedIsCharged'
        <4>1. CASE cache.ref # None /\ charged = 0
          <5>1. cache.ref \in Nat /\ ZeroGuard \in Nat /\ ZeroGuard > 0
            BY <4>1, LedgerAssumption DEF TypeOK, Snapshots, OrNone
          <5> QED BY <2>3, <4>1, <5>1 DEF RefCharged
        <4>2. CASE ~(cache.ref # None /\ charged = 0)
          BY <3>4, <3>5, <4>2 DEF AdoptedIsCharged, Adopted
        <4> QED BY <4>1, <4>2
      <3> QED BY <2>1, <3>4, <3>5, <3>6
              DEF Exact, RefCharged, RowsCharged, RowsDisjoint, Complete, PollFrame, device
    <2>10. CASE PrintGap
      <3>1. Total \in Nat /\ Base \in Nat /\ Total > Base /\ Total # 0 /\ Counting
            /\ Delta = Total - Base
        BY <2>10, CountingType, LedgerAssumption DEF PrintGap
      <3>2. Base = charged /\ charged <= Total
        BY <2>1, <3>1, CountsFromCharged
      <3> DEFINE new == [cache EXCEPT !.total = Total, !.up = NewUp, !.pend = None]
      <3>3. new \in Snapshots /\ new.total = Total /\ new.ref = cache.ref
        BY PollType DEF TypeOK, Snapshots, OrNone
      <3>4. PrevStoreSet(new)
        BY <2>10 DEF PrintGap
      <3> HIDE DEF new
      <3>5. cache'.total = Total /\ cache'.ref = cache.ref
        BY <2>2, <3>1, <3>3, <3>4, PrevStoreSetEffect, LedgerAssumption
      <3>6. charged' = Total /\ UNCHANGED <<prints, waived>>
        BY <2>4, <2>10, <3>1, <3>2 DEF PrintGap, Larger
      <3>7. caveats' = {} => recorded' = recorded + (Total - charged)
        BY <2>10, <3>1, <3>2 DEF PrintGap, AddGap
      <3>8. caveats' = {} => (recorded' - recorded) + (waived' - waived) = Total - charged
        BY <2>4, <3>1, <3>6, <3>7
      <3> QED BY <2>1, <2>4, <3>1, <3>2, <3>5, <3>6, <3>8, ExactAdvanced
    <2>11. CASE RecordPrint \/ NothingPrinted
      <3>1. /\ Total \in Nat /\ Prev.total \in Nat /\ Base \in Nat /\ Counting /\ FinalSnapshot
            /\ RefLeft \in OrNone(Nat) /\ Total >= Prev.total /\ Delta = Total - Base
        BY <2>11, CountingType DEF RecordPrint, NothingPrinted, Counting
      <3>2. [total |-> Total, up |-> NewUp, ref |-> RefLeft, pend |-> None] \in Snapshots
        BY <3>1, PollType DEF Snapshots, OrNone
      <3>3. cache'.ref = RefLeft /\ cache'.total = Total
        BY <2>2, <3>1, <3>2, PrevStoreSetEffect, LedgerAssumption DEF FinalSnapshot
      <3>4. RefLeft = None \/ RefLeft = cache.ref
        BY <2>2 DEF RefLeft
      <3>5. CASE Total # 0
        <4>1. Base = charged /\ charged <= Total
          BY <2>1, <3>1, <3>5, CountsFromCharged
        <4>2. charged' = Total /\ waived' = waived
          BY <2>4, <3>1, <4>1 DEF FinalSnapshot, Larger
        <4>3. CASE NothingPrinted
          <5>1. Total = charged /\ UNCHANGED <<prints, recorded>>
            BY <2>4, <3>1, <4>1, <4>3 DEF NothingPrinted, logs
          <5>2. (recorded' - recorded) + (waived' - waived) = Total - charged
            BY <2>4, <4>2, <5>1
          <5> QED BY <2>1, <2>4, <3>1, <3>3, <3>4, <3>5, <4>1, <4>2, <5>1, <5>2, ExactAdvanced
        <4>4. CASE RecordPrint
          <5>1. ~Overlaps(charged, Total)
            <6>1. \A r \in prints : r[2] \in Nat /\ r[2] <= charged
              BY <2>1 DEF Exact, RowsCharged, TypeOK
            <6> QED BY <2>4, <6>1 DEF Overlaps
          <5>2. AddPrint(charged, Total)
            BY <4>1, <4>4 DEF RecordPrint
          <5>3. prints' = prints \/ prints' = prints \cup {<<charged, Total>>}
            BY <5>2 DEF AddPrint, logs
          <5>4. caveats' = {} => recorded' = recorded + (Total - charged)
            BY <5>1, <5>2 DEF AddPrint
          <5>5. caveats' = {} => (recorded' - recorded) + (waived' - waived) = Total - charged
            BY <2>4, <3>1, <4>2, <5>4
          <5> QED BY <2>1, <2>4, <3>1, <3>3, <3>4, <3>5, <4>1, <4>2, <5>3, <5>5, ExactAdvanced
        <4> QED BY <2>11, <4>3, <4>4
      <3>6. CASE Total = 0
        <4>1. Prev.total = 0 /\ RefLeft = Prev.ref /\ Base = 0
          BY <3>1, <3>6 DEF RefLeft, Base, Jumped, AboveBand, HasRef
        <4>2. NothingPrinted
          BY <2>11, <3>1, <3>6, <4>1 DEF RecordPrint
        <4>3. UNCHANGED <<prints, recorded, charged, waived, caveats>>
          BY <2>4, <3>1, <3>6, <4>2 DEF NothingPrinted, FinalSnapshot, Larger, logs
        <4> QED BY <2>1, <2>2, <3>3, <3>6, <4>1, <4>3, ExactKept
      <3> QED BY <3>5, <3>6
    <2> QED BY <1>6, <2>5, <2>6, <2>7, <2>8, <2>9, <2>10, <2>11 DEF CountersEvent
  <1> QED BY <1>1, <1>2, <1>3, <1>4, <1>5, <1>6 DEF Next, Device

(* The three invariants hold together in every state. *)
LEMMA ExactHolds == Spec => [](TypeOK /\ LedgerInv /\ Exact)
  <1>1. Init => LedgerInv /\ Exact
    BY LedgerAssumption
       DEF Init, LedgerInv, Owed, Covered, BigReference, FreshPoll, Polled, Blank, IdleJob,
           DbFollows, Exact, AdoptedIsCharged, RefCharged, RowsCharged, RowsDisjoint, Complete
  <1>2. LedgerInv /\ TypeOK /\ TypeOK' /\ [Next]_vars => LedgerInv'
    BY LedgerStep
  <1>3. LedgerInv /\ Exact /\ TypeOK /\ TypeOK' /\ [Next]_vars => Exact'
    BY ExactStep
  <1> QED BY <1>1, <1>2, <1>3, LedgerTypes, PTL DEF Spec

(* Each printed page is recorded, skipped or still ahead of the baseline, whatever
   failed readings, reboots and restarts that find the baseline intact come between. *)
THEOREM EveryPageAccountedHolds == Spec => []EveryPageAccounted
  <1>1. TypeOK /\ Exact => EveryPageAccounted
    BY DEF TypeOK, Exact, Undisturbed, AdoptedIsCharged, Complete, EveryPageAccounted
  <1> QED BY <1>1, ExactHolds, PTL

(* No two PRINT rows overlap, also when some are missing. *)
THEOREM PrintRangesDisjointHolds == Spec => []PrintRangesDisjoint
  <1>1. Exact => PrintRangesDisjoint
    BY DEF Exact, Undisturbed, RowsDisjoint, PrintRangesDisjoint
  <1> QED BY <1>1, ExactHolds, PTL

(* A COUNTER_RESTORED skips no more than the tolerance of its band. *)
THEOREM RestoreHidesOnlyToleranceHolds == Spec => RestoreHidesOnlyTolerance
  <1>1. TypeOK /\ TypeOK' /\ LedgerInv /\ Exact
           => [(CounterRestored /\ caveats = {}) => waived' - waived <= RestoreTol(Prev.ref)]_vars
    <2> SUFFICES ASSUME TypeOK, TypeOK', LedgerInv, Exact, CounterRestored, caveats = {}
                 PROVE  waived' - waived <= RestoreTol(Prev.ref)
      OBVIOUS
    <2>1. /\ Total \in Nat /\ Prev.total \in Nat /\ Prev.ref \in Nat /\ Total > 0
          /\ Total <= Prev.ref + RestoreTol(Prev.ref) /\ Polled
      BY PollType DEF CounterRestored, Readable, InBand, HasRef, OrNone
    <2>2. /\ charged <= Total /\ Prev.total = cache.total /\ Prev.ref = cache.ref
          /\ AdoptedIsCharged /\ RefCharged
      BY <2>1, LedgerAssumption DEF LedgerInv, Harmless, FreshPoll, Exact, Undisturbed
    <2>3. charged >= Prev.ref /\ charged \in Nat
      <3>1. Adopted = charged /\ (cache.total = 0 => Adopted = Prev.ref)
        BY <2>1, <2>2, LedgerAssumption DEF AdoptedIsCharged, Adopted
      <3> QED BY <2>1, <2>2, <3>1, LedgerAssumption DEF TypeOK, RefCharged
    <2>4. waived' = waived + (Total - charged) /\ waived \in Nat
      BY <2>1, <2>2, <2>3 DEF CounterRestored, Larger, TypeOK
    <2>5. RestoreTol(Prev.ref) \in Nat
      BY <2>1, RestoreTolNat
    <2> QED BY <2>1, <2>3, <2>4, <2>5
  <1> QED BY <1>1, ExactHolds, PTL DEF Spec, RestoreHidesOnlyTolerance
-----------------------------------------------------------------------------
(* CounterLedger implements PageAccount, and what it inherits from that. *)

\* What a charge of the account may do to the ledger's numbers.
Charged ==
    /\ charged <= charged' /\ charged' <= ctr
    /\ recorded' >= recorded /\ waived' >= waived
    /\ (recorded' - recorded) + (waived' - waived) <= charged' - charged

(* The numbers of the account are integers. *)
LEMMA NumbersType ==
    ASSUME TypeOK
    PROVE  ctr \in Int /\ charged \in Int /\ recorded \in Int /\ waived \in Int /\ pages \in Int
  BY DEF TypeOK

(* A caveat is never taken back. *)
LEMMA CaveatsGrow == ASSUME [Next]_vars, Harmless' PROVE Harmless
  <1>1. caveats \subseteq caveats'
    BY DEF Next, vars, Device, DevicePrint, DeviceTick, DeviceReboot, FactoryReset, PollRead,
           CountersEvent, CounterReadError, FirstPoll, SuspiciousRead, CounterReset,
           UnexplainedDrop, CounterRestored, PrintOverflow, PrintGap, RecordPrint,
           NothingPrinted, FinalSnapshot, AddPrint, AddGap, Publish, TonerResetRead,
           TonerResetWrite, Restart, history
  <1> QED BY <1>1 DEF Harmless

(* Whatever branch _counters_event takes, it records and waives no more than it moves
   the charged position. *)
LEMMA EventCharges ==
    ASSUME TypeOK, TypeOK', LedgerInv, LedgerInv', Harmless, Harmless', CountersEvent
    PROVE  Charged /\ UNCHANGED <<ctr, pages>>
  <1>1. UNCHANGED <<ctr, pages>>
    BY DEF CountersEvent, CounterReadError, FirstPoll, SuspiciousRead, CounterReset,
           UnexplainedDrop, CounterRestored, PrintOverflow, PrintGap, RecordPrint,
           NothingPrinted, FinalSnapshot, PollFrame, device
  <1>2. charged' <= ctr /\ charged <= ctr
    BY <1>1 DEF LedgerInv, Owed
  <1>3. /\ ctr \in Nat /\ charged \in Nat /\ recorded \in Nat /\ waived \in Nat
        /\ charged' \in Nat /\ recorded' \in Nat /\ waived' \in Nat
    BY DEF TypeOK
  <1>4. CASE CounterReadError \/ SuspiciousRead \/ UnexplainedDrop \/ PrintOverflow
    BY <1>1, <1>2, <1>3, <1>4
       DEF CounterReadError, SuspiciousRead, UnexplainedDrop, PrintOverflow, Charged, logs
  <1>5. CASE FirstPoll \/ CounterRestored
    <2>1. Total \in Nat
      BY <1>5, PollType DEF FirstPoll, CounterRestored, Readable, OrNone
    <2>2. /\ charged' = Larger(charged, Total) /\ recorded' = recorded
          /\ waived' = waived + (charged' - charged)
      BY <1>5 DEF FirstPoll, CounterRestored, logs
    <2> QED BY <1>1, <1>2, <1>3, <2>1, <2>2 DEF Charged, Larger
  <1>6. CASE CounterReset
    <2>1. Total \in Nat
      BY <1>6, PollType DEF CounterReset, Dropped, Readable, OrNone
    <2>2. charged' = Larger(charged, Total) /\ recorded' = recorded /\ waived' = waived
      BY <1>6 DEF CounterReset, logs
    <2> QED BY <1>1, <1>2, <1>3, <2>1, <2>2 DEF Charged, Larger
  <1>7. CASE PrintGap \/ RecordPrint \/ NothingPrinted
    <2>1. Counting /\ Total \in Nat /\ Base \in Nat /\ Prev.total \in Nat /\ Delta = Total - Base
      BY <1>7, CountingType DEF PrintGap, RecordPrint, NothingPrinted
    <2>2. charged' = Larger(charged, Total) /\ waived' = waived
      BY <1>7 DEF PrintGap, RecordPrint, NothingPrinted, FinalSnapshot
    <2>3. recorded' = recorded \/ (recorded' = recorded + (Total - Base) /\ Total > Base)
      <3>1. CASE PrintGap
        <4>1. Delta > 0
          BY <3>1, <2>1, LedgerAssumption DEF PrintGap
        <4> QED BY <2>1, <3>1, <4>1 DEF PrintGap, AddGap
      <3>2. CASE RecordPrint
        BY <2>1, <3>2 DEF RecordPrint, AddPrint, logs
      <3>3. CASE NothingPrinted
        BY <3>3 DEF NothingPrinted, logs
      <3> QED BY <1>7, <3>1, <3>2, <3>3
    <2>4. CASE recorded' = recorded
      BY <1>1, <1>2, <1>3, <2>1, <2>2, <2>4 DEF Charged, Larger
    <2>5. CASE recorded' = recorded + (Total - Base) /\ Total > Base
      <3>1. charged <= Base
        BY <2>1, <2>5, BaseAboveCharged
      <3> QED BY <1>1, <1>2, <1>3, <2>1, <2>2, <2>5, <3>1 DEF Charged, Larger
    <2> QED BY <2>3, <2>4, <2>5
  <1> QED BY <1>1, <1>4, <1>5, <1>6, <1>7 DEF CountersEvent

(* What is due shrinks by as much as the charged position moves. *)
LEMMA DueShrinks ==
    ASSUME NEW c \in Int, NEW d \in Int, NEW e \in Int, NEW n \in Int,
           d <= e, e <= c, n <= e - d
    PROVE  0 <= c - e /\ c - e <= c - d /\ n <= (c - d) - (c - e)
  OBVIOUS

(* Every step of the ledger is one of the account, or changes nothing of it. *)
LEMMA AccountStep ==
    ASSUME TypeOK, TypeOK', LedgerInv, LedgerInv', [Next]_vars
    PROVE  [Account!Next]_(Account!vars)
  <1> USE DEF Account!Next, Account!vars
  <1>1. CASE ~Harmless'
    BY <1>1 DEF Harmless, Account!Withdraw
  <1>2. CASE Harmless'
    <2>1. Harmless
      BY <1>2, CaveatsGrow
    <2>2. (caveats \subseteq {"event_lost", "factory_reset"})
             /\ (caveats' \subseteq {"event_lost", "factory_reset"})
      BY <1>2, <2>1 DEF Harmless
    <2>3. /\ ctr \in Int /\ charged \in Int /\ recorded \in Int /\ waived \in Int /\ pages \in Int
          /\ ctr' \in Int /\ charged' \in Int /\ recorded' \in Int /\ waived' \in Int
          /\ pages' \in Int
      BY DEF TypeOK
    <2>4. CASE DevicePrint
      <3>1. PICK n \in 1..MaxJob : ctr' = ctr + n /\ pages' = pages + n
        BY <2>4 DEF DevicePrint
      <3>2. n \in Nat /\ n > 0
        BY LedgerAssumption
      <3>3. UNCHANGED <<recorded, charged, waived>>
        BY <2>4 DEF DevicePrint, logs
      <3> QED BY <2>2, <2>3, <3>1, <3>2, <3>3 DEF Account!PagesPrinted
    <2>5. CASE FactoryReset
      <3>1. ctr' = 0 /\ charged' = 0 /\ UNCHANGED <<recorded, pages, waived>>
        BY <2>5 DEF FactoryReset, logs
      <3> QED BY <2>2, <3>1 DEF Account!Forget
    <2>6. CASE CountersEvent
      <3>6. Charged /\ UNCHANGED <<ctr, pages>>
        BY <1>2, <2>1, <2>6, EventCharges
      <3>1. /\ ctr' = ctr /\ pages' = pages
            /\ charged <= charged' /\ charged' <= ctr
            /\ recorded' >= recorded /\ waived' >= waived
            /\ (recorded' - recorded) + (waived' - waived) <= charged' - charged
        BY <3>6 DEF Charged
      <3>2. ctr - charged \in Int /\ ctr' - charged' \in Int
        BY <2>3
      <3>3. (recorded' - recorded) + (waived' - waived) \in Int
        BY <2>3
      <3>4. /\ 0 <= ctr - charged' /\ ctr - charged' <= ctr - charged
            /\ (recorded' - recorded) + (waived' - waived) <= (ctr - charged) - (ctr - charged')
        BY <2>3, <3>1, <3>3, DueShrinks
      <3>5. recorded' >= recorded /\ waived' >= waived
        BY <3>1
      <3> QED BY <2>2, <2>3, <3>1, <3>2, <3>4, <3>5 DEF Account!Charge
    <2>7. CASE \/ DeviceTick \/ DeviceReboot \/ PollRead \/ Publish
               \/ TonerResetRead \/ TonerResetWrite \/ Restart \/ UNCHANGED vars
      <3>1. UNCHANGED <<ctr, charged, recorded, waived, pages>>
        BY <2>7 DEF DeviceTick, DeviceReboot, PollRead, Publish, TonerResetRead,
                    TonerResetWrite, Restart, vars, device, logs, history
      <3> QED BY <2>2, <3>1
    <2> QED BY <2>4, <2>5, <2>6, <2>7 DEF Next, Device
  <1> QED BY <1>1, <1>2

(* Each step is a print, one charge of pages that are due, a service reset or nothing
   to the account, for all thresholds, limits and numbers of faults. *)
THEOREM KeepsAccountHolds == Spec => KeepsAccount
  <1>1. Init => Account!Init
    BY LedgerAssumption DEF Init, Account!Init
  <1>2. Init => LedgerInv
    BY LedgerAssumption
       DEF Init, LedgerInv, Owed, Covered, BigReference, FreshPoll, Polled, Blank, IdleJob,
           DbFollows
  <1>3. LedgerInv /\ TypeOK /\ TypeOK' /\ [Next]_vars => LedgerInv'
    BY LedgerStep
  <1>4. LedgerInv /\ LedgerInv' /\ TypeOK /\ TypeOK' /\ [Next]_vars
            => [Account!Next]_(Account!vars)
    BY AccountStep
  <1> QED BY <1>1, <1>2, <1>3, <1>4, LedgerTypes, PTL DEF Spec, KeepsAccount, Account!Spec

(* What is recorded, skipped and still due never exceeds what was printed: the
   allowance of a charge is enough for the account to stay balanced. *)
THEOREM AccountBalanced == Account!Spec => []Account!Balanced
  <1>1. Account!Init => Account!Balanced
    BY DEF Account!Init, Account!Balanced
  <1>2. ASSUME Account!Balanced, [Account!Next]_(Account!vars) PROVE Account!Balanced'
    <2>1. CASE Account!PagesPrinted
      BY <1>2, <2>1 DEF Account!Balanced, Account!PagesPrinted
    <2>2. CASE Account!Charge
      BY <1>2, <2>2 DEF Account!Balanced, Account!Charge
    <2>3. CASE Account!Forget
      BY <1>2, <2>3 DEF Account!Balanced, Account!Forget
    <2>4. CASE Account!Withdraw
      BY <2>4 DEF Account!Balanced, Account!Withdraw
    <2>5. CASE UNCHANGED Account!vars
      BY <1>2, <2>5 DEF Account!Balanced, Account!vars
    <2> QED BY <1>2, <2>1, <2>2, <2>3, <2>4, <2>5 DEF Account!Next
  <1> QED BY <1>1, <1>2, PTL DEF Account!Spec

(* What the ledger inherits from the account: as long as only harmless caveats have
   happened, the pages of the events, the pages a baseline or a COUNTER_RESTORED
   skipped and the pages no poll has charged yet are together never more than were
   printed. In particular no page is both recorded and skipped. *)
THEOREM NeverOverdrawn ==
    Spec => [](Harmless => recorded + waived + (ctr - charged) <= pages)
  <1>1. Account!Balanced => (Harmless => recorded + waived + (ctr - charged) <= pages)
    BY DEF Account!Balanced, Harmless
  <1> QED BY <1>1, AccountBalanced, KeepsAccountHolds, PTL DEF KeepsAccount
=============================================================================
