----------------------------- MODULE BackgroundProofs -----------------------------
(***************************************************************************)
(* Proofs about the two workers that run beside the polls.                 *)
(*                                                                         *)
(* DailyStats, for any number of days, any lifetime of the rows, any size  *)
(* of a batch and any number of runs, kills and failures: the type         *)
(* invariant, that a settled day is exact, and that recent rows stay.      *)
(*                                                                         *)
(* CartridgeDiscovery, for any printers, colours and values, any numbers   *)
(* of hits and passes, any lifetimes and any number of faults: a printer   *)
(* is queued or worked on once at most, and what is learned was stable.    *)
(***************************************************************************)
EXTENDS DailyStats, CartridgeDiscovery, TLAPS

RollType == [pc : {"idle", "discover", "compute"}, day : AllDays, last : AllDays, late : BOOLEAN]

\* A retention run deletes what was old when it began.
PurgesOld ==
    purge.pc # "idle" => purge.cutoff <= reached /\ purge.cutoff + 2 * Keep <= now

\* Rows that no retention run was asked to delete are there.
UnreachedStay == \A s \in Slots : s >= reached => logs[s] = printed[s]

\* A day is settled after its last page.
SettledAreOver ==
    /\ \A d \in settled : 2 * d + 2 <= now
    /\ roll.pc = "compute" /\ roll.late => 2 * roll.day + 2 <= now

IInv ==
    /\ TypeOK /\ PurgesOld /\ UnreachedStay /\ SettledAreOver
    /\ SettledDayIsExact /\ RecentRowsStay

(* The constants. *)
LEMMA Constants ==
    /\ Days \in Nat /\ Days > 0 /\ Keep \in Nat /\ Batch \in Nat /\ None \notin Int
    /\ Slots \subseteq Nat /\ AllDays \subseteq Nat
    /\ \A d \in AllDays : 2 * d \in Slots /\ 2 * d + 1 \in Slots
  BY DailyStatsAssumption DEF Slots, AllDays

(* A day that is over has both its slots behind it. *)
LEMMA DayOver ==
    ASSUME NEW s \in Nat, NEW d \in Nat, Day(s) > d
    PROVE  2 * d + 2 <= s
  BY DEF Day

(* The pages of a day. *)
LEMMA SumType ==
    ASSUME NEW rows \in [Slots -> Nat], NEW d \in AllDays PROVE Sum(rows, d) \in Nat
  BY Constants DEF Sum

(* No run. *)
LEMMA NoRollType == NoRoll \in RollType
  BY Constants DEF NoRoll, AllDays, RollType

(* The run goes on to another day of its range, or ends. *)
LEMMA NextDayFacts ==
    ASSUME TypeOK
    PROVE  /\ NextDay(roll) \in RollType
           /\ NextDay(roll).pc # "compute"
  <1>1. CASE roll.day < roll.last
    <2>1. roll.day + 1 \in AllDays
      BY <1>1, Constants DEF TypeOK, AllDays
    <2> QED BY <1>1, <2>1 DEF TypeOK, NextDay, RollType
  <1>2. CASE ~(roll.day < roll.last)
    BY <1>2, NoRollType DEF NextDay, NoRoll
  <1> QED BY <1>1, <1>2

(* The invariant holds at first. *)
LEMMA InitIInv == Init => IInv
  <1> SUFFICES ASSUME Init PROVE IInv
    OBVIOUS
  <1>1. now = 0 /\ 0 \in Slots /\ 0 \in AllDays
    BY Constants DEF Init, Slots, AllDays
  <1>2. TypeOK
    BY <1>1 DEF Init, TypeOK, NoRoll, NoPurge
  <1> QED BY <1>2 DEF Init, IInv, PurgesOld, UnreachedStay, SettledAreOver, SettledDayIsExact,
             RecentRowsStay, NoRoll, NoPurge
-----------------------------------------------------------------------------
(* The world: time and pages. *)

(* Time passes. *)
LEMMA TickStep == ASSUME IInv, Tick PROVE IInv'
  <1> USE DEF IInv, Tick
  <1>1. now \in Nat /\ now' = now + 1 /\ now' \in Slots /\ Keep \in Nat
    BY Constants DEF TypeOK
  <1>2. TypeOK'
    BY <1>1 DEF TypeOK, history
  <1>3. PurgesOld'
    BY <1>1 DEF PurgesOld, history, TypeOK
  <1>4. UnreachedStay' /\ SettledDayIsExact'
    BY DEF UnreachedStay, SettledDayIsExact, history
  <1>5. SettledAreOver'
    <2>1. settled' = settled /\ roll' = roll /\ settled \subseteq Nat /\ roll.day \in Nat
      BY Constants DEF history, TypeOK
    <2>2. \A n \in Nat : 2 * n + 2 <= now => 2 * n + 2 <= now'
      BY <1>1
    <2> QED BY <2>1, <2>2 DEF SettledAreOver
  <1>6. RecentRowsStay'
    BY <1>1, Constants DEF RecentRowsStay, history
  <1> QED BY <1>2, <1>3, <1>4, <1>5, <1>6

(* A page is printed and logged in the current slot, which is in no settled day. *)
LEMMA PagePrintedStep == ASSUME IInv, PagePrinted PROVE IInv'
  <1> USE DEF IInv, PagePrinted
  <1>1. /\ now \in Slots /\ now \in Nat
        /\ logs' \in [Slots -> Nat] /\ printed' \in [Slots -> Nat]
        /\ \A s \in Slots : /\ s # now => logs'[s] = logs[s] /\ printed'[s] = printed[s]
                            /\ s = now => logs'[s] = logs[s] + 1 /\ printed'[s] = printed[s] + 1
    BY Constants DEF TypeOK
  <1>2. TypeOK'
    BY <1>1 DEF TypeOK
  <1>3. PurgesOld' /\ SettledAreOver'
    BY DEF PurgesOld, SettledAreOver
  <1>4. UnreachedStay' /\ RecentRowsStay'
    BY <1>1 DEF UnreachedStay, RecentRowsStay, TypeOK
  <1>5. ASSUME NEW d \in settled', 2 * d >= reached'
        PROVE  stats'[d] = printed'[2 * d] + printed'[2 * d + 1]
    <2>1. d \in AllDays /\ d \in Nat /\ 2 * d \in Slots /\ 2 * d + 1 \in Slots /\ 2 * d + 2 <= now
      BY <1>5, Constants DEF TypeOK, SettledAreOver
    <2>2. 2 * d # now /\ 2 * d + 1 # now
      BY <1>1, <2>1
    <2> QED BY <1>1, <1>5, <2>1, <2>2 DEF SettledDayIsExact
  <1> QED BY <1>2, <1>3, <1>4, <1>5 DEF SettledDayIsExact
-----------------------------------------------------------------------------
(* The statistics. *)

(* A step of the statistics that writes no sum. *)
LEMMA RollSteps ==
    ASSUME IInv, UNCHANGED <<now, logs, stats, purge, swept, history>>,
           roll' \in RollType,
           roll'.pc = "compute" /\ roll'.late => 2 * roll'.day + 2 <= now
    PROVE  IInv'
  <1> USE DEF IInv, history
  <1>1. TypeOK'
    BY DEF TypeOK, RollType
  <1>2. SettledAreOver'
    BY DEF SettledAreOver
  <1> QED BY <1>1, <1>2 DEF PurgesOld, UnreachedStay, SettledDayIsExact, RecentRowsStay

(* A run begins with its first day. *)
LEMMA RollStartStep ==
    ASSUME IInv, NEW first \in AllDays, NEW last \in AllDays, RollStart(first, last)
    PROVE  IInv'
  <1>1. roll' = [pc |-> "discover", day |-> first, last |-> last, late |-> FALSE]
    BY DEF RollStart, NoRoll
  <1>2. roll' \in RollType
        /\ roll'.pc # "compute"
    BY <1>1 DEF RollType
  <1> QED BY <1>2, RollSteps DEF RollStart

(* A day is taken up, and counts as late if it is over; or it is passed over. *)
LEMMA RollDiscoverStep == ASSUME IInv, RollDiscover PROVE IInv'
  <1>1. CASE roll' = NextDay(roll)
    BY <1>1, NextDayFacts, RollSteps DEF RollDiscover, IInv
  <1>2. CASE roll' = [roll EXCEPT !.pc = "compute", !.late = Day(now) > roll.day]
    <2>1. now \in Nat /\ roll.day \in Nat
      BY Constants DEF IInv, TypeOK
    <2>2. /\ roll' \in RollType
          /\ roll'.late = (Day(now) > roll.day) /\ roll'.day = roll.day
      <3>1. roll \in RollType
        BY DEF IInv, TypeOK, RollType
      <3>2. (Day(now) > roll.day) \in BOOLEAN
        OBVIOUS
      <3> QED BY <1>2, <3>1, <3>2 DEF RollType
    <2>3. roll'.late => 2 * roll'.day + 2 <= now
      BY <2>1, <2>2, DayOver
    <2> QED BY <2>2, <2>3, RollSteps DEF RollDiscover
  <1> QED BY <1>1, <1>2 DEF RollDiscover

(* The sum is read when it is written: it is exact while no retention run was asked to
   delete rows of the day. *)
LEMMA RollComputeStep == ASSUME IInv, RollCompute PROVE IInv'
  <1> USE DEF IInv, RollCompute
  <1>1. /\ roll.day \in AllDays /\ roll.day \in Nat
        /\ 2 * roll.day \in Slots /\ 2 * roll.day + 1 \in Slots
        /\ now \in Nat /\ reached \in Nat
    BY Constants DEF TypeOK
  <1>2. TypeOK'
    BY <1>1, SumType, NextDayFacts DEF TypeOK, RollType
  <1>3. PurgesOld' /\ UnreachedStay' /\ RecentRowsStay'
    BY DEF PurgesOld, UnreachedStay, RecentRowsStay
  <1>4. SettledAreOver'
    BY NextDayFacts DEF SettledAreOver
  <1>5. ASSUME NEW d \in settled', 2 * d >= reached'
        PROVE  stats'[d] = printed'[2 * d] + printed'[2 * d + 1]
    <2>1. CASE d = roll.day
      <3>1. logs[2 * d] = printed[2 * d] /\ logs[2 * d + 1] = printed[2 * d + 1]
        BY <1>1, <1>5, <2>1 DEF UnreachedStay
      <3>2. stats'[d] = Sum(logs, d)
        BY <1>1, <2>1 DEF TypeOK
      <3> QED BY <3>1, <3>2 DEF Sum
    <2>2. CASE d # roll.day
      <3>1. d \in settled /\ d \in AllDays
        BY <1>5, <2>2 DEF TypeOK
      <3>2. stats'[d] = stats[d]
        BY <2>2, <3>1 DEF TypeOK
      <3> QED BY <1>5, <3>1, <3>2 DEF SettledDayIsExact
    <2> QED BY <2>1, <2>2
  <1> QED BY <1>2, <1>3, <1>4, <1>5 DEF SettledDayIsExact
-----------------------------------------------------------------------------
(* The retention policy. *)

(* A run names what it will delete before it deletes it. *)
LEMMA PurgeStartStep == ASSUME IInv, PurgeStart PROVE IInv'
  <1> USE DEF IInv, PurgeStart
  <1>1. now \in Nat /\ Keep \in Nat /\ reached \in Nat /\ now - 2 * Keep > 0
    BY Constants DEF TypeOK, Cutoff
  <1>2. /\ reached' \in Nat /\ reached' >= reached /\ reached' >= now - 2 * Keep
        /\ purge' = [pc |-> "logs", cutoff |-> now - 2 * Keep]
    BY <1>1 DEF Cutoff
  <1>3. TypeOK'
    BY <1>1, <1>2 DEF TypeOK
  <1>4. PurgesOld'
    BY <1>1, <1>2 DEF PurgesOld
  <1>5. UnreachedStay' /\ SettledDayIsExact'
    <2>1. \A s \in Slots : s >= reached' => s >= reached
      BY <1>1, <1>2, Constants
    <2>2. \A d \in settled : 2 * d >= reached' => 2 * d >= reached
      BY <1>1, <1>2, Constants DEF TypeOK
    <2> QED BY <2>1, <2>2 DEF UnreachedStay, SettledDayIsExact
  <1>6. SettledAreOver' /\ RecentRowsStay'
    BY DEF SettledAreOver, RecentRowsStay
  <1> QED BY <1>3, <1>4, <1>5, <1>6

(* Only rows before the cutoff are deleted. *)
LEMMA PurgeBatchStep == ASSUME IInv, PurgeBatch PROVE IInv'
  <1> USE DEF IInv, PurgeBatch
  <1>1. PICK s \in Expired, n \in 1 .. Batch : Deleted(s, n)
    OBVIOUS
  <1>2. /\ s \in Slots /\ s \in Nat /\ s < purge.cutoff /\ purge.cutoff \in Nat
        /\ s < reached /\ s + 2 * Keep < now
    BY Constants DEF Expired, TypeOK, PurgesOld
  <1>3. logs' \in [Slots -> Nat] /\ \A z \in Slots : z # s => logs'[z] = logs[z]
    <2>1. logs[s] \in Nat /\ n \in Nat /\ n <= logs[s]
      BY <1>1, <1>2, Constants DEF Deleted, TypeOK
    <2> QED BY <1>1, <1>2, <2>1 DEF Deleted, TypeOK
  <1>4. TypeOK'
    BY <1>3 DEF TypeOK, history
  <1>5. UnreachedStay' /\ RecentRowsStay'
    BY <1>2, <1>3, Constants DEF UnreachedStay, RecentRowsStay, history, TypeOK
  <1> QED BY <1>4, <1>5 DEF PurgesOld, SettledAreOver, SettledDayIsExact, history

(* The end of a run, of either kind, or the end of a table. *)
LEMMA EndStep == ASSUME IInv, PurgeLogsDone \/ PurgeSnapshots \/ Killed PROVE IInv'
  <1> USE DEF IInv
  <1>1. /\ UNCHANGED <<now, logs, stats, history>>
        /\ roll' = roll \/ roll' = NoRoll
        /\ purge' = NoPurge \/ (purge'.cutoff = purge.cutoff /\ purge.pc # "idle"
                                /\ purge' = [purge EXCEPT !.pc = "snapshots"])
           \/ purge' = purge
        /\ swept' \in Nat
    BY DEF PurgeLogsDone, PurgeSnapshots, Killed, TypeOK
  <1>2. TypeOK'
    <2>1. roll \in RollType
      BY DEF TypeOK, RollType
    <2>2. roll' \in RollType
      BY <1>1, <2>1, NoRollType
    <2>3. purge' \in [pc : {"idle", "logs", "snapshots"}, cutoff : Nat]
      BY <1>1 DEF TypeOK, NoPurge
    <2> QED BY <1>1, <2>2, <2>3 DEF TypeOK, history, RollType
  <1>3. PurgesOld' /\ SettledAreOver'
    BY <1>1 DEF PurgesOld, SettledAreOver, history, NoRoll, NoPurge
  <1>4. UnreachedStay' /\ SettledDayIsExact' /\ RecentRowsStay'
    BY <1>1 DEF UnreachedStay, SettledDayIsExact, RecentRowsStay, history
  <1> QED BY <1>2, <1>3, <1>4
-----------------------------------------------------------------------------

(* All steps together. *)
LEMMA Inductive == Spec => []IInv
  <1>1. IInv /\ UNCHANGED vars => IInv'
    BY DEF vars, history, IInv, TypeOK, PurgesOld, UnreachedStay, SettledAreOver,
       SettledDayIsExact, RecentRowsStay
  <1>2. IInv /\ [Next]_vars => IInv'
    BY <1>1, TickStep, PagePrintedStep, RollStartStep, RollDiscoverStep, RollComputeStep,
       PurgeStartStep, PurgeBatchStep, EndStep DEF Next
  <1> QED BY <1>2, InitIInv, PTL DEF Spec

(* The state of rollup and retention is well typed. *)
THEOREM StatsTypes == Spec => []TypeOK
  BY Inductive, PTL DEF IInv

(* A day that was summed after it had ended holds all its pages until a retention run is
   asked to delete rows of it, whatever ran twice, late, partly or was killed. *)
THEOREM SettledDayIsExactHolds == Spec => []SettledDayIsExact
  BY Inductive, PTL DEF IInv

(* No retention run deletes a row that is younger than the lifetime of logs. *)
THEOREM RecentRowsStayHolds == Spec => []RecentRowsStay
  BY Inductive, PTL DEF IInv
-----------------------------------------------------------------------------
(* The discovery of cartridge identities. *)

QueueType == queue \in Seq(Printers) /\ queued \subseteq Printers
JobType == [pc : {"probe", "end"}, ip : Printers, pass : Nat, ok : SUBSET Colours]
WorkType == work = Idle \/ work \in JobType
SeenType == [value : Values \cup {NoValue}, hits : 0 .. Hits]
CountsType ==
    /\ stability \in [Printers -> [Colours -> SeenType]]
    /\ runs \in [Printers -> [Colours -> SeenType]]
FileType == file \in [Printers -> SUBSET Colours]

Types == QueueType /\ WorkType /\ CountsType /\ FileType

\* Who waits or is worked on is still in the set that keeps others from being queued.
JobsAreQueued ==
    /\ \A i \in 1 .. Len(queue) : queue[i] \in queued
    /\ work.pc # "idle" => work.ip \in queued

\* A stability count is not ahead of the walks that saw its value.
Ran(p, c) ==
    stability[p][c].hits > 0 =>
        /\ stability[p][c].value # NoValue
        /\ runs[p][c].value = stability[p][c].value
        /\ runs[p][c].hits >= stability[p][c].hits
CountsRan == \A p \in Printers, c \in Colours : Ran(p, c)

\* What the worker holds to be confirmed is so by the counts.
ConfirmedCounts ==
    work.pc # "idle" => \A c \in work.ok : stability[work.ip][c].hits = Hits

DiscoveryInv == Types /\ OneJobEach /\ JobsAreQueued /\ CountsRan /\ ConfirmedCounts

(* The constants. *)
LEMMA DiscoveryConstants ==
    /\ Hits \in Nat /\ Hits > 0 /\ Passes \in Nat /\ Passes >= Hits /\ NoValue \notin Values
  BY DiscoveryAssumption

(* No job, and a job. *)
LEMMA WorkFacts ==
    ASSUME Types
    PROVE  /\ Idle.pc = "idle" /\ (work.pc = "idle" <=> work = Idle)
           /\ work.pc # "idle" => work \in JobType /\ work.ip \in Printers /\ work.ok \subseteq Colours
  BY DEF Types, WorkType, JobType, Idle

(* Nothing seen. *)
LEMMA NoneSeenFacts ==
    /\ NoneSeen \in [Colours -> SeenType]
    /\ \A c \in Colours : NoneSeen[c].hits = 0
  BY DiscoveryConstants DEF NoneSeen, SeenType

(* The next count of a colour and the next run of its value. *)
LEMMA SeenFacts ==
    ASSUME NEW e \in SeenType, NEW r \in SeenType, NEW v \in Values \cup {NoValue},
           e.hits > 0 => e.value # NoValue /\ r.value = e.value /\ r.hits >= e.hits
    PROVE  /\ Stable(e, v) \in SeenType /\ Run(r, v) \in SeenType
           /\ Stable(e, v).hits > 0 => /\ Stable(e, v).value # NoValue
                                       /\ Run(r, v).value = Stable(e, v).value
                                       /\ Run(r, v).hits >= Stable(e, v).hits
  <1>1. e.hits \in 0 .. Hits /\ r.hits \in 0 .. Hits /\ Hits \in Nat /\ Hits > 0
    BY DiscoveryConstants DEF SeenType
  <1>2. Run(r, v) \in SeenType /\ Run(r, v).value = v /\ Run(r, v).hits >= 1
        /\ (r.value = v => Run(r, v).hits = IF r.hits < Hits THEN r.hits + 1 ELSE Hits)
    BY <1>1 DEF Run, SeenType
  <1>3. CASE v = NoValue
    BY <1>1, <1>2, <1>3 DEF Stable, SeenType
  <1>4. CASE v # NoValue /\ e.value = v
    <2>1. /\ Stable(e, v) \in SeenType /\ Stable(e, v).value = v
          /\ Stable(e, v).hits = IF e.hits < Hits THEN e.hits + 1 ELSE Hits
      BY <1>1, <1>4 DEF Stable, SeenType
    <2>2. CASE e.hits > 0
      BY <1>1, <1>2, <1>4, <2>1, <2>2
    <2>3. CASE e.hits = 0
      BY <1>1, <1>2, <1>4, <2>1, <2>3
    <2> QED BY <1>1, <2>2, <2>3
  <1>5. CASE v # NoValue /\ e.value # v
    BY <1>1, <1>2, <1>5 DEF Stable, SeenType
  <1> QED BY <1>3, <1>4, <1>5

(* The invariant holds at first. *)
LEMMA DiscoveryInitInv == DiscoveryInit => DiscoveryInv
  <1> SUFFICES ASSUME DiscoveryInit PROVE DiscoveryInv
    OBVIOUS
  <1>1. /\ queue = <<>> /\ queued = {} /\ work = Idle /\ file = [p \in Printers |-> {}]
        /\ stability = [p \in Printers |-> NoneSeen] /\ runs = [p \in Printers |-> NoneSeen]
    BY DEF DiscoveryInit
  <1>2. Types
    BY <1>1, NoneSeenFacts DEF Types, QueueType, WorkType, CountsType, FileType
  <1>3. CountsRan
    BY <1>1, NoneSeenFacts DEF CountsRan, Ran
  <1>4. OneJobEach /\ JobsAreQueued /\ ConfirmedCounts
    BY <1>1 DEF OneJobEach, JobsAreQueued, ConfirmedCounts, Idle
  <1> QED BY <1>2, <1>3, <1>4 DEF DiscoveryInv
-----------------------------------------------------------------------------
(* The polls. *)

(* A printer is queued behind the others, or nothing is. *)
LEMMA QueueStep ==
    ASSUME DiscoveryInv, NEW p \in Printers,
           QueueDiscovery(p) \/ UNCHANGED <<queue, queued>>,
           UNCHANGED <<file, work, stability, runs>>
    PROVE  DiscoveryInv'
  <1>1. WorkType' /\ CountsType' /\ FileType' /\ CountsRan' /\ ConfirmedCounts'
    BY DEF DiscoveryInv, Types, WorkType, CountsType, FileType, CountsRan, Ran, ConfirmedCounts
  <1>2. QueueType' /\ OneJobEach' /\ JobsAreQueued'
    <2>1. CASE UNCHANGED <<queue, queued>>
      BY <2>1 DEF DiscoveryInv, Types, QueueType, OneJobEach, JobsAreQueued
    <2>2. CASE QueueDiscovery(p) /\ p \notin queued /\ queue' = Append(queue, p)
               /\ queued' = queued \cup {p}
      <3>1. queue \in Seq(Printers) /\ queued \subseteq Printers
        BY DEF DiscoveryInv, Types, QueueType
      <3>2. /\ queue' \in Seq(Printers) /\ Len(queue) \in Nat /\ Len(queue') = Len(queue) + 1
            /\ queue'[Len(queue')] = p
            /\ \A i \in 1 .. Len(queue) : queue'[i] = queue[i]
        BY <2>2, <3>1
      <3>3. \A i \in 1 .. Len(queue) : queue[i] # p
        BY <2>2 DEF DiscoveryInv, JobsAreQueued
      <3>4. QueueType'
        BY <2>2, <3>1, <3>2 DEF QueueType
      <3>5. JobsAreQueued'
        BY <2>2, <3>2 DEF DiscoveryInv, JobsAreQueued
      <3>6. ASSUME NEW i \in 1 .. Len(queue'), NEW j \in 1 .. Len(queue'), queue'[i] = queue'[j]
            PROVE  i = j
        BY <3>2, <3>3, <3>6 DEF DiscoveryInv, OneJobEach
      <3>7. work.pc # "idle" => \A i \in 1 .. Len(queue') : queue'[i] # work.ip
        BY <2>2, <3>2 DEF DiscoveryInv, OneJobEach, JobsAreQueued
      <3> QED BY <3>4, <3>5, <3>6, <3>7 DEF OneJobEach
    <2> QED BY <2>1, <2>2 DEF QueueDiscovery, MayQueue
  <1> QED BY <1>1, <1>2 DEF DiscoveryInv, Types

(* A poll, or time that passes. *)
LEMMA PollStep == ASSUME DiscoveryInv, DiscoveryTick \/ \E p \in Printers : Poll(p) PROVE DiscoveryInv'
  <1>1. CASE DiscoveryTick
    BY <1>1 DEF DiscoveryTick, DiscoveryInv, Types, QueueType, WorkType, CountsType, FileType,
       OneJobEach, JobsAreQueued, CountsRan, Ran, ConfirmedCounts
  <1>2. ASSUME NEW p \in Printers, Poll(p) PROVE DiscoveryInv'
    BY <1>2, QueueStep DEF Poll, PollKept, PollAsk, PollAnswered
  <1> QED BY <1>1, <1>2
-----------------------------------------------------------------------------
(* The worker. *)

(* The worker takes the head of the queue, which is nowhere else in it. *)
LEMMA TakesStep == ASSUME DiscoveryInv, WorkerTakes PROVE DiscoveryInv'
  <1> USE DEF WorkerTakes
  <1>1. queue \in Seq(Printers) /\ queued \subseteq Printers /\ queue # <<>>
    BY DEF DiscoveryInv, Types, QueueType
  <1>2. /\ Len(queue) \in Nat /\ Len(queue) > 0 /\ Head(queue) = queue[1]
        /\ queue' \in Seq(Printers) /\ Len(queue') = Len(queue) - 1
        /\ \A i \in 1 .. Len(queue') : queue'[i] = queue[i + 1] /\ i + 1 \in 1 .. Len(queue)
    BY <1>1
  <1>3. /\ work' \in JobType /\ work'.ip = queue[1] /\ work'.ok = {} /\ work'.pc = "probe"
    BY <1>1, <1>2 DEF JobType
  <1>4. Types'
    BY <1>1, <1>2, <1>3 DEF DiscoveryInv, Types, QueueType, WorkType, CountsType, FileType
  <1>5. JobsAreQueued'
    BY <1>2, <1>3 DEF DiscoveryInv, JobsAreQueued
  <1>6. OneJobEach'
    <2>1. \A i, j \in 1 .. Len(queue) : queue[i] = queue[j] => i = j
      BY DEF DiscoveryInv, OneJobEach
    <2>2. \A i, j \in 1 .. Len(queue') : queue'[i] = queue'[j] => i = j
      BY <1>2, <2>1
    <2>3. \A i \in 1 .. Len(queue') : queue'[i] # work'.ip
      BY <1>2, <1>3, <2>1
    <2> QED BY <2>2, <2>3 DEF OneJobEach
  <1>7. CountsRan' /\ ConfirmedCounts'
    BY <1>3 DEF DiscoveryInv, CountsRan, Ran, ConfirmedCounts
  <1> QED BY <1>4, <1>5, <1>6, <1>7 DEF DiscoveryInv

(* The worker goes on with its printer, or is done with it: the queue is the same. *)
LEMMA WorkerKeepsQueue ==
    ASSUME DiscoveryInv, work.pc # "idle", UNCHANGED <<queue, queued>>,
           work' = Idle \/ (work' \in JobType /\ work'.ip = work.ip)
    PROVE  QueueType' /\ WorkType' /\ OneJobEach' /\ JobsAreQueued'
  BY DEF DiscoveryInv, Types, QueueType, WorkType, OneJobEach, JobsAreQueued, Idle

(* The next pass, or the end. *)
LEMMA NextPassFacts ==
    ASSUME DiscoveryInv, work.pc # "idle", NEW ok \in SUBSET Colours, NextPass(ok)
    PROVE  work' \in JobType /\ work'.ip = work.ip /\ work'.ok = ok
  <1>1. work \in JobType /\ work.pass \in Nat
    BY WorkFacts DEF DiscoveryInv, JobType
  <1>2. PICK pass \in Nat, pc \in {"probe", "end"} :
            work' = [work EXCEPT !.ok = ok, !.pass = pass, !.pc = pc]
    <2>1. (IF work.pass < Passes THEN work.pass + 1 ELSE work.pass) \in Nat
      BY <1>1
    <2> QED BY <1>1, <2>1 DEF NextPass, JobType
  <1> QED BY <1>1, <1>2 DEF JobType

(* A walk that found nothing. *)
LEMMA NothingStep == ASSUME DiscoveryInv, ProbeNothing PROVE DiscoveryInv'
  <1>1. work.pc # "idle" /\ UNCHANGED <<queue, queued, file, stability, runs>>
    BY DEF ProbeNothing
  <1>2. work' \in JobType /\ work'.ip = work.ip /\ work'.ok = {}
    BY <1>1, NextPassFacts DEF ProbeNothing
  <1>3. CountsType' /\ FileType' /\ CountsRan' /\ ConfirmedCounts'
    BY <1>1, <1>2 DEF DiscoveryInv, Types, CountsType, FileType, CountsRan, Ran, ConfirmedCounts
  <1> QED BY <1>1, <1>2, <1>3, WorkerKeepsQueue DEF DiscoveryInv, Types

(* A walk that found something: counts and runs go on together. *)
LEMMA FindsStep == ASSUME DiscoveryInv, ProbeFinds PROVE DiscoveryInv'
  <1>1. PICK seen \in Sights(work.ip) :
            /\ stability' = [stability EXCEPT ![work.ip] = [c \in Colours |-> Stable(@[c], seen[c])]]
            /\ runs' = [runs EXCEPT ![work.ip] = [c \in Colours |-> Run(@[c], seen[c])]]
    BY DEF ProbeFinds
  <1>2. /\ work.pc # "idle" /\ work.ip \in Printers
        /\ stability \in [Printers -> [Colours -> SeenType]]
        /\ runs \in [Printers -> [Colours -> SeenType]]
        /\ seen \in [Colours -> Values \cup {NoValue}]
    BY WorkFacts DEF ProbeFinds, DiscoveryInv, Types, CountsType, Sights
  <1> DEFINE Counted(c) == Stable(stability[work.ip][c], seen[c])
             Followed(c) == Run(runs[work.ip][c], seen[c])
  <1>3. \A c \in Colours :
            /\ Counted(c) \in SeenType /\ Followed(c) \in SeenType
            /\ Counted(c).hits > 0 => /\ Counted(c).value # NoValue
                                      /\ Followed(c).value = Counted(c).value
                                      /\ Followed(c).hits >= Counted(c).hits
    <2> TAKE c \in Colours
    <2>1. stability[work.ip][c] \in SeenType /\ runs[work.ip][c] \in SeenType
          /\ seen[c] \in Values \cup {NoValue}
      BY <1>2
    <2>2. Ran(work.ip, c)
      BY <1>2 DEF DiscoveryInv, CountsRan
    <2> QED BY <2>1, <2>2, SeenFacts DEF Ran
  <1>4. /\ \A c \in Colours : stability'[work.ip][c] = Counted(c) /\ runs'[work.ip][c] = Followed(c)
        /\ \A p \in Printers \ {work.ip} : stability'[p] = stability[p] /\ runs'[p] = runs[p]
    BY <1>1, <1>2
  <1>5. CountsType'
    <2>1. [c \in Colours |-> Counted(c)] \in [Colours -> SeenType]
          /\ [c \in Colours |-> Followed(c)] \in [Colours -> SeenType]
      BY <1>3
    <2> QED BY <1>1, <1>2, <2>1 DEF CountsType
  <1>6. CountsRan'
    BY <1>3, <1>4 DEF DiscoveryInv, CountsRan, Ran
  <1>7. work' \in JobType /\ work'.ip = work.ip
        /\ work'.ok = {c \in Colours : stability'[work.ip][c].hits = Hits}
    BY <1>2, NextPassFacts DEF ProbeFinds
  <1>8. FileType' /\ ConfirmedCounts'
    BY <1>7 DEF DiscoveryInv, Types, FileType, ConfirmedCounts, ProbeFinds
  <1>9. QueueType' /\ WorkType' /\ OneJobEach' /\ JobsAreQueued'
    BY <1>2, <1>7, WorkerKeepsQueue DEF ProbeFinds
  <1> QED BY <1>5, <1>6, <1>8, <1>9 DEF DiscoveryInv, Types

(* The end of a job, and the queue that is forgotten when it is empty. *)
LEMMA DiscoveryEndStep ==
    ASSUME DiscoveryInv, WorkerSaves \/ WorkerCannotSave \/ WorkerGivesUp PROVE DiscoveryInv'
  <1>1. work.pc # "idle" /\ work' = Idle /\ UNCHANGED <<queue, queued, runs>>
    BY DEF WorkerSaves, WorkerCannotSave, WorkerGivesUp
  <1>2. work.ip \in Printers /\ work.ok \subseteq Colours
    BY <1>1, WorkFacts DEF DiscoveryInv
  <1>3. FileType'
    BY <1>2 DEF DiscoveryInv, Types, FileType, WorkerSaves, WorkerCannotSave, WorkerGivesUp
  <1>4. stability' = stability \/ stability' = [stability EXCEPT ![work.ip] = NoneSeen]
    BY DEF WorkerSaves, WorkerCannotSave, WorkerGivesUp
  <1>5. CountsType' /\ CountsRan'
    <2>1. CASE stability' = stability
      BY <1>1, <2>1 DEF DiscoveryInv, Types, CountsType, CountsRan, Ran
    <2>2. CASE stability' = [stability EXCEPT ![work.ip] = NoneSeen]
      BY <1>1, <1>2, <2>2, NoneSeenFacts DEF DiscoveryInv, Types, CountsType, CountsRan, Ran
    <2> QED BY <1>4, <2>1, <2>2
  <1>6. ConfirmedCounts'
    BY <1>1 DEF ConfirmedCounts, Idle
  <1> QED BY <1>1, <1>3, <1>5, <1>6, WorkerKeepsQueue DEF DiscoveryInv, Types

(* An empty queue forgets who was in it, and nobody is. *)
LEMMA EmptiesStep == ASSUME DiscoveryInv, WorkerEmpties PROVE DiscoveryInv'
  BY DEF WorkerEmpties, DiscoveryInv, Types, QueueType, WorkType, CountsType, FileType, OneJobEach,
     JobsAreQueued, CountsRan, Ran, ConfirmedCounts
-----------------------------------------------------------------------------

(* All steps together. *)
LEMMA DiscoveryInductive == DiscoverySpec => []DiscoveryInv
  <1>1. DiscoveryInv /\ UNCHANGED discovery => DiscoveryInv'
    BY DEF discovery, DiscoveryInv, Types, QueueType, WorkType, CountsType, FileType, OneJobEach,
       JobsAreQueued, CountsRan, Ran, ConfirmedCounts
  <1>2. DiscoveryInv /\ [DiscoveryNext]_discovery => DiscoveryInv'
    BY <1>1, PollStep, TakesStep, NothingStep, FindsStep, DiscoveryEndStep, EmptiesStep
       DEF DiscoveryNext, Worker
  <1> QED BY <1>2, DiscoveryInitInv, PTL DEF DiscoverySpec

(* A printer is in the queue or at the worker once at most, for any number of printers and
   whatever their polls ask. *)
THEOREM OneJobEachHolds == DiscoverySpec => []OneJobEach
  BY DiscoveryInductive, PTL DEF DiscoveryInv

(* Only the end of a job writes the file, and only what was confirmed. *)
LEMMA LearnsConfirmed ==
    ASSUME DiscoveryInv, [DiscoveryNext]_discovery, NEW p \in Printers, NEW c \in file'[p] \ file[p]
    PROVE  work.pc # "idle" /\ work.ip = p /\ c \in work.ok
  <1>1. WorkerSaves
    BY DEF DiscoveryNext, discovery, Worker, Poll, DiscoveryTick, PollKept, PollAsk, PollAnswered,
       WorkerTakes, WorkerEmpties, ProbeNothing, ProbeFinds, WorkerCannotSave, WorkerGivesUp
  <1>2. work.pc # "idle" /\ work.ip \in Printers /\ file \in [Printers -> SUBSET Colours]
    BY <1>1, WorkFacts DEF WorkerSaves, DiscoveryInv, Types, FileType
  <1> QED BY <1>1, <1>2 DEF WorkerSaves

(* An identity is learned only after the last walks that found anything all saw its value,
   however sessions, printers and faults interleave. *)
THEOREM LearnedWasStableHolds == DiscoverySpec => LearnedWasStable
  <1>1. ASSUME DiscoveryInv, [DiscoveryNext]_discovery, NEW p \in Printers, NEW c \in file'[p] \ file[p]
        PROVE  runs[p][c].value # NoValue /\ runs[p][c].hits = Hits
    <2>1. work.pc # "idle" /\ work.ip = p /\ c \in work.ok /\ c \in Colours
      BY <1>1, LearnsConfirmed, WorkFacts DEF DiscoveryInv
    <2>2. stability[p][c].hits = Hits
      <3>1. ConfirmedCounts
        BY <1>1 DEF DiscoveryInv
      <3> QED BY <2>1, <3>1 DEF ConfirmedCounts
    <2>3. runs[p][c] \in SeenType /\ Ran(p, c)
      BY <1>1, <2>1 DEF DiscoveryInv, Types, CountsType, CountsRan
    <2>4. runs[p][c].value # NoValue /\ runs[p][c].hits >= Hits
      BY <2>2, <2>3, DiscoveryConstants DEF Ran
    <2>5. runs[p][c].hits \in 0 .. Hits
      BY <2>3 DEF SeenType
    <2> QED BY <2>4, <2>5, DiscoveryConstants
  <1>2. DiscoveryInv /\ [DiscoveryNext]_discovery =>
            [\A p \in Printers : \A c \in file'[p] \ file[p] : runs[p][c].value # NoValue
                                                            /\ runs[p][c].hits = Hits]_discovery
    BY <1>1
  <1> QED BY <1>2, DiscoveryInductive, PTL DEF DiscoverySpec, LearnedWasStable
=============================================================================
