------------------------------ MODULE PollerProofs ------------------------------
(***************************************************************************)
(* Proofs about Poller for any number of addresses, devices and faults:    *)
(* one thread at most works on the baseline of an address, what it read is *)
(* still there when it writes, a removal forgets, the logged pages were    *)
(* printed and an offline report has waited for the grace window.          *)
(***************************************************************************)
EXTENDS Poller, TLAPS

\* The lock of an address has one holder.
OneHolder ==
    \A ip \in Ips : \A t, u \in Threads :
        job[ip][t].phase \in Locked /\ job[ip][u].phase \in Locked => t = u

\* A poll that is past the counters has read them.
HasReading ==
    \A ip \in Ips, t \in Threads :
        job[ip][t].phase \in {"prev", "record"} => job[ip][t].reading # None

\* An address whose check is pending has been listed once more at most.
CheckedOnce == \A ip \in Ips : request[ip] = "checked" => printers[ip] <= 1

JobType == job \in [Ips -> [Threads -> Jobs]]

LEMMA ConstType ==
    /\ None \notin {"online", "offline"} /\ None \notin Readings
    /\ GraceCycles \in Nat /\ GraceCycles >= 1 /\ SilentIsSlow \in BOOLEAN
    /\ \A d \in Devices : FirstCounter[d] \in Nat
  BY PollerAssumption DEF Readings

(* The jobs a thread can be given. *)
LEMMA JobTypes ==
    /\ Idle \in Jobs
    /\ \A ip \in Ips : Begin(ip) \in Jobs
    /\ \A s \in Shown : Answer(s) \in Jobs
  BY DEF Idle, Begin, Answer, Jobs, Phases, Locked, Shown

LEMMA StepType ==
    ASSUME JobType, NEW ip \in Ips, NEW t \in Threads, NEW j \in Jobs, Step(ip, t, j)
    PROVE  /\ JobType'
           /\ job'[ip][t] = j
           /\ \A p \in Ips, u \in Threads : p # ip \/ u # t => job'[p][u] = job[p][u]
  <1>1. job' = [job EXCEPT ![ip] = [job[ip] EXCEPT ![t] = j]]
    BY DEF Step, JobType
  <1>2. [job[ip] EXCEPT ![t] = j] \in [Threads -> Jobs]
    BY DEF JobType
  <1> QED BY <1>1, <1>2 DEF JobType

LEMMA SpendType ==
    ASSUME budget \in [Faults -> Nat], NEW f \in Faults, Spend(f)
    PROVE  budget' \in [Faults -> Nat]
  BY DEF Spend

Frame == UNCHANGED <<printers, request, dev, data, cycle, printed, caveats>>

(* What every step of a thread in collect has in common: the other threads and what *)
(* the API, the devices and the cycle write stay, no lock is taken on the way. *)
LEMMA CollectStep ==
    ASSUME TypeOK, HasReading, NEW ip \in Ips, NEW t \in Threads, Collect(ip, t)
    PROVE  /\ Frame
           /\ job[ip][t].phase # "idle"
           /\ \E j \in Jobs :
                 /\ Step(ip, t, j)
                 /\ j.phase # "idle"
                 /\ j.phase \in Locked => job[ip][t].phase \in Locked
                 /\ j.phase \in {"prev", "record"} => j.reading # None
  <1> DEFINE old == job[ip][t]
             Fits(j) == /\ j \in Jobs /\ Step(ip, t, j) /\ j.phase # "idle"
                        /\ j.phase \in Locked => old.phase \in Locked
                        /\ j.phase \in {"prev", "record"} => j.reading # None
  <1>1. old \in Jobs /\ data[ip] \in Shown /\ dev[ip].id \in Devices /\ dev[ip].n \in Nat
        /\ base[ip] \in Readings \cup {None} /\ dev[ip].state \in {"up", "restricted", "down"}
    BY DEF TypeOK
  <1>2. \A s \in Shown : Answer(s) \in Jobs /\ Answer(s).phase = "done"
    BY JobTypes DEF Answer, Idle
  <1>3. "online" \in Shown /\ "offline" \in Shown
    BY DEF Shown
  <1> HIDE DEF old
  <1>4. SUFFICES Frame /\ old.phase # "idle" /\ \E j \in Jobs : Fits(j)
    BY DEF old
  <1>5. CASE SkipConcurrent(ip, t)
    <2> DEFINE j == Answer(IF data[ip] = None THEN "online" ELSE data[ip])
    <2>1. j \in Jobs /\ j.phase = "done"
      BY <1>1, <1>2, <1>3
    <2>2. Fits(j)
      BY <1>5, <2>1 DEF SkipConcurrent, Locked
    <2> QED BY <1>5, <2>1, <2>2 DEF SkipConcurrent, Frame, At, old, web, history
  <1>6. CASE Probe(ip, t)
    <2>1. PICK outcome \in {dev[ip].state, "down"} :
              Step(ip, t, [old EXCEPT !.phase = "was", !.probe = outcome])
      BY <1>6 DEF Probe, old
    <2> DEFINE j == [old EXCEPT !.phase = "was", !.probe = outcome]
    <2>2. j \in Jobs /\ j.phase = "was"
      BY <1>1, <2>1 DEF Jobs, Phases, Locked
    <2>3. Fits(j) /\ old.phase = "probe"
      BY <1>6, <2>1, <2>2 DEF Probe, At, Locked, old
    <2> QED BY <1>6, <2>2, <2>3 DEF Probe, Frame, web
  <1>7. CASE ReadWasOnline(ip, t)
    <2> DEFINE j == [old EXCEPT !.phase = "decide", !.was = data[ip]]
    <2>1. j \in Jobs /\ j.phase = "decide"
      BY <1>1 DEF Jobs, Phases, Locked
    <2>2. Fits(j) /\ old.phase = "was"
      BY <1>7, <2>1 DEF ReadWasOnline, At, Locked, old
    <2> QED BY <1>7, <2>1, <2>2 DEF ReadWasOnline, Frame, web, history
  <1>8. CASE KeepPrevious(ip, t)
    <2>1. Fits(Answer(data[ip])) /\ old.phase = "decide"
      BY <1>1, <1>2, <1>8 DEF KeepPrevious, Failing, At, Locked, old
    <2> QED BY <1>1, <1>2, <1>8, <2>1 DEF KeepPrevious, DecideFrame, Frame, web, history
  <1>9. CASE DeclareRestricted(ip, t)
    <2>1. Fits(Answer("online")) /\ old.phase = "decide"
      BY <1>2, <1>3, <1>9 DEF DeclareRestricted, Failing, At, Locked, old
    <2> QED BY <1>2, <1>3, <1>9, <2>1 DEF DeclareRestricted, DecideFrame, Frame, web, history
  <1>10. CASE DeclareOffline(ip, t)
    <2>1. Fits(Answer("offline")) /\ old.phase = "decide"
      BY <1>2, <1>3, <1>10 DEF DeclareOffline, Failing, At, Locked, old
    <2> QED BY <1>2, <1>3, <1>10, <2>1 DEF DeclareOffline, DecideFrame, Frame, web, history
  <1>11. CASE ContinueOnline(ip, t)
    <2> DEFINE j == [old EXCEPT !.phase = "read"]
    <2>1. j \in Jobs /\ j.phase = "read"
      BY <1>1 DEF Jobs, Phases, Locked
    <2>2. Fits(j) /\ old.phase = "decide"
      BY <1>11, <2>1 DEF ContinueOnline, At, Locked, old
    <2> QED BY <1>11, <2>1, <2>2 DEF ContinueOnline, DecideFrame, Frame, web, history
  <1>12. CASE ReadCounters(ip, t)
    <2> DEFINE r == [id |-> dev[ip].id, n |-> dev[ip].n]
               j == [old EXCEPT !.phase = "prev", !.reading = r]
    <2>1. r \in Readings /\ r # None
      BY <1>1, ConstType DEF Readings
    <2>2. j \in Jobs /\ j.phase = "prev" /\ j.reading # None
      BY <1>1, <2>1 DEF Jobs, Phases, Locked
    <2>3. Fits(j) /\ old.phase = "read"
      BY <1>12, <2>2 DEF ReadCounters, At, Locked, old
    <2> QED BY <1>12, <2>2, <2>3 DEF ReadCounters, CollectFrame, Frame, web
  <1>13. CASE CollectFails(ip, t)
    <2>1. Fits(Answer("online")) /\ old.phase = "read"
      BY <1>2, <1>3, <1>13 DEF CollectFails, At, Locked, old
    <2> QED BY <1>2, <1>3, <1>13, <2>1 DEF CollectFails, CollectFrame, Frame, web
  <1>14. CASE ReadPrev(ip, t)
    <2> DEFINE j == [old EXCEPT !.phase = "record", !.seen = base[ip]]
    <2>1. j \in Jobs /\ j.phase = "record" /\ j.reading = old.reading
      BY <1>1 DEF Jobs, Phases, Locked
    <2>2. old.phase = "prev" /\ old.reading # None
      BY <1>14 DEF ReadPrev, At, HasReading, old
    <2>3. Fits(j)
      BY <1>14, <2>1, <2>2 DEF ReadPrev, Locked, old
    <2> QED BY <1>14, <2>1, <2>2, <2>3 DEF ReadPrev, CollectFrame, Frame, web
  <1>15. CASE RecordCounters(ip, t)
    <2>1. Fits(Answer("online")) /\ old.phase = "record"
      BY <1>2, <1>3, <1>15 DEF RecordCounters, At, Locked, old
    <2> QED BY <1>2, <1>3, <1>15, <2>1 DEF RecordCounters, CollectFrame, Frame, web
  <1> QED BY <1>5, <1>6, <1>7, <1>8, <1>9, <1>10, <1>11, <1>12, <1>13, <1>14, <1>15 DEF Collect

(* What a step of collect writes besides its job has the right type. *)
LEMMA CollectTypes ==
    ASSUME TypeOK, HasReading, NEW ip \in Ips, NEW t \in Threads, Collect(ip, t)
    PROVE  /\ fails' \in [Ips -> 0..GraceCycles] /\ streak' \in [Ips -> 0..GraceCycles]
           /\ base' \in [Ips -> Readings \cup {None}] /\ recorded' \in [Ips -> Nat]
           /\ budget' \in [Faults -> Nat]
  <1> USE ConstType
  <1>1. /\ fails \in [Ips -> 0..GraceCycles] /\ streak \in [Ips -> 0..GraceCycles]
        /\ base \in [Ips -> Readings \cup {None}] /\ recorded \in [Ips -> Nat]
        /\ budget \in [Faults -> Nat] /\ job[ip][t] \in Jobs
    BY DEF TypeOK
  <1>2. NoteHealthFailure(ip) => fails' \in [Ips -> 0..GraceCycles]
    BY <1>1 DEF NoteHealthFailure
  <1>3. CASE Probe(ip, t)
    <2>1. PICK outcome \in {dev[ip].state, "down"} :
            /\ IF outcome = dev[ip].state THEN UNCHANGED budget ELSE Spend("losses")
            /\ streak' = [streak EXCEPT ![ip] = IF outcome = "up" THEN 0
                                               ELSE IF @ < GraceCycles THEN @ + 1 ELSE @]
      BY <1>3 DEF Probe
    <2>2. budget' \in [Faults -> Nat]
      BY <1>1, <2>1, SpendType DEF Faults
    <2> QED BY <1>1, <1>3, <2>1, <2>2 DEF Probe
  <1>4. CASE RecordCounters(ip, t)
    <2> DEFINE j == job[ip][t]
    <2>1. j.reading \in Readings /\ (j.seen # None => j.seen \in Readings)
      BY <1>1, <1>4 DEF RecordCounters, At, HasReading, Jobs
    <2>2. j.reading.n \in Nat /\ (j.seen # None => j.seen.n \in Nat)
      BY <2>1 DEF Readings
    <2>3. j.seen \in Readings \cup {None}
      BY <2>1
    <2>4. \E b \in {j.reading, j.seen} : base' = [base EXCEPT ![ip] = b]
      BY <1>4 DEF RecordCounters
    <2>5. base' \in [Ips -> Readings \cup {None}]
      BY <1>1, <2>1, <2>3, <2>4
    <2>6. recorded' \in [Ips -> Nat]
      BY <1>1, <1>4, <2>2 DEF RecordCounters
    <2> QED BY <1>1, <1>4, <2>5, <2>6 DEF RecordCounters, CollectFrame
  <1>5. CASE SkipConcurrent(ip, t) \/ ReadWasOnline(ip, t)
    BY <1>1, <1>5 DEF SkipConcurrent, ReadWasOnline, history
  <1>6. CASE KeepPrevious(ip, t) \/ DeclareRestricted(ip, t) \/ DeclareOffline(ip, t)
    BY <1>1, <1>2, <1>6 DEF KeepPrevious, DeclareRestricted, DeclareOffline, DecideFrame, history
  <1>7. CASE ContinueOnline(ip, t)
    BY <1>1, <1>7 DEF ContinueOnline, ResetHealthFailure, DecideFrame, history
  <1>8. CASE ReadCounters(ip, t) \/ CollectFails(ip, t) \/ ReadPrev(ip, t)
    BY <1>1, <1>8 DEF ReadCounters, CollectFails, ReadPrev, CollectFrame
  <1> QED BY <1>3, <1>4, <1>5, <1>6, <1>7, <1>8 DEF Collect

(* The actions that give one thread a new job, and no lock that is taken: the steps *)
(* of collect, the start of a thread, and the end of one. *)
JobStep(ip, t, j) ==
    /\ j \in Jobs /\ Step(ip, t, j)
    /\ j.phase \in Locked => job[ip][t].phase \in Locked \/ Locks(ip) = {}
    /\ j.phase \in {"prev", "record"} => j.reading # None

Queued == [Idle EXCEPT !.phase = "queued"]

LEMMA StartStep ==
    ASSUME NEW ip \in Ips, NEW t \in Threads, TypeOK
    PROVE  /\ Step(ip, t, Begin(ip)) => JobStep(ip, t, Begin(ip))
           /\ Step(ip, t, Idle) => JobStep(ip, t, Idle)
           /\ Step(ip, t, Queued) => JobStep(ip, t, Queued)
  <1>1. /\ Begin(ip).phase \in {"probe", "skip"}
        /\ Begin(ip).phase = "probe" => Locks(ip) = {}
    BY DEF Begin, Idle
  <1>2. Idle.phase = "idle" /\ Queued.phase = "queued" /\ Queued \in Jobs
    BY DEF Idle, Queued, Jobs, Phases, Locked, Shown
  <1> QED BY <1>1, <1>2, JobTypes DEF JobStep, Locked

(* Every action that changes jobs does it in one of four ways. *)
LEMMA JobChange ==
    ASSUME TypeOK, HasReading, [Next]_vars
    PROVE  \/ UNCHANGED job
           \/ \E ip \in Ips, t \in Threads : \E j \in Jobs : JobStep(ip, t, j)
           \/ \E ip \in Ips : JoinTimeout(ip)
           \/ PollAllPublish
           \/ Restart
  <1> DEFINE Steps == \E ip \in Ips, t \in Threads : \E j \in Jobs : JobStep(ip, t, j)
  <1>1. "cycle" \in Threads /\ "api" \in Threads /\ "late" \in Threads
    BY DEF Threads
  <1>2. \A ip \in Ips : Begin(ip) \in Jobs /\ Idle \in Jobs /\ Queued \in Jobs
    BY JobTypes DEF Queued, Idle, Jobs, Phases, Locked, Shown
  <1>3. ASSUME NEW ip \in Ips, NEW t \in Threads, Collect(ip, t) PROVE Steps
    BY <1>3, CollectStep DEF JobStep
  <1>4. ASSUME NEW ip \in Ips, Device(ip) PROVE UNCHANGED job
    BY <1>4 DEF Device, DevicePrint, DeviceFlap, DeviceSwap
  <1>5. ASSUME NEW ip \in Ips, PollThreadStart(ip) \/ LateThreadEnds(ip) PROVE Steps
    BY <1>1, <1>2, <1>5, StartStep DEF PollThreadStart, LateThreadEnds
  <1>6. ASSUME NEW ip \in Ips, Api(ip) PROVE UNCHANGED job \/ Steps
    <2>1. CASE ApiThreadStart(ip) \/ ApiThreadPublish(ip)
      BY <1>1, <1>2, <2>1, StartStep DEF ApiThreadStart, ApiThreadPublish
    <2>2. CASE ApiAdd(ip) \/ BulkAddAppend(ip)
      BY <1>1, <1>2, <2>2, StartStep DEF ApiAdd, BulkAddAppend, Queue, Queued
    <2>3. CASE BulkAddCheck(ip) \/ ApiRemove(ip) \/ RemoveData(ip) \/ RemovePrev(ip)
      BY <2>3 DEF BulkAddCheck, ApiRemove, RemoveData, RemovePrev
    <2> QED BY <1>6, <2>1, <2>2, <2>3 DEF Api
  <1>7. CASE PollAllStart
    BY <1>7 DEF PollAllStart
  <1>8. CASE UNCHANGED vars
    BY <1>8 DEF vars
  <1> QED BY <1>3, <1>4, <1>5, <1>6, <1>7, <1>8 DEF Next, PollAll

(* A join that times out hands the job of the cycle's thread over. *)
LEMMA JoinType ==
    ASSUME JobType, NEW ip \in Ips, JoinTimeout(ip)
    PROVE  /\ JobType'
           /\ job'[ip]["late"] = job[ip]["cycle"] /\ job'[ip]["cycle"] = Idle
           /\ job[ip]["cycle"].phase \in Locked /\ job[ip]["late"].phase = "idle"
           /\ \A p \in Ips, u \in Threads :
                 p # ip \/ u \notin {"late", "cycle"} => job'[p][u] = job[p][u]
  <1> DEFINE mid == [job EXCEPT ![ip] = [job[ip] EXCEPT !["late"] = job[ip]["cycle"]]]
             new == [mid[ip] EXCEPT !["cycle"] = Idle]
  <1>1. "cycle" \in Threads /\ "late" \in Threads /\ "cycle" # "late" /\ Idle \in Jobs
    BY JobTypes DEF Threads
  <1>2. mid \in [Ips -> [Threads -> Jobs]]
    BY <1>1 DEF JobType
  <1>3. /\ mid[ip]["late"] = job[ip]["cycle"]
        /\ \A p \in Ips, u \in Threads : p # ip \/ u # "late" => mid[p][u] = job[p][u]
    BY <1>1 DEF JobType
  <1>4. job' = [mid EXCEPT ![ip] = new]
    BY DEF JoinTimeout
  <1> HIDE DEF mid
  <1>5. /\ new \in [Threads -> Jobs] /\ new["cycle"] = Idle
        /\ \A u \in Threads : u # "cycle" => new[u] = mid[ip][u]
    BY <1>1, <1>2
  <1> HIDE DEF new
  <1>6. JobType' /\ job'[ip] = new /\ \A p \in Ips : p # ip => job'[p] = mid[p]
    BY <1>2, <1>4, <1>5 DEF JobType
  <1>7. job[ip]["cycle"].phase \in Locked /\ job[ip]["late"].phase = "idle"
    BY DEF JoinTimeout, At
  <1>8. ASSUME NEW p \in Ips, NEW u \in Threads, p # ip \/ u \notin {"late", "cycle"}
        PROVE  job'[p][u] = job[p][u]
    <2>1. CASE p # ip
      BY <1>3, <1>6, <2>1
    <2>2. CASE p = ip
      BY <1>3, <1>5, <1>6, <1>8, <2>2
    <2> QED BY <2>1, <2>2
  <1> QED BY <1>1, <1>3, <1>5, <1>6, <1>7, <1>8

LEMMA PublishType ==
    ASSUME JobType, PollAllPublish
    PROVE  /\ JobType'
           /\ \A ip \in Ips : /\ job'[ip]["cycle"] = Idle
                              /\ job[ip]["cycle"].phase \in {"idle", "done"}
           /\ \A p \in Ips, u \in Threads : u # "cycle" => job'[p][u] = job[p][u]
  <1>1. "cycle" \in Threads /\ Idle \in Jobs
    BY JobTypes DEF Threads
  <1>2. job' = [ip \in Ips |-> [job[ip] EXCEPT !["cycle"] = Idle]]
    BY DEF PollAllPublish
  <1>3. \A ip \in Ips : job[ip] \in [Threads -> Jobs]
    BY DEF JobType
  <1>4. ASSUME NEW ip \in Ips
        PROVE  /\ job'[ip] \in [Threads -> Jobs] /\ job'[ip]["cycle"] = Idle
               /\ \A u \in Threads : u # "cycle" => job'[ip][u] = job[ip][u]
    BY <1>1, <1>2, <1>3
  <1>5. JobType'
    BY <1>2, <1>4 DEF JobType
  <1> QED BY <1>4, <1>5 DEF PollAllPublish

LEMMA RestartType ==
    ASSUME Restart
    PROVE  JobType' /\ \A ip \in Ips, t \in Threads : job'[ip][t] = Idle
  BY JobTypes DEF Restart, JobType

LEMMA JobsKept ==
    ASSUME TypeOK, OneHolder, HasReading, [Next]_vars
    PROVE  JobType' /\ OneHolder' /\ HasReading'
  <1> USE DEF HasReading
  <1>1. JobType /\ "idle" \notin Locked /\ "done" \notin Locked
    BY DEF TypeOK, JobType, Locked
  <1>2. Idle.phase = "idle"
    BY DEF Idle
  <1>3. CASE UNCHANGED job
    BY <1>1, <1>3 DEF OneHolder, JobType
  <1>4. ASSUME NEW ip \in Ips, NEW t \in Threads, NEW j \in Jobs, JobStep(ip, t, j)
        PROVE  JobType' /\ OneHolder' /\ HasReading'
    <2>1. /\ JobType' /\ job'[ip][t] = j
          /\ \A p \in Ips, u \in Threads : p # ip \/ u # t => job'[p][u] = job[p][u]
      BY <1>1, <1>4, StepType DEF JobStep
    <2>2. ASSUME NEW u \in Threads, u # t, j.phase \in Locked
          PROVE  job[ip][u].phase \notin Locked
      BY <1>4, <2>2 DEF JobStep, OneHolder, Locks
    <2>3. ASSUME NEW p \in Ips, NEW u \in Threads, NEW v \in Threads,
                 job'[p][u].phase \in Locked, job'[p][v].phase \in Locked
          PROVE  u = v
      <3>1. CASE p # ip
        BY <2>1, <2>3, <3>1 DEF OneHolder
      <3>2. CASE p = ip
        BY <2>1, <2>2, <2>3, <3>2 DEF OneHolder
      <3> QED BY <3>1, <3>2
    <2>4. HasReading'
      <3> SUFFICES ASSUME NEW p \in Ips, NEW u \in Threads,
                          job'[p][u].phase \in {"prev", "record"}
                   PROVE  job'[p][u].reading # None
        OBVIOUS
      <3>1. CASE p = ip /\ u = t
        BY <1>4, <2>1, <3>1 DEF JobStep
      <3>2. CASE p # ip \/ u # t
        BY <2>1, <3>2
      <3> QED BY <3>1, <3>2
    <2> QED BY <2>1, <2>3, <2>4 DEF OneHolder
  <1>5. ASSUME NEW ip \in Ips, JoinTimeout(ip) PROVE JobType' /\ OneHolder' /\ HasReading'
    <2>1. /\ JobType'
          /\ job'[ip]["late"] = job[ip]["cycle"] /\ job'[ip]["cycle"] = Idle
          /\ job[ip]["cycle"].phase \in Locked
          /\ \A p \in Ips, u \in Threads :
                 p # ip \/ u \notin {"late", "cycle"} => job'[p][u] = job[p][u]
      BY <1>1, <1>5, JoinType
    <2>2. "cycle" \in Threads /\ "late" \in Threads
      BY DEF Threads
    <2>3. \A u \in Threads : job'[ip][u].phase \in Locked => u = "late"
      BY <1>1, <1>2, <2>1, <2>2 DEF OneHolder
    <2>4. OneHolder'
      <3> SUFFICES ASSUME NEW p \in Ips, NEW u \in Threads, NEW v \in Threads,
                          job'[p][u].phase \in Locked, job'[p][v].phase \in Locked
                   PROVE  u = v
        BY DEF OneHolder
      <3>1. CASE p = ip
        BY <2>3, <3>1
      <3>2. CASE p # ip
        BY <2>1, <3>2 DEF OneHolder
      <3> QED BY <3>1, <3>2
    <2>5. HasReading'
      <3> SUFFICES ASSUME NEW p \in Ips, NEW u \in Threads,
                          job'[p][u].phase \in {"prev", "record"}
                   PROVE  job'[p][u].reading # None
        OBVIOUS
      <3>1. CASE p # ip \/ u \notin {"late", "cycle"}
        BY <2>1, <3>1
      <3>2. CASE p = ip /\ u = "late"
        BY <2>1, <2>2, <3>2
      <3>3. CASE p = ip /\ u = "cycle"
        BY <1>2, <2>1, <3>3
      <3> QED BY <3>1, <3>2, <3>3
    <2> QED BY <2>1, <2>4, <2>5
  <1>6. CASE PollAllPublish
    <2>1. /\ JobType'
          /\ \A ip \in Ips : job'[ip]["cycle"].phase = "idle"
          /\ \A p \in Ips, u \in Threads : u # "cycle" => job'[p][u] = job[p][u]
      BY <1>1, <1>2, <1>6, PublishType
    <2>2. OneHolder'
      BY <1>1, <2>1 DEF OneHolder
    <2>3. HasReading'
      BY <2>1
    <2> QED BY <2>1, <2>2, <2>3
  <1>7. CASE Restart
    BY <1>1, <1>2, <1>7, RestartType DEF OneHolder
  <1> QED BY <1>3, <1>4, <1>5, <1>6, <1>7, JobChange

States == {"up", "restricted", "down"}
Found  == [id : Devices, n : Nat, state : States]

LEMMA FlapType == ASSUME NEW d \in Found, NEW s \in States PROVE [d EXCEPT !.state = s] \in Found
  BY DEF Found

Typed == TypeOK /\ CheckedOnce /\ HasReading /\ OneHolder

(* Everything but the jobs keeps its type; JobsKept covers those. *)
LEMMA TypeStep == ASSUME Typed, [Next]_vars PROVE Typed'
  <1> USE ConstType DEF Typed
  <1>1. JobType' /\ OneHolder' /\ HasReading'
    BY JobsKept
  <1>2. /\ printers \in [Ips -> 0..2]
        /\ dev \in [Ips -> [id : Devices, n : Nat, state : {"up", "restricted", "down"}]]
        /\ data \in [Ips -> Shown] /\ fails \in [Ips -> 0..GraceCycles]
        /\ base \in [Ips -> Readings \cup {None}] /\ job \in [Ips -> [Threads -> Jobs]]
        /\ cycle \in [polling : BOOLEAN, todo : SUBSET Ips]
        /\ request \in [Ips -> {"idle", "checked", "pop_data", "delete_prev"}]
        /\ budget \in [Faults -> Nat]
        /\ recorded \in [Ips -> Nat] /\ printed \in [Ips -> Nat]
        /\ streak \in [Ips -> 0..GraceCycles]
        /\ caveats \subseteq {"removed_in_flight", "removal_interrupted"}
    BY DEF TypeOK
  <1>3. None \in Shown /\ \A j \in Jobs : j.result \in Shown
    BY DEF Shown, Jobs
  <1>4. SUFFICES /\ TypeOK' /\ CheckedOnce'
    BY <1>1
  <1> USE DEF CheckedOnce
  <1>5. ASSUME NEW ip \in Ips, NEW t \in Threads, Collect(ip, t) PROVE TypeOK' /\ CheckedOnce'
    <2>1. Frame
      BY <1>5, CollectStep
    <2> QED BY <1>1, <1>2, <1>5, <2>1, CollectTypes DEF TypeOK, JobType, Frame
  <1>6. ASSUME NEW ip \in Ips, Device(ip) PROVE TypeOK' /\ CheckedOnce'
    <2>1. CASE DevicePrint(ip)
      <3>1. dev' \in [Ips -> [id : Devices, n : Nat, state : {"up", "restricted", "down"}]]
        BY <1>2, <2>1 DEF DevicePrint
      <3>2. printed' \in [Ips -> Nat]
        BY <1>2, <2>1 DEF DevicePrint
      <3> QED BY <1>1, <1>2, <2>1, <3>1, <3>2 DEF DevicePrint, TypeOK, JobType, web
    <2>2. CASE DeviceFlap(ip)
      <3>1. dev' \in [Ips -> [id : Devices, n : Nat, state : {"up", "restricted", "down"}]]
        <4>1. PICK s \in {"up", "restricted", "down"} : dev' = [dev EXCEPT ![ip].state = s]
          BY <2>2 DEF DeviceFlap
        <4>2. [dev[ip] EXCEPT !.state = s]
                  \in [id : Devices, n : Nat, state : {"up", "restricted", "down"}]
          BY <1>2, FlapType DEF Found, States
        <4> QED BY <1>2, <4>1, <4>2
      <3>2. budget' \in [Faults -> Nat]
        BY <1>2, <2>2, SpendType DEF DeviceFlap, Faults
      <3> QED BY <1>1, <1>2, <2>2, <3>1, <3>2 DEF DeviceFlap, TypeOK, JobType, web, history
    <2>3. CASE DeviceSwap(ip)
      <3>1. dev' \in [Ips -> [id : Devices, n : Nat, state : {"up", "restricted", "down"}]]
        BY <1>2, <2>3 DEF DeviceSwap
      <3>2. budget' \in [Faults -> Nat]
        BY <1>2, <2>3, SpendType DEF DeviceSwap, Faults
      <3> QED BY <1>1, <1>2, <2>3, <3>1, <3>2 DEF DeviceSwap, TypeOK, JobType, web, history
    <2> QED BY <1>6, <2>1, <2>2, <2>3 DEF Device
  <1>7. ASSUME NEW ip \in Ips, PollAll(ip) PROVE TypeOK' /\ CheckedOnce'
    <2>1. CASE PollThreadStart(ip)
      <3>1. cycle' \in [polling : BOOLEAN, todo : SUBSET Ips]
        BY <1>2, <2>1 DEF PollThreadStart
      <3> QED BY <1>1, <1>2, <2>1, <3>1 DEF PollThreadStart, TypeOK, JobType, web, history
    <2>2. CASE JoinTimeout(ip)
      <3>1. budget' \in [Faults -> Nat]
        BY <1>2, <2>2, SpendType DEF JoinTimeout, Faults
      <3> QED BY <1>1, <1>2, <2>2, <3>1 DEF JoinTimeout, TypeOK, JobType, web, history
    <2>3. CASE LateThreadEnds(ip)
      BY <1>1, <1>2, <2>3 DEF LateThreadEnds, TypeOK, JobType, web, history
    <2> QED BY <1>7, <2>1, <2>2, <2>3 DEF PollAll
  <1>8. ASSUME NEW ip \in Ips, Api(ip) PROVE TypeOK' /\ CheckedOnce'
    <2>1. CASE ApiThreadStart(ip)
      BY <1>1, <1>2, <2>1 DEF ApiThreadStart, TypeOK, JobType, web, history
    <2>2. CASE ApiThreadPublish(ip)
      <3>1. job[ip]["api"] \in Jobs
        BY <1>2 DEF Threads
      <3>2. data' \in [Ips -> Shown]
        BY <1>2, <1>3, <2>2, <3>1 DEF ApiThreadPublish
      <3> QED BY <1>1, <1>2, <2>2, <3>2 DEF ApiThreadPublish, TypeOK, JobType, web, history
    <2>3. CASE ApiAdd(ip)
      <3>1. budget' \in [Faults -> Nat]
        BY <1>2, <2>3, SpendType DEF ApiAdd, Faults
      <3>2. printers' \in [Ips -> 0..2] /\ CheckedOnce'
        BY <1>2, <2>3 DEF ApiAdd
      <3> QED BY <1>1, <1>2, <2>3, <3>1, <3>2 DEF ApiAdd, TypeOK, JobType, history
    <2>4. CASE BulkAddCheck(ip)
      <3>1. budget' \in [Faults -> Nat]
        BY <1>2, <2>4, SpendType DEF BulkAddCheck, Faults
      <3>2. /\ request' \in [Ips -> {"idle", "checked", "pop_data", "delete_prev"}]
            /\ CheckedOnce'
        BY <1>2, <2>4 DEF BulkAddCheck
      <3> QED BY <1>1, <1>2, <2>4, <3>1, <3>2 DEF BulkAddCheck, TypeOK, JobType, history
    <2>5. CASE BulkAddAppend(ip)
      <3>1. printers[ip] \in 0..1
        BY <1>2, <2>5 DEF BulkAddAppend
      <3>2. /\ request' \in [Ips -> {"idle", "checked", "pop_data", "delete_prev"}]
            /\ printers' \in [Ips -> 0..2] /\ CheckedOnce'
        BY <1>2, <2>5, <3>1 DEF BulkAddAppend
      <3> QED BY <1>1, <1>2, <2>5, <3>2 DEF BulkAddAppend, TypeOK, JobType, history
    <2>6. CASE ApiRemove(ip)
      <3>1. budget' \in [Faults -> Nat]
        BY <1>2, <2>6, SpendType DEF ApiRemove, Faults
      <3>2. /\ request' \in [Ips -> {"idle", "checked", "pop_data", "delete_prev"}]
            /\ printers' \in [Ips -> 0..2] /\ CheckedOnce'
        BY <1>2, <2>6 DEF ApiRemove
      <3> QED BY <1>1, <1>2, <2>6, <3>1, <3>2 DEF ApiRemove, TypeOK, JobType, history
    <2>7. CASE RemoveData(ip)
      <3>1. /\ request' \in [Ips -> {"idle", "checked", "pop_data", "delete_prev"}]
            /\ data' \in [Ips -> Shown] /\ CheckedOnce'
        BY <1>2, <1>3, <2>7 DEF RemoveData
      <3>2. caveats' \subseteq {"removed_in_flight", "removal_interrupted"}
        BY <1>2, <2>7 DEF RemoveData, NoteInFlight
      <3> QED BY <1>1, <1>2, <2>7, <3>1, <3>2 DEF RemoveData, TypeOK, JobType
    <2>8. CASE RemovePrev(ip)
      <3>1. /\ request' \in [Ips -> {"idle", "checked", "pop_data", "delete_prev"}]
            /\ base' \in [Ips -> Readings \cup {None}] /\ CheckedOnce'
        BY <1>2, <2>8 DEF RemovePrev
      <3>2. caveats' \subseteq {"removed_in_flight", "removal_interrupted"}
        BY <1>2, <2>8 DEF RemovePrev, NoteInFlight
      <3> QED BY <1>1, <1>2, <2>8, <3>1, <3>2 DEF RemovePrev, TypeOK, JobType
    <2> QED BY <1>8, <2>1, <2>2, <2>3, <2>4, <2>5, <2>6, <2>7, <2>8 DEF Api
  <1>9. CASE PollAllStart
    BY <1>1, <1>2, <1>9 DEF PollAllStart, TypeOK, JobType, web, history
  <1>10. CASE PollAllPublish
    <2>1. \A ip \in Ips : job[ip]["cycle"] \in Jobs
      BY <1>2 DEF Threads
    <2>2. data' \in [Ips -> Shown]
      BY <1>2, <1>3, <1>10, <2>1 DEF PollAllPublish
    <2>3. cycle' \in [polling : BOOLEAN, todo : SUBSET Ips]
      BY <1>2, <1>10 DEF PollAllPublish
    <2> QED BY <1>1, <1>2, <1>10, <2>2, <2>3 DEF PollAllPublish, TypeOK, JobType, web, history
  <1>11. CASE Restart
    <2>1. budget' \in [Faults -> Nat]
      BY <1>2, <1>11, SpendType DEF Restart, Faults
    <2>2. caveats' \subseteq {"removed_in_flight", "removal_interrupted"}
      BY <1>2, <1>11 DEF Restart
    <2>3. /\ printers' \in [Ips -> 0..2] /\ data' \in [Ips -> Shown]
          /\ fails' \in [Ips -> 0..GraceCycles] /\ CheckedOnce'
          /\ cycle' \in [polling : BOOLEAN, todo : SUBSET Ips]
          /\ request' \in [Ips -> {"idle", "checked", "pop_data", "delete_prev"}]
      BY <1>2, <1>3, <1>11 DEF Restart
    <2> QED BY <1>1, <1>2, <1>11, <2>1, <2>2, <2>3 DEF Restart, TypeOK, JobType
  <1>12. CASE UNCHANGED vars
    BY <1>1, <1>2, <1>12 DEF vars, web, history, TypeOK, JobType
  <1> QED BY <1>5, <1>6, <1>7, <1>8, <1>9, <1>10, <1>11, <1>12 DEF Next

LEMMA TypeInit == Init => Typed
  <1> SUFFICES ASSUME Init PROVE Typed
    OBVIOUS
  <1>1. /\ \A ip \in Ips, t \in Threads : job[ip][t] = Idle
        /\ job \in [Ips -> [Threads -> Jobs]]
    BY JobTypes DEF Init
  <1>2. Idle.phase = "idle" /\ "idle" \notin Locked
    BY DEF Idle, Locked
  <1>3. OneHolder /\ HasReading /\ CheckedOnce
    BY <1>1, <1>2 DEF OneHolder, HasReading, CheckedOnce, Init
  <1>4. dev \in [Ips -> [id : Devices, n : Nat, state : {"up", "restricted", "down"}]]
    BY ConstType DEF Init
  <1>5. TypeOK
    BY <1>1, <1>4, ConstType DEF Init, TypeOK, Shown
  <1> QED BY <1>3, <1>5 DEF Typed

LEMMA TypedHolds == Spec => []Typed
  BY TypeInit, TypeStep, PTL DEF Spec

\* Every variable of the poller keeps its type, whatever the number of addresses and faults.
THEOREM PollerTypes == Spec => []TypeOK
  <1>1. Typed => TypeOK
    BY DEF Typed
  <1> QED BY <1>1, TypedHolds, PTL

-----------------------------------------------------------------------------
(* The baseline *)

(* Only a poll that records, a removal and nothing else writes a baseline. *)
LEMMA BaseWriters ==
    ASSUME Typed, [Next]_vars, NEW ip \in Ips, base'[ip] # base[ip]
    PROVE  RemovePrev(ip) \/ \E t \in Threads : RecordCounters(ip, t)
  <1>1. base \in [Ips -> Readings \cup {None}]
    BY DEF Typed, TypeOK
  <1>2. ASSUME NEW p \in Ips, NEW t \in Threads, Collect(p, t)
        PROVE  p = ip /\ RecordCounters(p, t)
    <2>1. CASE RecordCounters(p, t)
      BY <1>1, <2>1 DEF RecordCounters
    <2>2. CASE ~RecordCounters(p, t)
      BY <1>2, <2>2 DEF Collect, SkipConcurrent, Probe, ReadWasOnline, KeepPrevious, DeclareRestricted,
                        DeclareOffline, ContinueOnline, DecideFrame, ReadCounters, CollectFails, ReadPrev
    <2> QED BY <2>1, <2>2
  <1>3. ASSUME NEW p \in Ips, Device(p) \/ PollAll(p) PROVE FALSE
    BY <1>3 DEF Device, DevicePrint, DeviceFlap, DeviceSwap, PollAll, PollThreadStart, JoinTimeout,
                LateThreadEnds
  <1>4. ASSUME NEW p \in Ips, Api(p) PROVE p = ip /\ RemovePrev(p)
    <2>1. CASE RemovePrev(p)
      BY <1>1, <2>1 DEF RemovePrev
    <2>2. CASE ~RemovePrev(p)
      BY <1>4, <2>2 DEF Api, ApiThreadStart, ApiThreadPublish, ApiAdd, BulkAddCheck, BulkAddAppend,
                        ApiRemove, RemoveData
    <2> QED BY <2>1, <2>2
  <1>5. CASE PollAllStart \/ PollAllPublish \/ Restart \/ UNCHANGED vars
    BY <1>5 DEF PollAllStart, PollAllPublish, Restart, vars
  <1> QED BY <1>2, <1>3, <1>4, <1>5 DEF Next

(* Caveats are not taken back. *)
LEMMA CaveatsStay == ASSUME [Next]_vars PROVE caveats \subseteq caveats'
  <1>1. ASSUME NEW ip \in Ips, NEW t \in Threads, Collect(ip, t) PROVE caveats' = caveats
    BY <1>1 DEF Collect, SkipConcurrent, Probe, ReadWasOnline, KeepPrevious, DeclareRestricted,
                DeclareOffline, ContinueOnline, DecideFrame, ReadCounters, CollectFails, ReadPrev,
                RecordCounters, CollectFrame, history
  <1>2. ASSUME NEW ip \in Ips, Device(ip) \/ PollAll(ip) PROVE caveats' = caveats
    BY <1>2 DEF Device, DevicePrint, DeviceFlap, DeviceSwap, PollAll, PollThreadStart, JoinTimeout,
                LateThreadEnds, history
  <1>3. ASSUME NEW ip \in Ips, Api(ip) PROVE caveats \subseteq caveats'
    BY <1>3 DEF Api, ApiThreadStart, ApiThreadPublish, ApiAdd, BulkAddCheck, BulkAddAppend,
                ApiRemove, RemoveData, RemovePrev, NoteInFlight, history
  <1>4. CASE PollAllStart \/ PollAllPublish \/ Restart \/ UNCHANGED vars
    BY <1>4 DEF PollAllStart, PollAllPublish, Restart, vars, history
  <1> QED BY <1>1, <1>2, <1>3, <1>4 DEF Next

(* What a step of collect makes of the job of its thread. *)
LEMMA CollectGives ==
    ASSUME Typed, NEW ip \in Ips, NEW t \in Threads, Collect(ip, t)
    PROVE  LET old == job[ip][t]
               new == job'[ip][t]
           IN  \/ new.phase = "done"
               \/ /\ Probe(ip, t) /\ old.phase = "probe" /\ new.phase = "was"
                  /\ streak' = [streak EXCEPT ![ip] = IF new.probe = "up" THEN 0
                                                     ELSE IF @ < GraceCycles THEN @ + 1 ELSE @]
               \/ /\ ReadWasOnline(ip, t) /\ old.phase = "was" /\ new.phase = "decide"
                  /\ new.probe = old.probe
               \/ ContinueOnline(ip, t) /\ old.phase = "decide" /\ new.phase = "read"
               \/ /\ ReadCounters(ip, t) /\ old.phase = "read" /\ new.phase = "prev"
                  /\ new.reading = [id |-> dev[ip].id, n |-> dev[ip].n]
               \/ /\ ReadPrev(ip, t) /\ old.phase = "prev" /\ new.phase = "record"
                  /\ new.seen = base[ip] /\ new.reading = old.reading
  <1> DEFINE old == job[ip][t]
             new == job'[ip][t]
  <1>1. /\ old \in Jobs /\ data[ip] \in Shown /\ base[ip] \in Readings \cup {None}
        /\ dev[ip].id \in Devices /\ dev[ip].n \in Nat /\ dev[ip].state \in States
        /\ "online" \in Shown /\ "offline" \in Shown /\ JobType
    BY DEF Typed, TypeOK, Shown, JobType, States
  <1>2. \A s \in Shown : Answer(s) \in Jobs /\ Answer(s).phase = "done"
    BY JobTypes DEF Answer, Idle
  <1>3. \A j \in Jobs : Step(ip, t, j) => new = j
    BY <1>1, StepType
  <1> HIDE DEF old, new
  <1>4. CASE SkipConcurrent(ip, t)
    BY <1>1, <1>2, <1>3, <1>4 DEF SkipConcurrent, new
  <1>5. CASE KeepPrevious(ip, t) \/ DeclareRestricted(ip, t) \/ DeclareOffline(ip, t)
    BY <1>1, <1>2, <1>3, <1>5 DEF KeepPrevious, DeclareRestricted, DeclareOffline, new
  <1>6. CASE CollectFails(ip, t) \/ RecordCounters(ip, t)
    BY <1>1, <1>2, <1>3, <1>6 DEF CollectFails, RecordCounters, new
  <1>7. CASE Probe(ip, t)
    <2>1. PICK outcome \in {dev[ip].state, "down"} :
              /\ Step(ip, t, [old EXCEPT !.phase = "was", !.probe = outcome])
              /\ streak' = [streak EXCEPT ![ip] = IF outcome = "up" THEN 0
                                                 ELSE IF @ < GraceCycles THEN @ + 1 ELSE @]
      BY <1>7 DEF Probe, old
    <2> DEFINE j == [old EXCEPT !.phase = "was", !.probe = outcome]
    <2>2. j \in Jobs /\ j.phase = "was" /\ j.probe = outcome
      BY <1>1, <2>1 DEF Jobs, Phases, Locked, States
    <2> QED BY <1>3, <1>7, <2>1, <2>2 DEF Probe, At, old, new
  <1>8. CASE ReadWasOnline(ip, t)
    <2> DEFINE j == [old EXCEPT !.phase = "decide", !.was = data[ip]]
    <2>1. j \in Jobs /\ j.phase = "decide" /\ j.probe = old.probe
      BY <1>1 DEF Jobs, Phases, Locked
    <2> QED BY <1>3, <1>8, <2>1 DEF ReadWasOnline, At, old, new
  <1>9. CASE ContinueOnline(ip, t)
    <2> DEFINE j == [old EXCEPT !.phase = "read"]
    <2>1. j \in Jobs /\ j.phase = "read"
      BY <1>1 DEF Jobs, Phases, Locked
    <2> QED BY <1>3, <1>9, <2>1 DEF ContinueOnline, At, old, new
  <1>10. CASE ReadCounters(ip, t)
    <2> DEFINE r == [id |-> dev[ip].id, n |-> dev[ip].n]
               j == [old EXCEPT !.phase = "prev", !.reading = r]
    <2>1. r \in Readings
      BY <1>1 DEF Readings
    <2>2. j \in Jobs /\ j.phase = "prev" /\ j.reading = r
      BY <1>1, <2>1 DEF Jobs, Phases, Locked
    <2> QED BY <1>3, <1>10, <2>2 DEF ReadCounters, At, old, new
  <1>11. CASE ReadPrev(ip, t)
    <2> DEFINE j == [old EXCEPT !.phase = "record", !.seen = base[ip]]
    <2>1. j \in Jobs /\ j.phase = "record" /\ j.seen = base[ip] /\ j.reading = old.reading
      BY <1>1 DEF Jobs, Phases, Locked
    <2> QED BY <1>3, <1>11, <2>1 DEF ReadPrev, At, old, new
  <1> QED BY <1>4, <1>5, <1>6, <1>7, <1>8, <1>9, <1>10, <1>11 DEF Collect, old, new

(* Where a job comes from: a step of collect, a fresh start, or a thread of the same *)
(* address that had it. *)
LEMMA Lineage ==
    ASSUME Typed, [Next]_vars, NEW ip \in Ips, NEW t \in Threads
    PROVE  \/ Collect(ip, t)
           \/ job'[ip][t].phase \in {"idle", "queued", "skip", "probe"}
           \/ \E u \in Threads : job[ip][u] = job'[ip][t]
  <1> DEFINE Kept == \E u \in Threads : job[ip][u] = job'[ip][t]
             Fresh == job'[ip][t].phase \in {"idle", "queued", "skip", "probe"}
  <1>1. JobType /\ Idle.phase = "idle" /\ Idle \in Jobs
    BY JobTypes DEF Typed, TypeOK, JobType, Idle
  <1>2. "cycle" \in Threads /\ "api" \in Threads /\ "late" \in Threads
    BY DEF Threads
  <1>3. \A p \in Ips : /\ Begin(p) \in Jobs /\ Begin(p).phase \in {"skip", "probe"}
                       /\ Queued \in Jobs /\ Queued.phase = "queued"
    BY JobTypes DEF Begin, Queued, Idle, Jobs, Phases, Locked, Shown
  <1>4. ASSUME NEW p \in Ips, NEW u \in Threads, NEW j \in Jobs, Step(p, u, j),
               j.phase \in {"idle", "queued", "skip", "probe"}
        PROVE  Fresh \/ Kept
    BY <1>1, <1>4, StepType
  <1>5. ASSUME NEW p \in Ips, NEW u \in Threads, Collect(p, u), p # ip \/ u # t PROVE Kept
    <2>1. PICK j \in Jobs : Step(p, u, j)
      BY <1>5, CollectStep DEF Typed
    <2> QED BY <1>1, <1>5, <2>1, StepType
  <1>6. ASSUME NEW p \in Ips, Device(p) PROVE Kept
    BY <1>6 DEF Device, DevicePrint, DeviceFlap, DeviceSwap
  <1>7. ASSUME NEW p \in Ips, PollThreadStart(p) \/ LateThreadEnds(p) PROVE Fresh \/ Kept
    BY <1>1, <1>2, <1>3, <1>4, <1>7 DEF PollThreadStart, LateThreadEnds
  <1>8. ASSUME NEW p \in Ips, JoinTimeout(p) PROVE Fresh \/ Kept
    <2>1. /\ job'[p]["late"] = job[p]["cycle"] /\ job'[p]["cycle"] = Idle
          /\ \A q \in Ips, u \in Threads :
                 q # p \/ u \notin {"late", "cycle"} => job'[q][u] = job[q][u]
      BY <1>1, <1>8, JoinType
    <2>2. CASE p = ip /\ t = "late"
      BY <1>2, <2>1, <2>2
    <2>3. CASE p = ip /\ t = "cycle"
      BY <1>1, <2>1, <2>3
    <2>4. CASE p # ip \/ t \notin {"late", "cycle"}
      BY <2>1, <2>4
    <2> QED BY <2>2, <2>3, <2>4
  <1>9. ASSUME NEW p \in Ips, Api(p) PROVE Fresh \/ Kept
    <2>1. CASE ApiThreadStart(p) \/ ApiThreadPublish(p)
      BY <1>1, <1>2, <1>3, <1>4, <2>1 DEF ApiThreadStart, ApiThreadPublish
    <2>2. CASE ApiAdd(p) \/ BulkAddAppend(p)
      BY <1>2, <1>3, <1>4, <2>2 DEF ApiAdd, BulkAddAppend, Queue, Queued
    <2>3. CASE BulkAddCheck(p) \/ ApiRemove(p) \/ RemoveData(p) \/ RemovePrev(p)
      BY <2>3 DEF BulkAddCheck, ApiRemove, RemoveData, RemovePrev
    <2> QED BY <1>9, <2>1, <2>2, <2>3 DEF Api
  <1>10. CASE PollAllPublish
    BY <1>1, <1>10, PublishType
  <1>11. CASE Restart
    BY <1>1, <1>11, RestartType
  <1>12. CASE PollAllStart \/ UNCHANGED vars
    BY <1>12 DEF PollAllStart, vars
  <1> QED BY <1>5, <1>6, <1>7, <1>8, <1>9, <1>10, <1>11, <1>12 DEF Next, PollAll

LEMMA CurrentStep ==
    ASSUME Typed, BaselineReadIsCurrent, [Next]_vars
    PROVE  BaselineReadIsCurrent'
  <1> SUFFICES ASSUME "removed_in_flight" \notin caveats', NEW ip \in Ips, NEW t \in Threads,
                      job'[ip][t].phase = "record"
               PROVE  job'[ip][t].seen = base'[ip]
    BY DEF BaselineReadIsCurrent, At
  <1>1. "removed_in_flight" \notin caveats
    BY CaveatsStay
  <1>2. CASE ReadPrev(ip, t) /\ job'[ip][t].seen = base[ip]
    BY <1>2 DEF ReadPrev
  <1>3. ASSUME NEW u \in Threads, job[ip][u] = job'[ip][t]
        PROVE  job'[ip][t].seen = base'[ip]
    <2>1. job[ip][u].seen = base[ip] /\ job[ip][u].phase = "record"
      BY <1>1, <1>3 DEF BaselineReadIsCurrent, At
    <2>2. ~RemovePrev(ip)
      BY <2>1 DEF RemovePrev, NoteInFlight, InFlight, At
    <2>3. ASSUME NEW v \in Threads, RecordCounters(ip, v) PROVE FALSE
      <3>1. job[ip][v].phase = "record"
        BY <2>3 DEF RecordCounters, At
      <3>2. v = u
        BY <2>1, <3>1 DEF Typed, OneHolder, Locked
      <3>3. /\ JobType /\ Answer("online") \in Jobs /\ Answer("online").phase = "done"
            /\ Step(ip, v, Answer("online"))
        BY <2>3, JobTypes DEF RecordCounters, Answer, Idle, Shown, Typed, TypeOK, JobType
      <3>4. /\ job'[ip][v].phase = "done"
            /\ \A w \in Threads : w # v => job'[ip][w] = job[ip][w]
        BY <3>3, StepType
      <3>5. t # v /\ job[ip][t].phase = "record"
        BY <3>4
      <3> QED BY <2>1, <3>2, <3>5 DEF Typed, OneHolder, Locked
    <2> QED BY <1>3, <2>1, <2>2, <2>3, BaseWriters
  <1>4. CASE Collect(ip, t)
    BY <1>2, <1>4, CollectGives
  <1> QED BY <1>3, <1>4, Lineage

\* Between reading the baseline and writing it nothing changes it but a removal, whoever polls.
THEOREM BaselineReadIsCurrentHolds == Spec => []BaselineReadIsCurrent
  <1>1. Init => BaselineReadIsCurrent
    BY DEF Init, Idle, BaselineReadIsCurrent, At
  <1> QED BY <1>1, CurrentStep, TypedHolds, PTL DEF Spec

-----------------------------------------------------------------------------
(* The removal of a printer *)

AtAddress(p) == Device(p) \/ PollAll(p) \/ Api(p) \/ \E t \in Threads : Collect(p, t)

\* What the state holds of one address.
Kept(ip) ==
    /\ printers'[ip] = printers[ip] /\ request'[ip] = request[ip] /\ dev'[ip] = dev[ip]
    /\ data'[ip] = data[ip] /\ fails'[ip] = fails[ip] /\ base'[ip] = base[ip]
    /\ job'[ip] = job[ip] /\ recorded'[ip] = recorded[ip] /\ printed'[ip] = printed[ip]
    /\ streak'[ip] = streak[ip] /\ cycle'.todo \subseteq cycle.todo

(* What happens at one address leaves the others alone. *)
LEMMA Elsewhere ==
    ASSUME Typed, NEW ip \in Ips, NEW p \in Ips, p # ip, AtAddress(p)
    PROVE  Kept(ip)
  <1>1. /\ printers \in [Ips -> 0..2] /\ data \in [Ips -> Shown]
        /\ dev \in [Ips -> [id : Devices, n : Nat, state : {"up", "restricted", "down"}]]
        /\ fails \in [Ips -> 0..GraceCycles] /\ base \in [Ips -> Readings \cup {None}]
        /\ job \in [Ips -> [Threads -> Jobs]]
        /\ cycle \in [polling : BOOLEAN, todo : SUBSET Ips]
        /\ request \in [Ips -> {"idle", "checked", "pop_data", "delete_prev"}]
        /\ recorded \in [Ips -> Nat] /\ printed \in [Ips -> Nat]
        /\ streak \in [Ips -> 0..GraceCycles]
    BY DEF Typed, TypeOK
  <1>2. \A t \in Threads : \A j : Step(p, t, j) => job'[ip] = job[ip]
    BY <1>1 DEF Step
  <1>3. CASE DevicePrint(p) \/ DeviceFlap(p) \/ DeviceSwap(p)
    BY <1>1, <1>3 DEF DevicePrint, DeviceFlap, DeviceSwap, Kept, web, history
  <1>4. CASE PollThreadStart(p) \/ LateThreadEnds(p)
    BY <1>1, <1>2, <1>4 DEF PollThreadStart, LateThreadEnds, Kept, web, history, Threads
  <1>5. CASE JoinTimeout(p)
    BY <1>1, <1>5 DEF JoinTimeout, Kept, web, history
  <1>6. CASE ApiThreadStart(p) \/ ApiThreadPublish(p)
    BY <1>1, <1>2, <1>6 DEF ApiThreadStart, ApiThreadPublish, Kept, web, history, Threads
  <1>7. CASE ApiAdd(p) \/ BulkAddAppend(p)
    BY <1>1, <1>2, <1>7 DEF ApiAdd, BulkAddAppend, Queue, Kept, web, history, Threads
  <1>8. CASE BulkAddCheck(p) \/ ApiRemove(p)
    BY <1>1, <1>8 DEF BulkAddCheck, ApiRemove, Kept, web, history
  <1>9. CASE RemoveData(p) \/ RemovePrev(p)
    BY <1>1, <1>9 DEF RemoveData, RemovePrev, Kept
  <1>10. ASSUME NEW t \in Threads, Collect(p, t) PROVE Kept(ip)
    <2> USE <1>1, <1>2 DEF Kept, web, history
    <2>1. CASE SkipConcurrent(p, t) \/ Probe(p, t) \/ ReadWasOnline(p, t)
      BY <2>1 DEF SkipConcurrent, Probe, ReadWasOnline
    <2>2. CASE KeepPrevious(p, t) \/ DeclareRestricted(p, t) \/ DeclareOffline(p, t)
      BY <2>2 DEF KeepPrevious, DeclareRestricted, DeclareOffline, NoteHealthFailure, DecideFrame
    <2>3. CASE ContinueOnline(p, t)
      BY <2>3 DEF ContinueOnline, ResetHealthFailure, DecideFrame
    <2>4. CASE ReadCounters(p, t) \/ CollectFails(p, t) \/ ReadPrev(p, t)
      BY <2>4 DEF ReadCounters, CollectFails, ReadPrev, CollectFrame
    <2>5. CASE RecordCounters(p, t)
      <3>1. /\ CollectFrame /\ Step(p, t, Answer("online"))
            /\ \E b : base' = [base EXCEPT ![p] = b]
            /\ \E n : recorded' = [recorded EXCEPT ![p] = n]
        BY <2>5 DEF RecordCounters
      <3> QED BY <3>1 DEF CollectFrame
    <2> QED BY <1>10, <2>1, <2>2, <2>3, <2>4, <2>5 DEF Collect
  <1> QED BY <1>3, <1>4, <1>5, <1>6, <1>7, <1>8, <1>9, <1>10 DEF AtAddress, Device, PollAll, Api

Gone(ip) == /\ ~InFlight(ip) /\ data[ip] = None
            /\ request[ip] # "delete_prev" => base[ip] = None

\* Once the dashboard's entry of a removed printer is dropped nothing is under way
\* there, and the baseline goes with the next step of the removal.
Forgotten ==
    caveats = {} =>
        \A ip \in Ips : printers[ip] = 0 /\ request[ip] # "pop_data" => Gone(ip)

LEMMA ForgottenStep ==
    ASSUME Typed, Forgotten, [Next]_vars
    PROVE  Forgotten'
  <1> SUFFICES ASSUME caveats' = {}, NEW ip \in Ips, printers'[ip] = 0, request'[ip] # "pop_data"
               PROVE  Gone(ip)'
    BY DEF Forgotten
  <1>1. caveats = {}
    BY CaveatsStay
  <1>2. printers[ip] = 0 /\ request[ip] # "pop_data" => Gone(ip)
    BY <1>1 DEF Forgotten
  <1>3. /\ printers \in [Ips -> 0..2] /\ data \in [Ips -> Shown]
        /\ base \in [Ips -> Readings \cup {None}] /\ JobType
        /\ cycle \in [polling : BOOLEAN, todo : SUBSET Ips]
        /\ request \in [Ips -> {"idle", "checked", "pop_data", "delete_prev"}]
    BY DEF Typed, TypeOK, JobType
  <1>4. Idle.phase = "idle"
    BY DEF Idle
  <1>5. ASSUME NEW p \in Ips, p # ip, AtAddress(p) PROVE Gone(ip)'
    <2>1. Kept(ip)
      BY <1>5, Elsewhere
    <2> QED BY <1>2, <2>1 DEF Kept, Gone, InFlight, At
  <1>6. ASSUME NEW t \in Threads, Collect(ip, t) PROVE Gone(ip)'
    <2>1. Frame /\ job[ip][t].phase # "idle"
      BY <1>6, CollectStep DEF Typed
    <2> QED BY <1>2, <2>1 DEF Frame, Gone, InFlight, At
  <1>7. CASE Device(ip)
    BY <1>2, <1>7 DEF Device, DevicePrint, DeviceFlap, DeviceSwap, Gone, InFlight, At, web, history
  <1>8. CASE PollAll(ip)
    <2>1. InFlight(ip) /\ UNCHANGED <<printers, request>>
      BY <1>8 DEF PollAll, PollThreadStart, JoinTimeout, LateThreadEnds, InFlight, At, Locked,
                  Threads, web
    <2> QED BY <1>2, <2>1 DEF Gone
  <1>9. CASE ApiThreadStart(ip) \/ ApiThreadPublish(ip)
    BY <1>2, <1>9 DEF ApiThreadStart, ApiThreadPublish, Gone, InFlight, At, Threads, web
  <1>10. CASE ApiAdd(ip) \/ BulkAddAppend(ip) \/ ApiRemove(ip)
    BY <1>3, <1>10 DEF ApiAdd, BulkAddAppend, ApiRemove
  <1>11. CASE BulkAddCheck(ip)
    BY <1>2, <1>3, <1>11 DEF BulkAddCheck, Gone, InFlight, At
  <1>12. CASE RemoveData(ip)
    BY <1>3, <1>12 DEF RemoveData, NoteInFlight, Gone, InFlight, At
  <1>13. CASE RemovePrev(ip)
    BY <1>2, <1>3, <1>13 DEF RemovePrev, Gone, InFlight, At
  <1>14. CASE PollAllStart
    BY <1>2, <1>3, <1>14 DEF PollAllStart, Gone, InFlight, At, web
  <1>15. CASE PollAllPublish
    <2>1. UNCHANGED <<printers, request, base>> /\ cycle'.todo = cycle.todo
      BY <1>3, <1>15 DEF PollAllPublish, web
    <2>2. ~InFlight(ip) /\ data[ip] = None
      BY <1>2, <2>1 DEF Gone
    <2>3. data'[ip] = None
      BY <1>3, <1>15, <2>2 DEF PollAllPublish, InFlight, At, Threads
    <2>4. \A u \in Threads : job'[ip][u].phase = "idle"
      BY <1>3, <1>4, <1>15, <2>2, PublishType DEF InFlight, At
    <2> QED BY <1>2, <2>1, <2>2, <2>3, <2>4 DEF Gone, InFlight, At
  <1>16. CASE Restart
    <2>1. ~\E p \in Ips : request[p] \in {"pop_data", "delete_prev"}
      BY <1>16 DEF Restart
    <2>2. printers'[ip] = IF printers[ip] > 1 THEN 1 ELSE printers[ip]
      BY <1>16 DEF Restart
    <2>3. printers[ip] = 0
      BY <1>3, <2>2
    <2> QED BY <1>2, <1>4, <1>16, <2>1, <2>3, RestartType DEF Restart, Gone, InFlight, At
  <1>17. CASE UNCHANGED vars
    BY <1>2, <1>17 DEF vars, web, history, Gone, InFlight, At
  <1> QED BY <1>5, <1>6, <1>7, <1>8, <1>9, <1>10, <1>11, <1>12, <1>13, <1>14, <1>15, <1>16, <1>17
          DEF Next, AtAddress, Api

\* A removal leaves neither an entry nor a baseline, except one crossed by a poll or a restart.
THEOREM RemovalForgetsHolds == Spec => []RemovalForgets
  <1>1. Init => Forgotten
    BY DEF Init, Idle, Forgotten, Gone, InFlight, At
  <1>2. Forgotten => RemovalForgets
    BY DEF Forgotten, Gone, RemovalForgets
  <1> QED BY <1>1, <1>2, ForgottenStep, TypedHolds, PTL DEF Spec

-----------------------------------------------------------------------------
(* The pages logged *)

\* Of the device at the address, with no more pages logged than were printed before it.
Accounted(ip, r) ==
    /\ r.id = dev[ip].id /\ r.n <= dev[ip].n
    /\ recorded[ip] + (dev[ip].n - r.n) <= printed[ip]

Pending(ip, t) == job[ip][t].phase \in {"prev", "record"}

Balanced(ip) ==
    /\ recorded[ip] <= printed[ip]
    /\ base[ip] # None => Accounted(ip, base[ip])
    /\ \A t \in Threads :
          Pending(ip, t) => /\ Accounted(ip, job[ip][t].reading)
                            /\ base[ip] # None => base[ip].n <= job[ip][t].reading.n

\* What the baseline and a reading under way still let a poll log was printed too.
Ledger == caveats = {} => \A ip \in Ips : Balanced(ip)

(* Prints and swaps, a poll that records, and a removal: nothing else is about pages. *)
LEMMA LedgerWriters ==
    ASSUME Typed, [Next]_vars, NEW ip \in Ips
    PROVE  \/ Device(ip)
           \/ \E t \in Threads : RecordCounters(ip, t)
           \/ RemovePrev(ip) /\ UNCHANGED <<dev, recorded, printed, job>>
           \/ /\ dev'[ip] = dev[ip] /\ recorded'[ip] = recorded[ip]
              /\ printed'[ip] = printed[ip] /\ base'[ip] = base[ip]
  <1> DEFINE Same == /\ dev'[ip] = dev[ip] /\ recorded'[ip] = recorded[ip]
                     /\ printed'[ip] = printed[ip] /\ base'[ip] = base[ip]
  <1>1. ASSUME NEW p \in Ips, p # ip, AtAddress(p) PROVE Same
    BY <1>1, Elsewhere DEF Kept
  <1>2. ASSUME NEW t \in Threads, Collect(ip, t), ~RecordCounters(ip, t) PROVE Same
    BY <1>2 DEF Collect, SkipConcurrent, Probe, ReadWasOnline, KeepPrevious, DeclareRestricted,
                DeclareOffline, ContinueOnline, DecideFrame, ReadCounters, CollectFails, ReadPrev,
                CollectFrame, history
  <1>3. CASE PollAll(ip)
    BY <1>3 DEF PollAll, PollThreadStart, JoinTimeout, LateThreadEnds, history
  <1>4. CASE RemovePrev(ip)
    BY <1>4 DEF RemovePrev
  <1>5. CASE Api(ip) /\ ~RemovePrev(ip)
    BY <1>5 DEF Api, ApiThreadStart, ApiThreadPublish, ApiAdd, BulkAddCheck, BulkAddAppend,
                ApiRemove, RemoveData, history
  <1>6. CASE PollAllStart \/ PollAllPublish \/ Restart \/ UNCHANGED vars
    BY <1>6 DEF PollAllStart, PollAllPublish, Restart, vars, history
  <1> QED BY <1>1, <1>2, <1>3, <1>4, <1>5, <1>6 DEF Next, AtAddress

LEMMA DeviceBalanced ==
    ASSUME Typed, NEW ip \in Ips, Balanced(ip), Device(ip),
           printers[ip] = 0 /\ request[ip] # "pop_data" => Gone(ip)
    PROVE  Balanced(ip)'
  <1>1. /\ dev \in [Ips -> [id : Devices, n : Nat, state : {"up", "restricted", "down"}]]
        /\ recorded \in [Ips -> Nat] /\ printed \in [Ips -> Nat]
        /\ base[ip] \in Readings \cup {None}
        /\ \A t \in Threads : job[ip][t] \in Jobs
    BY DEF Typed, TypeOK
  <1>2. /\ base[ip] # None => base[ip].n \in Nat
        /\ \A t \in Threads : Pending(ip, t) => job[ip][t].reading.n \in Nat
    BY <1>1 DEF Typed, HasReading, Jobs, Readings, Pending
  <1>3. /\ UNCHANGED <<base, job, recorded>>
    BY DEF Device, DevicePrint, DeviceFlap, DeviceSwap, history
  <1>4. CASE DevicePrint(ip)
    <2>1. dev'[ip].n = dev[ip].n + 1 /\ dev'[ip].id = dev[ip].id /\ printed'[ip] = printed[ip] + 1
      BY <1>1, <1>4 DEF DevicePrint
    <2>2. dev[ip].n \in Nat /\ recorded[ip] \in Nat /\ printed[ip] \in Nat
      BY <1>1
    <2> QED BY <1>2, <1>3, <2>1, <2>2 DEF Balanced, Accounted, Pending
  <1>5. CASE DeviceFlap(ip)
    <2>1. dev'[ip].n = dev[ip].n /\ dev'[ip].id = dev[ip].id /\ printed'[ip] = printed[ip]
      BY <1>1, <1>5 DEF DeviceFlap, history
    <2> QED BY <1>3, <2>1 DEF Balanced, Accounted, Pending
  <1>6. CASE DeviceSwap(ip)
    <2>1. base[ip] = None /\ \A t \in Threads : ~Pending(ip, t)
      BY <1>6 DEF DeviceSwap, Gone, InFlight, At, Pending
    <2>2. printed' = printed
      BY <1>6 DEF DeviceSwap, history
    <2> QED BY <1>3, <2>1, <2>2 DEF Balanced, Pending
  <1> QED BY <1>4, <1>5, <1>6 DEF Device

(* A poll that records takes what it owes from the baseline it has read. *)
LEMMA RecordBalanced ==
    ASSUME Typed, NEW ip \in Ips, Balanced(ip), NEW t \in Threads, RecordCounters(ip, t),
           job[ip][t].seen = base[ip]
    PROVE  Balanced(ip)'
  <1> DEFINE j == job[ip][t]
  <1>1. /\ dev[ip].n \in Nat /\ recorded[ip] \in Nat /\ printed[ip] \in Nat
        /\ base[ip] \in Readings \cup {None} /\ j \in Jobs /\ JobType
        /\ recorded \in [Ips -> Nat] /\ base \in [Ips -> Readings \cup {None}]
    BY DEF Typed, TypeOK, JobType
  <1>2. j.phase = "record" /\ Pending(ip, t)
    BY DEF RecordCounters, At, Pending
  <1>3. j.reading.n \in Nat /\ j.reading # None /\ (base[ip] # None => base[ip].n \in Nat)
    BY <1>1, <1>2 DEF Typed, HasReading, Jobs, Readings
  <1>4. UNCHANGED <<dev, printed>> /\ Step(ip, t, Answer("online"))
    BY DEF RecordCounters, CollectFrame
  <1>5. base[ip] = None \/ j.reading.n >= base[ip].n
    BY <1>1, <1>2, <1>3 DEF Balanced
  <1>6. base'[ip] = j.reading
    BY <1>1, <1>5 DEF RecordCounters
  <1>7. recorded'[ip] = IF base[ip] # None /\ j.reading.n > base[ip].n
                        THEN recorded[ip] + (j.reading.n - base[ip].n) ELSE recorded[ip]
    BY <1>1 DEF RecordCounters
  <1>8. ASSUME NEW u \in Threads PROVE ~Pending(ip, u)'
    <2>1. Answer("online") \in Jobs /\ Answer("online").phase = "done"
      BY JobTypes DEF Answer, Idle, Shown
    <2>2. /\ job'[ip][t].phase = "done"
          /\ u # t => job'[ip][u] = job[ip][u]
      BY <1>1, <1>4, <2>1, StepType
    <2>3. u # t => job[ip][u].phase \notin Locked
      BY <1>2 DEF Typed, OneHolder, Locked
    <2> QED BY <2>2, <2>3 DEF Pending, Locked
  <1>9. Accounted(ip, j.reading)
    BY <1>2 DEF Balanced
  <1>10. base[ip] # None => Accounted(ip, base[ip])
    BY DEF Balanced
  <1>11. recorded[ip] <= printed[ip]
    BY DEF Balanced
  <1> HIDE DEF j
  <1>12. recorded'[ip] + (dev[ip].n - j.reading.n) <= printed[ip] /\ recorded'[ip] \in Nat
    BY <1>1, <1>3, <1>5, <1>7, <1>9, <1>10 DEF Accounted
  <1>13. Accounted(ip, base[ip])' /\ recorded'[ip] <= printed'[ip]
    <2>1. j.reading.id = dev[ip].id /\ j.reading.n <= dev[ip].n
      BY <1>9 DEF Accounted
    <2>2. recorded'[ip] <= printed[ip]
      BY <1>1, <1>3, <1>12, <2>1
    <2>3. (dev[ip])' = dev[ip] /\ (printed[ip])' = printed[ip]
      BY <1>4
    <2> QED BY <1>6, <1>12, <2>1, <2>2, <2>3 DEF Accounted
  <1> QED BY <1>6, <1>8, <1>13 DEF Balanced

LEMMA LedgerStep ==
    ASSUME Typed, BaselineReadIsCurrent, Forgotten, Ledger, [Next]_vars
    PROVE  Ledger'
  <1> SUFFICES ASSUME caveats' = {}, NEW ip \in Ips PROVE Balanced(ip)'
    BY DEF Ledger
  <1>1. caveats = {} /\ Balanced(ip)
    BY CaveatsStay DEF Ledger
  <1>2. CASE Device(ip)
    BY <1>1, <1>2, DeviceBalanced DEF Forgotten
  <1>3. ASSUME NEW t \in Threads, RecordCounters(ip, t) PROVE Balanced(ip)'
    <2>1. job[ip][t].seen = base[ip]
      BY <1>1, <1>3 DEF RecordCounters, BaselineReadIsCurrent
    <2> QED BY <1>1, <1>3, <2>1, RecordBalanced
  <1>4. CASE RemovePrev(ip) /\ UNCHANGED <<dev, recorded, printed, job>>
    <2>1. base'[ip] = None
      BY <1>4 DEF RemovePrev, Typed, TypeOK
    <2> QED BY <1>1, <1>4, <2>1 DEF Balanced, Accounted, Pending
  <1>5. CASE /\ dev'[ip] = dev[ip] /\ recorded'[ip] = recorded[ip]
             /\ printed'[ip] = printed[ip] /\ base'[ip] = base[ip]
    <2>1. ASSUME NEW t \in Threads, Pending(ip, t)'
          PROVE  \/ \E u \in Threads : Pending(ip, u) /\ job[ip][u].reading = job'[ip][t].reading
                 \/ job'[ip][t].reading = [id |-> dev[ip].id, n |-> dev[ip].n]
      <3>1. CASE Collect(ip, t)
        BY <2>1, <3>1, CollectGives DEF Pending
      <3>2. CASE \E u \in Threads : job[ip][u] = job'[ip][t]
        BY <2>1, <3>2 DEF Pending
      <3> QED BY <2>1, <3>1, <3>2, Lineage DEF Pending
    <2>2. /\ dev[ip].n \in Nat /\ recorded[ip] \in Nat /\ printed[ip] \in Nat
      BY DEF Typed, TypeOK
    <2>3. ASSUME NEW t \in Threads, Pending(ip, t)'
          PROVE  /\ Accounted(ip, job'[ip][t].reading)
                 /\ base[ip] # None => base[ip].n <= job'[ip][t].reading.n
      <3>1. CASE \E u \in Threads : Pending(ip, u) /\ job[ip][u].reading = job'[ip][t].reading
        BY <1>1, <3>1 DEF Balanced
      <3>2. CASE job'[ip][t].reading = [id |-> dev[ip].id, n |-> dev[ip].n]
        BY <1>1, <2>2, <3>2 DEF Balanced, Accounted
      <3> QED BY <2>1, <2>3, <3>1, <3>2
    <2> QED BY <1>1, <1>5, <2>3 DEF Balanced, Accounted
  <1> QED BY <1>2, <1>3, <1>4, <1>5, LedgerWriters

\* The logged pages of an address were printed there, also when its device is exchanged.
THEOREM LoggedPagesWerePrintedHolds == Spec => []LoggedPagesWerePrinted
  <1>1. Init => Forgotten /\ BaselineReadIsCurrent
    BY DEF Init, Idle, Forgotten, Gone, InFlight, At, BaselineReadIsCurrent
  <1>2. Init => Ledger
    BY DEF Init, Idle, Ledger, Balanced, Pending
  <1>3. Ledger => LoggedPagesWerePrinted
    BY DEF Ledger, Balanced, LoggedPagesWerePrinted
  <1> QED BY <1>1, <1>2, <1>3, CurrentStep, ForgottenStep, LedgerStep, TypedHolds, PTL DEF Spec

-----------------------------------------------------------------------------
(* The grace window *)

\* A poll that has probed its device and has not judged the answer yet.
Judging(ip, t) == job[ip][t].phase \in {"was", "decide"}

Answered(ip) == \E t \in Threads : Judging(ip, t) /\ job[ip][t].probe = "up"

Overdue(ip) == fails[ip] + 1 <= streak[ip] \/ streak[ip] = GraceCycles

\* The count has no more failures than there were in a row, unless a probe has just
\* succeeded; a failed probe not yet counted is one of the row too.
Justified(ip) ==
    \/ Answered(ip)
    \/ /\ fails[ip] <= streak[ip]
       /\ \A t \in Threads : Judging(ip, t) => Overdue(ip)

FailsJustified == \A ip \in Ips : Justified(ip)

\* The polls that judge at an address go on judging, with the same answers.
SameJudges(ip) ==
    /\ fails'[ip] = fails[ip] /\ streak'[ip] = streak[ip]
    /\ \A t \in Threads : Judging(ip, t)' => \E u \in Threads : Judging(ip, u)
    /\ \A t \in Threads : Judging(ip, t) => \E u \in Threads :
                              Judging(ip, u)' /\ job'[ip][u].probe = job[ip][t].probe

LEMMA SameJustified == ASSUME NEW ip \in Ips, Justified(ip), SameJudges(ip) PROVE Justified(ip)'
  <1>1. CASE Answered(ip)
    BY <1>1 DEF SameJudges, Justified, Answered
  <1>2. CASE ~Answered(ip)
    BY <1>2 DEF SameJudges, Justified, Overdue
  <1> QED BY <1>1, <1>2

(* A thread that judges neither before nor after its step. *)
LEMMA OtherStep ==
    ASSUME Typed, NEW ip \in Ips, NEW t \in Threads, NEW j \in Jobs, Step(ip, t, j),
           ~Judging(ip, t), j.phase \notin {"was", "decide"},
           fails'[ip] = fails[ip], streak'[ip] = streak[ip]
    PROVE  SameJudges(ip)
  <1>1. JobType
    BY DEF Typed, TypeOK, JobType
  <1>2. job'[ip][t] = j /\ \A u \in Threads : u # t => job'[ip][u] = job[ip][u]
    BY <1>1, StepType
  <1> QED BY <1>2 DEF SameJudges, Judging

LEMMA ProbeJustified ==
    ASSUME Typed, NEW ip \in Ips, NEW t \in Threads, Justified(ip), Probe(ip, t)
    PROVE  Justified(ip)'
  <1>1. /\ JobType /\ job[ip][t] \in Jobs /\ dev[ip].state \in States
        /\ streak \in [Ips -> 0..GraceCycles] /\ fails[ip] \in 0..GraceCycles
        /\ streak[ip] \in 0..GraceCycles /\ GraceCycles \in Nat
    BY ConstType DEF Typed, TypeOK, JobType, States
  <1>2. PICK outcome \in {dev[ip].state, "down"} :
            /\ Step(ip, t, [job[ip][t] EXCEPT !.phase = "was", !.probe = outcome])
            /\ streak' = [streak EXCEPT ![ip] = IF outcome = "up" THEN 0
                                               ELSE IF @ < GraceCycles THEN @ + 1 ELSE @]
    BY DEF Probe
  <1> DEFINE j == [job[ip][t] EXCEPT !.phase = "was", !.probe = outcome]
  <1>3. j \in Jobs /\ j.phase = "was" /\ j.probe = outcome
    BY <1>1, <1>2 DEF Jobs, Phases, Locked, States
  <1> HIDE DEF j
  <1>4. job'[ip][t] = j
    BY <1>1, <1>2, <1>3, StepType DEF j
  <1>5. CASE outcome = "up"
    BY <1>3, <1>4, <1>5 DEF Justified, Answered, Judging
  <1>6. CASE outcome # "up"
    <2>1. fails'[ip] = fails[ip] /\ job[ip][t].phase = "probe"
      BY DEF Probe, At
    <2>2. ~Answered(ip)
      BY <2>1 DEF Typed, OneHolder, Locked, Answered, Judging
    <2>3. streak'[ip] = IF streak[ip] < GraceCycles THEN streak[ip] + 1 ELSE streak[ip]
      BY <1>1, <1>2, <1>6
    <2>4. fails[ip] <= streak[ip]
      BY <2>2 DEF Justified
    <2>5. fails'[ip] <= streak'[ip] /\ Overdue(ip)'
      BY <1>1, <2>1, <2>3, <2>4 DEF Overdue
    <2> QED BY <2>5 DEF Justified
  <1> QED BY <1>5, <1>6

(* A poll that judges ends its judging: nobody else does at the address. *)
LEMMA DecideJustified ==
    ASSUME Typed, NEW ip \in Ips, NEW t \in Threads, Justified(ip), NEW j \in Jobs,
           At(ip, t, "decide"), Step(ip, t, j), j.phase \in {"done", "read"},
           streak' = streak,
           \/ job[ip][t].probe # "up" /\ NoteHealthFailure(ip)
           \/ ResetHealthFailure(ip)
    PROVE  Justified(ip)'
  <1>1. /\ JobType /\ fails \in [Ips -> 0..GraceCycles] /\ fails[ip] \in 0..GraceCycles
        /\ streak[ip] \in 0..GraceCycles /\ GraceCycles \in Nat
    BY ConstType DEF Typed, TypeOK, JobType
  <1>2. \A u \in Threads : u # t => ~Judging(ip, u)
    BY DEF Typed, OneHolder, Locked, Judging, At
  <1>3. \A u \in Threads : ~Judging(ip, u)'
    <2>1. job'[ip][t] = j /\ \A u \in Threads : u # t => job'[ip][u] = job[ip][u]
      BY <1>1, StepType
    <2> QED BY <1>2, <2>1 DEF Judging
  <1>4. CASE ResetHealthFailure(ip)
    BY <1>1, <1>3, <1>4 DEF ResetHealthFailure, Justified
  <1>5. CASE job[ip][t].probe # "up" /\ NoteHealthFailure(ip)
    <2>1. Judging(ip, t) /\ ~Answered(ip)
      BY <1>2, <1>5 DEF Answered, Judging, At
    <2>2. fails[ip] <= streak[ip] /\ Overdue(ip)
      BY <2>1 DEF Justified
    <2>3. fails'[ip] = IF fails[ip] < GraceCycles THEN fails[ip] + 1 ELSE fails[ip]
      BY <1>1, <1>5 DEF NoteHealthFailure
    <2>4. fails'[ip] <= streak'[ip]
      BY <1>1, <2>2, <2>3 DEF Overdue
    <2> QED BY <1>3, <2>4 DEF Justified
  <1> QED BY <1>4, <1>5

LEMMA CollectJustified ==
    ASSUME Typed, NEW ip \in Ips, NEW t \in Threads, Justified(ip), Collect(ip, t)
    PROVE  Justified(ip)'
  <1>1. JobType /\ job[ip][t] \in Jobs /\ data[ip] \in Shown /\ base[ip] \in Readings \cup {None}
        /\ dev[ip].id \in Devices /\ dev[ip].n \in Nat /\ "online" \in Shown /\ "offline" \in Shown
    BY DEF Typed, TypeOK, JobType, Shown
  <1>2. \A s \in Shown : Answer(s) \in Jobs /\ Answer(s).phase = "done"
    BY JobTypes DEF Answer, Idle
  <1>3. CASE Probe(ip, t)
    BY <1>3, ProbeJustified
  <1>4. CASE KeepPrevious(ip, t) \/ DeclareRestricted(ip, t) \/ DeclareOffline(ip, t)
    <2>1. PICK s \in Shown : Step(ip, t, Answer(s))
      BY <1>1, <1>4 DEF KeepPrevious, DeclareRestricted, DeclareOffline
    <2>2. /\ At(ip, t, "decide") /\ job[ip][t].probe # "up" /\ NoteHealthFailure(ip)
          /\ streak' = streak
      BY <1>4 DEF KeepPrevious, DeclareRestricted, DeclareOffline, Failing, DecideFrame, history
    <2> QED BY <1>2, <2>1, <2>2, DecideJustified
  <1>5. CASE ContinueOnline(ip, t)
    <2> DEFINE j == [job[ip][t] EXCEPT !.phase = "read"]
    <2>1. j \in Jobs /\ j.phase = "read"
      BY <1>1 DEF Jobs, Phases, Locked
    <2>2. Step(ip, t, j) /\ At(ip, t, "decide") /\ ResetHealthFailure(ip) /\ streak' = streak
      BY <1>5 DEF ContinueOnline, DecideFrame, history
    <2> HIDE DEF j
    <2> QED BY <2>1, <2>2, DecideJustified
  <1>6. CASE ReadWasOnline(ip, t)
    <2> DEFINE j == [job[ip][t] EXCEPT !.phase = "decide", !.was = data[ip]]
    <2>1. j \in Jobs /\ j.phase = "decide" /\ j.probe = job[ip][t].probe
      BY <1>1 DEF Jobs, Phases, Locked
    <2>2. Step(ip, t, j) /\ Judging(ip, t) /\ fails' = fails /\ streak' = streak
      BY <1>6 DEF ReadWasOnline, At, Judging, history
    <2> HIDE DEF j
    <2>3. job'[ip][t] = j /\ \A u \in Threads : u # t => job'[ip][u] = job[ip][u]
      BY <1>1, <2>1, <2>2, StepType
    <2>4. SameJudges(ip)
      BY <2>1, <2>2, <2>3 DEF SameJudges, Judging
    <2> QED BY <2>4, SameJustified
  <1>7. CASE SkipConcurrent(ip, t) \/ ReadCounters(ip, t) \/ CollectFails(ip, t)
             \/ ReadPrev(ip, t) \/ RecordCounters(ip, t)
    <2>1. /\ fails' = fails /\ streak' = streak /\ ~Judging(ip, t)
          /\ job[ip][t].phase # "probe"
      BY <1>7 DEF SkipConcurrent, ReadCounters, CollectFails, ReadPrev, RecordCounters,
                  CollectFrame, At, Judging, history
    <2>2. PICK j \in Jobs : Step(ip, t, j)
      BY <1>7, CollectStep DEF Typed
    <2>3. job'[ip][t] = j
      BY <1>1, <2>2, StepType
    <2>4. j.phase \notin {"was", "decide"}
      BY <1>7, <2>1, <2>3, CollectGives DEF Judging
    <2>5. SameJudges(ip)
      BY <2>1, <2>2, <2>4, OtherStep
    <2> QED BY <2>5, SameJustified
  <1> QED BY <1>3, <1>4, <1>5, <1>6, <1>7 DEF Collect

LEMMA JustifiedStep == ASSUME Typed, FailsJustified, [Next]_vars PROVE FailsJustified'
  <1> SUFFICES ASSUME NEW ip \in Ips PROVE Justified(ip)'
    BY DEF FailsJustified
  <1>1. Justified(ip)
    BY DEF FailsJustified
  <1>2. SUFFICES ASSUME ~\E t \in Threads : Collect(ip, t), ~Restart PROVE SameJudges(ip)
    <2>1. ASSUME Restart PROVE Justified(ip)'
      <3>1. fails'[ip] = 0 /\ streak'[ip] = streak[ip] /\ streak[ip] \in Nat
        BY <2>1, ConstType DEF Restart, Typed, TypeOK
      <3>2. \A t \in Threads : ~Judging(ip, t)'
        BY <2>1, RestartType DEF Judging, Idle
      <3> QED BY <3>1, <3>2 DEF Justified
    <2> QED BY <1>1, <1>2, <2>1, CollectJustified, SameJustified
  <1>3. JobType /\ "cycle" \in Threads /\ "api" \in Threads /\ "late" \in Threads
    BY DEF Typed, TypeOK, JobType, Threads
  <1>4. /\ Idle \in Jobs /\ Begin(ip) \in Jobs /\ Queued \in Jobs /\ Idle.phase = "idle"
        /\ Begin(ip).phase \in {"skip", "probe"} /\ Queued.phase = "queued"
    BY JobTypes DEF Begin, Queued, Idle, Jobs, Phases, Locked, Shown
  <1>5. ASSUME NEW p \in Ips, p # ip, AtAddress(p) PROVE SameJudges(ip)
    BY <1>5, Elsewhere DEF Kept, SameJudges, Judging
  <1>6. ASSUME job' = job, fails' = fails, streak' = streak PROVE SameJudges(ip)
    BY <1>6 DEF SameJudges, Judging
  <1>7. CASE Device(ip) \/ PollAllStart \/ UNCHANGED vars
    BY <1>6, <1>7 DEF Device, DevicePrint, DeviceFlap, DeviceSwap, PollAllStart, vars, history
  <1>8. CASE PollThreadStart(ip) \/ LateThreadEnds(ip)
    BY <1>3, <1>4, <1>8, OtherStep DEF PollThreadStart, LateThreadEnds, At, Judging, history
  <1>9. CASE JoinTimeout(ip)
    <2>1. fails' = fails /\ streak' = streak
      BY <1>9 DEF JoinTimeout, history
    <2>2. /\ job'[ip]["late"] = job[ip]["cycle"] /\ job'[ip]["cycle"].phase = "idle"
          /\ job[ip]["late"].phase = "idle"
          /\ \A u \in Threads : u \notin {"late", "cycle"} => job'[ip][u] = job[ip][u]
      BY <1>3, <1>4, <1>9, JoinType
    <2> QED BY <1>3, <2>1, <2>2 DEF SameJudges, Judging
  <1>10. CASE ApiThreadStart(ip) \/ ApiThreadPublish(ip)
    BY <1>3, <1>4, <1>10, OtherStep DEF ApiThreadStart, ApiThreadPublish, At, Judging, history
  <1>11. CASE ApiAdd(ip) \/ BulkAddAppend(ip)
    BY <1>3, <1>4, <1>11, OtherStep DEF ApiAdd, BulkAddAppend, Queue, Queued, At, Judging, history
  <1>12. CASE BulkAddCheck(ip) \/ ApiRemove(ip) \/ RemoveData(ip) \/ RemovePrev(ip)
    BY <1>6, <1>12 DEF BulkAddCheck, ApiRemove, RemoveData, RemovePrev, history
  <1>13. CASE PollAllPublish
    <2>1. fails' = fails /\ streak' = streak
      BY <1>13 DEF PollAllPublish, history
    <2>2. /\ job'[ip]["cycle"].phase = "idle" /\ job[ip]["cycle"].phase \in {"idle", "done"}
          /\ \A u \in Threads : u # "cycle" => job'[ip][u] = job[ip][u]
      BY <1>3, <1>4, <1>13, PublishType
    <2> QED BY <1>3, <2>1, <2>2 DEF SameJudges, Judging
  <1> QED BY <1>2, <1>5, <1>7, <1>8, <1>9, <1>10, <1>11, <1>12, <1>13
          DEF Next, AtAddress, PollAll, Api

LEMMA ReportsAfterGrace ==
    ASSUME Typed, FailsJustified, NEW ip \in Ips, NEW t \in Threads, ReportsOffline(ip, t)
    PROVE  streak[ip] >= GraceCycles
  <1>1. /\ fails \in [Ips -> 0..GraceCycles] /\ fails[ip] \in 0..GraceCycles
        /\ streak[ip] \in 0..GraceCycles /\ GraceCycles \in Nat /\ GraceCycles >= 1
    BY ConstType DEF Typed, TypeOK
  <1>2. /\ Judging(ip, t) /\ job[ip][t].probe # "up"
        /\ NoteHealthFailure(ip) /\ ~(fails'[ip] < GraceCycles)
    BY DEF ReportsOffline, DeclareOffline, Failing, InGrace, At, Judging
  <1>3. ~Answered(ip)
    BY <1>2 DEF Typed, OneHolder, Locked, Answered, Judging
  <1>4. Overdue(ip)
    BY <1>2, <1>3 DEF FailsJustified, Justified
  <1>5. fails'[ip] = IF fails[ip] < GraceCycles THEN fails[ip] + 1 ELSE fails[ip]
    BY <1>1, <1>2 DEF NoteHealthFailure
  <1> QED BY <1>1, <1>2, <1>4, <1>5 DEF Overdue

\* A printer that was online is reported offline only after a full grace window of failed probes.
THEOREM ReportedOfflineAfterGraceHolds == Spec => ReportedOfflineAfterGrace
  <1>1. Init => FailsJustified
    BY DEF Init, Idle, FailsJustified, Justified, Judging
  <1>2. ASSUME Typed, FailsJustified, [Next]_vars
        PROVE  [\A ip \in Ips, t \in Threads : ReportsOffline(ip, t) => streak[ip] >= GraceCycles]_vars
    BY <1>2, ReportsAfterGrace
  <1> QED BY <1>1, <1>2, JustifiedStep, TypedHolds, PTL DEF Spec, ReportedOfflineAfterGrace

=============================================================================
