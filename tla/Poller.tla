-------------------------------- MODULE Poller --------------------------------
(***************************************************************************)
(* The polling of the printers (core/poller.py) together with the requests *)
(* of the web API that add and remove printers while polls run             *)
(* (web/routes/printers.py): who may poll an address, when a result        *)
(* reaches the dashboard, when a printer is declared offline, and whose    *)
(* baseline a poll compares with.                                          *)
(*                                                                         *)
(* An address is served by three threads: the one of the current poll_all  *)
(* cycle, one started by a request of the API, and one left over from a    *)
(* cycle that did not wait for it any longer. What the counters mean once  *)
(* read is the module CounterLedger; here they only tell devices apart.    *)
(*                                                                         *)
(* A definition introduced by "Variant:" is not part of the specification: *)
(* it is its successor with a plausible bug, kept to test that a property  *)
(* would notice.                                                           *)
(***************************************************************************)
EXTENDS Integers, FiniteSets

CONSTANTS
    None,               \* Python's None
    Ips,                \* addresses
    Devices,            \* devices that may be found at an address
    GraceCycles,        \* _OFFLINE_GRACE_CYCLES
    SilentIsSlow,       \* probing a silent device may outlast join(timeout=60)
    FirstCounter,       \* FirstCounter[d]: page counter of device d when it appears
    MaxPages,           \* bound: pages printed at an address
    MaxFlaps,           \* bound: changes of a device's reachability
    MaxLosses,          \* bound: answers lost by a device that is up
    MaxLate,            \* bound: joins that time out on any slow poll
    MaxRequests,        \* bound: additions and removals
    MaxSwaps,           \* bound: devices exchanged behind an address
    MaxRestarts         \* bound: restarts of the program

ASSUME PollerAssumption ==
    /\ None \notin {"online", "offline"} /\ None \notin [id : Devices, n : Nat]
    /\ Ips # {} /\ Devices # {}
    /\ GraceCycles \in Nat \ {0} /\ SilentIsSlow \in BOOLEAN
    /\ FirstCounter \in [Devices -> Nat]
    /\ {MaxPages, MaxFlaps, MaxLosses, MaxLate, MaxRequests, MaxSwaps, MaxRestarts}
           \subseteq Nat

VARIABLES
    printers,   \* store.PRINTERS: the number of entries of each address
    dev,        \* the device at each address
    data,       \* store.printer_data: the "online" field of each address
    fails,      \* _health_fail_counts
    base,       \* store._prev: whose counter the baseline is, and its value
    job,        \* what each thread of an address is doing
    cycle,      \* the poll_all that holds _polling_lock
    request,    \* the API request in progress on each address
    budget,     \* bounds: how often each kind of fault has happened
    recorded,   \* history: pages of the PRINT events of an address
    printed,    \* history: pages printed at an address
    streak,     \* history: failed probes since the last one answered
    caveats     \* history: what has happened that weakens the guarantees

web     == <<printers, request>>
history == <<recorded, printed, streak, caveats>>
vars    == <<web, dev, data, fails, base, job, cycle, budget, history>>

Threads == {"cycle", "api", "late"}
Faults  == {"flaps", "losses", "late", "requests", "swaps", "restarts"}
Limit   == [flaps |-> MaxFlaps, losses |-> MaxLosses, late |-> MaxLate,
            requests |-> MaxRequests, swaps |-> MaxSwaps, restarts |-> MaxRestarts]
Spend(f) == budget[f] < Limit[f] /\ budget' = [budget EXCEPT ![f] = @ + 1]

Shown    == {None, "online", "offline"}
Readings == [id : Devices, n : Nat]
\* The phases in which a thread holds the lock of its address.
Locked   == {"probe", "was", "decide", "read", "prev", "record"}
Phases   == Locked \cup {"idle", "queued", "skip", "done"}
Jobs     == [phase : Phases, probe : {None, "up", "restricted", "down"}, was : Shown,
             reading : Readings \cup {None}, seen : Readings \cup {None}, result : Shown]
Idle     == [phase |-> "idle", probe |-> None, was |-> None, reading |-> None,
             seen |-> None, result |-> None]

TypeOK ==
    /\ printers \in [Ips -> 0..2]
    /\ dev \in [Ips -> [id : Devices, n : Nat, state : {"up", "restricted", "down"}]]
    /\ data \in [Ips -> Shown]
    /\ fails \in [Ips -> 0..GraceCycles]
    /\ base \in [Ips -> Readings \cup {None}]
    /\ job \in [Ips -> [Threads -> Jobs]]
    /\ cycle \in [polling : BOOLEAN, todo : SUBSET Ips]
    /\ request \in [Ips -> {"idle", "checked", "pop_data", "delete_prev"}]
    /\ budget \in [Faults -> Nat]
    /\ recorded \in [Ips -> Nat] /\ printed \in [Ips -> Nat]
    /\ streak \in [Ips -> 0..GraceCycles]
    /\ caveats \subseteq {"removed_in_flight", "removal_interrupted"}

Init ==
    /\ printers \in [Ips -> {0, 1}]
    /\ dev \in [Ips -> {[id |-> d, n |-> FirstCounter[d], state |-> s] :
                            d \in Devices, s \in {"up", "down"}}]
    /\ data = [ip \in Ips |-> None]
    /\ fails = [ip \in Ips |-> 0]
    /\ base = [ip \in Ips |-> None]
    /\ job = [ip \in Ips |-> [t \in Threads |-> Idle]]
    /\ cycle = [polling |-> FALSE, todo |-> {}]
    /\ request = [ip \in Ips |-> "idle"]
    /\ budget = [f \in Faults |-> 0]
    /\ recorded = [ip \in Ips |-> 0] /\ printed = [ip \in Ips |-> 0]
    /\ streak = [ip \in Ips |-> 0] /\ caveats = {}

-----------------------------------------------------------------------------
(* The devices. *)

DevicePrint(ip) ==
    /\ dev[ip].state # "down" /\ printed[ip] < MaxPages
    /\ dev' = [dev EXCEPT ![ip].n = @ + 1]
    /\ printed' = [printed EXCEPT ![ip] = @ + 1]
    /\ UNCHANGED <<web, data, fails, base, job, cycle, budget, recorded, streak, caveats>>

DeviceFlap(ip) ==
    /\ Spend("flaps")
    /\ \E s \in {"up", "restricted", "down"} \ {dev[ip].state} :
          dev' = [dev EXCEPT ![ip].state = s]
    /\ UNCHANGED <<web, data, fails, base, job, cycle, history>>

\* The address of a printer that has been removed is given to another device.
DeviceSwap(ip) ==
    /\ printers[ip] = 0 /\ request[ip] \in {"idle", "checked"}
    /\ Spend("swaps")
    /\ \E d \in Devices \ {dev[ip].id} :
          dev' = [dev EXCEPT ![ip] = [id |-> d, n |-> FirstCounter[d], state |-> "up"]]
    /\ UNCHANGED <<web, data, fails, base, job, cycle, history>>

-----------------------------------------------------------------------------
(* collect and _collect_inner, run by thread t for address ip. *)

At(ip, t, phase) == job[ip][t].phase = phase

Locks(ip) == {t \in Threads : job[ip][t].phase \in Locked}

Step(ip, t, j) == job' = [job EXCEPT ![ip][t] = j]

\* Variant: the lock is not tried.
BeginWithoutLock(ip) == [Idle EXCEPT !.phase = "probe"]

\* A thread that finds the lock taken does not wait for it.
Begin(ip) == [Idle EXCEPT !.phase = IF Locks(ip) = {} THEN "probe" ELSE "skip"]

Answer(shown) == [Idle EXCEPT !.phase = "done", !.result = shown]

\* The dashboard keeps its entry; an address without one gets a stub that says
\* online.
SkipConcurrent(ip, t) ==
    /\ At(ip, t, "skip")
    /\ Step(ip, t, Answer(IF data[ip] = None THEN "online" ELSE data[ip]))
    /\ UNCHANGED <<web, dev, data, fails, base, cycle, budget, history>>

\* snmp_get_first on the health OIDs, then _probe_snmp_agent_reachable.
Probe(ip, t) ==
    /\ At(ip, t, "probe")
    /\ \E outcome \in {dev[ip].state, "down"} :
          /\ IF outcome = dev[ip].state THEN UNCHANGED budget ELSE Spend("losses")
          /\ Step(ip, t, [job[ip][t] EXCEPT !.phase = "was", !.probe = outcome])
          /\ streak' = [streak EXCEPT ![ip] =
                            IF outcome = "up" THEN 0
                            ELSE IF @ < GraceCycles THEN @ + 1 ELSE @]
    /\ UNCHANGED <<web, dev, data, fails, base, cycle, recorded, printed, caveats>>

ReadWasOnline(ip, t) ==
    /\ At(ip, t, "was")
    /\ Step(ip, t, [job[ip][t] EXCEPT !.phase = "decide", !.was = data[ip]])
    /\ UNCHANGED <<web, dev, data, fails, base, cycle, budget, history>>

\* Variant: a success does not clear the count.
ResetHealthFailureForgotten(ip) == UNCHANGED fails
ResetHealthFailure(ip) == fails' = [fails EXCEPT ![ip] = 0]

\* Counts beyond the grace window are not told apart.
NoteHealthFailure(ip) ==
    fails' = [fails EXCEPT ![ip] = IF @ < GraceCycles THEN @ + 1 ELSE @]

Failing(ip, t) == At(ip, t, "decide") /\ job[ip][t].probe # "up"

\* Variant: the count is not compared.
InGraceForEver(ip, t) == job[ip][t].was = "online"
InGrace(ip, t) == job[ip][t].was = "online" /\ fails'[ip] < GraceCycles

DecideFrame == UNCHANGED <<web, dev, data, base, cycle, budget, history>>

\* The first failure of a printer shown online: the previous data, marked degraded
\* (without an "online" field if a removal has emptied it meanwhile).
KeepPrevious(ip, t) ==
    /\ Failing(ip, t)
    /\ NoteHealthFailure(ip) /\ InGrace(ip, t)
    /\ Step(ip, t, Answer(data[ip]))
    /\ DecideFrame

\* The agent answers but none of its OIDs can be read: shown online, partial.
DeclareRestricted(ip, t) ==
    /\ Failing(ip, t) /\ job[ip][t].probe = "restricted"
    /\ NoteHealthFailure(ip) /\ ~InGrace(ip, t)
    /\ Step(ip, t, Answer("online"))
    /\ DecideFrame

\* A printer that was online is also reported: add_event("STATUS", offline).
DeclareOffline(ip, t) ==
    /\ Failing(ip, t) /\ job[ip][t].probe = "down"
    /\ NoteHealthFailure(ip) /\ ~InGrace(ip, t)
    /\ Step(ip, t, Answer("offline"))
    /\ DecideFrame

ReportsOffline(ip, t) == DeclareOffline(ip, t) /\ job[ip][t].was = "online"

\* The probe succeeded (a printer that was offline is reported online again).
ContinueOnline(ip, t) ==
    /\ At(ip, t, "decide") /\ job[ip][t].probe = "up"
    /\ ResetHealthFailure(ip)
    /\ Step(ip, t, [job[ip][t] EXCEPT !.phase = "read"])
    /\ DecideFrame

CollectFrame == UNCHANGED <<web, dev, data, fails, cycle, budget, printed, streak, caveats>>

\* collect_enhanced reads the counters of the device ...
ReadCounters(ip, t) ==
    /\ At(ip, t, "read") /\ dev[ip].state = "up"
    /\ Step(ip, t, [job[ip][t] EXCEPT !.phase = "prev",
                        !.reading = [id |-> dev[ip].id, n |-> dev[ip].n]])
    /\ CollectFrame /\ UNCHANGED <<base, recorded>>

\* ... or raises, as do the legacy collectors: the last fallback shows the printer
\* online with its old counters and leaves the baseline alone. (So does a reading
\* through the SNMP exporter. A legacy collector that succeeds reads once more.)
CollectFails(ip, t) ==
    /\ At(ip, t, "read")
    /\ Step(ip, t, Answer("online"))
    /\ CollectFrame /\ UNCHANGED <<base, recorded>>

\* ... then the baseline, before more questions to the device ...
ReadPrev(ip, t) ==
    /\ At(ip, t, "prev")
    /\ Step(ip, t, [job[ip][t] EXCEPT !.phase = "record", !.seen = base[ip]])
    /\ CollectFrame /\ UNCHANGED <<base, recorded>>

\* Variant: a smaller reading is counted like a larger one.
RecordCountersUnsigned(ip, t) ==
    LET j == job[ip][t] IN
    /\ At(ip, t, "record")
    /\ base' = [base EXCEPT ![ip] = j.reading]
    /\ recorded' = [recorded EXCEPT ![ip] =
                        IF j.seen # None THEN @ + (j.reading.n - j.seen.n) ELSE @]
    /\ Step(ip, t, Answer("online"))
    /\ CollectFrame

\* ... and _counters_event logs the difference and writes the baseline; of a smaller
\* reading it logs no pages and may or may not take it.
RecordCounters(ip, t) ==
    LET j == job[ip][t] IN
    /\ At(ip, t, "record")
    /\ IF j.seen = None \/ j.reading.n >= j.seen.n
       THEN base' = [base EXCEPT ![ip] = j.reading]
       ELSE \E b \in {j.reading, j.seen} : base' = [base EXCEPT ![ip] = b]
    /\ recorded' = [recorded EXCEPT ![ip] =
                        IF j.seen # None /\ j.reading.n > j.seen.n
                        THEN @ + (j.reading.n - j.seen.n) ELSE @]
    /\ Step(ip, t, Answer("online"))
    /\ CollectFrame

Collect(ip, t) ==
    \/ SkipConcurrent(ip, t) \/ Probe(ip, t) \/ ReadWasOnline(ip, t)
    \/ KeepPrevious(ip, t) \/ DeclareRestricted(ip, t) \/ DeclareOffline(ip, t)
    \/ ContinueOnline(ip, t) \/ ReadCounters(ip, t) \/ CollectFails(ip, t)
    \/ ReadPrev(ip, t) \/ RecordCounters(ip, t)

-----------------------------------------------------------------------------
(* poll_all, under _polling_lock: a snapshot of the list, one thread for each   *)
(* address (processed_ips: one even if it is listed twice), the joins, and the  *)
(* publication of what has arrived.                                             *)

PollAllStart ==
    /\ ~cycle.polling
    /\ cycle' = [polling |-> TRUE, todo |-> {ip \in Ips : printers[ip] > 0}]
    /\ UNCHANGED <<web, dev, data, fails, base, job, budget, history>>

PollThreadStart(ip) ==
    /\ ip \in cycle.todo /\ At(ip, "cycle", "idle")
    /\ cycle' = [cycle EXCEPT !.todo = @ \ {ip}]
    /\ Step(ip, "cycle", Begin(ip))
    /\ UNCHANGED <<web, dev, data, fails, base, budget, history>>

\* join(timeout=60) gives up; the thread goes on, and its result goes to a dictionary
\* nobody reads any more.
JoinTimeout(ip) ==
    /\ job[ip]["cycle"].phase \in Locked /\ At(ip, "late", "idle")
    /\ \/ SilentIsSlow /\ At(ip, "cycle", "probe") /\ dev[ip].state = "down"
          /\ UNCHANGED budget
       \/ Spend("late")
    /\ job' = [job EXCEPT ![ip]["late"] = job[ip]["cycle"], ![ip]["cycle"] = Idle]
    /\ UNCHANGED <<web, dev, data, fails, base, cycle, history>>

LateThreadEnds(ip) ==
    /\ At(ip, "late", "done")
    /\ Step(ip, "late", Idle)
    /\ UNCHANGED <<web, dev, data, fails, base, cycle, budget, history>>

\* Variant: an entry already shown is not replaced.
PollAllPublishNewOnly ==
    /\ cycle.polling /\ cycle.todo = {}
    /\ \A ip \in Ips : job[ip]["cycle"].phase \in {"idle", "done"}
    /\ data' = [ip \in Ips |-> IF At(ip, "cycle", "done") /\ data[ip] = None
                               THEN job[ip]["cycle"].result ELSE data[ip]]
    /\ job' = [ip \in Ips |-> [job[ip] EXCEPT !["cycle"] = Idle]]
    /\ cycle' = [cycle EXCEPT !.polling = FALSE]
    /\ UNCHANGED <<web, dev, fails, base, budget, history>>

PollAllPublish ==
    /\ cycle.polling /\ cycle.todo = {}
    /\ \A ip \in Ips : job[ip]["cycle"].phase \in {"idle", "done"}
    /\ data' = [ip \in Ips |-> IF At(ip, "cycle", "done") THEN job[ip]["cycle"].result
                               ELSE data[ip]]
    /\ job' = [ip \in Ips |-> [job[ip] EXCEPT !["cycle"] = Idle]]
    /\ cycle' = [cycle EXCEPT !.polling = FALSE]
    /\ UNCHANGED <<web, dev, fails, base, budget, history>>

-----------------------------------------------------------------------------
(* The requests of the API. *)

\* The thread a request starts: poll_one, or collect and an assignment.
ApiThreadStart(ip) ==
    /\ At(ip, "api", "queued")
    /\ Step(ip, "api", Begin(ip))
    /\ UNCHANGED <<web, dev, data, fails, base, cycle, budget, history>>

ApiThreadPublish(ip) ==
    /\ At(ip, "api", "done")
    /\ data' = [data EXCEPT ![ip] = job[ip]["api"].result]
    /\ Step(ip, "api", Idle)
    /\ UNCHANGED <<web, dev, fails, base, cycle, budget, history>>

Queue(ip) ==
    /\ At(ip, "api", "idle") \* bound: one API thread for each address at a time
    /\ Step(ip, "api", [Idle EXCEPT !.phase = "queued"])

\* api_add: the check and the append in one critical section.
ApiAdd(ip) ==
    /\ printers[ip] = 0
    /\ Spend("requests") /\ Queue(ip)
    /\ printers' = [printers EXCEPT ![ip] = 1]
    /\ UNCHANGED <<request, dev, data, fails, base, cycle, history>>

\* api_bulk_add, api_auto_add_printer: two critical sections, so that an address
\* can be listed twice.
BulkAddCheck(ip) ==
    /\ request[ip] = "idle" /\ printers[ip] = 0
    /\ Spend("requests")
    /\ request' = [request EXCEPT ![ip] = "checked"]
    /\ UNCHANGED <<printers, dev, data, fails, base, job, cycle, history>>

BulkAddAppend(ip) ==
    /\ request[ip] = "checked" /\ Queue(ip)
    /\ printers' = [printers EXCEPT ![ip] = @ + 1]
    /\ request' = [request EXCEPT ![ip] = "idle"]
    /\ UNCHANGED <<dev, data, fails, base, cycle, budget, history>>

\* api_remove: the list, then the dashboard, then the baseline.
ApiRemove(ip) ==
    /\ request[ip] = "idle" /\ printers[ip] > 0
    /\ Spend("requests")
    /\ printers' = [printers EXCEPT ![ip] = 0]
    /\ request' = [request EXCEPT ![ip] = "pop_data"]
    /\ UNCHANGED <<dev, data, fails, base, job, cycle, history>>

InFlight(ip) == ip \in cycle.todo \/ \E t \in Threads : ~At(ip, t, "idle")

\* A poll under way when a removal clears something may write it again.
NoteInFlight(ip) ==
    caveats' = caveats \cup (IF InFlight(ip) THEN {"removed_in_flight"} ELSE {})

\* Variant: printer_data is not popped.
RemoveDataKept(ip) ==
    /\ request[ip] = "pop_data"
    /\ request' = [request EXCEPT ![ip] = "delete_prev"]
    /\ NoteInFlight(ip)
    /\ UNCHANGED <<printers, dev, data, fails, base, job, cycle, budget, recorded, printed, streak>>

RemoveData(ip) ==
    /\ request[ip] = "pop_data"
    /\ data' = [data EXCEPT ![ip] = None]
    /\ request' = [request EXCEPT ![ip] = "delete_prev"]
    /\ NoteInFlight(ip)
    /\ UNCHANGED <<printers, dev, fails, base, job, cycle, budget, recorded, printed, streak>>

\* Variant: store.delete is not called.
RemovePrevKept(ip) ==
    /\ request[ip] = "delete_prev"
    /\ request' = [request EXCEPT ![ip] = "idle"]
    /\ NoteInFlight(ip)
    /\ UNCHANGED <<printers, dev, data, base, fails, job, cycle, budget, recorded, printed, streak>>

RemovePrev(ip) ==
    /\ request[ip] = "delete_prev"
    /\ base' = [base EXCEPT ![ip] = None]
    /\ request' = [request EXCEPT ![ip] = "idle"]
    /\ NoteInFlight(ip)
    /\ UNCHANGED <<printers, dev, data, fails, job, cycle, budget, recorded, printed, streak>>

\* The list of printers and the baselines are on disk; the rest is memory.
Restart ==
    /\ Spend("restarts")
    /\ data' = [ip \in Ips |-> None] /\ fails' = [ip \in Ips |-> 0]
    /\ job' = [ip \in Ips |-> [t \in Threads |-> Idle]]
    /\ cycle' = [polling |-> FALSE, todo |-> {}]
    /\ request' = [ip \in Ips |-> "idle"]
    /\ printers' = [ip \in Ips |-> IF printers[ip] > 1 THEN 1 ELSE printers[ip]]
    /\ caveats' = caveats \cup (IF \E ip \in Ips : request[ip] \in {"pop_data", "delete_prev"}
                                THEN {"removal_interrupted"} ELSE {})
    /\ UNCHANGED <<dev, base, recorded, printed, streak>>

-----------------------------------------------------------------------------
Device(ip) == DevicePrint(ip) \/ DeviceFlap(ip) \/ DeviceSwap(ip)

PollAll(ip) == PollThreadStart(ip) \/ JoinTimeout(ip) \/ LateThreadEnds(ip)

Api(ip) ==
    \/ ApiThreadStart(ip) \/ ApiThreadPublish(ip)
    \/ ApiAdd(ip) \/ BulkAddCheck(ip) \/ BulkAddAppend(ip)
    \/ ApiRemove(ip) \/ RemoveData(ip) \/ RemovePrev(ip)

Next ==
    \/ \E ip \in Ips : Device(ip) \/ PollAll(ip) \/ Api(ip)
    \/ \E ip \in Ips, t \in Threads : Collect(ip, t)
    \/ PollAllStart \/ PollAllPublish
    \/ Restart

Spec == Init /\ [][Next]_vars

\* polling_loop starts cycles for ever, and every thread started runs to its end: its
\* requests to the device have timeouts. Nothing says that joins are in time.
Fairness ==
    /\ WF_vars(PollAllStart) /\ WF_vars(PollAllPublish)
    /\ \A ip \in Ips :
          /\ WF_vars(PollThreadStart(ip)) /\ WF_vars(LateThreadEnds(ip))
          /\ WF_vars(ApiThreadStart(ip)) /\ WF_vars(ApiThreadPublish(ip))
          /\ \A t \in Threads : WF_vars(Collect(ip, t))

LiveSpec == Spec /\ Fairness
-----------------------------------------------------------------------------
(* What the poller promises. *)

\* Two polls never work on one baseline at the same time, whichever of the cycle,
\* the API and a thread left behind started them: between reading the baseline and
\* writing it nothing but a removal changes it, so that no page is logged twice or
\* lost between two polls.
BaselineReadIsCurrent ==
    "removed_in_flight" \notin caveats =>
        \A ip \in Ips, t \in Threads : At(ip, t, "record") => job[ip][t].seen = base[ip]

\* The PRINT events of an address do not add up to more than was printed there, also
\* when another device has taken the address over, except after a removal that a
\* poll or a restart has crossed.
LoggedPagesWerePrinted ==
    caveats = {} => \A ip \in Ips : recorded[ip] <= printed[ip]

\* A printer that has been removed leaves nothing behind: no entry on the dashboard
\* and no baseline (again unless a poll or a restart crossed the removal).
RemovalForgets ==
    caveats = {} =>
        \A ip \in Ips : (printers[ip] = 0 /\ request[ip] \in {"idle", "checked"}) =>
                            (data[ip] = None /\ base[ip] = None)

\* A printer that was online is reported offline only after GraceCycles probes in a
\* row have failed, whichever threads made them.
ReportedOfflineAfterGrace ==
    [][\A ip \in Ips, t \in Threads : ReportsOffline(ip, t) => streak[ip] >= GraceCycles]_vars

\* The dashboard ends up telling the truth about a printer that stays up, or stays
\* silent, whatever copies of older entries and late results are published on the way.
DashboardFollowsDevice ==
    \A ip \in Ips :
        /\ <>[](printers[ip] > 0 /\ dev[ip].state = "up")   => <>[](data[ip] = "online")
        /\ <>[](printers[ip] > 0 /\ dev[ip].state = "down") => <>[](data[ip] = "offline")

\* A printer that stays silent is not reported offline again and again.
OfflineReportsEnd ==
    \A ip \in Ips :
        <>[](dev[ip].state = "down") => <>[][\A t \in Threads : ~ReportsOffline(ip, t)]_vars

(* Statements of the documentation that the code breaks. *)

\* README.en.md: "a printer is marked offline only after two consecutive failed
\* polling cycles". The grace window needs an entry that says online, which there is
\* not after a restart or an addition.
MarkedOfflineAfterTwoFailures ==
    \A ip \in Ips : data[ip] = "offline" => streak[ip] >= GraceCycles

\* api_remove: "Delete the previous baseline so that if the same IP is assigned to
\* another device later, a false log will not be created."
ReassignedAddressLogsNothingFalse ==
    \A ip \in Ips : recorded[ip] <= printed[ip]
=============================================================================
