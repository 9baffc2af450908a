-------------------------- MODULE CartridgeDiscovery --------------------------
(***************************************************************************)
(* How the program learns where a printer keeps the identity of each       *)
(* cartridge: the polls, which read the identities that are known and keep *)
(* the answer for a while (core/collectors/cartridge_id.py, 95-135 and     *)
(* 385-460), queue a printer without any (core/enhanced_collector.py,      *)
(* 1576-1597), and the one background worker that walks queued printers    *)
(* and learns an OID whose value stays the same                            *)
(* (core/collectors/cartridge_discovery.py). A colour stands for the OID   *)
(* found for it. The printers here have no identity on the web and no      *)
(* substitute for one, which would keep them out of the queue.             *)
(* A definition introduced by "Variant:" is its successor with a plausible *)
(* bug, kept to test that a property would notice.                         *)
(***************************************************************************)
EXTENDS Naturals, Sequences, FiniteSets

CONSTANTS
    Printers, Colours, Values, NoValue,
    Serial,           \* [Printers -> SUBSET Colours]: the colours that have a serial number
    Hits,             \* STABILITY_HITS
    Passes,           \* MAX_PASSES
    Cooldown,         \* COOLDOWN_SECONDS, in ticks
    MissTtl, FoundTtl,    \* how long an answer without or with identities is kept
    ConfigTtl,        \* how long the file is not read again
    MaxFaults         \* bound: probes without an answer and saves that fail

ASSUME DiscoveryAssumption ==
    /\ Serial \in [Printers -> SUBSET Colours]
    /\ {Hits, Passes, Cooldown, MissTtl, FoundTtl, ConfigTtl, MaxFaults} \subseteq Nat
    /\ 0 < Hits /\ Hits <= Passes /\ NoValue \notin Values

VARIABLES
    file,         \* learned.printers in cartridge_id_map.json: the colours of a printer
    config, configLeft,     \* _config_cache and its age
    cache,        \* _cache: the colours read, and the ticks it is kept
    poll,         \* the poll of a printer: the colours it asks for
    queue, queued,          \* _queue, _queue_set
    cool,         \* ticks until a printer may be queued again
    work,         \* the worker: its printer, its pass, what it has confirmed
    stability,    \* _stability: the value seen and how often
    runs,         \* history: how often a value was last seen without another in between
    faults

discovery == <<file, config, configLeft, cache, poll, queue, queued, cool, work,
               stability, runs, faults>>

Idle == [pc |-> "idle"]
NoneSeen == [c \in Colours |-> [value |-> NoValue, hits |-> 0]]

DiscoveryTypeOK ==
    /\ file \in [Printers -> SUBSET Colours] /\ config \in [Printers -> SUBSET Colours]
    /\ configLeft \in 0..ConfigTtl
    /\ \A p \in Printers : cache[p].ids \subseteq Colours /\ cache[p].left \in Nat
    /\ \A p \in Printers : poll[p].pc \in {"idle", "read"}
    /\ queue \in Seq(Printers) /\ queued \subseteq Printers
    /\ cool \in [Printers -> 0..Cooldown]
    /\ work.pc \in {"idle", "probe", "end"}
    /\ \A p \in Printers, c \in Colours :
          stability[p][c].value \in Values \cup {NoValue} /\ stability[p][c].hits \in 0..Hits
    /\ faults \in 0..MaxFaults

DiscoveryInit ==
    /\ file = [p \in Printers |-> {}] /\ config = file /\ configLeft = 0
    /\ cache = [p \in Printers |-> [ids |-> {}, left |-> 0]]
    /\ poll = [p \in Printers |-> Idle]
    /\ queue = <<>> /\ queued = {} /\ cool = [p \in Printers |-> 0]
    /\ work = Idle /\ stability = [p \in Printers |-> NoneSeen]
    /\ runs = [p \in Printers |-> NoneSeen] /\ faults = 0

Down(n) == IF n > 0 THEN n - 1 ELSE 0

\* TTLs and cooldowns run down.
DiscoveryTick ==
    /\ configLeft' = Down(configLeft)
    /\ cache' = [p \in Printers |-> [cache[p] EXCEPT !.left = Down(@)]]
    /\ cool' = [p \in Printers |-> Down(cool[p])]
    /\ UNCHANGED <<file, config, poll, queue, queued, work, stability, runs, faults>>
-----------------------------------------------------------------------------
(* A poll: get_cartridge_identity_data, then the queue if no identity was found. *)

\* queue_discovery: once until the queue has been emptied, and not before the cooldown ends.
\* Variant: the printer that the worker has taken may be queued again.
MayQueueWorking(p) == cool[p] = 0 /\ \A i \in 1..Len(queue) : queue[i] # p
MayQueue(p) == p \notin queued /\ cool[p] = 0
QueueDiscovery(p) ==
    IF MayQueue(p)
    THEN queue' = Append(queue, p) /\ queued' = queued \cup {p}
         /\ cool' = [cool EXCEPT ![p] = Cooldown]
    ELSE UNCHANGED <<queue, queued, cool>>

\* An answer that is kept serves the poll.
PollKept(p) ==
    /\ poll[p].pc = "idle" /\ cache[p].left > 0
    /\ IF cache[p].ids = {} THEN QueueDiscovery(p) ELSE UNCHANGED <<queue, queued, cool>>
    /\ UNCHANGED <<file, config, configLeft, cache, poll, work, stability, runs, faults>>

\* Otherwise the colours to ask for come from the file, read again when the copy is old.
PollAsk(p) ==
    /\ poll[p].pc = "idle" /\ cache[p].left = 0
    /\ config' = IF configLeft = 0 THEN file ELSE config
    /\ configLeft' = IF configLeft = 0 THEN ConfigTtl ELSE configLeft
    /\ poll' = [poll EXCEPT ![p] = [pc |-> "read", ask |-> config'[p]]]
    /\ UNCHANGED <<file, cache, queue, queued, cool, work, stability, runs, faults>>

PollAnswered(p) ==
    /\ poll[p].pc = "read"
    /\ LET ids == poll[p].ask
       IN  /\ cache' = [cache EXCEPT ![p] =
                          [ids |-> ids, left |-> IF ids = {} THEN MissTtl ELSE FoundTtl]]
           /\ IF ids = {} THEN QueueDiscovery(p) ELSE UNCHANGED <<queue, queued, cool>>
    /\ poll' = [poll EXCEPT ![p] = Idle]
    /\ UNCHANGED <<file, config, configLeft, work, stability, runs, faults>>

Poll(p) == PollKept(p) \/ PollAsk(p) \/ PollAnswered(p)
-----------------------------------------------------------------------------
(* The worker. *)

WorkerTakes ==
    /\ work.pc = "idle" /\ queue # <<>>
    /\ work' = [pc |-> "probe", ip |-> Head(queue), pass |-> 1, ok |-> {}]
    /\ queue' = Tail(queue)
    /\ UNCHANGED <<file, config, configLeft, cache, poll, queued, cool, stability, runs, faults>>

\* Only an empty queue forgets which printers were queued.
\* Variant: it never does.
WorkerRests ==
    /\ work.pc = "idle" /\ queue = <<>> /\ queued # {}
    /\ UNCHANGED <<file, config, configLeft, cache, poll, queue, queued, cool, work, stability,
                   runs, faults>>
WorkerEmpties ==
    /\ work.pc = "idle" /\ queue = <<>> /\ queued # {}
    /\ queued' = {}
    /\ UNCHANGED <<file, config, configLeft, cache, poll, queue, cool, work, stability, runs,
                   faults>>

\* _update_stability for one colour: seen[c] is the value found, NoValue without one.
\* Variant: another value goes on with the count.
StableAnyValue(entry, v) ==
    IF v = NoValue THEN [value |-> NoValue, hits |-> 0]
    ELSE [value |-> v, hits |-> IF entry.hits < Hits THEN entry.hits + 1 ELSE Hits]
Stable(entry, v) ==
    IF v = NoValue THEN [value |-> NoValue, hits |-> 0]
    ELSE IF entry.value = v
    THEN [entry EXCEPT !.hits = IF @ < Hits THEN @ + 1 ELSE Hits]
    ELSE [value |-> v, hits |-> 1]

\* History, the same for every colour that showed a value.
Run(entry, v) ==
    IF entry.value = v THEN [entry EXCEPT !.hits = IF @ < Hits THEN @ + 1 ELSE Hits]
    ELSE [value |-> v, hits |-> 1]

\* What a walk can find: a serial number is always the same, another text is any.
Sights(p) == {seen \in [Colours -> Values \cup {NoValue}] :
                 \A c \in Serial[p] : seen[c] = CHOOSE v \in Values : TRUE}

NextPass(ok) ==
    work' = [work EXCEPT !.ok = ok, !.pass = IF @ < Passes THEN @ + 1 ELSE @,
                         !.pc = IF ok # {} \/ work.pass = Passes THEN "end" ELSE "probe"]

\* A pass that finds no candidate leaves the counts alone.
ProbeNothing ==
    /\ work.pc = "probe"
    /\ \/ faults < MaxFaults /\ faults' = faults + 1
       \/ Serial[work.ip] = {} /\ UNCHANGED faults
    /\ NextPass({})
    /\ UNCHANGED <<file, config, configLeft, cache, poll, queue, queued, cool, stability, runs>>

ProbeFinds ==
    /\ work.pc = "probe"
    /\ \E seen \in Sights(work.ip) :
          /\ \E c \in Colours : seen[c] # NoValue
          /\ stability' = [stability EXCEPT ![work.ip] =
                             [c \in Colours |-> Stable(@[c], seen[c])]]
          /\ runs' = [runs EXCEPT ![work.ip] = [c \in Colours |-> Run(@[c], seen[c])]]
    /\ NextPass({c \in Colours : stability'[work.ip][c].hits = Hits})
    /\ UNCHANGED <<file, config, configLeft, cache, poll, queue, queued, cool, faults>>

\* _save_learned adds to what the file has; the kept answers and the copy go.
WorkerSaves ==
    /\ work.pc = "end" /\ work.ok # {}
    /\ file' = [file EXCEPT ![work.ip] = @ \cup work.ok]
    /\ config' = file' /\ configLeft' = ConfigTtl
    /\ cache' = [p \in Printers |-> [ids |-> {}, left |-> 0]]
    /\ work' = Idle
    /\ UNCHANGED <<poll, queue, queued, cool, stability, runs, faults>>

WorkerCannotSave ==
    /\ work.pc = "end" /\ work.ok # {} /\ faults < MaxFaults /\ faults' = faults + 1
    /\ work' = Idle
    /\ UNCHANGED <<file, config, configLeft, cache, poll, queue, queued, cool, stability, runs>>

WorkerGivesUp ==
    /\ work.pc = "end" /\ work.ok = {}
    /\ stability' = [stability EXCEPT ![work.ip] = NoneSeen]
    /\ work' = Idle
    /\ UNCHANGED <<file, config, configLeft, cache, poll, queue, queued, cool, runs, faults>>

Worker ==
    \/ WorkerTakes \/ WorkerEmpties \/ ProbeNothing \/ ProbeFinds
    \/ WorkerSaves \/ WorkerCannotSave \/ WorkerGivesUp
DiscoveryNext == DiscoveryTick \/ Worker \/ \E p \in Printers : Poll(p)
DiscoverySpec == DiscoveryInit /\ [][DiscoveryNext]_discovery

\* Polls come round, the worker is a thread of its own, time passes.
LiveSpec ==
    /\ DiscoverySpec
    /\ WF_discovery(DiscoveryTick) /\ WF_discovery(Worker)
    /\ \A p \in Printers : WF_discovery(Poll(p))
-----------------------------------------------------------------------------
(* Properties. *)

\* A printer is in the queue or at the worker once at most: no walk is done twice over.
OneJobEach ==
    LET waiting == {i \in 1..Len(queue) : TRUE}
    IN  /\ \A i, j \in waiting : queue[i] = queue[j] => i = j
        /\ work.pc # "idle" => \A i \in waiting : queue[i] # work.ip

\* An OID is learned only after the last Hits walks that found anything all found the same
\* value there, in whichever sessions they were.
LearnedWasStable ==
    [][\A p \in Printers : \A c \in file'[p] \ file[p] : runs[p][c].value # NoValue
                                                      /\ runs[p][c].hits = Hits]_discovery

\* Polls come to read the identity of every printer that has a serial number, though the
\* first walks of it may fail, the file may not be written, it may be queued again only
\* after the queue was empty, and a poll that asked before keeps its answer without one.
Found == \A p \in Printers : Serial[p] # {} => []<>(cache[p].ids # {})
=============================================================================
