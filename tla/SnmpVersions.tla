------------------------------ MODULE SnmpVersions ------------------------------
(***************************************************************************)
(* The version of SNMP that the program speaks to one printer              *)
(* (core/snmp/protocol.py): _detect_snmp_version, which tries both         *)
(* versions on several OIDs and keeps the answer, and                      *)
(* snmp_get_with_fallback, which reads one OID with it. The poll, the      *)
(* diagnosis pages and the discovery worker are threads that do both at    *)
(* the same time; a probe takes up to a minute and holds no lock.          *)
(* The packets of the two versions are built by one function, which        *)
(* writes the number of version 1 into both.                               *)
(***************************************************************************)
EXTENDS Integers

CONSTANTS
    Threads,
    None,             \* no version, and no thread's answer
    Requests,         \* requests of a probe: two versions of seven OIDs, then of four (> 0)
    PosTtl, NegTtl,   \* _POSITIVE_CACHE_TTL, _NEGATIVE_CACHE_TTL, in ticks
    MaxFaults         \* bound: answers lost on the way, and outages

VARIABLES
    speaks,       \* the versions the printer answers
    online,
    entry,        \* _SNMP_VERSION_CACHE: the version, None for "unreachable", or no entry
    thread,       \* what a thread is doing, and with which version
    read,         \* what the last reading of a thread came to
    faults

vars == <<speaks, online, entry, thread, read, faults>>

NoEntry == [version |-> 0, left |-> 0]
Idle == [pc |-> "idle", version |-> None, at |-> 0, missed |-> FALSE]

TypeOK ==
    /\ speaks \subseteq {1, 2} /\ online \in BOOLEAN
    /\ entry \in [version : {0, 1, 2, None}, left : 0..PosTtl + NegTtl]
    /\ thread \in [Threads -> [pc : {"idle", "probe", "read", "other"}, version : {1, 2, None},
                               at : 0..Requests, missed : BOOLEAN]]
    /\ read \in [Threads -> {"never", "value", "unread", "unreachable"}]
    /\ faults \in 0..MaxFaults

Init ==
    /\ speaks \in {{1}, {2}, {1, 2}} /\ online = TRUE
    /\ entry = NoEntry /\ thread = [t \in Threads |-> Idle]
    /\ read = [t \in Threads |-> "never"] /\ faults = 0

\* An entry is dropped by the first look at it after its time.
Tick ==
    /\ entry' = IF entry.left > 1 THEN [entry EXCEPT !.left = @ - 1] ELSE NoEntry
    /\ UNCHANGED <<speaks, online, thread, read, faults>>

GoesOffline ==
    /\ online /\ faults < MaxFaults /\ faults' = faults + 1 /\ online' = FALSE
    /\ UNCHANGED <<speaks, entry, thread, read>>
ComesBack ==
    /\ ~online /\ online' = TRUE
    /\ UNCHANGED <<speaks, entry, thread, read, faults>>
-----------------------------------------------------------------------------
\* _build_snmp_pdu: the number of the version on the wire.
OnWire(version) == 1

\* A request of a thread is answered, unless the printer is away, does not speak the
\* version, or the answer is lost.
Answered(version) == online /\ OnWire(version) \in speaks /\ UNCHANGED faults
Missed(version) ==
    \/ ~(online /\ OnWire(version) \in speaks) /\ UNCHANGED faults
    \/ faults < MaxFaults /\ faults' = faults + 1

Ends(t, result) ==
    /\ thread' = [thread EXCEPT ![t] = Idle] /\ read' = [read EXCEPT ![t] = result]

\* snmp_get_with_fallback begins: the version from the cache, or a probe.
Lookup(t) ==
    /\ thread[t].pc = "idle"
    /\ \/ entry = NoEntry
          /\ thread' = [thread EXCEPT ![t] = [Idle EXCEPT !.pc = "probe", !.at = 1]]
          /\ UNCHANGED read
       \/ entry.version = None /\ Ends(t, "unreachable")
       \/ entry.version \in {1, 2} /\ UNCHANGED read
          /\ thread' = [thread EXCEPT ![t] = [Idle EXCEPT !.pc = "read",
                                                          !.version = entry.version]]
    /\ UNCHANGED <<speaks, online, entry, faults>>

\* The probe asks with version 1 and then 2, OID by OID.
Asked(t) == IF thread[t].at % 2 = 1 THEN 1 ELSE 2

ProbeAnswered(t) ==
    /\ thread[t].pc = "probe" /\ Answered(Asked(t))
    /\ entry' = [version |-> Asked(t), left |-> PosTtl]
    /\ thread' = [thread EXCEPT ![t] = [@ EXCEPT !.pc = "read", !.version = Asked(t), !.at = 0]]
    /\ UNCHANGED <<speaks, online, read>>

\* Lost to the printer being away, or on the way: not to the version.
Bad(t) == ~online \/ faults' # faults

ProbeMissed(t) ==
    /\ thread[t].pc = "probe" /\ thread[t].at < Requests /\ Missed(Asked(t))
    /\ thread' = [thread EXCEPT ![t].at = @ + 1, ![t].missed = @ \/ Bad(t)]
    /\ UNCHANGED <<speaks, online, entry, read>>

\* Nothing was answered: for a while nobody asks again.
ProbeFails(t) ==
    /\ thread[t].pc = "probe" /\ thread[t].at = Requests /\ Missed(Asked(t))
    /\ entry' = [version |-> None, left |-> NegTtl]
    /\ Ends(t, "unreachable")
    /\ UNCHANGED <<speaks, online>>

\* The OID itself, which the printer may not have: with the version, then with the other.
GetAnswered(t) ==
    /\ thread[t].pc \in {"read", "other"} /\ Answered(thread[t].version)
    /\ entry' = IF thread[t].pc = "read" THEN entry
                ELSE [version |-> thread[t].version, left |-> PosTtl]
    /\ Ends(t, "value")
    /\ UNCHANGED <<speaks, online>>

GetMissed(t) ==
    /\ thread[t].pc = "read"
    /\ Missed(thread[t].version) \/ UNCHANGED faults
    /\ thread' = [thread EXCEPT ![t].pc = "other", ![t].version = IF @ = 1 THEN 2 ELSE 1]
    /\ UNCHANGED <<speaks, online, entry, read>>

\* An OID that cannot be read says nothing of the printer: the cache stays as it is.
OtherMissed(t) ==
    /\ thread[t].pc = "other"
    /\ Missed(thread[t].version) \/ UNCHANGED faults
    /\ Ends(t, "unread")
    /\ UNCHANGED <<speaks, online, entry>>

Thread(t) ==
    \/ Lookup(t) \/ ProbeAnswered(t) \/ ProbeMissed(t) \/ ProbeFails(t)
    \/ GetAnswered(t) \/ GetMissed(t) \/ OtherMissed(t)
Next == Tick \/ GoesOffline \/ ComesBack \/ \E t \in Threads : Thread(t)
Spec == Init /\ [][Next]_vars

\* Requests end by answer or timeout, and time passes.
LiveSpec == Spec /\ WF_vars(Tick) /\ \A t \in Threads : WF_vars(Thread(t))
-----------------------------------------------------------------------------
(* Properties. *)

\* A printer is called unreachable only by a probe whose requests were all missed although
\* version 1 is spoken for one of them at least: it was away, or answers were lost. An OID
\* that cannot be read never does it (core/snmp/protocol.py, 560-566).
UnreachableWasMissed ==
    [][entry'.version = None /\ entry' # entry /\ entry.version # None /\ 1 \in speaks
         => \E t \in Threads : thread[t].pc = "probe" /\ (thread[t].missed \/ Bad(t))]_vars

\* The same of a printer that speaks only version 2 (core/snmp/protocol.py:218, "Build an
\* SNMP v2c GET request packet.", and :22, "SNMPv1/v2c auto-detection").
AnyVersionIsFound ==
    [][entry'.version = None /\ entry' # entry /\ entry.version # None /\ speaks # {}
         => \E t \in Threads : thread[t].pc = "probe" /\ (thread[t].missed \/ Bad(t))]_vars

\* A printer that stays online does not stay unreachable, although a probe that began in an
\* outage may end late and hide what another thread has found since.
ComesToBeReached == <>[](online /\ 1 \in speaks) => []<>(entry.version \in {1, 2})
=============================================================================
