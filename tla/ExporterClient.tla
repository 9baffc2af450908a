----------------------------- MODULE ExporterClient -----------------------------
(***************************************************************************)
(* The route of a poll through snmp_exporter (core/exporter_client.py, its *)
(* consumer core/collectors/exporter_adapter.py, 547-582, and the branch   *)
(* of core/poller.py, 307-319): the modules of the printer's brand are all *)
(* read, in order, unless one of them is in its backoff; anything but the  *)
(* whole answer sends the poll to the direct route.                        *)
(* One printer: the records are kept for (ip, module) and the lock of the  *)
(* poller for an ip lets one poll of it run at a time.                     *)
(* Time passes in ticks, in the middle of a poll as well. next_retry_at is *)
(* kept as the ticks left until then. A record that was deleted has zero   *)
(* failures.                                                               *)
(* A definition introduced by "Variant:" is its successor with a plausible *)
(* bug, kept to test that a property would notice.                         *)
(***************************************************************************)
EXTENDS Integers, Sequences

CONSTANTS
    Brand,            \* MODULES_BY_BRAND[brand]: the modules, in the order they are read
    Upper1, Upper2, Upper3,     \* BACKOFF_STEPS: failures up to which a delay holds,
    Delay1, Delay2, Delay3,     \* and the delays
    Cooldown,         \* CIRCUIT_COOLDOWN: beyond the last step
    MaxQuiet          \* bound: history of the ticks since a failure

Modules == {Brand[i] : i \in 1..Len(Brand)}

ASSUME ExporterAssumption ==
    /\ Brand \in Seq(Modules) /\ Len(Brand) > 0
    /\ \A i, j \in 1..Len(Brand) : Brand[i] = Brand[j] => i = j
    /\ {Upper1, Upper2, Upper3, Delay1, Delay2, Delay3, Cooldown, MaxQuiet} \subseteq Nat
    /\ 0 < Upper1 /\ Upper1 < Upper2 /\ Upper2 < Upper3
    /\ Delay1 <= MaxQuiet /\ Delay2 <= MaxQuiet /\ Delay3 <= MaxQuiet /\ Cooldown <= MaxQuiet

VARIABLES
    answers,      \* the modules the device and the exporter answer for
    listening,    \* something answers GET / where the exporter is expected
    fails,        \* consecutive_failures of a module
    wait,         \* ticks until next_retry_at, 0 for "right now"
    poll,         \* the poll: where it is, and the place in Brand it has come to
    route,        \* the route the last poll took
    got,          \* history: the modules this poll, or the last, has read
    quiet         \* history: ticks since a module last failed, up to MaxQuiet

env == <<answers, listening>>
vars == <<env, fails, wait, poll, route, got, quiet>>

Idle == [pc |-> "idle", at |-> 1]

TypeOK ==
    /\ answers \subseteq Modules /\ listening \in BOOLEAN
    /\ fails \in [Modules -> 0..Upper3 + 1]
    /\ wait \in [Modules -> Nat]
    /\ poll \in [pc : {"idle", "query", "direct"}, at : 1..Len(Brand)]
    /\ route \in {"none", "exporter", "direct"}
    /\ got \subseteq Modules /\ quiet \in [Modules -> 0..MaxQuiet]

Init ==
    /\ answers = Modules /\ listening = TRUE
    /\ fails = [m \in Modules |-> 0] /\ wait = [m \in Modules |-> 0]
    /\ poll = Idle /\ route = "none"
    /\ got = {} /\ quiet = [m \in Modules |-> 0]
-----------------------------------------------------------------------------
(* The world. *)

Answers ==
    /\ answers' \in SUBSET Modules
    /\ UNCHANGED <<listening, fails, wait, poll, route, got, quiet>>

Listens ==
    /\ listening' = ~listening
    /\ UNCHANGED <<answers, fails, wait, poll, route, got, quiet>>

Tick ==
    /\ wait' = [m \in Modules |-> IF wait[m] > 0 THEN wait[m] - 1 ELSE 0]
    /\ quiet' = [m \in Modules |-> IF quiet[m] < MaxQuiet THEN quiet[m] + 1 ELSE MaxQuiet]
    /\ UNCHANGED <<env, fails, poll, route, got>>
-----------------------------------------------------------------------------
(* The ladder. Failures beyond its last step are all alike: the count stops one above. *)

DelayFor(n) ==
    CASE n <= 0 -> 0
      [] n \in 1..Upper1 -> Delay1
      [] n \in Upper1 + 1..Upper2 -> Delay2
      [] n \in Upper2 + 1..Upper3 -> Delay3
      [] OTHER -> Cooldown

\* Variant: counts on, as if every count mattered.
CountedOn(n) == n + 1
Counted(n) == IF n <= Upper3 THEN n + 1 ELSE n

\* Variant: the next delay is the one of the failures before.
NoteFailureLate(m) ==
    /\ fails' = [fails EXCEPT ![m] = Counted(@)]
    /\ wait' = [wait EXCEPT ![m] = DelayFor(fails[m])]
    /\ quiet' = [quiet EXCEPT ![m] = 0]
NoteFailure(m) ==
    /\ fails' = [fails EXCEPT ![m] = Counted(@)]
    /\ wait' = [wait EXCEPT ![m] = DelayFor(fails'[m])]
    /\ quiet' = [quiet EXCEPT ![m] = 0]

\* Variant: the delay ends, the count stays.
NoteSuccessKeepsCount(m) ==
    /\ wait' = [wait EXCEPT ![m] = 0]
    /\ UNCHANGED <<fails, quiet>>
NoteSuccess(m) ==
    /\ fails' = [fails EXCEPT ![m] = 0]
    /\ wait' = [wait EXCEPT ![m] = 0]
    /\ UNCHANGED quiet
-----------------------------------------------------------------------------
(* A poll. *)

\* Variant: only the first module of the brand is looked at.
MayAskFirst == wait[Brand[1]] = 0
MayAsk == \A m \in Modules : wait[m] = 0

\* is_available, then the look at every module before any request.
PollStart ==
    /\ poll.pc = "idle"
    /\ poll' = [pc |-> IF listening /\ MayAsk THEN "query" ELSE "direct", at |-> 1]
    /\ got' = {}
    /\ UNCHANGED <<env, fails, wait, route, quiet>>

\* One module: network error, HTTP status, a text that does not parse, or an answer.
Asked == Brand[poll.at]
\* Variant: what was read before the failure is taken for the answer.
QueryFailsHalf ==
    /\ poll.pc = "query" /\ ~(Asked \in answers /\ listening)
    /\ NoteFailure(Asked)
    /\ poll' = IF got = {} THEN [poll EXCEPT !.pc = "direct"] ELSE Idle
    /\ route' = IF got = {} THEN route ELSE "exporter"
    /\ UNCHANGED <<env, got>>
QueryFails ==
    /\ poll.pc = "query" /\ ~(Asked \in answers /\ listening)
    /\ NoteFailure(Asked)
    /\ poll' = [poll EXCEPT !.pc = "direct"]
    /\ UNCHANGED <<env, route, got>>

\* An answer cut short raises what query does not take for an ExporterError: not counted.
QueryBreaks ==
    /\ poll.pc = "query" /\ ~(Asked \in answers /\ listening)
    /\ poll' = [poll EXCEPT !.pc = "direct"]
    /\ UNCHANGED <<env, fails, wait, route, got, quiet>>

\* After the last module, exporter_to_collector_shape may still find the whole too little.
QueryAnswered ==
    /\ poll.pc = "query" /\ Asked \in answers /\ listening
    /\ NoteSuccess(Asked)
    /\ got' = got \cup {Asked}
    /\ IF poll.at < Len(Brand)
       THEN poll' = [poll EXCEPT !.at = @ + 1] /\ UNCHANGED route
       ELSE \/ poll' = Idle /\ route' = "exporter"
            \/ poll' = [poll EXCEPT !.pc = "direct"] /\ UNCHANGED route
    /\ UNCHANGED env

PollDirect ==
    /\ poll.pc = "direct" /\ poll' = Idle /\ route' = "direct"
    /\ UNCHANGED <<env, fails, wait, got, quiet>>

Poll == PollStart \/ QueryFails \/ QueryBreaks \/ QueryAnswered \/ PollDirect
Next == Answers \/ Listens \/ Tick \/ Poll
Spec == Init /\ [][Next]_vars

\* The poller comes round every cycle, every poll ends, and time passes.
LiveSpec == Spec /\ WF_vars(Poll) /\ WF_vars(Tick)
-----------------------------------------------------------------------------
(* Properties. *)

\* No module is asked before the delay that its failures call for has passed since the last
\* of them: a printer that is off costs one request in six hours, on whichever of the
\* modules of its brand (exporter_client.py, 305-310 and 344-360).
BackoffRespected ==
    [][poll.pc = "query" /\ poll' # poll /\ fails[Asked] > 0
         => quiet[Asked] >= DelayFor(fails[Asked])]_vars

\* The look at all modules before the first request stands until the last: none that the
\* poll still has to ask is in its backoff, so no poll reads a part it must throw away.
DueUntilAsked ==
    poll.pc = "query" => \A i \in poll.at..Len(Brand) : wait[Brand[i]] = 0

\* A poll that took the exporter's route has read every module, in this same poll.
WholeSnapshot ==
    [][poll.pc = "query" /\ poll'.pc = "idle" => route' = "exporter" /\ got' = Modules]_vars

\* A printer that answers for good is forgiven: no failure is left to delay it, whatever
\* was counted before.
Forgiven == <>[](answers = Modules /\ listening) => <>[](\A m \in Modules : fails[m] = 0)
=============================================================================
