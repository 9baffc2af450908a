------------------------------- MODULE PollReading -------------------------------
(***************************************************************************)
(* One poll of one printer, by the route of its brand (core/poller.py,     *)
(* _collect_inner). A brand that the exporter mirrors goes through         *)
(* ExporterClient, which this module extends. The other kind of printer is *)
(* a Toshiba, read directly: its own counter of pages and its two counters *)
(* of paper, by collect_enhanced or, behind an exception, by               *)
(* collect_toshiba; attribute_paper_size says on which paper the pages of  *)
(* a PRINT were printed, and _counters_event keeps the baselines.          *)
(* The counters are read one after the other while pages are printed.      *)
(*                                                                         *)
(* CounterLedger has what reboots, service resets and a cache that is out  *)
(* of step with its table do to the total: none of them happens here.      *)
(* A definition introduced by "Variant:" is its successor with a plausible *)
(* bug, kept to test that a property would notice.                         *)
(***************************************************************************)
EXTENDS ExporterClient, FiniteSets

CONSTANTS
    None,             \* Python's None, for a read that failed
    Skew,             \* what the standard counter is ahead of Toshiba's own
    PaperTol,         \* tolerance of attribute_paper_size
    RetryAbove,       \* collect_toshiba asks again if the baseline is above it
    Limits,           \* values _dynamic_max_reasonable_delta can return
    MaxPages          \* bound: pages printed by the Toshiba

ASSUME ReadingAssumption ==
    /\ Skew \in Nat /\ PaperTol \in Nat /\ RetryAbove \in Nat /\ MaxPages \in Nat
    /\ Limits \subseteq Nat
    /\ None \notin Int

Sizes == {"large", "small"}

VARIABLES
    mirrored,     \* the brand is in exporter_adapter.SUPPORTED_BRANDS
    dev,          \* pages printed on each size of paper
    prev,         \* PrevStore: total, paper counters, a3/a4_lagged, pending overflow
    read,         \* the direct poll: its collector, what it has read, what is left to read
    base,         \* history: the pages printed when the baseline was read
    attributed,   \* history: pages that PRINT and PRINT_GAP rows give to each size
    recorded,     \* history: pages of these rows
    trust         \* history: "none" once something happened that the code does not protect
                  \* the total against, "total" once it was only the split

history == <<base, attributed, recorded>>
reading == <<mirrored, dev, prev, read, history, trust>>
readingVars == <<vars, reading>>

Sum(pages) == pages["large"] + pages["small"]

NoPapers == [s \in Sizes |-> None]
NoSplit == [s \in Sizes |-> 0]
Unread(by) == [by |-> by, total |-> None, at |-> NoSplit, papers |-> NoPapers, left |-> <<>>]
NoRead == Unread("none")
CounterType == Nat \cup {None}

ReadingTypeOK ==
    /\ TypeOK
    /\ mirrored \in BOOLEAN
    /\ dev \in [Sizes -> Nat]
    /\ prev \in [total : CounterType, papers : [Sizes -> CounterType], lagged : SUBSET Sizes,
                 pend : (Nat \X Nat) \cup {None}]
    /\ read \in [by : {"none", "enhanced", "legacy"}, total : CounterType, at : [Sizes -> Nat],
                 papers : [Sizes -> CounterType], left : Seq(Sizes \cup {"total"})]
    /\ base \in [Sizes -> Nat] /\ attributed \in [Sizes -> Nat] /\ recorded \in Nat
    /\ trust \in {"all", "total", "none"}

ReadingInit ==
    /\ Init
    /\ mirrored \in BOOLEAN
    /\ dev = NoSplit
    /\ prev = [total |-> None, papers |-> NoPapers, lagged |-> {}, pend |-> None]
    /\ read = NoRead
    /\ base = NoSplit /\ attributed = NoSplit /\ recorded = 0 /\ trust = "all"
-----------------------------------------------------------------------------
(* The brands of the exporter, whose direct route is left to ExporterClient. *)

MirroredPoll == mirrored /\ Poll /\ UNCHANGED reading
MirroredWorld == mirrored /\ (Answers \/ Listens) /\ UNCHANGED reading
MirroredTick == mirrored /\ Tick /\ UNCHANGED reading
-----------------------------------------------------------------------------
(* The Toshiba and the program around its polls. *)

\* What the code does not protect the total, or only the split, against.
TotalAtRisk(cond) == trust' = IF cond THEN "none" ELSE trust
SplitAtRisk(cond) == trust' = IF cond /\ trust = "all" THEN "total" ELSE trust

\* Between the reads of a poll a page is in some of its counters.
PrintPage(s) ==
    /\ ~mirrored /\ Sum(dev) < MaxPages
    /\ dev' = [dev EXCEPT ![s] = @ + 1]
    /\ SplitAtRisk(read.left # <<>>)
    /\ UNCHANGED <<vars, mirrored, prev, read, history>>

\* The program stops and starts: printer_counters has no column for a lagging counter
\* nor for a pending overflow.
Restart ==
    /\ ~mirrored
    /\ prev' = [prev EXCEPT !.lagged = {}, !.pend = None]
    /\ SplitAtRisk(prev.lagged # {})
    /\ poll' = Idle /\ read' = NoRead
    /\ UNCHANGED <<env, fails, wait, route, got, quiet, mirrored, dev, history>>

\* collect_via_exporter gives None for a brand it does not mirror.
DirectPoll ==
    /\ ~mirrored /\ poll.pc = "idle"
    /\ poll' = [Idle EXCEPT !.pc = "direct"] /\ got' = {}
    /\ UNCHANGED <<env, fails, wait, route, quiet, reading>>

\* The device does not answer, or the second collector fails as well.
PollKept ==
    /\ ~mirrored /\ read.by \in {"none", "legacy"} /\ PollDirect
    /\ read' = NoRead
    /\ UNCHANGED <<mirrored, dev, prev, history, trust>>
-----------------------------------------------------------------------------
(* The reads, in the order of the two collectors. *)

Reading(by) == ~mirrored /\ poll.pc = "direct" /\ read.by = by
ReadsTotal(by, total, left) ==
    /\ read' = [Unread(by) EXCEPT !.total = total, !.at = dev, !.left = left]
    /\ UNCHANGED <<vars, mirrored, dev, prev, history>>

\* Variant: keeps the standard counter if Toshiba's own did not answer.
EnhancedTotalStandard ==
    /\ Reading("none")
    /\ \E total \in {Sum(dev), Sum(dev) + Skew} :
          ReadsTotal("enhanced", total, <<"large", "small">>)
    /\ UNCHANGED trust
\* Toshiba's own counter or, so that no other is counted against it, None.
EnhancedTotal ==
    /\ Reading("none")
    /\ \E total \in {Sum(dev), None} : ReadsTotal("enhanced", total, <<"large", "small">>)
    /\ UNCHANGED trust

\* An exception of collect_enhanced before the event. (Ends has the one behind it.)
EnhancedRaises ==
    /\ Reading("none") \/ Reading("enhanced")
    /\ read' = Unread("legacy")
    /\ UNCHANGED <<vars, mirrored, dev, prev, history, trust>>

\* A total that was not read is zero for collect_toshiba: it asks once more, at the end.
LegacyTotal ==
    /\ Reading("legacy") /\ read.total = None
    /\ \E total \in {Sum(dev), 0} :
          LET again == total = 0 /\ prev.total # None /\ prev.total > RetryAbove
          IN  ReadsTotal("legacy", total, IF again THEN <<"small", "large", "total">>
                                          ELSE <<"small", "large">>)
    /\ UNCHANGED trust

LegacyRetry ==
    /\ Reading("legacy") /\ read.left = <<"total">>
    /\ \E total \in {Sum(dev), 0} :
          read' = [read EXCEPT !.total = total, !.at = dev, !.left = <<>>]
    /\ UNCHANGED <<vars, mirrored, dev, prev, history, trust>>

\* One paper counter: its value now, or nothing.
ReadPaper ==
    /\ read.left # <<>> /\ Head(read.left) \in Sizes
    /\ \E v \in {dev[Head(read.left)], None} :
          read' = [read EXCEPT !.papers[Head(read.left)] = v, !.left = Tail(@)]
    /\ UNCHANGED <<vars, mirrored, dev, prev, history, trust>>
-----------------------------------------------------------------------------
(* attribute_paper_size. *)

Magnitude(n) == IF n < 0 THEN -n ELSE n
Moved(s) == read.papers[s] - prev.papers[s]
Surplus == Moved("large") + Moved("small") - (read.total - prev.total)

\* Variant: the surplus always comes off the smaller component.
AbsorberUnflagged == IF Moved("large") <= Moved("small") THEN "large" ELSE "small"
\* The component that may hold pages of earlier polls: the one that lags, else the smaller.
Absorber ==
    IF Cardinality(prev.lagged) = 1 THEN CHOOSE s \in Sizes : s \in prev.lagged
    ELSE IF Moved("large") <= Moved("small") THEN "large" ELSE "small"

Attributable ==
    /\ \A s \in Sizes : read.papers[s] # None /\ prev.papers[s] # None
    /\ \A s \in Sizes : Moved(s) >= 0
    /\ Magnitude(Surplus) <= PaperTol

Split ==
    IF ~Attributable THEN NoSplit
    ELSE [s \in Sizes |->
             IF Surplus > 0 /\ s = Absorber
             THEN IF Moved(s) > Surplus THEN Moved(s) - Surplus ELSE 0
             ELSE Moved(s)]
-----------------------------------------------------------------------------
(* _counters_event: what its exits do to the total and to the paper counters. *)

Event == ~mirrored /\ poll.pc = "direct" /\ read.by # "none" /\ read.left = <<>>
         /\ (read.by = "legacy" => read.total # None)
Total == read.total
Delta == Total - prev.total

\* What a poll has read of the paper, and what it could not read.
Fresh == [s \in Sizes |-> IF read.papers[s] # None THEN read.papers[s] ELSE prev.papers[s]]
UnreadPapers == {s \in Sizes : read.papers[s] = None}

\* collect_toshiba sets the flags of what it has read, once the total was accepted.
Flags(after) == IF read.by = "legacy" THEN after \cap UnreadPapers ELSE after

\* Behind an exception after the event the older collector reads everything once more.
Ends ==
    /\ \/ PollDirect /\ read' = NoRead
       \/ read.by = "enhanced" /\ read' = Unread("legacy") /\ UNCHANGED vars
    /\ UNCHANGED <<mirrored, dev>>

NothingRecorded == UNCHANGED <<attributed, recorded>>
Record ==
    /\ attributed' = [s \in Sizes |-> attributed[s] + Split[s]]
    /\ recorded' = recorded + Delta

\* No total, or one below the baseline: the snapshot is kept.
NothingCounted ==
    /\ Event
    /\ ~(Total # None /\ (prev.total # None => Total >= prev.total))
    /\ Ends /\ NothingRecorded
    /\ UNCHANGED <<prev, base, trust>>

FirstBaseline ==
    /\ Event /\ Total # None /\ prev.total = None
    /\ prev' = [prev EXCEPT !.total = Total, !.papers = read.papers, !.pend = None,
                            !.lagged = Flags(@)]
    /\ base' = read.at /\ TotalAtRisk(Total # Sum(read.at))
    /\ Ends /\ NothingRecorded

Counting == Event /\ Total # None /\ prev.total # None /\ Total >= prev.total

Overflow ==
    /\ Counting /\ \E limit \in Limits : Delta > limit
    /\ prev.pend # <<Total, Delta>>
    /\ prev' = [prev EXCEPT !.pend = <<Total, Delta>>]
    /\ Ends /\ NothingRecorded
    /\ UNCHANGED <<base, trust>>

\* Variant: the paper counters stay behind.
GapKeepsPapers ==
    /\ Counting /\ \E limit \in Limits : Delta > limit
    /\ prev.pend = <<Total, Delta>>
    /\ prev' = [prev EXCEPT !.total = Total, !.pend = None, !.lagged = Flags(@)]
    /\ base' = read.at /\ SplitAtRisk(UnreadPapers \ prev.lagged # {})
    /\ Record /\ Ends
\* PRINT_GAP. What could not be read lags behind from now on, without a flag.
Gap ==
    /\ Counting /\ \E limit \in Limits : Delta > limit
    /\ prev.pend = <<Total, Delta>>
    /\ prev' = [prev EXCEPT !.total = Total, !.papers = Fresh, !.pend = None,
                            !.lagged = Flags(@)]
    /\ base' = read.at /\ SplitAtRisk(UnreadPapers \ prev.lagged # {})
    /\ Record /\ Ends

\* PRINT, or nothing printed.
FullSnapshot ==
    /\ Counting /\ \E limit \in Limits : Delta <= limit
    /\ prev' = [total |-> Total, papers |-> Fresh, lagged |-> UnreadPapers, pend |-> None]
    /\ base' = read.at /\ TotalAtRisk(Total # Sum(read.at))
    /\ IF Delta > 0 THEN Record ELSE NothingRecorded
    /\ Ends

CountersEvent == NothingCounted \/ FirstBaseline \/ Overflow \/ Gap \/ FullSnapshot
-----------------------------------------------------------------------------
ReadingPoll ==
    \/ MirroredPoll \/ DirectPoll \/ PollKept
    \/ EnhancedTotal \/ EnhancedRaises \/ LegacyTotal \/ LegacyRetry \/ ReadPaper
    \/ CountersEvent

ReadingNext ==
    \/ MirroredWorld \/ MirroredTick
    \/ \E s \in Sizes : PrintPage(s)
    \/ Restart
    \/ ReadingPoll

ReadingSpec == ReadingInit /\ [][ReadingNext]_readingVars

\* As in ExporterClient: polls come round and end, and time passes.
LiveReadingSpec == ReadingSpec /\ WF_readingVars(ReadingPoll) /\ WF_readingVars(MirroredTick)
-----------------------------------------------------------------------------
(* Properties. *)

\* A Toshiba has two counters of pages of different scale, and a poll may read its own in
\* vain at any time: the difference of the two is never recorded as pages. (Not so if the
\* older collector found no total when there was no baseline: zero is one then.)
\* enhanced_collector.py, 1133-1143 and 1607-1613.
NoForeignPages == trust # "none" => recorded <= Sum(dev)

\* Pages are attributed to a size at most once: the paper counters move on with the
\* baseline in every exit that records, and stay in every one that does not.
NoSizeInvented == \A s \in Sizes : attributed[s] <= dev[s]

RowSplit(s) == attributed'[s] - attributed[s]

\* A split is the truth about the pages of its row, even if a paper counter could not be
\* read in the polls before, as long as one at a time lags, it is flagged, and no page was
\* printed between the reads of a poll.
QuietSplitIsExact ==
    [][trust = "all" /\ prev.lagged # Sizes /\ attributed' # attributed
         => \A s \in Sizes : RowSplit(s) = read.at[s] - base[s]]_readingVars

\* attribute_paper_size, base.py:1608: "the surplus is subtracted from the retarded
\* component so that paper_split never exceeds event pages". What the smaller component
\* has may be less than the surplus, which a page printed during the poll makes.
SplitWithinPages ==
    [][RowSplit("large") + RowSplit("small") <= recorded' - recorded]_readingVars
=============================================================================
