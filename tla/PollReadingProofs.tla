---------------------------- MODULE PollReadingProofs ----------------------------
(***************************************************************************)
(* Proofs about ExporterClient, for every brand, ladder and cooldown: the  *)
(* type invariant, that no request is sent in a backoff, that none is sent *)
(* in vain, and that a snapshot of the exporter's route is whole; and      *)
(* about PollReading, for any skew, tolerance, limits and number of pages: *)
(* the type invariant, that no pages of another counter are recorded, that *)
(* no page is given to a size twice, and that the split of an undisturbed  *)
(* row is exact.                                                           *)
(***************************************************************************)
EXTENDS PollReading, FiniteSetTheorems, TLAPS

-----------------------------------------------------------------------------
(* The exporter's client. *)

\* What is left to wait makes up for what has not passed since the last failure.
Owed == \A m \in Modules : fails[m] > 0 => wait[m] + quiet[m] >= DelayFor(fails[m])

\* A poll has read the modules before the one it asks.
ReadSoFar == poll.pc = "query" => got = {Brand[i] : i \in 1..poll.at - 1}

IInv == TypeOK /\ Owed /\ DueUntilAsked /\ ReadSoFar

(* The delay of every count is one that the history can show. *)
LEMMA DelayType == ASSUME NEW n \in Nat PROVE DelayFor(n) \in Nat /\ DelayFor(n) <= MaxQuiet
  BY ExporterAssumption DEF DelayFor

LEMMA CountedType ==
    ASSUME NEW n \in 0..Upper3 + 1
    PROVE  Counted(n) \in 0..Upper3 + 1 /\ Counted(n) > 0
  BY ExporterAssumption DEF Counted

LEMMA AskedType == ASSUME TypeOK PROVE Asked \in Modules
  BY DEF TypeOK, Asked, Modules

LEMMA ConstantsType ==
    Upper1 \in Nat /\ Upper2 \in Nat /\ Upper3 \in Nat /\ MaxQuiet \in Nat
  BY ExporterAssumption

LEMMA LenType == Len(Brand) \in Nat /\ Len(Brand) >= 1
  BY ExporterAssumption

(* Every variable keeps its type. *)
LEMMA TypeStep == ASSUME TypeOK, [Next]_vars PROVE TypeOK'
  <1> USE LenType
  <1>1. CASE Answers
    BY <1>1 DEF Answers, TypeOK
  <1>2. CASE Listens
    BY <1>2 DEF Listens, TypeOK
  <1>3. CASE Tick
    <2>1. wait' \in [Modules -> Nat]
      BY <1>3 DEF Tick, TypeOK
    <2>2. quiet' \in [Modules -> 0..MaxQuiet]
      BY <1>3, ConstantsType DEF Tick, TypeOK
    <2> QED BY <1>3, <2>1, <2>2 DEF Tick, TypeOK, env
  <1>4. CASE PollStart
    BY <1>4 DEF PollStart, TypeOK, env
  <1>5. CASE QueryFails
    <2>1. Asked \in Modules /\ fails[Asked] \in 0..Upper3 + 1
      BY AskedType DEF TypeOK
    <2>2. fails' \in [Modules -> 0..Upper3 + 1] /\ fails'[Asked] \in Nat
      BY <1>5, <2>1, CountedType, ExporterAssumption DEF QueryFails, NoteFailure, TypeOK
    <2>3. wait' \in [Modules -> Nat]
      BY <1>5, <2>1, <2>2, DelayType DEF QueryFails, NoteFailure, TypeOK
    <2>4. quiet' \in [Modules -> 0..MaxQuiet]
      <3>1. quiet' = [quiet EXCEPT ![Asked] = 0] /\ quiet \in [Modules -> 0..MaxQuiet]
        BY <1>5 DEF QueryFails, NoteFailure, TypeOK
      <3>2. 0 \in 0..MaxQuiet
        BY ConstantsType
      <3> DEFINE Q == 0..MaxQuiet
      <3>3. quiet \in [Modules -> Q] /\ 0 \in Q
        BY <3>1, <3>2
      <3> HIDE DEF Q
      <3>4. quiet' \in [Modules -> Q]
        BY <3>1, <3>3
      <3> QED BY <3>4 DEF Q
    <2> QED BY <1>5, <2>2, <2>3, <2>4 DEF QueryFails, TypeOK, env
  <1>6. CASE QueryBreaks
    BY <1>6 DEF QueryBreaks, TypeOK, env
  <1>7. CASE QueryAnswered
    <2>1. fails' \in [Modules -> 0..Upper3 + 1] /\ wait' \in [Modules -> Nat]
      BY <1>7, ConstantsType DEF QueryAnswered, NoteSuccess, TypeOK
    <2>2. poll' \in [pc : {"idle", "query", "direct"}, at : 1..Len(Brand)]
      BY <1>7 DEF QueryAnswered, TypeOK, Idle
    <2> QED BY <1>7, <2>1, <2>2, AskedType DEF QueryAnswered, NoteSuccess, TypeOK, env
  <1>8. CASE PollDirect
    BY <1>8 DEF PollDirect, TypeOK, Idle, env
  <1>9. CASE UNCHANGED vars
    BY <1>9 DEF vars, env, TypeOK
  <1> QED BY <1>1, <1>2, <1>3, <1>4, <1>5, <1>6, <1>7, <1>8, <1>9 DEF Next, Poll

(* What is owed is waited for: a failure sets the wait, only the clock shortens it. *)
LEMMA OwedStep == ASSUME IInv, [Next]_vars PROVE Owed'
  <1> USE DEF IInv
  <1>1. CASE Tick
    <2> SUFFICES ASSUME NEW m \in Modules, fails'[m] > 0
                 PROVE  wait'[m] + quiet'[m] >= DelayFor(fails'[m])
      BY DEF Owed
    <2>1. fails' = fails /\ fails[m] \in Nat /\ wait[m] \in Nat /\ quiet[m] \in 0..MaxQuiet
      BY <1>1 DEF Tick, TypeOK
    <2>2. DelayFor(fails[m]) \in Nat /\ DelayFor(fails[m]) <= MaxQuiet
      BY <2>1, DelayType
    <2>3. wait[m] + quiet[m] >= DelayFor(fails[m])
      BY <2>1 DEF Owed
    <2>4. /\ wait'[m] = IF wait[m] > 0 THEN wait[m] - 1 ELSE 0
          /\ quiet'[m] = IF quiet[m] < MaxQuiet THEN quiet[m] + 1 ELSE MaxQuiet
      BY <1>1 DEF Tick
    <2> QED BY <2>1, <2>2, <2>3, <2>4, ConstantsType
  <1>2. CASE QueryFails
    <2> SUFFICES ASSUME NEW m \in Modules, fails'[m] > 0
                 PROVE  wait'[m] + quiet'[m] >= DelayFor(fails'[m])
      BY DEF Owed
    <2>1. Asked \in Modules /\ TypeOK'
      BY AskedType, TypeStep
    <2>2. CASE m = Asked
      <3>1. wait'[m] = DelayFor(fails'[m]) /\ quiet'[m] = 0 /\ fails'[m] \in Nat
        BY <1>2, <2>1, <2>2 DEF QueryFails, NoteFailure, TypeOK
      <3> QED BY <3>1, DelayType
    <2>3. CASE m # Asked
      BY <1>2, <2>3 DEF QueryFails, NoteFailure, TypeOK, Owed
    <2> QED BY <2>2, <2>3
  <1>3. CASE QueryAnswered
    BY <1>3, AskedType DEF QueryAnswered, NoteSuccess, Owed, TypeOK
  <1>4. CASE Answers \/ Listens \/ PollStart \/ QueryBreaks \/ PollDirect \/ UNCHANGED vars
    BY <1>4 DEF Answers, Listens, PollStart, QueryBreaks, PollDirect, vars, Owed
  <1> QED BY <1>1, <1>2, <1>3, <1>4 DEF Next, Poll

(* What was due when the poll looked is due until it is asked. *)
LEMMA DueStep == ASSUME IInv, [Next]_vars PROVE DueUntilAsked'
  <1> USE LenType DEF IInv, DueUntilAsked
  <1>1. CASE Tick
    <2> SUFFICES ASSUME poll'.pc = "query", NEW i \in poll'.at..Len(Brand)
                 PROVE  wait'[Brand[i]] = 0
      OBVIOUS
    <2>1. poll' = poll /\ poll.at \in 1..Len(Brand)
      BY <1>1 DEF Tick, TypeOK
    <2>2. Brand[i] \in Modules /\ wait[Brand[i]] = 0
      BY <2>1 DEF Modules
    <2> QED BY <1>1, <2>2 DEF Tick
  <1>2. CASE PollStart
    <2> SUFFICES ASSUME poll'.pc = "query", NEW i \in poll'.at..Len(Brand)
                 PROVE  wait'[Brand[i]] = 0
      OBVIOUS
    <2>1. MayAsk /\ poll'.at = 1 /\ wait' = wait
      BY <1>2 DEF PollStart
    <2> QED BY <2>1 DEF MayAsk, Modules
  <1>3. CASE QueryFails
    BY <1>3 DEF QueryFails, TypeOK
  <1>4. CASE QueryAnswered
    <2> SUFFICES ASSUME poll'.pc = "query", NEW i \in poll'.at..Len(Brand)
                 PROVE  wait'[Brand[i]] = 0
      OBVIOUS
    <2>1. poll.at \in 1..Len(Brand) /\ poll.pc = "query" /\ poll.at < Len(Brand)
          /\ poll' = [poll EXCEPT !.at = @ + 1]
      BY <1>4 DEF QueryAnswered, TypeOK, Idle
    <2>2. i \in poll.at..Len(Brand) /\ Brand[i] \in Modules
      BY <2>1 DEF TypeOK, Modules
    <2> QED BY <1>4, <2>1, <2>2 DEF QueryAnswered, NoteSuccess, TypeOK
  <1>5. CASE Answers \/ Listens \/ UNCHANGED vars
    BY <1>5 DEF Answers, Listens, vars
  <1>6. CASE QueryBreaks \/ PollDirect
    BY <1>6 DEF QueryBreaks, PollDirect, Idle, TypeOK
  <1> QED BY <1>1, <1>2, <1>3, <1>4, <1>5, <1>6 DEF Next, Poll

(* The modules read are the ones before the place the poll has come to. *)
LEMMA ReadStep == ASSUME IInv, [Next]_vars PROVE ReadSoFar'
  <1> USE LenType DEF IInv, ReadSoFar
  <1>1. CASE PollStart
    BY <1>1 DEF PollStart
  <1>2. CASE QueryAnswered
    <2> SUFFICES ASSUME poll'.pc = "query" PROVE got' = {Brand[i] : i \in 1..poll'.at - 1}
      OBVIOUS
    <2>1. poll.at \in 1..Len(Brand) /\ poll'.at = poll.at + 1
      BY <1>2 DEF QueryAnswered, TypeOK, Idle
    <2>2. got = {Brand[i] : i \in 1..poll.at - 1} /\ got' = got \cup {Brand[poll.at]}
      BY <1>2 DEF QueryAnswered, Asked
    <2> QED BY <2>1, <2>2
  <1>3. CASE QueryFails \/ QueryBreaks \/ PollDirect
    BY <1>3 DEF QueryFails, QueryBreaks, PollDirect, Idle, TypeOK
  <1>4. CASE Answers \/ Listens \/ Tick \/ UNCHANGED vars
    BY <1>4 DEF Answers, Listens, Tick, vars
  <1> QED BY <1>1, <1>2, <1>3, <1>4 DEF Next, Poll

(* The inductive invariant. *)
LEMMA Inductive == Spec => []IInv
  <1>1. Init => IInv
    BY LenType, ExporterAssumption
       DEF Init, IInv, TypeOK, Owed, DueUntilAsked, ReadSoFar, Idle
  <1>2. IInv /\ [Next]_vars => IInv'
    BY TypeStep, OwedStep, DueStep, ReadStep DEF IInv
  <1> QED BY <1>1, <1>2, PTL DEF Spec

(* Every variable keeps its type. *)
THEOREM ExporterTypes == Spec => []TypeOK
  BY Inductive, PTL DEF IInv

(* No poll asks a module that its first look did not find due. *)
THEOREM ExporterDue == Spec => []DueUntilAsked
  BY Inductive, PTL DEF IInv

(* A module that is asked has waited for as long as its failures call for. *)
LEMMA AskedLate ==
    ASSUME IInv, poll.pc = "query", fails[Asked] > 0
    PROVE  quiet[Asked] >= DelayFor(fails[Asked])
  <1>1. Asked \in Modules /\ poll.at \in poll.at..Len(Brand)
    BY AskedType, LenType DEF IInv, TypeOK
  <1>2. wait[Asked] = 0 /\ wait[Asked] + quiet[Asked] >= DelayFor(fails[Asked])
    BY <1>1 DEF IInv, DueUntilAsked, Owed, Asked
  <1> QED BY <1>1, <1>2 DEF IInv, TypeOK

(* The step that ends a poll on the exporter's route has read the last module. *)
LEMMA WholeStep ==
    ASSUME IInv, [Next]_vars, poll.pc = "query", poll'.pc = "idle"
    PROVE  route' = "exporter" /\ got' = Modules
  <1>1. QueryAnswered
    BY DEF Next, Poll, Answers, Listens, Tick, PollStart, QueryFails, QueryBreaks,
           PollDirect, vars, IInv, TypeOK
  <1>2. poll.at = Len(Brand) /\ route' = "exporter"
    <2>1. poll.at \in 1..Len(Brand) /\ poll = [pc |-> "query", at |-> poll.at]
      BY DEF IInv, TypeOK
    <2>2. ~(poll.at < Len(Brand))
      BY <1>1, <2>1 DEF QueryAnswered
    <2>3. poll' = Idle /\ route' = "exporter"
      BY <1>1, <2>1, <2>2 DEF QueryAnswered
    <2> QED BY <2>1, <2>2, <2>3, LenType
  <1>3. got' = {Brand[i] : i \in 1..Len(Brand) - 1} \cup {Brand[Len(Brand)]}
    BY <1>1, <1>2 DEF QueryAnswered, IInv, ReadSoFar, Asked
  <1> QED BY <1>2, <1>3, LenType DEF Modules

(* No request is sent before the delay that the failures call for has passed. *)
THEOREM ExporterBackoff == Spec => BackoffRespected
  BY AskedLate, Inductive, PTL DEF BackoffRespected, Spec

(* A poll that ended on the exporter's route has read every module. *)
THEOREM ExporterWhole == Spec => WholeSnapshot
  BY WholeStep, Inductive, PTL DEF WholeSnapshot, Spec

-----------------------------------------------------------------------------
(* The two routes of a poll. *)

DeviceType == dev \in [Sizes -> Nat]
PrevType ==
    prev \in [total : CounterType, papers : [Sizes -> CounterType], lagged : SUBSET Sizes,
              pend : (Nat \X Nat) \cup {None}]
ReadType ==
    read \in [by : {"none", "enhanced", "legacy"}, total : CounterType, at : [Sizes -> Nat],
              papers : [Sizes -> CounterType], left : Seq(Sizes \cup {"total"})]
HistoryType ==
    /\ base \in [Sizes -> Nat] /\ attributed \in [Sizes -> Nat] /\ recorded \in Nat
    /\ trust \in {"all", "total", "none"}
Types == DeviceType /\ PrevType /\ ReadType /\ HistoryType

\* What was read was there, and after what was read before it.
InOrder ==
    \A s \in Sizes :
        /\ base[s] <= dev[s] /\ read.at[s] <= dev[s]
        /\ read.total # None => base[s] <= read.at[s]
        /\ prev.papers[s] # None => prev.papers[s] <= dev[s]
        /\ read.papers[s] # None =>
              /\ read.papers[s] <= dev[s]
              /\ prev.papers[s] # None => prev.papers[s] <= read.papers[s]

ReadTotals == read.total \in {None, 0, Sum(read.at)}

\* Nothing is recorded before the baseline.
Unstarted ==
    prev.total = None =>
        recorded = 0 /\ base = NoSplit /\ attributed = NoSplit /\ prev.papers = NoPapers

\* The baseline is the one counter that rows are counted with.
OneCounter ==
    trust # "none" => recorded <= Sum(base) /\ (prev.total # None => prev.total = Sum(base))

\* The paper counters of the baseline stand for what was attributed.
GivenOnce ==
    \A s \in Sizes :
        attributed[s] <= IF prev.papers[s] = None THEN 0 ELSE prev.papers[s]

\* While nothing disturbs a poll its reads are of one moment, and a paper counter of the
\* baseline is of that moment, or behind it and flagged.
OneMoment ==
    trust = "all" =>
        /\ read.left # <<>> => read.at = dev
        /\ \A s \in Sizes :
              /\ read.papers[s] # None => read.papers[s] = read.at[s]
              /\ prev.papers[s] # None =>
                    /\ prev.papers[s] <= base[s]
                    /\ s \notin prev.lagged => prev.papers[s] = base[s]

Counts == InOrder /\ ReadTotals /\ Unstarted /\ OneCounter /\ GivenOnce /\ OneMoment
RInv == Types /\ Counts

(* A read that failed is no number. *)
LEMMA NoneType == None \notin Nat /\ Limits \subseteq Nat
  BY ReadingAssumption

(* The pages of both sizes. *)
LEMMA SumType == ASSUME NEW f \in [Sizes -> Nat] PROVE Sum(f) \in Nat
  BY DEF Sum, Sizes

(* More of each size is more of both. *)
LEMMA SumOrder ==
    ASSUME NEW f \in [Sizes -> Nat], NEW g \in [Sizes -> Nat], \A s \in Sizes : f[s] <= g[s]
    PROVE  Sum(f) <= Sum(g)
  BY DEF Sum, Sizes

(* A poll that has read nothing yet. *)
LEMMA UnreadType ==
    ASSUME NEW by \in {"none", "enhanced", "legacy"}
    PROVE  /\ Unread(by) \in [by : {"none", "enhanced", "legacy"}, total : CounterType,
                              at : [Sizes -> Nat], papers : [Sizes -> CounterType],
                              left : Seq(Sizes \cup {"total"})]
           /\ Unread(by).by = by /\ Unread(by).total = None /\ Unread(by).left = <<>>
           /\ \A s \in Sizes : Unread(by).at[s] = 0 /\ Unread(by).papers[s] = None
  BY DEF Unread, NoSplit, NoPapers, CounterType

(* The invariant holds at first. *)
LEMMA InitRInv == ReadingInit => RInv
  <1> SUFFICES ASSUME ReadingInit PROVE RInv
    OBVIOUS
  <1>1. read = Unread("none") /\ dev = NoSplit /\ base = NoSplit /\ attributed = NoSplit
        /\ recorded = 0 /\ trust = "all"
        /\ prev = [total |-> None, papers |-> NoPapers, lagged |-> {}, pend |-> None]
    BY DEF ReadingInit, NoRead
  <1>2. \A s \in Sizes : NoSplit[s] = 0 /\ NoPapers[s] = None
    BY DEF NoSplit, NoPapers
  <1>3. NoSplit \in [Sizes -> Nat] /\ NoPapers \in [Sizes -> CounterType] /\ Sum(NoSplit) = 0
    BY DEF NoSplit, NoPapers, CounterType, Sum, Sizes
  <1>4. Types
    BY <1>1, <1>3, UnreadType DEF Types, DeviceType, PrevType, ReadType, HistoryType, CounterType
  <1>5. InOrder /\ ReadTotals /\ Unstarted /\ OneCounter /\ GivenOnce /\ OneMoment
    BY <1>1, <1>2, <1>3, UnreadType DEF InOrder, ReadTotals, Unstarted, OneCounter, GivenOnce, OneMoment
  <1> QED BY <1>4, <1>5 DEF RInv, Counts

-----------------------------------------------------------------------------
(* The steps that record nothing. *)

(* A step of the other route. *)
LEMMA Unmoved ==
    ASSUME RInv, UNCHANGED <<dev, prev, read, history, trust>>
    PROVE  RInv'
  BY DEF RInv, Types, DeviceType, PrevType, ReadType, HistoryType, history, Counts, InOrder,
         ReadTotals, Unstarted, OneCounter, GivenOnce, OneMoment, Sum

(* A poll that is given up leaves what stands before it. *)
LEMMA ReadGone ==
    ASSUME RInv, UNCHANGED <<dev, prev, history, trust>>,
           NEW by \in {"none", "enhanced", "legacy"}, read' = Unread(by)
    PROVE  RInv'
  <1> USE UnreadType DEF RInv, Types, Counts, history
  <1>1. Types'
    BY DEF DeviceType, PrevType, ReadType, HistoryType
  <1>2. InOrder'
    BY DEF InOrder, DeviceType
  <1>3. ReadTotals' /\ Unstarted' /\ GivenOnce'
    BY DEF ReadTotals, Unstarted, GivenOnce
  <1>4. OneCounter'
    BY DEF OneCounter, Sum
  <1>5. OneMoment'
    BY DEF OneMoment
  <1> QED BY <1>1, <1>2, <1>3, <1>4, <1>5

(* A page between two reads of a poll puts its split at risk. *)
LEMMA PrintPageStep == ASSUME RInv, NEW s \in Sizes, PrintPage(s) PROVE RInv'
  <1> USE DEF RInv, Types, Counts
  <1>1. dev' \in [Sizes -> Nat] /\ \A z \in Sizes : dev[z] <= dev'[z]
    BY DEF PrintPage, DeviceType
  <1>2. /\ UNCHANGED <<prev, read, history>>
        /\ trust' = IF read.left # <<>> /\ trust = "all" THEN "total" ELSE trust
    BY DEF PrintPage, SplitAtRisk
  <1>3. Types'
    BY <1>1, <1>2 DEF DeviceType, PrevType, ReadType, HistoryType, history
  <1>4. InOrder'
    BY <1>1, <1>2, NoneType
       DEF InOrder, DeviceType, HistoryType, PrevType, ReadType, CounterType, history
  <1>5. ReadTotals' /\ Unstarted' /\ GivenOnce' /\ OneCounter'
    BY <1>2 DEF ReadTotals, Unstarted, GivenOnce, OneCounter, Sum, history
  <1>6. OneMoment'
    BY <1>2 DEF OneMoment, history
  <1> QED BY <1>3, <1>4, <1>5, <1>6

(* A restart forgets the flags, and puts what was flagged at risk. *)
LEMMA RestartStep == ASSUME RInv, Restart PROVE RInv'
  <1> USE UnreadType DEF RInv, Types, Counts
  <1>1. /\ UNCHANGED <<dev, history>> /\ read' = Unread("none")
        /\ prev' = [prev EXCEPT !.lagged = {}, !.pend = None]
        /\ trust' = IF prev.lagged # {} /\ trust = "all" THEN "total" ELSE trust
    BY DEF Restart, SplitAtRisk, NoRead
  <1>2. prev'.total = prev.total /\ prev'.papers = prev.papers /\ prev'.lagged = {}
        /\ prev'.pend = None
    BY <1>1 DEF PrevType
  <1>3. Types'
    BY <1>1 DEF DeviceType, PrevType, ReadType, HistoryType, history
  <1>4. InOrder'
    BY <1>1, <1>2 DEF InOrder, DeviceType, history
  <1>5. ReadTotals' /\ Unstarted' /\ GivenOnce'
    BY <1>1, <1>2 DEF ReadTotals, Unstarted, GivenOnce, history
  <1>6. OneCounter'
    BY <1>1, <1>2 DEF OneCounter, Sum, history
  <1>7. OneMoment'
    BY <1>1, <1>2 DEF OneMoment, history
  <1> QED BY <1>3, <1>4, <1>5, <1>6, <1>7

(* The first read of a poll is of now. *)
LEMMA TotalStep ==
    ASSUME RInv, NEW by \in {"none", "enhanced", "legacy"}, NEW total \in {Sum(dev), 0, None},
           NEW left \in Seq(Sizes \cup {"total"}), ReadsTotal(by, total, left), UNCHANGED trust
    PROVE  RInv'
  <1> USE UnreadType, SumType, NoneType DEF RInv, Types, Counts
  <1>1. /\ UNCHANGED <<dev, prev, history>>
        /\ read' = [Unread(by) EXCEPT !.total = total, !.at = dev, !.left = left]
    BY DEF ReadsTotal
  <1>2. read'.total = total /\ read'.at = dev /\ read'.left = left /\ read'.by = by
        /\ \A s \in Sizes : read'.papers[s] = None
    BY <1>1
  <1>3. Types'
    <2>1. read' = [by |-> by, total |-> total, at |-> dev, papers |-> NoPapers, left |-> left]
      BY <1>1 DEF Unread
    <2>2. NoPapers \in [Sizes -> CounterType] /\ total \in CounterType
      BY DEF NoPapers, CounterType, DeviceType
    <2>3. ReadType'
      BY <2>1, <2>2 DEF ReadType, DeviceType
    <2> QED BY <1>1, <2>3 DEF DeviceType, PrevType, HistoryType, history
  <1>4. InOrder'
    BY <1>1, <1>2 DEF InOrder, DeviceType, history
  <1>5. ReadTotals' /\ Unstarted' /\ GivenOnce'
    BY <1>1, <1>2 DEF ReadTotals, Unstarted, GivenOnce, history, Sum
  <1>6. OneCounter'
    BY <1>1, <1>2 DEF OneCounter, Sum, history
  <1>7. OneMoment'
    BY <1>1, <1>2 DEF OneMoment, history
  <1> QED BY <1>3, <1>4, <1>5, <1>6, <1>7

(* Toshiba's own counter, or none. *)
LEMMA EnhancedTotalStep == ASSUME RInv, EnhancedTotal PROVE RInv'
  <1>1. PICK total \in {Sum(dev), None} : ReadsTotal("enhanced", total, <<"large", "small">>)
    BY DEF EnhancedTotal
  <1>2. <<"large", "small">> \in Seq(Sizes \cup {"total"})
    BY DEF Sizes
  <1> QED BY <1>1, <1>2, TotalStep DEF EnhancedTotal

(* The same, or zero for none. *)
LEMMA LegacyTotalStep == ASSUME RInv, LegacyTotal PROVE RInv'
  <1>1. PICK total \in {Sum(dev), 0}, left \in {<<"small", "large", "total">>, <<"small", "large">>} :
            ReadsTotal("legacy", total, left)
    BY DEF LegacyTotal
  <1> DEFINE Todo == Sizes \cup {"total"}
  <1>2. "small" \in Todo /\ "large" \in Todo /\ "total" \in Todo
    BY DEF Sizes
  <1> HIDE DEF Todo
  <1>3. <<"small", "large", "total">> \in Seq(Todo) /\ <<"small", "large">> \in Seq(Todo)
    BY <1>2
  <1>4. left \in Seq(Sizes \cup {"total"})
    BY <1>1, <1>3 DEF Todo
  <1> QED BY <1>1, <1>4, TotalStep DEF LegacyTotal

(* The last read of the older collector finds the device as the first did, or a page was
   printed since. *)
LEMMA LegacyRetryStep == ASSUME RInv, LegacyRetry PROVE RInv'
  <1> USE SumType, NoneType DEF RInv, Types, Counts
  <1>1. PICK total \in {Sum(dev), 0} :
            read' = [read EXCEPT !.total = total, !.at = dev, !.left = <<>>]
    BY DEF LegacyRetry
  <1>2. UNCHANGED <<dev, prev, history, trust>> /\ read.left # <<>>
    BY DEF LegacyRetry
  <1>3. read'.total = total /\ read'.at = dev /\ read'.left = <<>> /\ read'.papers = read.papers
        /\ read'.by = read.by
    BY <1>1 DEF ReadType
  <1>4. Types'
    <2>1. total \in CounterType
      BY DEF CounterType, DeviceType
    <2>2. <<>> \in Seq(Sizes \cup {"total"})
      OBVIOUS
    <2>3. ReadType'
      BY <1>1, <2>1, <2>2 DEF ReadType, DeviceType
    <2> QED BY <1>2, <2>3 DEF DeviceType, PrevType, HistoryType, history
  <1>5. InOrder'
    BY <1>2, <1>3 DEF InOrder, DeviceType, history
  <1>6. ReadTotals' /\ Unstarted' /\ GivenOnce'
    BY <1>2, <1>3 DEF ReadTotals, Unstarted, GivenOnce, history, Sum
  <1>7. OneCounter'
    BY <1>2 DEF OneCounter, Sum, history
  <1>8. OneMoment'
    BY <1>2, <1>3 DEF OneMoment, history
  <1> QED BY <1>4, <1>5, <1>6, <1>7, <1>8

(* A paper counter, or none. *)
LEMMA ReadPaperStep == ASSUME RInv, ReadPaper PROVE RInv'
  <1> USE NoneType DEF RInv, Types, Counts
  <1> DEFINE s == Head(read.left)
  <1>1. PICK v \in {dev[s], None} :
            read' = [read EXCEPT !.papers[s] = v, !.left = Tail(@)]
    BY DEF ReadPaper
  <1>2. UNCHANGED <<dev, prev, history, trust>> /\ read.left # <<>> /\ s \in Sizes
    BY DEF ReadPaper
  <1>3. /\ read'.total = read.total /\ read'.at = read.at /\ read'.by = read.by
        /\ read'.left = Tail(read.left)
        /\ \A z \in Sizes : read'.papers[z] = IF z = s THEN v ELSE read.papers[z]
    BY <1>1, <1>2 DEF ReadType
  <1>4. read'.left \in Seq(Sizes \cup {"total"})
    BY <1>2, <1>3 DEF ReadType
  <1>5. read'.papers \in [Sizes -> CounterType]
    BY <1>1, <1>2 DEF ReadType, DeviceType, CounterType
  <1>6. Types'
    BY <1>1, <1>2, <1>4, <1>5 DEF DeviceType, PrevType, ReadType, HistoryType, history
  <1>7. InOrder'
    BY <1>2, <1>3
       DEF InOrder, DeviceType, PrevType, ReadType, HistoryType, CounterType, history
  <1>8. ReadTotals' /\ Unstarted' /\ GivenOnce'
    BY <1>2, <1>3 DEF ReadTotals, Unstarted, GivenOnce, history, Sum
  <1>9. OneCounter'
    BY <1>2 DEF OneCounter, Sum, history
  <1>10. OneMoment'
    BY <1>2, <1>3 DEF OneMoment, history
  <1> QED BY <1>6, <1>7, <1>8, <1>9, <1>10

-----------------------------------------------------------------------------
(* The event. *)

(* The event ends the poll or gives it to the older collector. *)
LEMMA EndsRead == ASSUME Ends PROVE \E by \in {"none", "enhanced", "legacy"} : read' = Unread(by)
  BY DEF Ends, NoRead

(* A total that is not zero was read. *)
LEMMA TotalType ==
    ASSUME RInv, Total # None
    PROVE  Total \in Nat /\ (Total # 0 => Total = Sum(read.at))
  BY NoneType DEF RInv, Types, ReadType, CounterType, Counts, ReadTotals, Total

(* What the snapshot has of the paper after a poll was not there before it. *)
LEMMA FreshFacts ==
    ASSUME RInv
    PROVE  /\ Fresh \in [Sizes -> CounterType]
           /\ \A s \in Sizes :
                 /\ Fresh[s] # None => Fresh[s] \in Nat /\ Fresh[s] <= dev[s]
                 /\ prev.papers[s] # None => Fresh[s] # None /\ prev.papers[s] <= Fresh[s]
                 /\ read.papers[s] = None => Fresh[s] = prev.papers[s]
                 /\ read.papers[s] # None => Fresh[s] = read.papers[s]
  <1> USE NoneType DEF RInv, Types, ReadType, PrevType, CounterType
  <1>1. \A s \in Sizes : read.papers[s] \in CounterType /\ prev.papers[s] \in CounterType
    OBVIOUS
  <1>2. Fresh \in [Sizes -> CounterType]
    BY <1>1 DEF Fresh
  <1>3. \A s \in Sizes : Fresh[s] = IF read.papers[s] # None THEN read.papers[s] ELSE prev.papers[s]
    BY DEF Fresh
  <1> QED BY <1>1, <1>2, <1>3 DEF Counts, InOrder

(* A split gives a size at most what its counter has moved. *)
LEMMA SplitFacts ==
    ASSUME RInv, Total # None, prev.total # None
    PROVE  /\ Split \in [Sizes -> Nat]
           /\ \A s \in Sizes : Split[s] # 0 =>
                 /\ read.papers[s] # None /\ prev.papers[s] # None
                 /\ prev.papers[s] + Split[s] <= read.papers[s]
  <1> USE DEF RInv, Types
  <1>1. CASE ~Attributable
    BY <1>1 DEF Split, NoSplit
  <1>2. CASE Attributable
    <2>1. \A s \in Sizes : /\ read.papers[s] \in Nat /\ prev.papers[s] \in Nat
                           /\ read.papers[s] # None /\ prev.papers[s] # None
                           /\ Moved(s) \in Nat /\ Moved(s) = read.papers[s] - prev.papers[s]
      BY <1>2 DEF Attributable, Moved, ReadType, PrevType, CounterType
    <2>2. Total \in Nat /\ prev.total \in Nat
      BY TotalType DEF PrevType, CounterType
    <2>3. Surplus \in Int
      BY <2>1, <2>2 DEF Surplus, Sizes, Total
    <2>4. \A s \in Sizes :
             Split[s] = IF Surplus > 0 /\ s = Absorber
                        THEN IF Moved(s) > Surplus THEN Moved(s) - Surplus ELSE 0
                        ELSE Moved(s)
      BY <1>2 DEF Split
    <2>5. \A s \in Sizes : Split[s] \in Nat /\ Split[s] <= Moved(s)
      BY <2>1, <2>3, <2>4
    <2>6. Split \in [Sizes -> Nat]
      <3>1. Split = [s \in Sizes |-> Split[s]]
        BY <1>2 DEF Split
      <3> QED BY <2>5, <3>1
    <2> QED BY <2>1, <2>5, <2>6
  <1> QED BY <1>1, <1>2

(* What a row adds. *)
LEMMA RecordFacts ==
    ASSUME RInv, Total # None, prev.total # None, Total > prev.total, Record
    PROVE  /\ attributed' \in [Sizes -> Nat] /\ recorded' \in Nat
           /\ \A s \in Sizes : attributed'[s] <= IF Fresh[s] = None THEN 0 ELSE Fresh[s]
           /\ Total = Sum(read.at)
           /\ trust # "none" => recorded' <= Sum(read.at)
  <1> USE DEF RInv, Types, HistoryType
  <1>1. Total \in Nat /\ prev.total \in Nat /\ Total = Sum(read.at)
    BY TotalType DEF PrevType, CounterType
  <1>2. recorded' = recorded + (Total - prev.total)
    BY DEF Record, Delta
  <1>3. trust # "none" => recorded' <= Sum(read.at)
    BY <1>1, <1>2 DEF Counts, OneCounter
  <1>4. \A s \in Sizes : Split[s] \in Nat /\ attributed'[s] = attributed[s] + Split[s]
    BY SplitFacts DEF Record
  <1>5. attributed' \in [Sizes -> Nat]
    BY SplitFacts DEF Record
  <1>6. ASSUME NEW s \in Sizes
        PROVE  attributed'[s] <= IF Fresh[s] = None THEN 0 ELSE Fresh[s]
    <2>1. attributed[s] \in Nat /\ attributed[s] <= IF prev.papers[s] = None THEN 0 ELSE prev.papers[s]
      BY DEF Counts, GivenOnce
    <2>2. prev.papers[s] # None => prev.papers[s] \in Nat
      BY DEF PrevType, CounterType
    <2>3. CASE Split[s] = 0
      BY <1>4, <2>1, <2>2, <2>3, FreshFacts
    <2>4. CASE Split[s] # 0
      <3>1. Fresh[s] = read.papers[s] /\ Fresh[s] # None /\ Fresh[s] \in Nat
            /\ prev.papers[s] # None /\ prev.papers[s] + Split[s] <= Fresh[s]
        BY <2>4, SplitFacts, FreshFacts
      <3> QED BY <1>4, <2>1, <2>2, <3>1
    <2> QED BY <2>3, <2>4
  <1> QED BY <1>1, <1>2, <1>3, <1>5, <1>6

(* A new baseline, whichever exit has accepted it. *)
LEMMA Accepted ==
    ASSUME RInv, Total # None, UNCHANGED dev, Ends,
           NEW papers \in [Sizes -> CounterType], NEW lagged \in SUBSET Sizes,
           prev' = [total |-> Total, papers |-> papers, lagged |-> lagged, pend |-> None],
           \A s \in Sizes : papers[s] = read.papers[s] \/ papers[s] = Fresh[s],
           base' = read.at, attributed' \in [Sizes -> Nat], recorded' \in Nat,
           \A s \in Sizes : attributed'[s] <= IF papers[s] = None THEN 0 ELSE papers[s],
           trust' \in {"all", "total", "none"}, trust' = "all" => trust = "all",
           trust' # "none" => recorded' <= Sum(read.at) /\ Total = Sum(read.at),
           trust' = "all" => \A s \in Sizes :
               s \notin lagged /\ papers[s] # None => papers[s] = read.at[s]
    PROVE  RInv'
  <1> USE NoneType DEF RInv, Types, Counts
  <1>1. PICK by \in {"none", "enhanced", "legacy"} : read' = Unread(by)
    BY EndsRead
  <1>2. Total \in Nat
    BY TotalType
  <1>3. Types'
    <2>1. ReadType'
      BY <1>1, UnreadType DEF ReadType
    <2>2. PrevType'
      BY <1>2 DEF PrevType, CounterType
    <2> QED BY <2>1, <2>2 DEF DeviceType, HistoryType, ReadType
  <1>4. \A s \in Sizes : papers[s] # None => papers[s] \in Nat /\ papers[s] <= dev[s]
    BY FreshFacts DEF InOrder, ReadType, CounterType
  <1>5. InOrder'
    <2>1. \A s \in Sizes : base'[s] <= dev'[s]
      BY DEF InOrder
    <2>2. \A s \in Sizes : read'.at[s] <= dev'[s] /\ read'.papers[s] = None
      BY <1>1, UnreadType DEF DeviceType
    <2>3. read'.total = None /\ prev'.papers = papers
      BY <1>1, UnreadType
    <2> QED BY <1>4, <2>1, <2>2, <2>3 DEF InOrder
  <1>6. ReadTotals' /\ Unstarted' /\ GivenOnce'
    BY <1>1, UnreadType DEF ReadTotals, Unstarted, GivenOnce
  <1>7. OneCounter'
    BY DEF OneCounter, Sum
  <1>8. ASSUME trust' = "all", NEW s \in Sizes, papers[s] # None PROVE papers[s] <= base'[s]
    <2>1. CASE read.papers[s] # None
      <3>1. papers[s] = read.papers[s] /\ read.papers[s] = read.at[s] /\ read.at[s] \in Nat
        BY <1>8, <2>1, FreshFacts DEF OneMoment, ReadType
      <3> QED BY <3>1
    <2>2. CASE read.papers[s] = None
      <3>1. papers[s] = prev.papers[s] /\ papers[s] <= base[s] /\ base[s] <= read.at[s]
        BY <1>8, <2>2, FreshFacts DEF OneMoment, InOrder, Total
      <3> QED BY <3>1, <1>4, <1>8 DEF HistoryType, ReadType
    <2> QED BY <2>1, <2>2
  <1>9. OneMoment'
    BY <1>1, <1>8, UnreadType DEF OneMoment
  <1> QED BY <1>3, <1>5, <1>6, <1>7, <1>9

(* A poll that changes no baseline, or only marks it. *)
LEMMA Marked ==
    ASSUME RInv, UNCHANGED <<dev, history, trust>>, Ends,
           NEW pend \in (Nat \X Nat) \cup {None}, prev' = [prev EXCEPT !.pend = pend]
    PROVE  RInv'
  <1> USE UnreadType DEF RInv, Types, Counts, history
  <1>1. PICK by \in {"none", "enhanced", "legacy"} : read' = Unread(by)
    BY EndsRead
  <1>2. prev'.total = prev.total /\ prev'.papers = prev.papers /\ prev'.lagged = prev.lagged
    BY DEF PrevType
  <1>3. Types'
    BY <1>1 DEF DeviceType, PrevType, ReadType, HistoryType
  <1>4. InOrder'
    BY <1>1, <1>2 DEF InOrder, DeviceType
  <1>5. ReadTotals' /\ Unstarted' /\ GivenOnce'
    BY <1>1, <1>2 DEF ReadTotals, Unstarted, GivenOnce
  <1>6. OneCounter'
    BY <1>2 DEF OneCounter, Sum
  <1>7. OneMoment'
    BY <1>1, <1>2 DEF OneMoment
  <1> QED BY <1>3, <1>4, <1>5, <1>6, <1>7

(* Flags are of paper counters. *)
LEMMA FlagsType == ASSUME NEW after \in SUBSET Sizes PROVE Flags(after) \in SUBSET Sizes
  BY DEF Flags

(* A flag that goes was on a counter that was read. *)
LEMMA FlagsKept ==
    ASSUME NEW after, NEW s \in after, read.papers[s] = None, s \in Sizes
    PROVE  s \in Flags(after)
  BY DEF Flags, UnreadPapers

(* No total, or one that is too low. *)
LEMMA NothingCountedStep == ASSUME RInv, NothingCounted PROVE RInv'
  <1>1. UNCHANGED <<dev, history, trust>> /\ Ends /\ prev' = prev
    BY DEF NothingCounted, NothingRecorded, Ends, history
  <1>2. prev.pend \in (Nat \X Nat) \cup {None} /\ prev' = [prev EXCEPT !.pend = prev.pend]
    BY <1>1 DEF RInv, Types, PrevType
  <1> QED BY <1>1, <1>2, Marked

(* A pending overflow. *)
LEMMA OverflowStep == ASSUME RInv, Overflow PROVE RInv'
  <1>1. UNCHANGED <<dev, history, trust>> /\ Ends /\ prev' = [prev EXCEPT !.pend = <<Total, Delta>>]
    BY DEF Overflow, NothingRecorded, Ends, history
  <1>2. Total \in Nat /\ prev.total \in Nat /\ Total >= prev.total
    BY TotalType DEF Overflow, Counting, RInv, Types, PrevType, CounterType
  <1>3. <<Total, Delta>> \in Nat \X Nat
    BY <1>2 DEF Delta
  <1> QED BY <1>1, <1>3, Marked

(* The first baseline: nothing was recorded before. *)
LEMMA FirstBaselineStep == ASSUME RInv, FirstBaseline PROVE RInv'
  <1> USE DEF RInv, Types, Counts
  <1> DEFINE lagged == Flags(prev.lagged)
  <1>1. /\ Total # None /\ UNCHANGED dev /\ Ends /\ base' = read.at
        /\ attributed' = attributed /\ recorded' = recorded
        /\ trust' = IF Total # Sum(read.at) THEN "none" ELSE trust
        /\ prev' = [prev EXCEPT !.total = Total, !.papers = read.papers, !.pend = None,
                                !.lagged = Flags(@)]
    BY DEF FirstBaseline, TotalAtRisk, NothingRecorded, Ends
  <1>2. lagged \in SUBSET Sizes
    BY FlagsType DEF PrevType
  <1>3. prev' = [total |-> Total, papers |-> read.papers, lagged |-> lagged, pend |-> None]
    BY <1>1 DEF PrevType
  <1>4. read.papers \in [Sizes -> CounterType] /\ read.at \in [Sizes -> Nat]
        /\ \A s \in Sizes : read.papers[s] \in Nat \cup {None}
    BY DEF ReadType, CounterType
  <1>5. recorded = 0 /\ \A s \in Sizes : attributed[s] = 0
    BY DEF FirstBaseline, Unstarted, NoSplit
  <1>6. attributed' \in [Sizes -> Nat] /\ recorded' \in Nat
        /\ trust' \in {"all", "total", "none"} /\ (trust' = "all" => trust = "all")
    BY <1>1 DEF HistoryType
  <1>7. \A s \in Sizes : attributed'[s] <= IF read.papers[s] = None THEN 0 ELSE read.papers[s]
    BY <1>1, <1>4, <1>5
  <1>8. trust' # "none" => recorded' <= Sum(read.at) /\ Total = Sum(read.at)
    BY <1>1, <1>4, <1>5, SumType
  <1>9. trust' = "all" => \A s \in Sizes :
            s \notin lagged /\ read.papers[s] # None => read.papers[s] = read.at[s]
    BY <1>6 DEF OneMoment
  <1> HIDE DEF RInv, lagged
  <1> QED BY <1>1, <1>2, <1>3, <1>4, <1>6, <1>7, <1>8, <1>9, Accepted

(* A paper counter that is behind the new baseline without a flag was behind the old one. *)
LEMMA FreshIsCurrent ==
    ASSUME RInv, trust = "all", NEW s \in Sizes, Fresh[s] # None, Fresh[s] # read.at[s]
    PROVE  read.papers[s] = None
  BY FreshFacts DEF RInv, Counts, OneMoment

(* The overflow, confirmed: what was not read must have had its flag. *)
LEMMA GapStep == ASSUME RInv, Gap PROVE RInv'
  <1> USE DEF RInv, Types
  <1> DEFINE lagged == Flags(prev.lagged)
  <1>1. /\ Total # None /\ prev.total # None /\ UNCHANGED dev /\ Ends /\ base' = read.at /\ Record
        /\ trust' = IF UnreadPapers \ prev.lagged # {} /\ trust = "all" THEN "total" ELSE trust
        /\ prev' = [prev EXCEPT !.total = Total, !.papers = Fresh, !.pend = None,
                                !.lagged = Flags(@)]
    BY DEF Gap, Counting, SplitAtRisk, Ends
  <1>2. lagged \in SUBSET Sizes
    BY FlagsType DEF PrevType
  <1>3. prev' = [total |-> Total, papers |-> Fresh, lagged |-> lagged, pend |-> None]
    BY <1>1 DEF PrevType
  <1>4. Fresh \in [Sizes -> CounterType]
    BY FreshFacts
  <1>5. Total > prev.total
    <2>1. PICK limit \in Limits : Delta > limit
      BY DEF Gap
    <2>2. limit \in Nat /\ Total \in Nat /\ prev.total \in Nat
      BY <1>1, TotalType, NoneType DEF PrevType, CounterType
    <2> QED BY <2>1, <2>2 DEF Delta
  <1>6. trust' \in {"all", "total", "none"} /\ (trust' = "all" => trust = "all")
        /\ (trust' # "none" => trust # "none")
    BY <1>1 DEF HistoryType
  <1>7. ASSUME trust' = "all", NEW s \in Sizes, s \notin lagged, Fresh[s] # None
        PROVE  Fresh[s] = read.at[s]
    <2>1. trust = "all" /\ UnreadPapers \ prev.lagged = {}
      BY <1>1, <1>7 DEF HistoryType
    <2>2. read.papers[s] # None
      BY <1>7, <2>1, FlagsKept DEF UnreadPapers
    <2> HIDE DEF RInv
    <2> QED BY <1>7, <2>1, <2>2, FreshIsCurrent
  <1> HIDE DEF RInv, lagged
  <1>8. /\ attributed' \in [Sizes -> Nat] /\ recorded' \in Nat /\ Total = Sum(read.at)
        /\ \A s \in Sizes : attributed'[s] <= IF Fresh[s] = None THEN 0 ELSE Fresh[s]
        /\ trust # "none" => recorded' <= Sum(read.at)
    BY <1>1, <1>5, RecordFacts
  <1> QED BY <1>1, <1>2, <1>3, <1>4, <1>6, <1>7, <1>8, Accepted

(* A row, or nothing printed: the flags are exact. *)
LEMMA FullSnapshotStep == ASSUME RInv, FullSnapshot PROVE RInv'
  <1> USE DEF RInv, Types
  <1>1. /\ Total # None /\ prev.total # None /\ Total >= prev.total
        /\ UNCHANGED dev /\ Ends /\ base' = read.at
        /\ IF Delta > 0 THEN Record ELSE NothingRecorded
        /\ trust' = IF Total # Sum(read.at) THEN "none" ELSE trust
        /\ prev' = [total |-> Total, papers |-> Fresh, lagged |-> UnreadPapers, pend |-> None]
    BY DEF FullSnapshot, Counting, TotalAtRisk, Ends
  <1>2. UnreadPapers \in SUBSET Sizes /\ Fresh \in [Sizes -> CounterType]
    BY FreshFacts DEF UnreadPapers
  <1>3. trust' \in {"all", "total", "none"} /\ (trust' = "all" => trust = "all")
        /\ (trust' # "none" => trust # "none" /\ Total = Sum(read.at))
    BY <1>1 DEF HistoryType
  <1>4. ASSUME trust' = "all", NEW s \in Sizes, s \notin UnreadPapers, Fresh[s] # None
        PROVE  Fresh[s] = read.at[s]
    <2>1. trust = "all" /\ read.papers[s] # None
      BY <1>3, <1>4 DEF UnreadPapers
    <2> HIDE DEF RInv
    <2> QED BY <1>4, <2>1, FreshIsCurrent
  <1>5. Total \in Nat /\ prev.total \in Nat
    BY <1>1, TotalType DEF PrevType, CounterType
  <1>6. /\ attributed' \in [Sizes -> Nat] /\ recorded' \in Nat
        /\ \A s \in Sizes : attributed'[s] <= IF Fresh[s] = None THEN 0 ELSE Fresh[s]
        /\ trust' # "none" => recorded' <= Sum(read.at)
    <2>1. CASE Delta > 0
      <3>1. Record /\ Total > prev.total
        BY <1>1, <1>5, <2>1 DEF Delta
      <3> HIDE DEF RInv
      <3> QED BY <1>1, <1>3, <3>1, RecordFacts
    <2>2. CASE ~(Delta > 0)
      <3>1. attributed' = attributed /\ recorded' = recorded
        BY <1>1, <2>2 DEF NothingRecorded
      <3>2. recorded \in Nat /\ attributed \in [Sizes -> Nat] /\ read.at \in [Sizes -> Nat]
        BY DEF HistoryType, ReadType
      <3>3. trust' # "none" => recorded' <= Sum(read.at)
        BY <1>1, <1>3, <1>5, <3>1, <3>2 DEF Counts, OneCounter
      <3>4. ASSUME NEW s \in Sizes
            PROVE  attributed'[s] <= IF Fresh[s] = None THEN 0 ELSE Fresh[s]
        <4>1. attributed[s] \in Nat
              /\ attributed[s] <= IF prev.papers[s] = None THEN 0 ELSE prev.papers[s]
          BY <3>2 DEF Counts, GivenOnce
        <4>2. prev.papers[s] # None => prev.papers[s] \in Nat
          BY DEF PrevType, CounterType
        <4> QED BY <3>1, <4>1, <4>2, FreshFacts
      <3> QED BY <3>1, <3>2, <3>3, <3>4
    <2> QED BY <2>1, <2>2
  <1> HIDE DEF RInv
  <1> QED BY <1>1, <1>2, <1>3, <1>4, <1>6, Accepted
-----------------------------------------------------------------------------
(* The invariant. *)

(* An exception, or no answer. *)
LEMMA GivenUpStep == ASSUME RInv, EnhancedRaises \/ PollKept PROVE RInv'
  <1>1. UNCHANGED <<dev, prev, history, trust>> /\ \E by \in {"none", "legacy"} : read' = Unread(by)
    BY DEF EnhancedRaises, PollKept, NoRead
  <1> QED BY <1>1, ReadGone

(* The invariant is inductive. *)
LEMMA RStep == ASSUME RInv, [ReadingNext]_readingVars PROVE RInv'
  <1>1. CASE MirroredWorld \/ MirroredTick \/ MirroredPoll \/ DirectPoll \/ UNCHANGED readingVars
    BY <1>1, Unmoved DEF MirroredWorld, MirroredTick, MirroredPoll, DirectPoll, readingVars, reading
  <1>2. CASE \E s \in Sizes : PrintPage(s)
    BY <1>2, PrintPageStep
  <1>3. CASE CountersEvent
    BY <1>3, NothingCountedStep, FirstBaselineStep, OverflowStep, GapStep, FullSnapshotStep
       DEF CountersEvent
  <1> QED BY <1>1, <1>2, <1>3, RestartStep, GivenUpStep, EnhancedTotalStep, LegacyTotalStep,
             LegacyRetryStep, ReadPaperStep DEF ReadingNext, ReadingPoll

(* It holds throughout. *)
LEMMA ReadingInductive == ReadingSpec => []RInv
  BY InitRInv, RStep, PTL DEF ReadingSpec

-----------------------------------------------------------------------------
(* The route of the exporter, beside the direct one. *)

\* A printer read directly never asks a module.
AsksMirrored == poll.pc = "query" => mirrored

MInv == IInv /\ AsksMirrored

(* The invariant of ExporterClient, beside the direct route. *)
LEMMA MInvStep == ASSUME MInv, [ReadingNext]_readingVars PROVE MInv'
  <1> USE DEF MInv
  <1>1. ASSUME [Next]_vars, mirrored' = mirrored, mirrored \/ poll'.pc # "query" PROVE MInv'
    BY <1>1, TypeStep, OwedStep, DueStep, ReadStep DEF IInv, AsksMirrored
  <1>2. CASE MirroredWorld \/ MirroredTick \/ MirroredPoll
    BY <1>1, <1>2 DEF MirroredWorld, MirroredTick, MirroredPoll, Next, reading
  <1>3. CASE UNCHANGED vars /\ mirrored' = mirrored
    BY <1>1, <1>3 DEF vars, AsksMirrored
  <1>4. CASE (\E s \in Sizes : PrintPage(s)) \/ EnhancedTotal \/ EnhancedRaises \/ LegacyTotal
             \/ LegacyRetry \/ ReadPaper \/ UNCHANGED readingVars
    BY <1>3, <1>4 DEF PrintPage, EnhancedTotal, EnhancedRaises, LegacyTotal, LegacyRetry,
                      ReadPaper, ReadsTotal, readingVars, reading
  <1>5. CASE Restart \/ DirectPoll
    <2>1. poll'.pc # "query" /\ poll' \in [pc : {"idle", "query", "direct"}, at : 1..Len(Brand)]
      BY <1>5, LenType DEF Restart, DirectPoll, Idle
    <2>2. UNCHANGED <<env, fails, wait, route, quiet>> /\ got' \subseteq Modules
      BY <1>5 DEF Restart, DirectPoll, IInv, TypeOK
    <2> QED BY <2>1, <2>2 DEF IInv, TypeOK, Owed, DueUntilAsked, ReadSoFar, AsksMirrored, env
  <1>6. CASE PollKept \/ CountersEvent
    <2>1. PollDirect \/ UNCHANGED vars
      BY <1>6 DEF PollKept, CountersEvent, NothingCounted, FirstBaseline, Overflow, Gap,
                  FullSnapshot, Ends
    <2>2. mirrored' = mirrored
      BY <1>6 DEF PollKept, CountersEvent, NothingCounted, FirstBaseline, Overflow, Gap,
                  FullSnapshot, Ends
    <2> QED BY <1>1, <1>3, <2>1, <2>2 DEF Next, Poll, PollDirect, Idle
  <1> QED BY <1>2, <1>4, <1>5, <1>6 DEF ReadingNext, ReadingPoll

(* It holds throughout. *)
LEMMA MirroredInductive == ReadingSpec => []MInv
  <1>1. ReadingInit => MInv
    BY LenType, ExporterAssumption
       DEF ReadingInit, Init, MInv, AsksMirrored, IInv, TypeOK, Owed, DueUntilAsked, ReadSoFar, Idle
  <1> QED BY <1>1, MInvStep, PTL DEF ReadingSpec

(* The brand of a printer does not change. *)
LEMMA MirroredStep ==
    ASSUME mirrored \in BOOLEAN, [ReadingNext]_readingVars PROVE mirrored' \in BOOLEAN
  BY DEF ReadingNext, ReadingPoll, MirroredWorld, MirroredTick, MirroredPoll, DirectPoll, PrintPage,
         Restart, PollKept, EnhancedTotal, EnhancedRaises, LegacyTotal, LegacyRetry, ReadsTotal,
         ReadPaper, CountersEvent, NothingCounted, FirstBaseline, Overflow, Gap, FullSnapshot, Ends,
         readingVars, reading

-----------------------------------------------------------------------------
(* The theorems. *)

(* Every variable keeps its type. *)
THEOREM ReadingTypes == ReadingSpec => []ReadingTypeOK
  <1> DEFINE Kind == mirrored \in BOOLEAN
  <1>1. ReadingInit => Kind
    BY DEF ReadingInit
  <1>2. Kind /\ [ReadingNext]_readingVars => Kind'
    BY MirroredStep
  <1>3. MInv /\ RInv /\ Kind => ReadingTypeOK
    BY DEF ReadingTypeOK, MInv, IInv, RInv, Types, DeviceType, PrevType, ReadType, HistoryType
  <1> QED BY <1>1, <1>2, <1>3, MirroredInductive, ReadingInductive, PTL DEF ReadingSpec

(* Whatever counter a poll could not read, no difference of two counters is recorded. *)
THEOREM NoForeignPagesHolds == ReadingSpec => []NoForeignPages
  <1>1. RInv => NoForeignPages
    <2> SUFFICES ASSUME RInv, trust # "none" PROVE recorded <= Sum(dev)
      BY DEF NoForeignPages
    <2>1. base \in [Sizes -> Nat] /\ dev \in [Sizes -> Nat] /\ recorded \in Nat
          /\ \A s \in Sizes : base[s] <= dev[s]
      BY DEF RInv, Types, HistoryType, DeviceType, Counts, InOrder
    <2>2. recorded <= Sum(base) /\ Sum(base) <= Sum(dev) /\ Sum(base) \in Nat /\ Sum(dev) \in Nat
      BY <2>1, SumOrder, SumType DEF RInv, Counts, OneCounter
    <2> QED BY <2>1, <2>2
  <1> QED BY <1>1, ReadingInductive, PTL

(* No page is given to a size twice. *)
THEOREM NoSizeInventedHolds == ReadingSpec => []NoSizeInvented
  <1>1. RInv => NoSizeInvented
    <2> SUFFICES ASSUME RInv, NEW s \in Sizes PROVE attributed[s] <= dev[s]
      BY DEF NoSizeInvented
    <2>1. attributed[s] \in Nat /\ dev[s] \in Nat
          /\ attributed[s] <= IF prev.papers[s] = None THEN 0 ELSE prev.papers[s]
      BY DEF RInv, Types, HistoryType, DeviceType, Counts, GivenOnce
    <2>2. prev.papers[s] # None => prev.papers[s] \in Nat /\ prev.papers[s] <= dev[s]
      BY DEF RInv, Types, PrevType, CounterType, Counts, InOrder
    <2> QED BY <2>1, <2>2
  <1> QED BY <1>1, ReadingInductive, PTL
(* Among printers of both kinds, no request is sent in a backoff. *)
THEOREM ReadingBackoff == ReadingSpec => BackoffRespected
  <1>1. MInv /\ poll.pc = "query" /\ fails[Asked] > 0 => quiet[Asked] >= DelayFor(fails[Asked])
    BY AskedLate DEF MInv
  <1>2. vars' = vars => poll' = poll
    BY DEF vars
  <1> QED BY <1>1, <1>2, MirroredInductive, PTL DEF BackoffRespected, ReadingSpec

(* Among printers of both kinds, what the exporter's route hands over is whole. *)
THEOREM ReadingWhole == ReadingSpec => WholeSnapshot
  <1>1. MInv /\ [ReadingNext]_readingVars =>
            (poll.pc = "query" /\ poll'.pc = "idle" => route' = "exporter" /\ got' = Modules)
    <2> SUFFICES ASSUME MInv, [ReadingNext]_readingVars, poll.pc = "query", poll'.pc = "idle"
                 PROVE  route' = "exporter" /\ got' = Modules
      OBVIOUS
    <2>1. mirrored /\ poll' # poll /\ poll.pc # "direct"
      BY DEF MInv, AsksMirrored
    <2>2. [Next]_vars
      BY <2>1 DEF ReadingNext, ReadingPoll, MirroredWorld, MirroredTick, MirroredPoll, DirectPoll,
         PrintPage, Restart, PollKept, EnhancedTotal, EnhancedRaises, LegacyTotal, LegacyRetry,
         Reading, ReadsTotal, ReadPaper, CountersEvent, NothingCounted, FirstBaseline, Overflow,
         Gap, FullSnapshot, Counting, Event, readingVars, Next
    <2> QED BY <2>2, WholeStep DEF MInv
  <1> QED BY <1>1, MirroredInductive, PTL DEF WholeSnapshot, ReadingSpec
-----------------------------------------------------------------------------
(* The split of an undisturbed row. *)

\* What the row has too much is what its one lagging counter is behind.
Behind(s) == base[s] - prev.papers[s]

(* In an undisturbed row a counter moves by the pages since the baseline and by what it was behind. *)
LEMMA QuietMoves ==
    ASSUME RInv, trust = "all", Attributable, Total # None, prev.total # None,
           Total > prev.total
    PROVE  /\ \A s \in Sizes :
                 /\ Moved(s) \in Nat /\ Behind(s) \in Nat /\ read.at[s] \in Nat /\ base[s] \in Nat
                 /\ Moved(s) = read.at[s] - base[s] + Behind(s) /\ base[s] <= read.at[s]
                 /\ s \notin prev.lagged => Behind(s) = 0
           /\ Surplus = Behind("large") + Behind("small")
  <1> USE DEF RInv, Types, Counts
  <1>1. \A s \in Sizes :
            /\ read.papers[s] # None /\ prev.papers[s] # None
            /\ read.at[s] \in Nat /\ base[s] \in Nat /\ prev.papers[s] \in Nat
            /\ read.papers[s] = read.at[s] /\ prev.papers[s] <= base[s]
            /\ s \notin prev.lagged => prev.papers[s] = base[s]
            /\ base[s] <= read.at[s]
    BY DEF Attributable, OneMoment, InOrder, ReadType, HistoryType, PrevType, CounterType, Total
  <1>2. Total = Sum(read.at) /\ prev.total = Sum(base)
    <2>1. Total \in Nat /\ prev.total \in Nat
      BY TotalType DEF PrevType, CounterType
    <2> QED BY <2>1, TotalType DEF OneCounter
  <1>3. \A s \in Sizes :
            /\ Moved(s) \in Nat /\ Behind(s) \in Nat
            /\ Moved(s) = read.at[s] - base[s] + Behind(s)
            /\ s \notin prev.lagged => Behind(s) = 0
    BY <1>1 DEF Moved, Behind
  <1>4. Surplus = Behind("large") + Behind("small")
    <2>1. "large" \in Sizes /\ "small" \in Sizes
      BY DEF Sizes
    <2>2. Surplus = Moved("large") + Moved("small")
                    - ((read.at["large"] + read.at["small"]) - (base["large"] + base["small"]))
      BY <1>2 DEF Surplus, Total, Sum
    <2> QED BY <1>1, <1>3, <2>1, <2>2
  <1> HIDE DEF RInv
  <1> QED BY <1>1, <1>3, <1>4

(* The surplus is what the one lagging counter was behind, and comes off its move. *)
LEMMA QuietRow ==
    ASSUME RInv, trust = "all", prev.lagged # Sizes, Attributable, Total # None,
           prev.total # None, Total > prev.total, NEW s \in Sizes
    PROVE  Split[s] = read.at[s] - base[s]
  <1>1. Split[s] = IF Surplus > 0 /\ s = Absorber
                   THEN IF Moved(s) > Surplus THEN Moved(s) - Surplus ELSE 0
                   ELSE Moved(s)
    BY DEF Split
  <1>2. prev.lagged \in SUBSET Sizes
    BY DEF RInv, Types, PrevType
  <1>3. CASE prev.lagged = {}
    <2>1. Behind("large") = 0 /\ Behind("small") = 0 /\ Behind(s) = 0
      BY <1>3, QuietMoves DEF Sizes
    <2> QED BY <1>1, <2>1, QuietMoves
  <1>4. ASSUME NEW z \in Sizes, prev.lagged = {z} PROVE Split[s] = read.at[s] - base[s]
    <2>1. Cardinality(prev.lagged) = 1
      BY <1>4, FS_Singleton
    <2>2. Absorber = z
      BY <1>4, <2>1 DEF Absorber
    <2>3. Surplus = Behind(z) /\ (s # z => Behind(s) = 0)
      BY <1>4, QuietMoves DEF Sizes
    <2> QED BY <1>1, <2>2, <2>3, QuietMoves
  <1>5. prev.lagged = {} \/ \E z \in Sizes : prev.lagged = {z}
    BY <1>2 DEF Sizes
  <1> QED BY <1>3, <1>4, <1>5

(* The split of a row is the truth about its pages, for every tolerance, whatever paper
   counter the polls before could not read, while one at a time lags and nothing disturbs. *)
THEOREM QuietSplitIsExactHolds == ReadingSpec => QuietSplitIsExact
  <1>1. ASSUME RInv, [ReadingNext]_readingVars, trust = "all", prev.lagged # Sizes,
               attributed' # attributed, NEW s \in Sizes
        PROVE  RowSplit(s) = read.at[s] - base[s]
    <2>1. Record /\ Total # None /\ prev.total # None /\ Total > prev.total
      <3>1. Gap \/ (FullSnapshot /\ Delta > 0)
        BY <1>1 DEF ReadingNext, ReadingPoll, MirroredWorld, MirroredTick, MirroredPoll, DirectPoll,
           PrintPage, Restart, PollKept, EnhancedTotal, EnhancedRaises, LegacyTotal, LegacyRetry,
           ReadsTotal, ReadPaper, CountersEvent, NothingCounted, FirstBaseline, Overflow,
           NothingRecorded, FullSnapshot, readingVars, reading, history
      <3>2. Record /\ Total # None /\ prev.total # None
        BY <3>1 DEF Gap, FullSnapshot, Counting
      <3>3. Total \in Nat /\ prev.total \in Nat
        BY <1>1, <3>2, TotalType DEF RInv, Types, PrevType, CounterType
      <3>4. Delta > 0
        BY <3>1, <3>3, NoneType DEF Gap, Delta
      <3> QED BY <3>2, <3>3, <3>4 DEF Delta
    <2>2. attributed \in [Sizes -> Nat] /\ attributed'[s] = attributed[s] + Split[s]
      BY <1>1, <2>1 DEF Record, RInv, Types, HistoryType
    <2>3. Attributable
      <3> SUFFICES ASSUME ~Attributable PROVE FALSE
        OBVIOUS
      <3>1. \A z \in Sizes : Split[z] = 0
        BY DEF Split, NoSplit
      <3>2. attributed' = [z \in Sizes |-> attributed[z]]
        BY <2>1, <2>2, <3>1 DEF Record
      <3> QED BY <1>1, <2>2, <3>2
    <2>4. Split[s] = read.at[s] - base[s] /\ Split[s] \in Int
      BY <1>1, <2>1, <2>3, QuietRow DEF RInv, Types, HistoryType, ReadType
    <2> QED BY <1>1, <2>2, <2>4 DEF RowSplit
  <1>2. RInv /\ [ReadingNext]_readingVars =>
            (trust = "all" /\ prev.lagged # Sizes /\ attributed' # attributed
               => \A s \in Sizes : RowSplit(s) = read.at[s] - base[s])
    BY <1>1
  <1> QED BY <1>2, ReadingInductive, PTL DEF QuietSplitIsExact, ReadingSpec
=============================================================================
