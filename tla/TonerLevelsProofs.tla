--------------------------- MODULE TonerLevelsProofs ---------------------------
(***************************************************************************)
(* Proofs about TonerLevels, for every value of the constants and any      *)
(* number of faults, interventions and pages. First what each branch of    *)
(* the yield engine may do to a row (Effect), then what each step of the   *)
(* program does to everything else (one lemma of facts for each), and from *)
(* these facts alone four invariants: HeldInv, OrderedInv, FallingInv and  *)
(* TracksInv, for the five properties that run Yield checks.               *)
(***************************************************************************)
EXTENDS TonerLevels, TLAPS

\* What a poll tells the engine, or a technician.
Given(r) == r.key \in OrNone(Keys) /\ r.level \in OrNone(Levels) /\ r.ctr \in Nat
\* The parts of a row that are known together.
Linked(e) ==
    /\ e.last = None <=> e.anc = None
    /\ e.anc # None => e.ancCtr # None
    /\ e.cyc # None => e.cycCtr # None
    /\ e.pend # None => e.anc # None /\ e.pendCtr # None
\* A row as the engine leaves it.
Good(e) == e \in RowTypes /\ Linked(e)

(* The constants. *)
LEMMA Constants ==
    /\ MaxLevel \in Nat /\ MaxLevel > 0 /\ None \notin Int /\ None \notin Nat /\ None \notin Levels
    /\ 0 \in Levels /\ MaxLevel \in Levels /\ Levels \subseteq Nat
    /\ Rated \in Nat \ {0} /\ RefillJump \in Nat /\ Bounce \in Nat /\ NoiseDrop \in Nat
    /\ NoisePages \in Nat /\ MinPages \in Nat /\ MinPages > 0 /\ QuantPages \in Nat
    /\ MinPartial \in Nat /\ MinPartial > 0 /\ MinZero \in Nat /\ FreezePages \in Nat
    /\ OverrunPages \in Nat /\ MinYield \in Nat /\ MinYield > 0 /\ MaxYield \in Nat
    /\ BandLow \in Nat /\ BandHigh \in Nat /\ EmptyPages \in Nat /\ ManualPages \in Nat
    /\ DirtyDrop \in Nat /\ Bounce < RefillJump /\ None \notin Keys
  BY UnitsAssumption, YieldAssumption DEF Levels

(* The larger of two numbers. *)
LEMMA MaxOfTwo ==
    ASSUME NEW a \in Int, NEW b \in Int PROVE Max({a, b}) = IF a >= b THEN a ELSE b
  <1>1. \E x \in {a, b} : \A y \in {a, b} : x >= y
    OBVIOUS
  <1> QED BY <1>1 DEF Max

(* The smaller of two numbers. *)
LEMMA MinOfTwo ==
    ASSUME NEW a \in Int, NEW b \in Int PROVE Min({a, b}) = IF a =< b THEN a ELSE b
  <1>1. \E x \in {a, b} : \A y \in {a, b} : x =< y
    OBVIOUS
  <1> QED BY <1>1 DEF Min

(* A rounded quotient is a number. *)
LEMMA RoundedType ==
    ASSUME NEW a \in Nat, NEW b \in Nat \ {0} PROVE Rounded(a, b) \in Nat
  BY DEF Rounded

(* So is a product. *)
LEMMA ProductType == ASSUME NEW a \in Nat, NEW b \in Nat PROVE a * b \in Nat
  OBVIOUS


(* What is cut off at both ends is a level. *)
LEMMA BetweenLevels ==
    ASSUME NEW x \in Int PROVE Between(0, x, MaxLevel) \in Levels
  <1> DEFINE m == Min({x, MaxLevel})
  <1>1. m \in Int /\ m <= MaxLevel
    BY Constants, MinOfTwo
  <1>2. Between(0, x, MaxLevel) = Max({0, m})
    BY DEF Between
  <1> HIDE DEF m
  <1> QED BY <1>1, <1>2, Constants, MaxOfTwo DEF Levels

(* Pages beyond the estimated end are a number. *)
LEMMA OverrunType ==
    ASSUME NEW e \in RowTypes, NEW lvl \in Levels, NEW pages \in Int
    PROVE  Overrun(e, lvl, pages) \in Nat
  <1>1. Max({lvl, 1}) \in Nat
    BY Constants, MaxOfTwo
  <1>2. e.cap * Max({lvl, 1}) \in Nat
    BY <1>1, ProductType DEF RowTypes
  <1>3. Rounded(e.cap * Max({lvl, 1}), MaxLevel) \in Nat
    BY <1>2, Constants, RoundedType
  <1> DEFINE beyond == pages - Rounded(e.cap * Max({lvl, 1}), MaxLevel)
  <1>4. beyond \in Int
    BY <1>3
  <1>5. Overrun(e, lvl, pages) = Max({0, beyond})
    BY DEF Overrun
  <1> HIDE DEF beyond
  <1> QED BY <1>4, <1>5, MaxOfTwo

(* So is the estimate of a capacity. *)
LEMMA EstimateType ==
    ASSUME NEW pages \in Nat, NEW drop \in Nat \ {0} PROVE Estimate(pages, drop) \in Nat
  BY Constants, ProductType, RoundedType DEF Estimate

\* The row is compared with this poll from now on.
Anchors(r) == r.level # None /\ row'.anc = r.level /\ row'.ancCtr = r.ctr /\ row'.last = r.level
\* The row is compared with what it was compared with before.
Keeps(e) == row'.anc = e.anc /\ row'.ancCtr = e.ancCtr

\* The chip is called frozen.
Found(e) == e.status \in {"frozen_chip", "overrun_alert"}

\* The sample of a poll is the difference to the anchor, which moves to the poll.
PollSample(e, r) ==
    /\ ~r.quarantined /\ r.level # None /\ r.ctr >= e.lastCtr /\ e.anc # None
    /\ sample' \in [kind : {"poll"}, from : Nat, to : Nat, drop : 1..MaxLevel]
    /\ sample'.from = e.ancCtr /\ sample'.to = r.ctr /\ sample'.drop = e.anc - r.level
    /\ r.ctr - e.ancCtr >= MinPages /\ Anchors(r) /\ row'.cycCtr = e.cycCtr
\* The sample of a cycle ends where the refill was first seen, and the next one starts here.
CycleSample(e, r) ==
    /\ ~r.quarantined /\ r.ctr >= e.lastCtr /\ e.pend # None /\ e.cycCtr # None
    /\ sample' \in [kind : {"cycle"}, from : Nat, to : Nat, drop : 1..MaxLevel]
    /\ sample'.from = e.cycCtr /\ sample'.to = e.pendCtr /\ row'.cycCtr = r.ctr
    /\ Anchors(r)

\* What a branch of the engine may do to a row e, given the poll r.
Moves(e, r) ==
    /\ Good(row')
    /\ row'.lastCtr \in {e.lastCtr, r.ctr}
    /\ Keeps(e) \/ Anchors(r)
    /\ row'.cycCtr \in {e.cycCtr, r.ctr}
    /\ row'.pend # None => \/ e.pend # None /\ row'.pendCtr = e.pendCtr
                           \/ row'.pendCtr = r.ctr /\ row'.lastCtr = r.ctr
\* A sample is one of the two kinds.
SamplesOf(e, r) == sample' = sample \/ PollSample(e, r) \/ CycleSample(e, r)
\* A chip is called frozen only FreezePages after an anchor that was not above its level.
Freezes(e, r) ==
    Found(row') /\ ~Found(e) =>
       \/ r.quarantined
       \/ r.level # None /\ e.anc # None /\ e.anc <= r.level /\ r.ctr - e.ancCtr >= FreezePages
\* A quarantined chip and a missing level leave the anchor; a counter that fell moves it.
Reads(e, r) ==
    /\ r.quarantined => Keeps(e) /\ sample' = sample /\ row'.cur = r.shown /\ row'.lastCtr = r.ctr
                         /\ row'.last = e.last /\ row'.pend = e.pend
    /\ ~r.quarantined /\ r.level = None => row' = e /\ sample' = sample
    /\ ~r.quarantined /\ r.level # None /\ r.ctr < e.lastCtr => Anchors(r)
\* A jump is pending or the anchor; its confirmation moves the anchor.
Shows(e, r) ==
    ~r.quarantined /\ r.level # None /\ r.ctr >= e.lastCtr =>
       /\ e.last # None /\ r.level - e.last >= RefillJump => row'.pend # None \/ row'.anc = row'.last
       /\ e.pend # None /\ r.level - e.anc >= RefillJump /\ e.last - r.level \in 0..NoiseDrop
             => Anchors(r)
\* What a branch of the engine may do to a row e, given the poll r.
Effect(e, r) == Moves(e, r) /\ SamplesOf(e, r) /\ Freezes(e, r) /\ Reads(e, r) /\ Shows(e, r)

-----------------------------------------------------------------------------
(* The pieces of a row: each keeps the type of the row and all fields but those it names. *)
LEMMA SeenFacts ==
    ASSUME NEW e \in RowTypes, NEW r, Given(r)
    PROVE  LET s == Seen(e, r)
           IN  /\ s \in RowTypes /\ s.cur = r.level /\ s.last = r.level /\ s.lastCtr = r.ctr
               /\ s.anc = e.anc /\ s.ancCtr = e.ancCtr /\ s.cyc = e.cyc /\ s.cycCtr = e.cycCtr
               /\ s.pend = e.pend /\ s.pendCtr = e.pendCtr /\ s.status = e.status /\ s.key = e.key
  <1>1. Seen(e, r) \in RowTypes
    BY DEF Seen, Given, RowTypes
  <1>2. LET s == Seen(e, r) IN s.cur = r.level /\ s.last = r.level /\ s.lastCtr = r.ctr
    BY DEF Seen, RowTypes
  <1>3. LET s == Seen(e, r)
        IN  /\ s.anc = e.anc /\ s.ancCtr = e.ancCtr /\ s.cyc = e.cyc /\ s.cycCtr = e.cycCtr
            /\ s.pend = e.pend /\ s.pendCtr = e.pendCtr /\ s.status = e.status /\ s.key = e.key
    BY DEF Seen, RowTypes
  <1> QED BY <1>1, <1>2, <1>3

(* What Anchored changes. *)
LEMMA AnchoredFacts ==
    ASSUME NEW e \in RowTypes, NEW r, Given(r)
    PROVE  LET a == Anchored(e, r)
           IN  /\ a \in RowTypes /\ a.cur = r.level /\ a.last = r.level /\ a.lastCtr = r.ctr
               /\ a.anc = r.level /\ a.ancCtr = r.ctr /\ a.cyc = e.cyc /\ a.cycCtr = e.cycCtr
               /\ a.pend = e.pend /\ a.pendCtr = e.pendCtr /\ a.status = e.status /\ a.key = e.key
  <1> DEFINE s == Seen(e, r)
  <1>1. /\ s \in RowTypes /\ s.cur = r.level /\ s.last = r.level /\ s.lastCtr = r.ctr
        /\ s.cyc = e.cyc /\ s.cycCtr = e.cycCtr
        /\ s.pend = e.pend /\ s.pendCtr = e.pendCtr /\ s.status = e.status /\ s.key = e.key
    BY SeenFacts
  <1>2. Anchored(e, r) = [s EXCEPT !.anc = r.level, !.ancCtr = r.ctr]
    BY DEF Anchored
  <1> HIDE DEF s
  <1>3. Anchored(e, r) \in RowTypes
    <2>1. r.level \in OrNone(Levels) /\ r.ctr \in OrNone(Nat)
      BY DEF Given, OrNone
    <2> QED BY <1>1, <1>2, <2>1 DEF RowTypes
  <1>4. LET a == Anchored(e, r)
        IN  /\ a.cur = s.cur /\ a.last = s.last /\ a.lastCtr = s.lastCtr
            /\ a.anc = r.level /\ a.ancCtr = r.ctr /\ a.cyc = s.cyc /\ a.cycCtr = s.cycCtr
    BY <1>1, <1>2 DEF RowTypes
  <1>5. LET a == Anchored(e, r)
        IN  /\ a.pend = s.pend /\ a.pendCtr = s.pendCtr /\ a.status = s.status /\ a.key = s.key
    BY <1>1, <1>2 DEF RowTypes
  <1> QED BY <1>1, <1>3, <1>4, <1>5

(* What Restarted leaves. *)
LEMMA RestartedFacts ==
    ASSUME NEW e \in RowTypes
    PROVE  LET s == Restarted(e)
           IN  /\ s \in RowTypes /\ s.pend = None /\ s.status = "active" /\ s.key = e.key
  <1> DEFINE p == NoPending(e)
  <1> DEFINE s == Restarted(e)
  <1>1. None \in OrNone(Levels) /\ None \in OrNone(Nat) /\ 0 \in Nat
    BY DEF OrNone
  <1>2. p = [e EXCEPT !.pend = None, !.pendCtr = None]
    BY DEF NoPending
  <1>3. s = [p EXCEPT !.zero = None, !.after = 0, !.status = "active"]
    BY DEF Restarted
  <1> HIDE DEF p, s
  <1>4. p \in RowTypes
    BY <1>1, <1>2 DEF RowTypes
  <1>5. p.pend = None /\ p.key = e.key
    BY <1>2 DEF RowTypes
  <1>6. s \in RowTypes
    BY <1>1, <1>3, <1>4 DEF RowTypes
  <1>7. s.pend = p.pend /\ s.key = p.key /\ s.status = "active"
    BY <1>3, <1>4 DEF RowTypes
  <1>8. s.pend = None /\ s.status = "active" /\ s.key = e.key
    BY <1>5, <1>7
  <1> QED BY <1>6, <1>8 DEF s

(* What CycleStart changes. *)
LEMMA CycleStartFacts ==
    ASSUME NEW e \in RowTypes, NEW r, Given(r)
    PROVE  LET c == CycleStart(e, r)
           IN  /\ c \in RowTypes /\ c.cyc = r.level /\ c.cycCtr = r.ctr
               /\ c.cur = e.cur /\ c.anc = e.anc /\ c.ancCtr = e.ancCtr /\ c.last = e.last
               /\ c.lastCtr = e.lastCtr /\ c.pend = e.pend /\ c.pendCtr = e.pendCtr
               /\ c.status = e.status /\ c.key = e.key
  <1>1. CycleStart(e, r) \in RowTypes
    BY DEF CycleStart, Given, RowTypes, OrNone
  <1>2. LET c == CycleStart(e, r)
        IN  /\ c.cyc = r.level /\ c.cycCtr = r.ctr /\ c.cur = e.cur /\ c.anc = e.anc
            /\ c.ancCtr = e.ancCtr /\ c.last = e.last
    BY DEF CycleStart, RowTypes
  <1>3. LET c == CycleStart(e, r)
        IN  /\ c.lastCtr = e.lastCtr /\ c.pend = e.pend /\ c.pendCtr = e.pendCtr
            /\ c.status = e.status /\ c.key = e.key
    BY DEF CycleStart, RowTypes
  <1> QED BY <1>1, <1>2, <1>3

-----------------------------------------------------------------------------
(* The branches of process_cartridge_snapshot. *)
LEMMA MissingLevelEffect ==
    ASSUME NEW e, Good(e), NEW r, Given(r), ~r.quarantined, MissingLevel(e, r)
    PROVE  Effect(e, r)
  <1>1. Moves(e, r)
    BY Constants DEF Moves, Good, Linked, RowTypes, Given, Becomes, OrNone, Anchors, Keeps, Readable,
       MissingLevel
  <1>2. SamplesOf(e, r)
    BY DEF SamplesOf, Becomes, MissingLevel
  <1>3. Freezes(e, r)
    BY Constants DEF Freezes, Found, Becomes, Good, RowTypes, Given, OrNone, MissingLevel
  <1>4. Reads(e, r)
    BY Constants DEF Reads, Becomes, Good, Linked, RowTypes, Given, OrNone, Anchors, Keeps, Readable,
       MissingLevel
  <1>5. Shows(e, r)
    BY Constants DEF Shows, Becomes, Good, Linked, RowTypes, Given, OrNone, Anchors, Readable,
       MissingLevel
  <1> QED BY <1>1, <1>2, <1>3, <1>4, <1>5 DEF Effect

(* A counter that fell. *)
LEMMA CounterDecreasedEffect ==
    ASSUME NEW e, Good(e), NEW r, Given(r), ~r.quarantined, CounterDecreased(e, r)
    PROVE  Effect(e, r)
  <1>1. Moves(e, r)
    BY Constants DEF Moves, Good, Linked, RowTypes, Given, Becomes, OrNone, Anchors, Keeps, Readable,
       CounterDecreased, NoPending, Anchored, Seen
  <1>2. SamplesOf(e, r)
    BY DEF SamplesOf, Becomes, CounterDecreased, NoPending, Anchored, Seen
  <1>3. Freezes(e, r)
    BY Constants DEF Freezes, Found, Becomes, Good, RowTypes, Given, OrNone, CounterDecreased,
       NoPending, Anchored, Seen
  <1>4. Reads(e, r)
    BY Constants DEF Reads, Becomes, Good, Linked, RowTypes, Given, OrNone, Anchors, Keeps, Readable,
       CounterDecreased, NoPending, Anchored, Seen
  <1>5. Shows(e, r)
    BY Constants DEF Shows, Becomes, Good, Linked, RowTypes, Given, OrNone, Anchors, Readable,
       CounterDecreased, NoPending, Anchored, Seen
  <1> QED BY <1>1, <1>2, <1>3, <1>4, <1>5 DEF Effect

(* A drop too deep for its pages. *)
LEMMA NoiseEffect ==
    ASSUME NEW e, Good(e), NEW r, Given(r), ~r.quarantined, Noise(e, r)
    PROVE  Effect(e, r)
  <1>1. Moves(e, r)
    BY Constants DEF Moves, Good, Linked, RowTypes, Given, Becomes, OrNone, Anchors, Keeps, Readable,
       Noise, IsNoise, IsJump
  <1>2. SamplesOf(e, r)
    BY DEF SamplesOf, Becomes, Noise, IsNoise, IsJump
  <1>3. Freezes(e, r)
    BY Constants DEF Freezes, Found, Becomes, Good, RowTypes, Given, OrNone, Noise, IsNoise, IsJump
  <1>4. Reads(e, r)
    BY Constants DEF Reads, Becomes, Good, Linked, RowTypes, Given, OrNone, Anchors, Keeps, Readable,
       Noise, IsNoise, IsJump
  <1>5. Shows(e, r)
    BY Constants DEF Shows, Becomes, Good, Linked, RowTypes, Given, OrNone, Anchors, Readable, Noise,
       IsNoise, IsJump
  <1> QED BY <1>1, <1>2, <1>3, <1>4, <1>5 DEF Effect

(* A jump seen once. *)
LEMMA RefillCandidateEffect ==
    ASSUME NEW e, Good(e), NEW r, Given(r), ~r.quarantined, RefillCandidate(e, r)
    PROVE  Effect(e, r)
  <1>1. Moves(e, r)
    BY Constants DEF Moves, Good, Linked, RowTypes, Given, Becomes, OrNone, Anchors, Keeps, Readable,
       RefillCandidate, IsJump, Seen, Confirms
  <1>2. SamplesOf(e, r)
    BY DEF SamplesOf, Becomes, RefillCandidate, IsJump, Seen, Confirms
  <1>3. Freezes(e, r)
    BY Constants DEF Freezes, Found, Becomes, Good, RowTypes, Given, OrNone, RefillCandidate, IsJump,
       Seen, Confirms
  <1>4. Reads(e, r)
    BY Constants DEF Reads, Becomes, Good, Linked, RowTypes, Given, OrNone, Anchors, Keeps, Readable,
       RefillCandidate, IsJump, Seen, Confirms
  <1>5. Shows(e, r)
    BY Constants DEF Shows, Becomes, Good, Linked, RowTypes, Given, OrNone, Anchors, Readable,
       RefillCandidate, IsJump, Seen, Confirms
  <1> QED BY <1>1, <1>2, <1>3, <1>4, <1>5 DEF Effect

(* A rise that is no refill. *)
LEMMA SmallBounceEffect ==
    ASSUME NEW e, Good(e), NEW r, Given(r), ~r.quarantined, SmallBounce(e, r)
    PROVE  Effect(e, r)
  <1>1. Moves(e, r)
    BY Constants DEF Moves, Good, Linked, RowTypes, Given, Becomes, OrNone, Anchors, Keeps, Readable,
       SmallBounce, IsBounce, Seen
  <1>2. SamplesOf(e, r)
    BY DEF SamplesOf, Becomes, SmallBounce, IsBounce, Seen
  <1>3. Freezes(e, r)
    BY Constants DEF Freezes, Found, Becomes, Good, RowTypes, Given, OrNone, SmallBounce, IsBounce, Seen
  <1>4. Reads(e, r)
    BY Constants DEF Reads, Becomes, Good, Linked, RowTypes, Given, OrNone, Anchors, Keeps, Readable,
       SmallBounce, IsBounce, Seen
  <1>5. Shows(e, r)
    BY Constants DEF Shows, Becomes, Good, Linked, RowTypes, Given, OrNone, Anchors, Readable,
       SmallBounce, IsBounce, Seen
  <1> QED BY <1>1, <1>2, <1>3, <1>4, <1>5 DEF Effect

(* What a plateau at zero changes in a row. *)
LEMMA AtZeroFacts ==
    ASSUME NEW e, Good(e), NEW r, Given(r), r.level # None
    PROVE  /\ Good(AtZero(e, r))
           /\ LET z == AtZero(e, r)
              IN  /\ z.anc = e.anc /\ z.ancCtr = e.ancCtr /\ z.lastCtr = e.lastCtr /\ z.last = e.last
                  /\ z.cyc = e.cyc /\ z.cycCtr = e.cycCtr /\ z.pend = e.pend /\ z.pendCtr = e.pendCtr
                  /\ z.cap = e.cap /\ (Found(z) => Found(e))
  <1>1. CASE r.level # 0
    BY <1>1 DEF AtZero
  <1>2. CASE r.level = 0
    <2>1. First(e.zero, r.ctr) \in Nat
      BY DEF Given, Good, RowTypes, OrNone, First
    <2>2. (IF e.zero = None THEN 0 ELSE Max({0, r.ctr - e.zero})) \in Nat
      BY MaxOfTwo DEF Given, Good, RowTypes, OrNone
    <2>3. \A z \in Nat, a \in Nat : Good([e EXCEPT !.status = "zero_plateau", !.zero = z, !.after = a])
      <3>1. TAKE z \in Nat, a \in Nat
      <3> DEFINE f == [e EXCEPT !.status = "zero_plateau", !.zero = z, !.after = a]
      <3>2. f \in RowTypes
        BY DEF Good, RowTypes, OrNone
      <3>3. /\ f.last = e.last /\ f.anc = e.anc /\ f.ancCtr = e.ancCtr /\ f.cyc = e.cyc
            /\ f.cycCtr = e.cycCtr /\ f.pend = e.pend /\ f.pendCtr = e.pendCtr
        BY DEF Good, RowTypes
      <3> QED BY <3>2, <3>3 DEF Good, Linked
    <2>4. \A z \in Nat, a \in Nat :
             LET f == [e EXCEPT !.status = "zero_plateau", !.zero = z, !.after = a]
             IN  /\ f.anc = e.anc /\ f.ancCtr = e.ancCtr /\ f.lastCtr = e.lastCtr /\ f.last = e.last
                 /\ f.cyc = e.cyc /\ f.cycCtr = e.cycCtr /\ f.pend = e.pend /\ f.pendCtr = e.pendCtr
                 /\ f.cap = e.cap /\ ~Found(f)
      BY DEF Good, RowTypes, Found
    <2> QED BY <1>2, <2>1, <2>2, <2>3, <2>4 DEF AtZero
  <1> QED BY <1>1, <1>2

(* What an overrun changes. *)
LEMMA AlertFacts ==
    ASSUME NEW e, Good(e), NEW over \in Nat, NEW st \in {"chip_quarantined", "frozen_chip"}
    PROVE  LET a == Alert(e, over, st)
           IN  /\ a \in RowTypes
               /\ a.anc = e.anc /\ a.ancCtr = e.ancCtr /\ a.last = e.last /\ a.lastCtr = e.lastCtr
               /\ a.cyc = e.cyc /\ a.cycCtr = e.cycCtr /\ a.pend = e.pend /\ a.pendCtr = e.pendCtr
  BY DEF Alert, Good, RowTypes

(* A chip that is not believed. *)
LEMMA QuarantinedChipEffect ==
    ASSUME NEW e, Good(e), NEW r, Given(r), r.quarantined, r.shown \in Levels, QuarantinedChip(e, r)
    PROVE  Effect(e, r)
  <1> DEFINE pages == IF e.cycCtr = None THEN 0 ELSE Max({0, r.ctr - e.cycCtr})
             over == IF r.shown = 0 THEN Overrun(e, CycleFrom(e), pages) ELSE 0
             a == Alert(e, over, "chip_quarantined")
  <1>1. pages \in Int
    BY MaxOfTwo DEF Good, RowTypes, Given, OrNone
  <1>2. CycleFrom(e) \in Levels
    BY Constants DEF CycleFrom, First, Good, RowTypes, OrNone
  <1>3. over \in Nat
    BY <1>1, <1>2, OverrunType DEF Good
  <1>4. /\ row' = [a EXCEPT !.cur = r.shown, !.lastCtr = r.ctr]
        /\ sample' = sample
    BY DEF QuarantinedChip, Becomes
  <1> HIDE DEF a
  <1>5. /\ a \in RowTypes
        /\ a.anc = e.anc /\ a.ancCtr = e.ancCtr /\ a.last = e.last /\ a.lastCtr = e.lastCtr
        /\ a.cyc = e.cyc /\ a.cycCtr = e.cycCtr /\ a.pend = e.pend /\ a.pendCtr = e.pendCtr
    BY <1>3, AlertFacts DEF a
  <1>6. /\ row' \in RowTypes
        /\ row'.anc = e.anc /\ row'.ancCtr = e.ancCtr /\ row'.last = e.last /\ row'.lastCtr = r.ctr
        /\ row'.cyc = e.cyc /\ row'.cycCtr = e.cycCtr /\ row'.pend = e.pend
        /\ row'.pendCtr = e.pendCtr /\ row'.cur = r.shown
    BY <1>4, <1>5 DEF RowTypes, Given, OrNone
  <1>7. Good(row')
    BY <1>6 DEF Good, Linked
  <1> QED BY <1>4, <1>6, <1>7 DEF Effect, Moves, SamplesOf, Freezes, Reads, Shows, Keeps

(* A level that is no jump and does not contradict the anchor shows no refill. *)
LEMMA SteadyShows ==
    ASSUME NEW e, Good(e), NEW r, Given(r), Steady(e, r), ~IsStale(e, r)
    PROVE  Shows(e, r)
  BY Constants DEF Shows, Steady, IsJump, IsStale, Good, Linked, RowTypes, Given, OrNone, Readable

(* The first level. *)
LEMMA FirstAnchorEffect ==
    ASSUME NEW e, Good(e), NEW r, Given(r), ~r.quarantined, FirstAnchor(e, r)
    PROVE  Effect(e, r)
  <1> DEFINE z == AtZero(e, r)
  <1>1. r.level # None /\ r.ctr >= e.lastCtr /\ e.anc = None /\ Steady(e, r)
    BY DEF FirstAnchor, Steady, Readable
  <1>2. row' = Anchored(z, r) /\ sample' = sample
    BY DEF FirstAnchor, Becomes
  <1> HIDE DEF z
  <1>3. /\ Good(z) /\ z.lastCtr = e.lastCtr /\ z.cyc = e.cyc /\ z.cycCtr = e.cycCtr
        /\ z.pend = e.pend /\ z.pendCtr = e.pendCtr /\ (Found(z) => Found(e))
    BY <1>1, AtZeroFacts DEF z
  <1>4. /\ row' \in RowTypes
        /\ row'.anc = r.level /\ row'.ancCtr = r.ctr /\ row'.last = r.level /\ row'.lastCtr = r.ctr
        /\ row'.cyc = z.cyc /\ row'.cycCtr = z.cycCtr /\ row'.pend = z.pend
        /\ row'.pendCtr = z.pendCtr /\ row'.status = z.status
    BY <1>2, <1>3, AnchoredFacts DEF Good
  <1>5. Good(row')
    BY <1>1, <1>3, <1>4, Constants DEF Good, Linked, Given
  <1>6. Shows(e, r)
    BY <1>1, SteadyShows DEF IsStale
  <1> QED BY <1>1, <1>2, <1>3, <1>4, <1>5, <1>6
          DEF Effect, Moves, SamplesOf, Freezes, Reads, Anchors, Found, Given, Good, RowTypes

(* A level that did not fall. *)
LEMMA StableLevelEffect ==
    ASSUME NEW e, Good(e), NEW r, Given(r), ~r.quarantined, StableLevel(e, r)
    PROVE  Effect(e, r)
  <1> DEFINE z == AtZero(e, r)
  <1>1. r.level # None /\ r.ctr >= e.lastCtr /\ e.anc # None /\ Steady(e, r) /\ ~IsStale(e, r)
    BY DEF StableLevel, Tracked, Steady, Readable
  <1>2. row' = Seen(z, r) /\ sample' = sample
    BY DEF StableLevel, Becomes
  <1> HIDE DEF z
  <1>3. /\ Good(z) /\ z.lastCtr = e.lastCtr /\ z.cyc = e.cyc /\ z.cycCtr = e.cycCtr
        /\ z.pend = e.pend /\ z.pendCtr = e.pendCtr /\ (Found(z) => Found(e))
        /\ z.anc = e.anc /\ z.ancCtr = e.ancCtr
    BY <1>1, AtZeroFacts DEF z
  <1>4. /\ row' \in RowTypes
        /\ row'.anc = z.anc /\ row'.ancCtr = z.ancCtr /\ row'.last = r.level /\ row'.lastCtr = r.ctr
        /\ row'.cyc = z.cyc /\ row'.cycCtr = z.cycCtr /\ row'.pend = z.pend
        /\ row'.pendCtr = z.pendCtr /\ row'.status = z.status
    BY <1>2, <1>3, SeenFacts DEF Good
  <1>5. Good(row')
    BY <1>1, <1>3, <1>4, Constants DEF Good, Linked, Given
  <1>6. Shows(e, r)
    BY <1>1, SteadyShows
  <1> QED BY <1>1, <1>2, <1>3, <1>4, <1>5, <1>6
          DEF Effect, Moves, SamplesOf, Freezes, Reads, Keeps, Found, Given, Good, RowTypes

(* A chip that is called frozen. *)
LEMMA FrozenChipEffect ==
    ASSUME NEW e, Good(e), NEW r, Given(r), ~r.quarantined, FrozenChip(e, r)
    PROVE  Effect(e, r)
  <1> DEFINE virtual == Between(0, e.anc - Drained(Pages(e, r), e.cap), MaxLevel)
             over == IF virtual = 0 THEN Overrun(e, e.anc, Pages(e, r)) ELSE 0
             s == Seen(e, r)
             a == Alert(s, over, "frozen_chip")
  <1>1. /\ r.level # None /\ r.ctr >= e.lastCtr /\ e.anc # None /\ Steady(e, r) /\ ~IsStale(e, r)
        /\ e.anc - r.level <= 0 /\ r.ctr - e.ancCtr >= FreezePages
    BY DEF FrozenChip, Tracked, Steady, Readable, Drop, Pages
  <1>2. /\ row' = [a EXCEPT !.cur = virtual]
        /\ sample' = sample
    BY DEF FrozenChip, Becomes
  <1>3. e.anc \in Levels /\ Pages(e, r) \in Nat /\ e.cap \in Nat \ {0}
    BY <1>1, Constants DEF Good, Linked, RowTypes, Given, OrNone, Pages
  <1>4. Drained(Pages(e, r), e.cap) \in Nat
    BY <1>3, Constants, ProductType, RoundedType DEF Drained
  <1>5. virtual \in Levels
    <2>4. e.anc - Drained(Pages(e, r), e.cap) \in Int
      BY <1>3, <1>4, Constants DEF Levels
    <2> QED BY <2>4, BetweenLevels
  <1>6. over \in Nat
    BY <1>3, OverrunType DEF Good
  <1> HIDE DEF virtual, over
  <1>7. /\ Good(s)
        /\ s.anc = e.anc /\ s.ancCtr = e.ancCtr /\ s.last = r.level /\ s.lastCtr = r.ctr
        /\ s.cyc = e.cyc /\ s.cycCtr = e.cycCtr /\ s.pend = e.pend /\ s.pendCtr = e.pendCtr
    BY <1>1 DEF Seen, Good, Linked, RowTypes, Given, OrNone
  <1> HIDE DEF s
  <1>8. /\ a \in RowTypes
        /\ a.anc = s.anc /\ a.ancCtr = s.ancCtr /\ a.last = s.last /\ a.lastCtr = s.lastCtr
        /\ a.cyc = s.cyc /\ a.cycCtr = s.cycCtr /\ a.pend = s.pend /\ a.pendCtr = s.pendCtr
    BY <1>6, <1>7, AlertFacts
  <1> HIDE DEF a
  <1>9. /\ row' \in RowTypes
        /\ row'.anc = e.anc /\ row'.ancCtr = e.ancCtr /\ row'.last = r.level /\ row'.lastCtr = r.ctr
        /\ row'.cyc = e.cyc /\ row'.cycCtr = e.cycCtr /\ row'.pend = e.pend
        /\ row'.pendCtr = e.pendCtr
    BY <1>2, <1>5, <1>7, <1>8 DEF RowTypes, OrNone
  <1>10. Good(row')
    BY <1>1, <1>9 DEF Good, Linked
  <1>11. Shows(e, r)
    BY <1>1, SteadyShows
  <1> QED BY <1>1, <1>2, <1>3, <1>9, <1>10, <1>11
          DEF Effect, Moves, SamplesOf, Freezes, Reads, Keeps, Given, Levels, OrNone, Good, RowTypes

(* A sample changes nothing but the capacity. *)
LEMMA LearnFacts ==
    ASSUME NEW e, Good(e), NEW est \in Nat \ {0}, NEW l \in Learn(e, est)
    PROVE  /\ Good(l)
           /\ l.anc = e.anc /\ l.ancCtr = e.ancCtr /\ l.last = e.last /\ l.lastCtr = e.lastCtr
           /\ l.cyc = e.cyc /\ l.cycCtr = e.cycCtr /\ l.pend = e.pend /\ l.pendCtr = e.pendCtr
           /\ l.status = e.status /\ l.key = e.key
  <1>1. PICK c \in {e.cap, est} :
            l = [e EXCEPT !.cap = c, !.learned = @ \/ c # e.cap, !.some = TRUE]
    BY DEF Learn
  <1>2. c \in Nat \ {0}
    BY DEF Good, RowTypes
  <1> DEFINE b == e.learned \/ c # e.cap
  <1>3. b \in BOOLEAN /\ l = [e EXCEPT !.cap = c, !.learned = b, !.some = TRUE]
    BY <1>1 DEF Good, RowTypes
  <1> HIDE DEF b
  <1> QED BY <1>2, <1>3 DEF Good, RowTypes, Linked

\* The sample of a cycle that closes at counter `at`.
CycleSampleOf(e, at) ==
    [kind : {"cycle"}, from : {e.cycCtr}, to : {at}, drop : 1..MaxLevel]

(* A cycle that closes has consumed something. *)
LEMMA CycleDropType ==
    ASSUME NEW e, Good(e), NEW at \in Nat, NEW end \in Levels, Closes(e, at, end)
    PROVE  CycleDrop(e, end) \in 1..MaxLevel /\ e.cycCtr \in Nat /\ at - e.cycCtr \in Nat
  BY Constants DEF Closes, CycleDrop, Early, CycleFrom, First, Good, RowTypes, OrNone, Levels

(* Closing a cycle. *)
LEMMA CloseCycleFacts ==
    ASSUME NEW e, Good(e), NEW at \in Nat, NEW end \in Levels, NEW o \in CloseCycle(e, at, end)
    PROVE  /\ Good(o[1])
           /\ o[1].ancCtr = e.ancCtr /\ o[1].key = e.key
           /\ o[2] = sample \/ (e.cycCtr # None /\ o[2] \in CycleSampleOf(e, at))
  <1>1. CASE Closes(e, at, end)
    <2>1. PICK l \in Learn(e, CycleEstimate(e, at, end)) :
              o = <<[l EXCEPT !.status = "closed"], Sample("cycle", e.cycCtr, at, CycleDrop(e, end))>>
      BY <1>1 DEF CloseCycle
    <2>2. CycleEstimate(e, at, end) \in Nat \ {0}
      <3>1. CycleEstimate(e, at, end) \in Nat
        BY <1>1, CycleDropType, EstimateType DEF CycleEstimate
      <3>2. CycleEstimate(e, at, end) \in Max({MinYield, BandLow})..Min({MaxYield, BandHigh})
        BY <1>1 DEF Closes
      <3>3. /\ Max({MinYield, BandLow}) > 0 /\ Max({MinYield, BandLow}) \in Int
            /\ Min({MaxYield, BandHigh}) \in Int
        BY Constants, MaxOfTwo, MinOfTwo
      <3> QED BY <3>1, <3>2, <3>3
    <2>3. /\ Good(l) /\ l.ancCtr = e.ancCtr /\ l.key = e.key
      BY <2>2, LearnFacts
    <2>4. o[1] = [l EXCEPT !.status = "closed"] /\ o[2] = Sample("cycle", e.cycCtr, at, CycleDrop(e, end))
      BY <2>1
    <2>5. Good(o[1]) /\ o[1].ancCtr = e.ancCtr /\ o[1].key = e.key
      <3>1. o[1] \in RowTypes /\ o[1].ancCtr = l.ancCtr /\ o[1].key = l.key
        BY <2>3, <2>4 DEF Good, RowTypes
      <3>2. /\ o[1].last = l.last /\ o[1].anc = l.anc /\ o[1].ancCtr = l.ancCtr /\ o[1].cyc = l.cyc
            /\ o[1].cycCtr = l.cycCtr /\ o[1].pend = l.pend /\ o[1].pendCtr = l.pendCtr
        BY <2>3, <2>4 DEF Good, RowTypes
      <3> QED BY <2>3, <3>1, <3>2 DEF Good, Linked
    <2>6. e.cycCtr # None /\ o[2] \in CycleSampleOf(e, at)
      <3>1. e.cycCtr # None
        BY <1>1 DEF Closes
      <3>2. CycleDrop(e, end) \in 1..MaxLevel
        BY <1>1, CycleDropType
      <3> QED BY <2>4, <3>1, <3>2 DEF Sample, CycleSampleOf
    <2> QED BY <2>5, <2>6
  <1>2. CASE ~Closes(e, at, end)
    BY <1>2 DEF CloseCycle
  <1> QED BY <1>1, <1>2

(* A confirmed refill starts everything at this poll. *)
LEMMA RefilledFacts ==
    ASSUME NEW e, Good(e), NEW r, Given(r), r.level # None
    PROVE  LET f == Refilled(e, r)
           IN  /\ Good(f) /\ f.key = e.key
               /\ f.anc = r.level /\ f.ancCtr = r.ctr /\ f.last = r.level /\ f.lastCtr = r.ctr
               /\ f.cycCtr = r.ctr /\ f.pend = None /\ f.status = "active" /\ f.cur = r.level
  <1> DEFINE a == Anchored(Restarted(e), r)
  <1>1. /\ Restarted(e) \in RowTypes /\ Restarted(e).pend = None /\ Restarted(e).status = "active"
        /\ Restarted(e).key = e.key
    BY RestartedFacts DEF Good
  <1>2. /\ a \in RowTypes /\ a.cur = r.level /\ a.last = r.level /\ a.lastCtr = r.ctr
        /\ a.anc = r.level /\ a.ancCtr = r.ctr /\ a.pend = None /\ a.status = "active" /\ a.key = e.key
    BY <1>1, AnchoredFacts
  <1> HIDE DEF a
  <1>3. /\ CycleStart(a, r) \in RowTypes
        /\ CycleStart(a, r).cyc = r.level /\ CycleStart(a, r).cycCtr = r.ctr
        /\ CycleStart(a, r).cur = r.level /\ CycleStart(a, r).last = r.level
        /\ CycleStart(a, r).lastCtr = r.ctr /\ CycleStart(a, r).anc = r.level
        /\ CycleStart(a, r).ancCtr = r.ctr /\ CycleStart(a, r).pend = None
        /\ CycleStart(a, r).status = "active" /\ CycleStart(a, r).key = e.key
    BY <1>2, CycleStartFacts
  <1>4. Refilled(e, r) = CycleStart(a, r)
    BY DEF Refilled, a
  <1>5. r.ctr # None
    BY Constants DEF Given
  <1> QED BY <1>3, <1>4, <1>5 DEF Good, Linked

(* A confirmed refill, with or without a cycle that closes. *)
LEMMA BecomesRefilledEffect ==
    ASSUME NEW e, Good(e), NEW r, Given(r), ~r.quarantined, Readable(e, r), e.pend # None,
           NEW end \in Levels,
           BecomesRefilled(CloseCycle(e, e.pendCtr, end), r) \/ BecomesRefilled({<<e, sample>>}, r)
    PROVE  Effect(e, r)
  <1>1. e.pendCtr \in Nat
    BY DEF Good, Linked, RowTypes, OrNone
  <1>2. PICK o : /\ o = <<e, sample>> \/ o \in CloseCycle(e, e.pendCtr, end)
                 /\ row' = Refilled(o[1], r) /\ sample' = o[2]
    BY DEF BecomesRefilled
  <1>3. /\ Good(o[1])
        /\ sample' = sample \/ (e.cycCtr # None /\ sample' \in CycleSampleOf(e, e.pendCtr))
    BY <1>1, <1>2, CloseCycleFacts
  <1>4. r.level # None /\ r.ctr >= e.lastCtr
    BY DEF Readable
  <1>5. /\ Good(row')
        /\ row'.anc = r.level /\ row'.ancCtr = r.ctr /\ row'.last = r.level /\ row'.lastCtr = r.ctr
        /\ row'.cycCtr = r.ctr /\ row'.pend = None /\ row'.status = "active"
    BY <1>2, <1>3, <1>4, RefilledFacts
  <1>6. Anchors(r)
    BY <1>4, <1>5 DEF Anchors
  <1>7. Moves(e, r)
    BY <1>5, <1>6 DEF Moves
  <1>8. SamplesOf(e, r)
    <2>1. CASE e.cycCtr # None /\ sample' \in CycleSampleOf(e, e.pendCtr)
      <3>1. e.cycCtr \in Nat
        BY <2>1 DEF Good, RowTypes, OrNone
      <3>2. /\ sample' \in [kind : {"cycle"}, from : Nat, to : Nat, drop : 1..MaxLevel]
            /\ sample'.from = e.cycCtr /\ sample'.to = e.pendCtr
        BY <1>1, <2>1, <3>1 DEF CycleSampleOf
      <3> QED BY <2>1, <3>2, <1>4, <1>5, <1>6 DEF SamplesOf, CycleSample
    <2> QED BY <1>3, <2>1 DEF SamplesOf
  <1>9. Freezes(e, r) /\ Reads(e, r) /\ Shows(e, r)
    BY <1>4, <1>5, <1>6, Constants DEF Freezes, Reads, Shows, Found, Anchors, Given, Good, RowTypes,
       OrNone
  <1> QED BY <1>7, <1>8, <1>9 DEF Effect

(* A jump that is seen again. *)
LEMMA RefillByJumpEffect ==
    ASSUME NEW e, Good(e), NEW r, Given(r), ~r.quarantined, RefillByJump(e, r)
    PROVE  Effect(e, r)
  <1> DEFINE end == IF e.zero # None THEN 0 ELSE e.anc
  <1>1. e.pend # None /\ Readable(e, r) /\ BecomesRefilled(CloseCycle(e, e.pendCtr, end), r)
    BY DEF RefillByJump, Confirms
  <1>2. end \in Levels
    BY <1>1, Constants DEF Good, Linked, RowTypes, OrNone
  <1> HIDE DEF end
  <1> QED BY <1>1, <1>2, BecomesRefilledEffect

(* A jump that stayed. *)
LEMMA RefillByPlateauEffect ==
    ASSUME NEW e, Good(e), NEW r, Given(r), ~r.quarantined, RefillByPlateau(e, r)
    PROVE  Effect(e, r)
  <1>1. e.pend # None /\ e.anc # None /\ Readable(e, r)
    BY DEF RefillByPlateau, IsStale, Steady
  <1>2. e.anc \in Levels /\ 0 \in Levels
    BY <1>1, Constants DEF Good, RowTypes, OrNone
  <1>3. CASE ClosesZero(e)
    BY <1>1, <1>2, <1>3, BecomesRefilledEffect DEF RefillByPlateau
  <1>4. CASE ~ClosesZero(e) /\ ClosesPartial(e)
    BY <1>1, <1>2, <1>4, BecomesRefilledEffect DEF RefillByPlateau
  <1>5. CASE ~ClosesZero(e) /\ ~ClosesPartial(e)
    BY <1>1, <1>2, <1>5, BecomesRefilledEffect DEF RefillByPlateau
  <1> QED BY <1>3, <1>4, <1>5

(* A chip that moves again. *)
LEMMA UnfrozenFacts ==
    ASSUME NEW e, Good(e), NEW r, Given(r), r.level # None
    PROVE  LET u == Unfrozen(e, r)
           IN  /\ Good(u) /\ ~Found(u)
               /\ u.anc = e.anc /\ u.ancCtr = e.ancCtr /\ u.last = e.last /\ u.lastCtr = e.lastCtr
               /\ u.cyc = e.cyc /\ u.cycCtr = e.cycCtr /\ u.pend = e.pend /\ u.pendCtr = e.pendCtr
  BY DEF Unfrozen, Good, Linked, RowTypes, Found

(* A level that fell. *)
LEMMA ConsumedEffect ==
    ASSUME NEW e, Good(e), NEW r, Given(r), ~r.quarantined, Consumed(e, r)
    PROVE  Effect(e, r)
  <1> DEFINE z == AtZero(e, r)
             u == Unfrozen(z, r)
             est == Estimate(Pages(e, r), Drop(e, r))
  <1>1. /\ r.level # None /\ r.ctr >= e.lastCtr /\ e.anc # None /\ Steady(e, r) /\ ~IsStale(e, r)
        /\ Drop(e, r) > 0
    BY DEF Consumed, Tracked, Steady, Readable
  <1>2. /\ r.level \in Levels /\ e.anc \in Levels /\ e.ancCtr \in Nat /\ r.ctr \in Nat
        /\ Drop(e, r) \in 1..MaxLevel /\ Drop(e, r) = e.anc - r.level
        /\ Pages(e, r) \in Int /\ Pages(e, r) = r.ctr - e.ancCtr
    BY <1>1, Constants DEF Drop, Pages, Given, Good, Linked, RowTypes, OrNone, Levels
  <1>3. /\ Good(u) /\ ~Found(u) /\ u.lastCtr = e.lastCtr /\ u.cyc = e.cyc /\ u.cycCtr = e.cycCtr
        /\ u.pend = e.pend /\ u.pendCtr = e.pendCtr
        /\ u.anc = e.anc /\ u.ancCtr = e.ancCtr
    BY <1>1, AtZeroFacts, UnfrozenFacts
  <1>4. Shows(e, r)
    BY <1>1, SteadyShows
  <1>5. \/ Becomes(Seen(u, r))
        \/ Becomes(Anchored(u, r))
        \/ /\ ~Waits(e, r) /\ InRange(e, r)
           /\ \E l \in Learn(u, est) : row' = Anchored(l, r)
           /\ sample' = Sample("poll", r.ctr - Pages(e, r), r.ctr, Drop(e, r))
    BY DEF Consumed
  <1> HIDE DEF z, u, est
  <1>6. CASE Becomes(Seen(u, r))
    <2>1. /\ Good(row') /\ sample' = sample /\ ~Found(row')
          /\ row'.anc = u.anc /\ row'.ancCtr = u.ancCtr /\ row'.last = r.level /\ row'.lastCtr = r.ctr
          /\ row'.cycCtr = u.cycCtr /\ row'.pend = u.pend /\ row'.pendCtr = u.pendCtr
      <3>1. row' = Seen(u, r) /\ sample' = sample /\ u \in RowTypes
        BY <1>3, <1>6 DEF Becomes, Good
      <3> QED BY <1>1, <1>2, <1>3, <3>1, SeenFacts, Constants DEF Good, Linked, Found
    <2> QED BY <1>1, <1>2, <1>3, <1>4, <2>1
            DEF Effect, Moves, SamplesOf, Freezes, Reads, Keeps, Good, RowTypes
  <1>7. CASE Becomes(Anchored(u, r))
    <2>1. /\ Good(row') /\ sample' = sample /\ ~Found(row')
          /\ row'.anc = r.level /\ row'.ancCtr = r.ctr /\ row'.last = r.level /\ row'.lastCtr = r.ctr
          /\ row'.cycCtr = u.cycCtr /\ row'.pend = u.pend /\ row'.pendCtr = u.pendCtr
      <3>1. row' = Anchored(u, r) /\ sample' = sample /\ u \in RowTypes
        BY <1>3, <1>7 DEF Becomes, Good
      <3> QED BY <1>1, <1>2, <1>3, <3>1, AnchoredFacts, Constants DEF Good, Linked, Found
    <2> QED BY <1>1, <1>2, <1>3, <1>4, <2>1
            DEF Effect, Moves, SamplesOf, Freezes, Reads, Anchors, Good, RowTypes
  <1>8. CASE /\ ~Waits(e, r) /\ InRange(e, r)
             /\ \E l \in Learn(u, est) : row' = Anchored(l, r)
             /\ sample' = Sample("poll", r.ctr - Pages(e, r), r.ctr, Drop(e, r))
    <2>1. Pages(e, r) >= MinPages
      BY <1>8, <1>2, Constants DEF Waits
    <2>2. est \in Nat \ {0}
      <3>1. est \in MinYield..MaxYield
        BY <1>8 DEF InRange, est
      <3> QED BY <3>1, Constants
    <2>3. PICK l \in Learn(u, est) : row' = Anchored(l, r)
      BY <1>8
    <2>4. /\ Good(l) /\ ~Found(l) /\ l.cycCtr = u.cycCtr /\ l.pend = u.pend /\ l.pendCtr = u.pendCtr
      BY <1>3, <2>2, LearnFacts DEF Found
    <2>5. /\ Good(row') /\ ~Found(row')
          /\ row'.anc = r.level /\ row'.ancCtr = r.ctr /\ row'.last = r.level /\ row'.lastCtr = r.ctr
          /\ row'.cycCtr = u.cycCtr /\ row'.pend = u.pend /\ row'.pendCtr = u.pendCtr
      <3>1. row' = Anchored(l, r) /\ l \in RowTypes
        BY <2>3, <2>4 DEF Good
      <3> QED BY <1>1, <1>2, <2>4, <3>1, AnchoredFacts, Constants DEF Good, Linked, Found
    <2>6. Anchors(r)
      BY <1>1, <2>5 DEF Anchors
    <2>7. PollSample(e, r)
      <3>1. r.ctr - Pages(e, r) = e.ancCtr
        BY <1>2
      <3>2. /\ sample' \in [kind : {"poll"}, from : Nat, to : Nat, drop : 1..MaxLevel]
            /\ sample'.from = e.ancCtr /\ sample'.to = r.ctr /\ sample'.drop = Drop(e, r)
        BY <1>2, <1>8, <3>1 DEF Sample
      <3> QED BY <1>1, <1>2, <1>3, <2>1, <2>5, <2>6, <3>2 DEF PollSample
    <2> QED BY <1>1, <1>2, <1>3, <1>4, <2>5, <2>6, <2>7
            DEF Effect, Moves, SamplesOf, Freezes, Reads, Good, RowTypes
  <1> QED BY <1>5, <1>6, <1>7, <1>8

(* Every branch for a chip that is believed. *)
LEMMA BranchEffect ==
    ASSUME NEW e, Good(e), NEW r, Given(r), ~r.quarantined,
           \/ MissingLevel(e, r) \/ CounterDecreased(e, r) \/ Noise(e, r)
           \/ RefillCandidate(e, r) \/ RefillByJump(e, r) \/ SmallBounce(e, r)
           \/ FirstAnchor(e, r) \/ RefillByPlateau(e, r)
           \/ FrozenChip(e, r) \/ StableLevel(e, r) \/ Consumed(e, r)
    PROVE  Effect(e, r)
  BY MissingLevelEffect, CounterDecreasedEffect, NoiseEffect, RefillCandidateEffect,
     RefillByJumpEffect, SmallBounceEffect, FirstAnchorEffect, RefillByPlateauEffect,
     FrozenChipEffect, StableLevelEffect, ConsumedEffect

\* The rows the branches may start from: the one of the colour, or the new cartridge's.
Same(e, r) ==
    /\ e.anc = row.anc /\ e.ancCtr = row.ancCtr /\ e.last = row.last /\ e.lastCtr = row.lastCtr
    /\ e.pend = row.pend /\ e.pendCtr = row.pendCtr /\ e.cycCtr \in {row.cycCtr, r.ctr}
    /\ Found(e) => Found(row)
\* The row of another cartridge.
Swapped(e, r) ==
    /\ IsSwap(r) /\ e.anc = r.level /\ e.ancCtr = r.ctr /\ e.last = r.level /\ e.lastCtr = r.ctr
    /\ e.pend = None /\ e.cycCtr = r.ctr /\ ~Found(e)

\* The branches begin with the stored row or with that of another cartridge.
StartsFrom(e, r) == (~IsSwap(r) /\ Same(e, r)) \/ Swapped(e, r)

(* Everything starts with the cartridge now in the slot. *)
LEMMA SwapResetFacts ==
    ASSUME NEW r, Given(r)
    PROVE  LET e == SwapReset(r)
           IN  /\ Good(e) /\ e.cur = r.level
               /\ e.anc = r.level /\ e.ancCtr = r.ctr /\ e.last = r.level /\ e.lastCtr = r.ctr
               /\ e.pend = None /\ e.cycCtr = r.ctr /\ ~Found(e)
  BY Constants DEF SwapReset, Good, Linked, RowTypes, Given, OrNone, Found

(* Completing the identity changes no level and no counter. *)
LEMMA IdentifiedFacts ==
    ASSUME Good(row), NEW r, Given(r)
    PROVE  Good(Identified(r)) /\ Same(Identified(r), r)
  <1>1. First(r.key, row.key) \in OrNone(Keys)
    BY DEF Given, Good, RowTypes, First
  <1> DEFINE k == First(r.key, row.key)
  <1>2. Identified(r) = [row EXCEPT !.key = k]
    BY DEF Identified, Good, RowTypes
  <1> HIDE DEF k
  <1> QED BY <1>1, <1>2 DEF k, Good, Linked, RowTypes, Same, Found

(* Giving up a capacity changes no level and no counter. *)
LEMMA HealedFacts ==
    ASSUME NEW e, Good(e), NEW h \in Healed(e)
    PROVE  /\ Good(h)
           /\ h.anc = e.anc /\ h.ancCtr = e.ancCtr /\ h.last = e.last /\ h.lastCtr = e.lastCtr
           /\ h.pend = e.pend /\ h.pendCtr = e.pendCtr /\ h.cycCtr = e.cycCtr /\ h.status = e.status
  <1>1. PICK b \in BOOLEAN : h = e \/ h = [e EXCEPT !.cap = Rated, !.learned = FALSE, !.some = b]
    BY DEF Healed, Good, RowTypes
  <1>2. CASE h = [e EXCEPT !.cap = Rated, !.learned = FALSE, !.some = b]
    BY <1>2, Constants DEF Good, Linked, RowTypes
  <1> QED BY <1>1, <1>2

(* Beginning a cycle changes no level. *)
LEMMA BegunFacts ==
    ASSUME NEW e, Good(e), NEW r, Given(r)
    PROVE  LET b == Begun(e, r)
           IN  /\ Good(b)
               /\ b.anc = e.anc /\ b.ancCtr = e.ancCtr /\ b.last = e.last /\ b.lastCtr = e.lastCtr
               /\ b.pend = e.pend /\ b.pendCtr = e.pendCtr /\ b.cycCtr \in {e.cycCtr, r.ctr}
               /\ Found(b) => Found(e)
  <1>1. CASE e.cycCtr # None \/ r.level = None
    BY <1>1 DEF Begun
  <1>2. CASE e.cycCtr = None /\ r.level # None
    <2> DEFINE s == CycleStart(e, r)
    <2>1. /\ Good(s) /\ s.anc = e.anc /\ s.ancCtr = e.ancCtr /\ s.last = e.last
          /\ s.lastCtr = e.lastCtr /\ s.pend = e.pend /\ s.pendCtr = e.pendCtr /\ s.cycCtr = r.ctr
      <3>1. s \in RowTypes
        BY DEF CycleStart, Good, RowTypes, Given, OrNone
      <3>2. /\ s.anc = e.anc /\ s.ancCtr = e.ancCtr /\ s.last = e.last /\ s.lastCtr = e.lastCtr
            /\ s.pend = e.pend /\ s.pendCtr = e.pendCtr /\ s.cyc = r.level /\ s.cycCtr = r.ctr
        BY DEF CycleStart, Good, RowTypes
      <3> QED BY <3>1, <3>2, Constants DEF Good, Linked, Given
    <2>2. Begun(e, r) = [s EXCEPT !.status = "active"]
      BY <1>2 DEF Begun
    <2> HIDE DEF s
    <2> QED BY <2>1, <2>2 DEF Good, Linked, RowTypes, Found
  <1> QED BY <1>1, <1>2

(* A poll of a colour that is known. *)
LEMMA SnapshotEffect ==
    ASSUME row # None, Good(row), NEW r, Given(r), r.quarantined \in BOOLEAN,
           r.quarantined => r.shown \in Levels, Snapshot(r)
    PROVE  \E e : Good(e) /\ StartsFrom(e, r) /\ Effect(e, r)
  <1>1. PICK c \in Current(r) :
            \/ QuarantinedChip(c, r)
            \/ /\ ~r.quarantined
               /\ LET e == Begun(c, r)
                  IN  \/ MissingLevel(e, r) \/ CounterDecreased(e, r) \/ Noise(e, r)
                      \/ RefillCandidate(e, r) \/ RefillByJump(e, r) \/ SmallBounce(e, r)
                      \/ FirstAnchor(e, r) \/ RefillByPlateau(e, r)
                      \/ FrozenChip(e, r) \/ StableLevel(e, r) \/ Consumed(e, r)
    BY DEF Snapshot, FirstSnapshot
  <1>2. Good(c) /\ StartsFrom(c, r)
    <2>1. CASE IsSwap(r)
      BY <2>1, <1>1, SwapResetFacts DEF Current, Swapped, StartsFrom
    <2>2. CASE ~IsSwap(r)
      <3>1. c \in Healed(Identified(r))
        BY <2>2, <1>1 DEF Current
      <3> QED BY <2>2, <3>1, IdentifiedFacts, HealedFacts DEF Same, Found, StartsFrom
    <2> QED BY <2>1, <2>2
  <1>3. CASE QuarantinedChip(c, r)
    <2>1. r.quarantined
      BY <1>3 DEF QuarantinedChip
    <2> QED BY <1>2, <1>3, <2>1, QuarantinedChipEffect
  <1>4. CASE ~QuarantinedChip(c, r)
    <2> DEFINE e == Begun(c, r)
    <2>1. Good(e) /\ StartsFrom(e, r)
      BY <1>2, BegunFacts DEF Same, Swapped, StartsFrom
    <2>2. Effect(e, r)
      BY <1>1, <1>4, <2>1, BranchEffect
    <2> QED BY <2>1, <2>2
  <1> QED BY <1>3, <1>4

(* The first poll of a colour. *)
LEMMA FirstSnapshotFacts ==
    ASSUME row = None, NEW r, Given(r), Snapshot(r)
    PROVE  /\ Good(row') /\ sample' = sample /\ ~Found(row')
           /\ row'.anc = r.level /\ row'.last = r.level /\ row'.lastCtr = r.ctr /\ row'.cur = r.level
           /\ row'.ancCtr \in {r.ctr, None} /\ row'.cycCtr \in {r.ctr, None} /\ row'.pend = None
           /\ row'.anc # None => row'.ancCtr = r.ctr
  <1>1. row' = FirstRow(r) /\ sample' = sample
    BY DEF Snapshot, FirstSnapshot, Becomes
  <1>2. CASE r.level # None
    BY <1>1, <1>2, SwapResetFacts DEF FirstRow
  <1>3. CASE r.level = None
    <2> DEFINE s == SwapReset(r)
    <2>1. row' = [s EXCEPT !.ancCtr = None, !.cycCtr = None]
      BY <1>1, <1>3 DEF FirstRow
    <2>2. /\ Good(s) /\ s.cur = r.level /\ s.anc = r.level /\ s.last = r.level /\ s.lastCtr = r.ctr
          /\ s.cyc = None /\ s.pend = None /\ ~Found(s)
      BY <1>3, SwapResetFacts DEF SwapReset
    <2> HIDE DEF s
    <2>3. row' \in RowTypes
      BY <2>1, <2>2 DEF Good, RowTypes, OrNone
    <2>4. /\ row'.cur = s.cur /\ row'.anc = s.anc /\ row'.last = s.last /\ row'.lastCtr = s.lastCtr
          /\ row'.cyc = s.cyc /\ row'.pend = s.pend /\ row'.status = s.status
          /\ row'.ancCtr = None /\ row'.cycCtr = None
      BY <2>1, <2>2 DEF Good, RowTypes
    <2> QED BY <1>1, <1>3, <2>2, <2>3, <2>4 DEF Good, Linked, Found
  <1> QED BY <1>2, <1>3

(* A row without a reading. *)
LEMMA UnreadFacts ==
    ASSUME NEW s \in RowTypes
    PROVE  /\ Unread(s) \in RowTypes /\ Unread(s).anc = None /\ Unread(s).last = None
           /\ Unread(s).ancCtr = None /\ Unread(s).cyc = None /\ Unread(s).cycCtr = None
           /\ Unread(s).lastCtr = s.lastCtr /\ Unread(s).pend = s.pend
           /\ Unread(s).status = s.status
  <1>1. Unread(s) \in RowTypes
    BY DEF Unread, RowTypes, OrNone
  <1>2. /\ Unread(s).anc = None /\ Unread(s).last = None /\ Unread(s).ancCtr = None
        /\ Unread(s).cyc = None /\ Unread(s).cycCtr = None
    BY DEF Unread, RowTypes
  <1>3. Unread(s).lastCtr = s.lastCtr /\ Unread(s).pend = s.pend /\ Unread(s).status = s.status
    BY DEF Unread, RowTypes
  <1> QED BY <1>1, <1>2, <1>3

\* The row after a manual refill of an unknown or another cartridge.
ByHand(s) == [s EXCEPT !.status = "chip_quarantined", !.zero = None]

(* What that changes. *)
LEMMA ByHandFacts ==
    ASSUME NEW s \in RowTypes
    PROVE  /\ ByHand(s) \in RowTypes /\ ByHand(s).status = "chip_quarantined"
           /\ ByHand(s).anc = s.anc /\ ByHand(s).last = s.last /\ ByHand(s).lastCtr = s.lastCtr
           /\ ByHand(s).ancCtr = s.ancCtr /\ ByHand(s).cyc = s.cyc /\ ByHand(s).cycCtr = s.cycCtr
           /\ ByHand(s).pend = s.pend /\ ByHand(s).pendCtr = s.pendCtr
  <1>1. ByHand(s) \in RowTypes
    BY DEF ByHand, RowTypes, OrNone
  <1>2. /\ ByHand(s).status = "chip_quarantined"
        /\ ByHand(s).anc = s.anc /\ ByHand(s).last = s.last /\ ByHand(s).lastCtr = s.lastCtr
    BY DEF ByHand, RowTypes
  <1>3. /\ ByHand(s).ancCtr = s.ancCtr /\ ByHand(s).cyc = s.cyc /\ ByHand(s).cycCtr = s.cycCtr
        /\ ByHand(s).pend = s.pend /\ ByHand(s).pendCtr = s.pendCtr
    BY DEF ByHand, RowTypes
  <1> QED BY <1>1, <1>2, <1>3

(* A level the program made up. *)
LEMMA SyntheticFacts ==
    ASSUME row # None => Good(row), NEW r, Given(r), Synthetic(r)
    PROVE  /\ Good(row') /\ sample' = sample
           /\ row = None => /\ row'.anc = None /\ row'.last = None /\ row'.lastCtr = r.ctr
                            /\ row'.ancCtr = None /\ row'.cycCtr = None /\ row'.pend = None
                            /\ ~Found(row')
           /\ row # None =>
                /\ row'.anc = row.anc /\ row'.ancCtr = row.ancCtr /\ row'.last = row.last
                /\ row'.lastCtr = row.lastCtr /\ row'.cycCtr = row.cycCtr /\ row'.pend = row.pend
                /\ row'.pendCtr = row.pendCtr /\ row'.status = row.status
  <1>1. CASE row = None
    <2> DEFINE s == SwapReset(r)
    <2>1. /\ row' = Unread(s)
          /\ sample' = sample
      BY <1>1 DEF Synthetic, Becomes
    <2>2. Good(s) /\ s.lastCtr = r.ctr /\ s.pend = None /\ ~Found(s)
      BY SwapResetFacts
    <2> HIDE DEF s
    <2>3. /\ row' \in RowTypes /\ row'.anc = None /\ row'.last = None /\ row'.lastCtr = s.lastCtr
          /\ row'.ancCtr = None /\ row'.cyc = None /\ row'.cycCtr = None /\ row'.pend = s.pend
          /\ row'.status = s.status
      BY <2>1, <2>2, UnreadFacts DEF Good
    <2> QED BY <1>1, <2>1, <2>2, <2>3 DEF Good, Linked, Found
  <1>2. CASE row # None
    BY <1>2, Constants DEF Synthetic, Becomes, Good, Linked, RowTypes, Given, OrNone
  <1> QED BY <1>1, <1>2

(* A lower bound of the capacity. *)
LEMMA RatchetFacts ==
    ASSUME NEW e, Good(e), NEW m, Given(m), NEW o \in Ratchet(e, m)
    PROVE  /\ Good(o[1]) /\ o[1].key = e.key
           /\ \/ o[2] = sample
              \/ o[2] \in [kind : {"bound"}, from : Nat, to : {m.ctr}, drop : 1..MaxLevel]
  <1> DEFINE new == Rounded(4 * e.cap + 6 * LowerBound(e, m), 10)
             d == Max({1, CycleFrom(e)})
  <1>1. CASE o = <<e, sample>>
    BY <1>1
  <1>2. CASE o # <<e, sample>>
    <2>1. /\ PagesInCycle(e, m) >= MinPages /\ LowerBound(e, m) > e.cap
          /\ o = <<[e EXCEPT !.cap = new, !.learned = TRUE, !.some = TRUE],
                   Sample("bound", e.cycCtr, m.ctr, d)>>
      BY <1>2 DEF Ratchet, Good, RowTypes
    <2>2. CycleFrom(e) \in Levels
      BY Constants DEF CycleFrom, First, Good, RowTypes, OrNone
    <2>3. d \in 1..MaxLevel
      <3>1. CycleFrom(e) \in Int /\ CycleFrom(e) <= MaxLevel
        BY <2>2, Constants DEF Levels
      <3> QED BY <3>1, MaxOfTwo, Constants
    <2>4. e.cycCtr \in Nat /\ PagesInCycle(e, m) \in Nat
      <3>1. e.cycCtr # None
        BY <2>1, Constants DEF PagesInCycle
      <3>2. e.cycCtr \in Nat /\ m.ctr - e.cycCtr \in Int
        BY <3>1 DEF Good, RowTypes, Given, OrNone
      <3>3. PagesInCycle(e, m) = Max({0, m.ctr - e.cycCtr})
        BY <3>1 DEF PagesInCycle
      <3> QED BY <3>2, <3>3, MaxOfTwo
    <2>5. LowerBound(e, m) \in Nat
      BY <2>3, <2>4, EstimateType DEF LowerBound
    <2>6. new \in Nat \ {0}
      <3>1. e.cap \in Nat \ {0}
        BY DEF Good, RowTypes
      <3> QED BY <2>1, <2>5, <3>1 DEF Rounded
    <2> HIDE DEF new, d
    <2>7. o[1] = [e EXCEPT !.cap = new, !.learned = TRUE, !.some = TRUE]
      BY <2>1
    <2>8. o[2] = Sample("bound", e.cycCtr, m.ctr, d)
      BY <2>1
    <2>9. Good(o[1]) /\ o[1].key = e.key
      BY <2>6, <2>7 DEF Good, Linked, RowTypes
    <2>10. o[2] \in [kind : {"bound"}, from : Nat, to : {m.ctr}, drop : 1..MaxLevel]
      BY <2>3, <2>4, <2>8 DEF Sample
    <2> QED BY <2>9, <2>10
  <1> QED BY <1>1, <1>2

\* What a technician's word may add to the samples.
ManualSample(m) ==
    \/ sample' = sample
    \/ sample' \in [kind : {"bound"}, from : Nat, to : {m.ctr}, drop : 1..MaxLevel]
    \/ /\ row # None /\ row.cycCtr # None
       /\ sample' \in [kind : {"cycle"}, from : {row.cycCtr}, to : {m.ctr}, drop : 1..MaxLevel]

(* A manual refill. *)
LEMMA ManualRefillFacts ==
    ASSUME row # None => Good(row), NEW m, Given(m), m.level # None, ManualRefill(m)
    PROVE  /\ Good(row') /\ Anchors(m) /\ row'.lastCtr = m.ctr /\ row'.cycCtr = m.ctr
           /\ row'.pend = None /\ ~Found(row') /\ ManualSample(m)
  <1>1. CASE row = None \/ IsSwap(m)
    <2> DEFINE s == SwapReset(m)
    <2>1. row' = ByHand(s) /\ sample' = sample
      BY <1>1 DEF ManualRefill, Becomes, ByHand
    <2>2. /\ Good(s) /\ s.anc = m.level /\ s.ancCtr = m.ctr /\ s.last = m.level /\ s.lastCtr = m.ctr
          /\ s.cycCtr = m.ctr /\ s.pend = None
      BY SwapResetFacts
    <2> HIDE DEF s
    <2>3. /\ row' \in RowTypes /\ row'.anc = s.anc /\ row'.last = s.last /\ row'.lastCtr = s.lastCtr
          /\ row'.ancCtr = s.ancCtr /\ row'.cyc = s.cyc /\ row'.cycCtr = s.cycCtr
          /\ row'.pend = s.pend /\ row'.pendCtr = s.pendCtr /\ row'.status = "chip_quarantined"
      BY <2>1, <2>2, ByHandFacts DEF Good
    <2> QED BY <2>1, <2>2, <2>3 DEF Good, Linked, Found, Anchors, ManualSample
  <1>2. CASE row # None /\ ~IsSwap(m)
    <2> DEFINE e == Identified(m)
    <2>1. Good(e) /\ e.cycCtr = row.cycCtr
      BY <1>2, IdentifiedFacts DEF Identified, Good, RowTypes
    <2> HIDE DEF e
    <2>2. PICK o \in ClosedBy(e, m) :
              row' = [Refilled(o[1], m) EXCEPT !.status = "chip_quarantined"] /\ sample' = o[2]
      BY <1>2 DEF ManualRefill, e
    <2>3. m.ctr \in Nat /\ 0 \in Levels /\ CycleFrom(e) \in Levels /\ e.last \in OrNone(Levels)
      BY <2>1, Constants DEF Given, CycleFrom, First, Good, RowTypes, OrNone
    <2>4. AutoEnd(e, m) \in Levels
      BY <2>3, Constants DEF AutoEnd, PartlyUsed, OrNone
    <2>5. \/ o = <<e, sample>>
          \/ o \in CloseCycle(e, m.ctr, 0)
          \/ e.last \in Levels /\ o \in CloseCycle(e, m.ctr, e.last)
          \/ o \in Ratchet(e, m)
          \/ o \in CloseCycle(e, m.ctr, AutoEnd(e, m))
      BY <2>2, <2>3 DEF ClosedBy, PartlyUsed, OrNone
    <2>6. /\ Good(o[1])
          /\ \/ o[2] = sample
             \/ e.cycCtr # None /\ o[2] \in CycleSampleOf(e, m.ctr)
             \/ o[2] \in [kind : {"bound"}, from : Nat, to : {m.ctr}, drop : 1..MaxLevel]
      BY <2>1, <2>3, <2>4, <2>5, CloseCycleFacts, RatchetFacts
    <2>7. ManualSample(m)
      BY <1>2, <2>1, <2>2, <2>6 DEF ManualSample, CycleSampleOf
    <2> DEFINE f == Refilled(o[1], m)
    <2>8. /\ Good(f) /\ f.anc = m.level /\ f.ancCtr = m.ctr /\ f.last = m.level /\ f.lastCtr = m.ctr
          /\ f.cycCtr = m.ctr /\ f.pend = None
      BY <2>6, RefilledFacts
    <2>9. row' = [f EXCEPT !.status = "chip_quarantined"]
      BY <2>2
    <2> HIDE DEF f
    <2>10. /\ Good(row') /\ Anchors(m) /\ row'.lastCtr = m.ctr /\ row'.cycCtr = m.ctr
           /\ row'.pend = None /\ ~Found(row')
      BY <2>8, <2>9 DEF Good, Linked, RowTypes, Found, Anchors
    <2> QED BY <2>7, <2>10
  <1> QED BY <1>1, <1>2

-----------------------------------------------------------------------------
(* The slots. *)
LEMMA CapOfType == ASSUME NEW s \in Slots PROVE CapOf(s) \in Nat \ {0}
  BY OverrideAssumption DEF CapOf, Slots, OrNone

(* What a slot shows is a level. *)
LEMMA VirtualType ==
    ASSUME NEW s \in Slots, NEW total \in Nat, total >= s.start
    PROVE  Virtual(s, total) \in Levels
  <1>1. s.start \in Nat /\ s.toner \in Nat /\ s.toner <= MaxLevel
    BY Constants DEF Slots, Levels
  <1>2. (total - s.start) * MaxLevel \in Nat
    BY <1>1, Constants, ProductType
  <1> DEFINE used == Rounded((total - s.start) * MaxLevel, CapOf(s))
  <1>3. used \in Nat
    BY <1>2, CapOfType, RoundedType
  <1>4. Virtual(s, total) = Max({0, s.toner - used})
    BY DEF Virtual
  <1> HIDE DEF used
  <1>5. s.toner - used \in Int /\ s.toner - used <= MaxLevel
    BY <1>1, <1>3, Constants
  <1> QED BY <1>4, <1>5, Constants, MaxOfTwo DEF Levels

(* A slot is itself, or comes from the older keys. *)
LEMMA NormalisedType ==
    ASSUME NEW s \in OrNone(Slots), NEW m \in OrNone([start : Nat, toner : Levels])
    PROVE  /\ Normalised(s, m) \in OrNone(Slots)
           /\ s # None => Normalised(s, m) = s
           /\ s = None /\ m = None => Normalised(s, m) = None
           /\ s = None /\ m # None => Normalised(s, m) = LegacySlot(m) /\ LegacySlot(m) \in Slots
  BY DEF Normalised, LegacySlot, OrNone, Slots

(* A chip that agrees with the slot changes no more than that. *)
LEMMA AlignedFacts ==
    ASSUME NEW s \in Slots, NEW total \in Nat, NEW lvl \in OrNone(Levels)
    PROVE  LET a == Aligned(s, total, lvl)
           IN  /\ a \in Slots /\ a.start = s.start /\ a.toner = s.toner /\ a.mode = s.mode
               /\ a.cap = s.cap
               /\ a.aligned = (s.aligned \/ Aligns(s, total, lvl))
  <1> DEFINE b == s.aligned \/ Aligns(s, total, lvl)
  <1>1. b \in BOOLEAN
    BY DEF Slots
  <1>2. Aligned(s, total, lvl) = [s EXCEPT !.aligned = b]
    BY DEF Aligned, Slots
  <1> HIDE DEF b
  <1>3. /\ Aligned(s, total, lvl) \in Slots /\ Aligned(s, total, lvl).aligned = b
        /\ Aligned(s, total, lvl).start = s.start /\ Aligned(s, total, lvl).toner = s.toner
        /\ Aligned(s, total, lvl).mode = s.mode /\ Aligned(s, total, lvl).cap = s.cap
    BY <1>1, <1>2 DEF Slots
  <1> QED BY <1>3 DEF b

(* A slot stays, or is dropped or released for a reason. *)
LEMMA EvaluatedFacts ==
    ASSUME NEW s \in OrNone(Slots), NEW total \in Nat, NEW lvl \in OrNone(Levels)
    PROVE  LET a == Evaluated(s, total, lvl)
           IN  /\ a \in OrNone(Slots)
               /\ a # None => /\ s # None /\ total >= s.start /\ a = Aligned(s, total, lvl)
               /\ a = None /\ s # None =>
                    total < s.start \/ Thaws(s, total, lvl) \/ Follows(s, total, lvl)
  <1>1. CASE s = None
    BY <1>1 DEF Evaluated, OrNone
  <1>2. CASE s # None /\ total < s.start
    BY <1>2 DEF Evaluated, ValidAfter, OrNone
  <1>3. CASE s # None /\ ~(total < s.start)
    <2>1. s \in Slots /\ s.start \in Nat
      BY <1>3 DEF OrNone, Slots
    <2>2. ValidAfter(s, total) = s
      BY <1>3 DEF ValidAfter
    <2>3. CASE Released(s, total, lvl)
      BY <1>3, <2>1, <2>2, <2>3 DEF Evaluated, Released, OrNone
    <2>4. CASE ~Released(s, total, lvl)
      <3>1. Evaluated(s, total, lvl) = Aligned(s, total, lvl)
        BY <1>3, <2>2, <2>4 DEF Evaluated
      <3>2. Aligned(s, total, lvl) \in Slots /\ Aligned(s, total, lvl) # None
        BY <2>1, AlignedFacts, LevelsAssumption
      <3> QED BY <1>3, <2>1, <3>1, <3>2 DEF OrNone
    <2> QED BY <2>3, <2>4
  <1> QED BY <1>1, <1>2, <1>3
-----------------------------------------------------------------------------
(* The steps, one lemma each on what it does to the types and to the budget. *)
Grows == \A f \in Faults : budget'[f] >= budget[f]

(* Spending. *)
LEMMA SpendFacts ==
    ASSUME budget \in [Faults -> Nat], NEW f \in Faults, Spend(f)
    PROVE  budget' \in [Faults -> Nat] /\ Grows /\ budget'[f] > 0
  BY DEF Spend, Grows

(* What has not happened after a step had not happened before it. *)
LEMMA WithoutBefore ==
    ASSUME budget \in [Faults -> Nat], Grows, NEW F \in SUBSET Faults
    PROVE  (\A f \in F : budget'[f] = 0) => Without(F)
  BY DEF Grows, Without

\* What the device does leaves the program alone,
SameProgram ==
    /\ row' = row /\ sample' = sample /\ slot' = slot /\ manual' = manual /\ disp' = disp
    /\ poll' = poll /\ reset' = reset
\* and most of the history.
SameHistory ==
    /\ fills' = fills /\ reads' = reads /\ ended' = ended /\ raced' = raced
    /\ crossed' = crossed /\ held' = held

(* What the chip tells is a level. *)
LEMMA ReadingType == ASSUME TypeOK PROVE Reading \in Nat /\ Reading <= MaxLevel /\ Reading \in Levels
  BY Constants DEF TypeOK, Reading, OrNone, Levels

\* The fill of this moment.
Fresh == [at |-> ctr, shown |-> 0]

(* A step of the device. *)
LEMMA DeviceFacts ==
    ASSUME TypeOK, Device
    PROVE  /\ SameProgram /\ SameHistory /\ Grows /\ budget' \in [Faults -> Nat]
           /\ ctr' \in Nat /\ ctr' >= ctr
           /\ toner' \in Levels /\ chip' \in OrNone(Levels) /\ key' \in Keys
           /\ fresh' = fresh \/ (fresh' = Fresh /\ ctr' = ctr)
           /\ budget'["thaw"] = 0 => Reading' + (ctr' - ctr) >= Reading
           /\ budget'["fills"] = 0 /\ budget'["replaced"] = 0 /\ (chip # None => toner <= chip)
                => Reading' <= Reading /\ (chip' # None => toner' <= chip')
  <1> USE DEF TypeOK, Levels, OrNone, SameProgram, SameHistory, program, history
  <1>1. CASE DevicePrint
    <2>1. Max({0, toner - 1}) = IF toner = 0 THEN 0 ELSE toner - 1
      BY MaxOfTwo, Constants
    <2> QED BY <1>1, <2>1, Constants DEF DevicePrint, Reading, Grows
  <1>2. CASE Fill
    <2>1. Spend("fills") /\ "fills" \in Faults
      BY <1>2 DEF Fill, Faults
    <2>2. budget' \in [Faults -> Nat] /\ Grows /\ budget'["fills"] > 0
      BY <2>1, SpendFacts
    <2>3. Reading \in Levels
      BY ReadingType
    <2>4. Reading' \in Levels /\ Reading' >= Reading
      <3>1. Reading' \in {MaxLevel, Reading}
        BY <1>2, <2>3, Constants DEF Fill, Reading
      <3> QED BY <2>3, <3>1, Constants
    <2>5. /\ SameProgram /\ SameHistory /\ ctr' = ctr /\ toner' = MaxLevel
          /\ chip' \in OrNone(Levels) /\ key' \in Keys
      BY <1>2, <2>3, Constants DEF Fill
    <2>6. fresh' = fresh \/ fresh' = Fresh
      BY <1>2 DEF Fill, NewFill, Fresh
    <2>7. Reading' + (ctr' - ctr) >= Reading
      BY <2>3, <2>4, <2>5
    <2>8. ~(budget'["fills"] = 0)
      BY <2>2
    <2> QED BY <2>2, <2>5, <2>6, <2>7, <2>8, Constants
  <1>3. CASE Replace
    <2>1. Spend("replaced") /\ "replaced" \in Faults
      BY <1>3 DEF Replace, Faults
    <2>2. budget' \in [Faults -> Nat] /\ Grows /\ budget'["replaced"] > 0
      BY <2>1, SpendFacts
    <2>3. Reading \in Levels
      BY ReadingType
    <2>4. Reading' \in Levels /\ Reading' >= Reading
      <3>1. Reading' \in {MaxLevel, Reading}
        BY <1>3, <2>3, Constants DEF Replace, Reading
      <3> QED BY <2>3, <3>1, Constants
    <2>5. /\ SameProgram /\ SameHistory /\ ctr' = ctr /\ toner' = MaxLevel
          /\ chip' \in OrNone(Levels) /\ key' \in Keys
      BY <1>3, <2>3, Constants DEF Replace
    <2>6. fresh' = fresh \/ fresh' = Fresh
      BY <1>3 DEF Replace, NewFill, Fresh
    <2>7. Reading' + (ctr' - ctr) >= Reading
      BY <2>3, <2>4, <2>5
    <2>8. ~(budget'["replaced"] = 0)
      BY <2>2
    <2> QED BY <2>2, <2>5, <2>6, <2>7, <2>8, Constants
  <1>4. CASE ChipSticks
    <2>1. Spend("stuck") /\ "stuck" \in Faults
      BY <1>4 DEF ChipSticks, Faults
    <2>2. budget' \in [Faults -> Nat] /\ Grows
      BY <2>1, SpendFacts
    <2> QED BY <1>4, <2>2, Constants DEF ChipSticks, Reading
  <1>5. CASE ChipMoves
    <2>1. Spend("thaw") /\ "thaw" \in Faults
      BY <1>5 DEF ChipMoves, Faults
    <2>2. budget' \in [Faults -> Nat] /\ Grows /\ budget'["thaw"] > 0
      BY <2>1, SpendFacts
    <2> QED BY <1>5, <2>2, Constants DEF ChipMoves, Reading
  <1> QED BY <1>1, <1>2, <1>3, <1>4, <1>5 DEF Device

(* The first step of a poll. *)
LEMMA PollReadFacts ==
    ASSUME TypeOK, PollRead
    PROVE  /\ poll = Idle /\ poll' \in Polls /\ Grows /\ budget' \in [Faults -> Nat]
           /\ poll'.total = ctr \/ (poll'.total = 0 /\ budget'["zero"] > 0 /\ poll'.level = Reading)
           /\ poll'.level # None => \/ poll'.level = Reading
                                    \/ budget'["up"] > 0 \/ budget'["down"] > 0
           /\ poll'.coded => poll'.level = None
           /\ LET old == Normalised(slot, manual)
              IN  /\ poll'.active = Evaluated(old, poll'.total, poll'.level)
                  /\ slot' = IF poll'.active = old THEN slot ELSE poll'.active
           /\ slot' \in OrNone(Slots)
           /\ poll'.saved = Normalised(slot', manual)
           /\ held' = IF poll'.active = None THEN None ELSE held
           /\ raced' = (reset # Idle) /\ crossed' = (crossed \/ raced')
           /\ reads' = IF poll'.level \in {None, reads.level} THEN reads
                       ELSE [level |-> poll'.level, since |-> IF reads.level = None THEN 0 ELSE ctr]
           /\ ctr' = ctr /\ toner' = toner /\ chip' = chip /\ key' = key
           /\ manual' = manual /\ row' = row /\ sample' = sample /\ disp' = disp
           /\ reset' = reset /\ fresh' = fresh /\ fills' = fills /\ ended' = ended
  <1>1. PICK lvl \in OrNone(Levels), total \in {ctr, 0}, named \in OrNone({key}),
             f \in Faults \cup {None} :
          /\ poll.pc = "idle"
          /\ \/ f = None /\ lvl = Reading /\ total = ctr /\ named = key /\ UNCHANGED budget
             \/ f = "none" /\ Misread(f, lvl, total) /\ Spend(f)
             \/ f \in {"up", "down", "zero", "coded"} /\ named = key /\ Misread(f, lvl, total) /\ Spend(f)
          /\ LET old    == Normalised(slot, manual)
                 active == Evaluated(old, total, lvl)
             IN  /\ slot' = IF active = old THEN slot ELSE active
                 /\ held' = IF active = None THEN None ELSE held
                 /\ poll' = [pc |-> "read", level |-> lvl, total |-> total, key |-> named,
                             coded |-> f = "coded", released |-> active # old /\ active = None,
                             active |-> active, saved |-> Normalised(slot', manual)]
          /\ raced' = (reset.pc # "idle") /\ crossed' = (crossed \/ raced')
          /\ reads' = IF lvl \in {None, reads.level} THEN reads
                      ELSE [level |-> lvl, since |-> IF reads.level = None THEN 0 ELSE ctr]
          /\ UNCHANGED <<device, manual, row, sample, disp, reset, fresh, fills, ended>>
    BY DEF PollRead
  <1> DEFINE old == Normalised(slot, manual)
             active == Evaluated(old, total, lvl)
  <1>2. total \in Nat /\ named \in OrNone(Keys) /\ old \in OrNone(Slots)
    BY NormalisedType DEF TypeOK, OrNone
  <1>3. active \in OrNone(Slots)
    BY <1>2, EvaluatedFacts
  <1>4. slot' \in OrNone(Slots)
    BY <1>1, <1>3 DEF TypeOK
  <1>5. Normalised(slot', manual) \in OrNone(Slots)
    BY <1>4, NormalisedType DEF TypeOK
  <1>6. /\ poll' \in Polls /\ poll'.level = lvl /\ poll'.total = total /\ poll'.active = active
        /\ poll'.saved = Normalised(slot', manual) /\ (poll'.coded <=> f = "coded")
    BY <1>1, <1>2, <1>3, <1>5 DEF Polls
  <1>7. /\ Grows /\ budget' \in [Faults -> Nat]
        /\ f # None => f \in Faults /\ budget'[f] > 0 /\ Misread(f, lvl, total)
    <2>1. CASE f = None /\ UNCHANGED budget
      BY <2>1 DEF TypeOK, Grows
    <2>2. CASE Spend(f) /\ f \in Faults /\ Misread(f, lvl, total)
      BY <2>2, SpendFacts DEF TypeOK
    <2>3. {"none", "up", "down", "zero", "coded"} \subseteq Faults
      BY DEF Faults
    <2> QED BY <1>1, <2>1, <2>2, <2>3
  <1>8. /\ total = ctr \/ (total = 0 /\ budget'["zero"] > 0 /\ lvl = Reading)
        /\ lvl # None => lvl = Reading \/ budget'["up"] > 0 \/ budget'["down"] > 0
        /\ f = "coded" => lvl = None
    BY <1>1, <1>7, LevelsAssumption DEF Misread, Faults
  <1>9. poll = Idle /\ (reset.pc # "idle" <=> reset # Idle)
    BY <1>1 DEF TypeOK, Idle, Polls, Resets
  <1> HIDE DEF old, active
  <1> QED BY <1>1, <1>4, <1>6, <1>7, <1>8, <1>9 DEF device, old, active

\* What ties the row, the display, the slot and the two processes.
Rows ==
    /\ row # None => Good(row)
    /\ row = None <=> disp = None
    /\ row = None => /\ slot = None /\ manual = None /\ sample = None /\ reset = Idle
                     /\ poll # Idle => poll.active = None /\ poll.saved = None
    /\ sample = None => ended = 0
    /\ poll # Idle => /\ poll.coded => poll.level = None
                      /\ poll.active # None => poll.total >= poll.active.start
                      /\ poll.total <= ctr
    /\ disp # None => disp.total <= ctr
\* What the four invariants rest on.
BaseInv == TypeOK /\ Rows

\* The three things a poll may do to the row: create it,
FirstSeen ==
    /\ row = None /\ sample' = sample /\ ~Found(row') /\ row'.lastCtr = poll.total
    /\ row'.anc \in {poll.level, None} /\ row'.ancCtr \in {poll.total, None}
    /\ row'.cycCtr \in {poll.total, None} /\ row'.pend = None
    /\ row'.anc # None => row'.ancCtr = poll.total
\* show a level of the program's own,
Displayed ==
    /\ row # None /\ poll.level = None /\ poll.active = None /\ sample' = sample
    /\ row'.anc = row.anc /\ row'.ancCtr = row.ancCtr /\ row'.last = row.last
    /\ row'.lastCtr = row.lastCtr /\ row'.cycCtr = row.cycCtr /\ row'.pend = row.pend
    /\ row'.pendCtr = row.pendCtr /\ row'.status = row.status
\* or take the level read.
Processed ==
    /\ row # None
    /\ \E e : Good(e) /\ StartsFrom(e, Input) /\ Effect(e, Input)

(* What the poll tells the engine. *)
LEMMA InputFacts ==
    ASSUME BaseInv, poll # Idle
    PROVE  /\ poll \in Polls /\ Given(Input)
           /\ Input.level = poll.level /\ Input.ctr = poll.total
           /\ Input.quarantined = (poll.active # None)
           /\ poll.active # None => Input.shown = Virtual(poll.active, poll.total)
           /\ poll.active # None => Input.shown \in Levels
  <1>1. poll \in Polls
    BY DEF BaseInv, TypeOK
  <1>2. /\ Input.level = poll.level /\ Input.ctr = poll.total /\ Input.key = poll.key
        /\ Input.quarantined = (poll.active # None)
        /\ poll.active # None => Input.shown = Virtual(poll.active, poll.total)
    BY DEF Input
  <1>3. Given(Input)
    BY <1>1, <1>2 DEF Given, Polls
  <1>4. ASSUME poll.active # None PROVE Virtual(poll.active, poll.total) \in Levels
    <2>1. poll.active \in Slots /\ poll.total \in Nat
      BY <1>1, <1>4 DEF Polls, OrNone
    <2>2. poll.total >= poll.active.start
      BY <1>4 DEF BaseInv, Rows
    <2> QED BY <2>1, <2>2, VirtualType
  <1> QED BY <1>1, <1>2, <1>3, <1>4

(* The second step of a poll: the row and the sample, *)
LEMMA PollRecordRow ==
    ASSUME BaseInv, PollRecord
    PROVE  /\ poll # Idle /\ Good(row') /\ row' # None
           /\ FirstSeen \/ Displayed \/ Processed
           /\ sample' \in OrNone(Samples) /\ (sample # None => sample' # None)
  <1>1. poll # Idle
    BY DEF PollRecord, Idle
  <1>2. /\ poll \in Polls /\ Given(Input) /\ Input.level = poll.level /\ Input.ctr = poll.total
        /\ Input.quarantined = (poll.active # None)
        /\ poll.active # None => Input.shown \in Levels
    BY <1>1, InputFacts
  <1>3. row # None => Good(row)
    BY DEF BaseInv, Rows
  <1>4. CASE poll.coded /\ poll.active = None
    <2>1. PICK l \in Levels : Synthetic([Input EXCEPT !.level = l])
      BY <1>4 DEF PollRecord
    <2> DEFINE r == [Input EXCEPT !.level = l]
    <2>2. Given(r) /\ r.ctr = poll.total
      BY <1>2 DEF Input, Given, OrNone
    <2>3. poll.level = None
      BY <1>1, <1>4 DEF BaseInv, Rows
    <2> HIDE DEF r
    <2>4. Synthetic(r)
      BY <2>1 DEF r
    <2>5. Good(row') /\ sample' = sample
      BY <1>3, <2>2, <2>4, SyntheticFacts
    <2>6. FirstSeen \/ Displayed
      BY <1>3, <1>4, <2>2, <2>3, <2>4, SyntheticFacts DEF FirstSeen, Displayed
    <2> QED BY <1>1, <2>5, <2>6, LevelsAssumption DEF Good, BaseInv, TypeOK
  <1>5. CASE ~(poll.coded /\ poll.active = None)
    <2>1. Snapshot(Input)
      BY <1>5 DEF PollRecord
    <2>2. CASE row = None
      <3>1. /\ Good(row') /\ sample' = sample /\ ~Found(row')
            /\ row'.anc = Input.level /\ row'.lastCtr = Input.ctr
            /\ row'.ancCtr \in {Input.ctr, None} /\ row'.cycCtr \in {Input.ctr, None} /\ row'.pend = None
            /\ row'.anc # None => row'.ancCtr = Input.ctr
        BY <1>2, <2>1, <2>2, FirstSnapshotFacts
      <3>2. FirstSeen
        BY <1>2, <2>2, <3>1 DEF FirstSeen
      <3> QED BY <1>1, <3>1, <3>2, LevelsAssumption DEF Good, BaseInv, TypeOK
    <2>3. CASE row # None
      <3>1. PICK e : Good(e) /\ StartsFrom(e, Input) /\ Effect(e, Input)
        BY <1>2, <1>3, <2>1, <2>3, SnapshotEffect
      <3>2. Processed /\ Good(row')
        BY <2>3, <3>1 DEF Processed, Effect, Moves
      <3>3. sample' = sample \/ sample' \in Samples
        BY <3>1 DEF Effect, SamplesOf, PollSample, CycleSample, Samples
      <3> QED BY <1>1, <3>2, <3>3, LevelsAssumption DEF Good, BaseInv, TypeOK, OrNone
    <2> QED BY <2>2, <2>3
  <1> QED BY <1>4, <1>5

(* and the rest. *)
LEMMA PollRecordFrame ==
    ASSUME PollRecord
    PROVE  /\ slot' = SlotAfterPoll(row')
           /\ disp' = [total |-> poll.total, raw |-> poll.level, key |-> poll.key, level |-> row'.cur]
           /\ poll' = Idle /\ NoteFills /\ NoteCycle
           /\ ctr' = ctr /\ toner' = toner /\ chip' = chip /\ key' = key
           /\ manual' = manual /\ reset' = reset /\ reads' = reads /\ raced' = raced
           /\ crossed' = crossed /\ held' = held /\ budget' = budget
  BY DEF PollRecord, device

(* The start of a slot for a frozen chip is a counter. *)
LEMMA FrozenStart ==
    ASSUME NEW a \in Int, NEW b \in Int PROVE Max({0, a - Max({0, b})}) \in Nat
  <1>1. Max({0, b}) \in Int
    BY MaxOfTwo
  <1>2. a - Max({0, b}) \in Int
    BY <1>1
  <1> DEFINE c == a - Max({0, b})
  <1>3. c \in Int
    BY <1>2
  <1> HIDE DEF c
  <1>4. Max({0, c}) \in Nat
    BY <1>3, MaxOfTwo
  <1> QED BY <1>4 DEF c

(* The slot after a poll is a slot. *)
LEMMA SlotAfterPollType ==
    ASSUME NEW e, Good(e), poll \in Polls, slot \in OrNone(Slots)
    PROVE  SlotAfterPoll(e) \in OrNone(Slots)
  <1>1. CASE FindsFrozen(e)
    <2>1. poll.total - First(e.ancCtr, poll.total) \in Int /\ poll.total \in Int
      BY DEF Polls, First, Good, RowTypes, OrNone
    <2>2. PICK start \in Nat :
              start = Max({0, poll.total - Max({0, poll.total - First(e.ancCtr, poll.total)})})
      BY <2>1, FrozenStart
    <2>6. FrozenSlot(e) = [start |-> start, toner |-> e.anc, cap |-> e.cap, mode |-> "auto_frozen_chip",
                           aligned |-> FALSE, chipAt |-> None, frozenAt |-> poll.level]
      BY <2>2 DEF FrozenSlot
    <2>5. e.anc \in Levels /\ e.cap \in Nat \ {0} /\ poll.level \in OrNone(Levels)
      BY <1>1 DEF FindsFrozen, Good, RowTypes, OrNone, Polls
    <2>7. FrozenSlot(e) \in Slots
      BY <2>2, <2>5, <2>6 DEF Slots, OrNone
    <2> QED BY <1>1, <2>7 DEF SlotAfterPoll, OrNone
  <1>2. CASE ~FindsFrozen(e)
    BY <1>2 DEF SlotAfterPoll, ValidAfter, Polls, OrNone
  <1> QED BY <1>1, <1>2

(* The first step of a reset. *)
LEMMA ResetEngineFacts ==
    ASSUME BaseInv, ResetEngine
    PROVE  \E m : /\ m.ctr = disp.total /\ m.level = MaxLevel /\ Given(m)
                  /\ reset = Idle /\ disp # None /\ row # None
                  /\ Good(row') /\ row' # None /\ Anchors(m) /\ row'.lastCtr = m.ctr
                  /\ row'.cycCtr = m.ctr /\ row'.pend = None /\ ~Found(row') /\ ManualSample(m)
                  /\ sample' \in OrNone(Samples) /\ (sample # None => sample' # None)
                  /\ reset' = [pc |-> "engine", total |-> disp.total, raw |-> disp.raw, cap |-> row'.cap]
                  /\ budget' \in [Faults -> Nat] /\ Grows
                  /\ raced' = TRUE /\ crossed' = (crossed \/ poll # Idle) /\ NoteCycle
                  /\ ctr' = ctr /\ toner' = toner /\ chip' = chip /\ key' = key
                  /\ slot' = slot /\ manual' = manual /\ disp' = disp /\ poll' = poll
                  /\ fresh' = fresh /\ fills' = fills /\ reads' = reads /\ held' = held
  <1>1. PICK why \in Reasons :
            /\ ManualRefill([key |-> disp.key, level |-> MaxLevel, ctr |-> disp.total, why |-> why])
            /\ reset' = [pc |-> "engine", total |-> disp.total, raw |-> disp.raw, cap |-> row'.cap]
    BY DEF ResetEngine
  <1> DEFINE m == [key |-> disp.key, level |-> MaxLevel, ctr |-> disp.total, why |-> why]
  <1>2. disp # None /\ disp \in Displays /\ row # None /\ Good(row) /\ reset = Idle
    BY DEF ResetEngine, BaseInv, TypeOK, Rows, OrNone, Idle, Resets
  <1>3. /\ m.ctr = disp.total /\ m.level = MaxLevel /\ m.level # None /\ Given(m)
    BY <1>2, Constants DEF Given, Displays, OrNone
  <1>4. ManualRefill(m)
    BY <1>1
  <1> HIDE DEF m
  <1>5. /\ Good(row') /\ Anchors(m) /\ row'.lastCtr = m.ctr /\ row'.cycCtr = m.ctr
        /\ row'.pend = None /\ ~Found(row') /\ ManualSample(m)
    BY <1>2, <1>3, <1>4, ManualRefillFacts
  <1>6. row' # None
    BY <1>5, LevelsAssumption DEF Good
  <1>7. sample' \in OrNone(Samples) /\ (sample # None => sample' # None)
    <2>1. CASE sample' = sample
      BY <2>1 DEF BaseInv, TypeOK
    <2>2. CASE sample' \in [kind : {"bound"}, from : Nat, to : {m.ctr}, drop : 1..MaxLevel]
      BY <1>3, <2>2, LevelsAssumption DEF Samples, OrNone, Given
    <2>3. CASE /\ row # None /\ row.cycCtr # None
               /\ sample' \in [kind : {"cycle"}, from : {row.cycCtr}, to : {m.ctr}, drop : 1..MaxLevel]
      <3>1. row.cycCtr \in Nat
        BY <1>2, <2>3 DEF Good, RowTypes, OrNone
      <3> QED BY <1>3, <2>3, <3>1, LevelsAssumption DEF Samples, OrNone, Given
    <2> QED BY <1>5, <2>1, <2>2, <2>3 DEF ManualSample
  <1>8. budget' \in [Faults -> Nat] /\ Grows
    <2>1. Spend("resets") /\ "resets" \in Faults
      BY DEF ResetEngine, Faults
    <2> QED BY <2>1, SpendFacts DEF BaseInv, TypeOK
  <1>9. /\ raced' = TRUE /\ crossed' = (crossed \/ poll # Idle) /\ NoteCycle
        /\ ctr' = ctr /\ toner' = toner /\ chip' = chip /\ key' = key
        /\ slot' = slot /\ manual' = manual /\ disp' = disp /\ poll' = poll
        /\ fresh' = fresh /\ fills' = fills /\ reads' = reads /\ held' = held
    BY DEF ResetEngine, device
  <1> QED BY <1>1, <1>2, <1>3, <1>5, <1>6, <1>7, <1>8, <1>9

\* The slot a reset writes.
NewSlot ==
    [start |-> reset.total, toner |-> MaxLevel, cap |-> reset.cap, mode |-> "manual_reset",
     aligned |-> reset.raw # None /\ Distance(First(reset.raw, 0), MaxLevel) <= AlignTol,
     chipAt |-> reset.raw, frozenAt |-> None]

(* The second step of a reset. *)
LEMMA ResetStoreFacts ==
    ASSUME BaseInv, ResetStore
    PROVE  /\ reset \in Resets /\ reset # Idle /\ reset' = Idle
           /\ slot' = NewSlot /\ NewSlot \in Slots /\ slot' # None
           /\ manual' = [start |-> reset.total, toner |-> MaxLevel]
           /\ manual' \in [start : Nat, toner : Levels] /\ manual' # None
           /\ held' = (IF poll = Idle THEN reset.total ELSE None)
           /\ raced' = TRUE /\ crossed' = (crossed \/ poll # Idle)
           /\ ctr' = ctr /\ toner' = toner /\ chip' = chip /\ key' = key
           /\ row' = row /\ sample' = sample /\ disp' = disp /\ poll' = poll
           /\ fresh' = fresh /\ fills' = fills /\ reads' = reads /\ ended' = ended
           /\ budget' = budget
  <1>1. reset \in Resets /\ reset # Idle
    BY DEF ResetStore, BaseInv, TypeOK, Idle
  <1>2. NewSlot \in Slots
    BY <1>1, Constants DEF NewSlot, Slots, Resets, OrNone
  <1>3. [start |-> reset.total, toner |-> MaxLevel] \in [start : Nat, toner : Levels]
    BY <1>1, Constants DEF Resets
  <1> QED BY <1>1, <1>2, <1>3, LevelsAssumption DEF ResetStore, NewSlot, device

(* The end of the last cycle is a counter. *)
LEMMA NoteCycleType ==
    ASSUME NoteCycle, ended \in Nat, sample' \in OrNone(Samples), None \notin Samples,
           sample # None => sample' # None
    PROVE  /\ ended' \in Nat
           /\ sample' = None => ended' = ended
  BY DEF NoteCycle, Samples, OrNone

(* The history of the fills is of counters. *)
LEMMA NoteFillsType ==
    ASSUME NoteFills, fresh \in OrNone([at : Nat, shown : 0..1]), fills \subseteq Nat
    PROVE  fresh' \in OrNone([at : Nat, shown : 0..1]) /\ fills' \subseteq Nat
  BY DEF NoteFills, OrNone

(* The base holds at first, *)
LEMMA InitBase == ASSUME Init PROVE BaseInv
  <1>1. TypeOK
    BY Constants, LevelsAssumption DEF Init, TypeOK, OrNone
  <1>2. Rows
    BY DEF Init, Rows
  <1> QED BY <1>1, <1>2 DEF BaseInv

(* and every step keeps it. *)
LEMMA NextBase == ASSUME BaseInv, [Next]_vars PROVE BaseInv' /\ Grows
  <1>1. CASE UNCHANGED vars
    BY <1>1 DEF vars, device, program, history, BaseInv, TypeOK, Rows, Grows, Good, Linked
  <1>2. CASE Device
    <2>1. /\ SameProgram /\ SameHistory /\ Grows /\ budget' \in [Faults -> Nat]
          /\ ctr' \in Nat /\ ctr' >= ctr
          /\ toner' \in Levels /\ chip' \in OrNone(Levels) /\ key' \in Keys
          /\ fresh' = fresh \/ fresh' = Fresh
      BY <1>2, DeviceFacts DEF BaseInv
    <2>2. Fresh \in [at : Nat, shown : 0..1]
      BY DEF Fresh, BaseInv, TypeOK
    <2>3. TypeOK'
      BY <2>1, <2>2 DEF BaseInv, TypeOK, SameProgram, SameHistory, OrNone
    <2>4. Rows'
      BY <2>1 DEF BaseInv, TypeOK, Rows, SameProgram, SameHistory, Good, Linked, Polls, Displays, OrNone
    <2> QED BY <2>1, <2>3, <2>4 DEF BaseInv
  <1>3. CASE PollRead
    <2>1. TypeOK /\ Rows
      BY DEF BaseInv
    <2>2. TypeOK'
      <3>1. poll' \in Polls /\ poll'.level \in OrNone(Levels) /\ ctr \in Nat
        BY <1>3, <2>1, PollReadFacts DEF TypeOK, Polls
      <3>2. reads' \in [level : OrNone(Levels), since : Nat]
        BY <1>3, <2>1, <3>1, PollReadFacts DEF TypeOK
      <3>3. /\ ctr' \in Nat /\ toner' \in Levels /\ chip' \in OrNone(Levels) /\ key' \in Keys
            /\ row' \in OrNone(RowTypes) /\ sample' \in OrNone(Samples) /\ disp' \in OrNone(Displays)
            /\ manual' \in OrNone([start : Nat, toner : Levels])
            /\ reset' \in {Idle} \cup Resets /\ fills' \subseteq Nat /\ ended' \in Nat
            /\ fresh' \in OrNone([at : Nat, shown : 0..1])
        BY <1>3, <2>1, PollReadFacts DEF TypeOK
      <3>4. /\ slot' \in OrNone(Slots) /\ held' \in OrNone(Nat) /\ budget' \in [Faults -> Nat]
            /\ raced' \in BOOLEAN /\ crossed' \in BOOLEAN
        BY <1>3, <2>1, PollReadFacts DEF TypeOK, OrNone
      <3> QED BY <3>1, <3>2, <3>3, <3>4 DEF TypeOK
    <2> DEFINE old == Normalised(slot, manual)
    <2>3. old \in OrNone(Slots) /\ poll'.total \in Nat /\ poll'.level \in OrNone(Levels)
          /\ poll'.active = Evaluated(old, poll'.total, poll'.level)
      BY <1>3, <2>1, PollReadFacts, NormalisedType DEF TypeOK, Polls
    <2>4. poll'.active # None => old # None /\ poll'.total >= old.start
                                 /\ poll'.active = Aligned(old, poll'.total, poll'.level)
      BY <2>3, EvaluatedFacts
    <2>5. poll'.active # None => poll'.total >= poll'.active.start
      BY <2>3, <2>4, AlignedFacts DEF OrNone
    <2>6. poll'.total <= ctr
      BY <1>3, <2>1, PollReadFacts DEF TypeOK
    <2>7. row = None => poll'.active = None /\ slot' = None /\ poll'.saved = None
      <3>1. row = None => old = None
        BY <2>1, NormalisedType DEF Rows, TypeOK
      <3>2. row = None => poll'.active = None
        BY <2>4, <3>1
      <3>3. row = None => slot' = None
        BY <1>3, <2>1, <3>1, <3>2, PollReadFacts DEF Rows
      <3> QED BY <1>3, <2>1, <3>2, <3>3, PollReadFacts, NormalisedType DEF Rows, TypeOK, OrNone
    <2> HIDE DEF old
    <2>8. Rows'
      BY <1>3, <2>1, <2>5, <2>6, <2>7, PollReadFacts DEF Rows, Good, Linked
    <2> QED BY <1>3, <2>1, <2>2, <2>8, PollReadFacts DEF BaseInv
  <1>4. CASE PollRecord
    <2>1. /\ poll # Idle /\ Good(row') /\ row' # None
          /\ sample' \in OrNone(Samples) /\ (sample # None => sample' # None)
      BY <1>4, PollRecordRow
    <2>2. TypeOK /\ Rows /\ poll \in Polls
      BY <2>1 DEF BaseInv, TypeOK
    <2>3. slot' \in OrNone(Slots)
      BY <1>4, <2>1, <2>2, PollRecordFrame, SlotAfterPollType DEF TypeOK
    <2>4. disp' \in Displays /\ disp' # None /\ disp'.total = poll.total
      <3>1. disp' = [total |-> poll.total, raw |-> poll.level, key |-> poll.key, level |-> row'.cur]
        BY <1>4, PollRecordFrame
      <3>2. row'.cur \in OrNone(Levels)
        BY <2>1 DEF Good, RowTypes
      <3> QED BY <2>2, <3>1, <3>2, LevelsAssumption DEF Displays, Polls
    <2>5. fresh' \in OrNone([at : Nat, shown : 0..1]) /\ fills' \subseteq Nat
      BY <1>4, <2>2, PollRecordFrame, NoteFillsType DEF TypeOK
    <2>6. ended' \in Nat /\ (sample' = None => ended' = ended)
      BY <1>4, <2>1, <2>2, PollRecordFrame, NoteCycleType, LevelsAssumption DEF TypeOK
    <2>7. TypeOK'
      BY <1>4, <2>1, <2>2, <2>3, <2>4, <2>5, <2>6, PollRecordFrame DEF TypeOK, Good, OrNone
    <2>8. Rows'
      BY <1>4, <2>1, <2>2, <2>4, <2>6, PollRecordFrame DEF Rows, Good, Linked
    <2>9. Grows
      BY <1>4, <2>2, PollRecordFrame DEF Grows, TypeOK
    <2> QED BY <2>7, <2>8, <2>9 DEF BaseInv
  <1>5. CASE ResetEngine
    <2>1. TypeOK /\ Rows
      BY DEF BaseInv
    <2>2. /\ reset = Idle /\ disp # None /\ row # None /\ Good(row') /\ row' # None
          /\ sample' \in OrNone(Samples) /\ (sample # None => sample' # None)
          /\ reset' = [pc |-> "engine", total |-> disp.total, raw |-> disp.raw, cap |-> row'.cap]
          /\ budget' \in [Faults -> Nat] /\ Grows
          /\ raced' = TRUE /\ crossed' = (crossed \/ poll # Idle) /\ NoteCycle
          /\ ctr' = ctr /\ toner' = toner /\ chip' = chip /\ key' = key
          /\ slot' = slot /\ manual' = manual /\ disp' = disp /\ poll' = poll
          /\ fresh' = fresh /\ fills' = fills /\ reads' = reads /\ held' = held
      BY <1>5, ResetEngineFacts
    <2>3. reset' \in Resets
      BY <2>1, <2>2 DEF TypeOK, Displays, Resets, Good, RowTypes, OrNone
    <2>4. ended' \in Nat /\ (sample' = None => ended' = ended)
      BY <2>1, <2>2, NoteCycleType, LevelsAssumption DEF TypeOK
    <2>5. TypeOK'
      BY <2>1, <2>2, <2>3, <2>4 DEF TypeOK, Good, OrNone
    <2>6. Rows'
      BY <2>1, <2>2, <2>4 DEF Rows, Good, Linked
    <2> QED BY <2>2, <2>5, <2>6 DEF BaseInv
  <1>6. CASE ResetStore
    <2>1. TypeOK /\ Rows
      BY DEF BaseInv
    <2>2. TypeOK'
      BY <1>6, <2>1, ResetStoreFacts DEF TypeOK, Resets, OrNone
    <2>3. Rows'
      BY <1>6, <2>1, ResetStoreFacts DEF Rows, Good, Linked
    <2>4. Grows
      BY <1>6, <2>1, ResetStoreFacts DEF Grows, TypeOK
    <2> QED BY <2>2, <2>3, <2>4 DEF BaseInv
  <1> QED BY <1>1, <1>2, <1>3, <1>4, <1>5, <1>6 DEF Next

-----------------------------------------------------------------------------
(* What a poll does to a row, the facts of its branches in terms of the poll. *)
LEMMA ProcessedFacts ==
    ASSUME BaseInv, PollRecord, Processed
    PROVE  \E e :
             /\ Good(e) /\ StartsFrom(e, Input) /\ Effect(e, Input)
             /\ Given(Input) /\ Input.level = poll.level /\ Input.ctr = poll.total
             /\ (Input.quarantined <=> poll.active # None)
  <1>1. poll # Idle
    BY DEF PollRecord, Idle
  <1> QED BY <1>1, InputFacts DEF Processed

-----------------------------------------------------------------------------
(* A manual reset holds: after it, and until a release, the slot is its slot, the poll under
   way took that slot, and the display counts down from it. *)
HeldInv ==
    held # None =>
       /\ slot # None /\ slot.mode = "manual_reset" /\ slot.start = held
       /\ poll # Idle => poll.active = slot /\ poll.saved = slot
       /\ poll = Idle /\ ~raced => disp # None /\ disp.level = Virtual(slot, disp.total)

(* Every step keeps the level set by hand. *)
LEMMA HeldStep == ASSUME BaseInv, HeldInv, [Next]_vars PROVE HeldInv'
  <1>1. TypeOK /\ Rows
    BY DEF BaseInv
  <1>2. CASE UNCHANGED vars
    BY <1>2 DEF vars, device, program, history, HeldInv, Virtual, CapOf
  <1>3. CASE Device
    BY <1>1, <1>3, DeviceFacts DEF SameProgram, SameHistory, HeldInv
  <1>4. CASE PollRead
    <2>1. SUFFICES ASSUME held' # None PROVE HeldInv'
      BY DEF HeldInv
    <2> DEFINE old == Normalised(slot, manual)
    <2>2. /\ poll'.active # None /\ held' = held /\ held # None /\ poll' # Idle
          /\ poll'.active = Evaluated(old, poll'.total, poll'.level)
          /\ slot' = IF poll'.active = old THEN slot ELSE poll'.active
          /\ poll'.saved = Normalised(slot', manual)
          /\ poll'.total \in Nat /\ poll'.level \in OrNone(Levels)
      BY <1>1, <1>4, <2>1, PollReadFacts DEF Polls, Idle
    <2>3. slot \in Slots /\ old = slot /\ slot.mode = "manual_reset" /\ slot.start = held
      BY <1>1, <2>2 DEF HeldInv, TypeOK, OrNone, Normalised
    <2> HIDE DEF old
    <2>4. poll'.active = Aligned(slot, poll'.total, poll'.level)
      BY <2>2, <2>3, EvaluatedFacts DEF OrNone
    <2>5. /\ poll'.active.mode = "manual_reset" /\ poll'.active.start = held
      BY <2>2, <2>3, <2>4, AlignedFacts
    <2>6. slot' = poll'.active
      BY <2>2, <2>3
    <2>7. poll'.saved = slot'
      BY <2>2, <2>6 DEF Normalised
    <2> QED BY <2>2, <2>5, <2>6, <2>7 DEF HeldInv
  <1>5. CASE PollRecord
    <2>1. SUFFICES ASSUME held' # None PROVE HeldInv'
      BY DEF HeldInv
    <2>2. /\ held # None /\ poll # Idle /\ poll' = Idle /\ held' = held
          /\ slot' = SlotAfterPoll(row') /\ disp' # None
          /\ disp'.level = row'.cur /\ disp'.total = poll.total
      <3>1. disp' = [total |-> poll.total, raw |-> poll.level, key |-> poll.key, level |-> row'.cur]
            /\ poll # Idle /\ held' = held /\ poll' = Idle /\ slot' = SlotAfterPoll(row')
        BY <1>5, PollRecordRow, PollRecordFrame
      <3>2. BaseInv'
        BY <1>5, NextBase DEF Next
      <3>3. disp' # None
        BY <1>5, <3>2, PollRecordRow DEF BaseInv, Rows
      <3> QED BY <2>1, <3>1, <3>3
    <2>3. /\ slot # None /\ slot.mode = "manual_reset" /\ slot.start = held
          /\ poll.active = slot /\ poll.saved = slot /\ poll.active # None
      BY <2>2 DEF HeldInv
    <2>4. poll.total >= slot.start /\ poll \in Polls /\ slot \in Slots
      BY <1>1, <2>2, <2>3 DEF Rows, TypeOK, OrNone
    <2>5. slot' = slot
      BY <2>2, <2>3, <2>4 DEF SlotAfterPoll, FindsFrozen, ValidAfter, Polls, Slots
    <2>6. Processed
      <3>1. FirstSeen \/ Displayed \/ Processed
        BY <1>5, PollRecordRow
      <3> QED BY <1>1, <2>2, <2>3, <3>1 DEF FirstSeen, Displayed, Rows
    <2>7. row'.cur = Virtual(slot, poll.total)
      <3>1. PICK e : Effect(e, Input) /\ (Input.quarantined <=> poll.active # None)
        BY <1>5, <2>6, ProcessedFacts
      <3>2. Input.shown = Virtual(slot, poll.total)
        BY <2>2, <2>3, InputFacts
      <3> QED BY <2>3, <3>1, <3>2 DEF Effect, Reads
    <2> QED BY <2>2, <2>3, <2>5, <2>7 DEF HeldInv
  <1>6. CASE ResetEngine
    BY <1>6, ResetEngineFacts DEF HeldInv
  <1>7. CASE ResetStore
    <2>1. /\ slot' = NewSlot /\ slot' # None /\ held' = (IF poll = Idle THEN reset.total ELSE None)
          /\ raced' = TRUE /\ poll' = poll
      BY <1>7, ResetStoreFacts
    <2>2. NewSlot.mode = "manual_reset" /\ NewSlot.start = reset.total
      BY DEF NewSlot
    <2> QED BY <2>1, <2>2 DEF HeldInv
  <1> QED BY <1>2, <1>3, <1>4, <1>5, <1>6, <1>7 DEF Next

-----------------------------------------------------------------------------
(* When every total was read, counters are in order, and a fill that polls have shown is
   never inside a sample. *)
Ordered ==
    /\ poll # Idle /\ disp # None => disp.total <= poll.total
    /\ row # None => /\ row.lastCtr <= disp.total
                     /\ row.pend # None => row.pendCtr <= row.lastCtr
    /\ sample # None => sample.to <= disp.total
    /\ disp # None => ended <= disp.total
    /\ row # None /\ row.cycCtr # None => row.cycCtr >= ended

\* The last sample of a poll does not span the fill f.
NotSpanned(f) == sample # None /\ sample.kind = "poll" => ~(sample.from < f /\ f < sample.to)
\* A fill that polls have shown is behind the anchor.
FillSeen(f) ==
    /\ row # None /\ f <= disp.total /\ NotSpanned(f)
    /\ row.ancCtr = None \/ row.ancCtr >= f
\* A fill that is being shown is not behind the last sample, and a jump pends or is the anchor.
FreshSeen ==
    /\ fresh # None => fresh.at <= ctr /\ NotSpanned(fresh.at)
    /\ fresh # None /\ fresh.shown = 1 =>
          /\ row # None /\ fresh.at <= disp.total
          /\ row.pend # None \/ row.anc = None \/ row.anc >= row.last
\* All fills.
FillsSeen == (\A f \in fills : FillSeen(f)) /\ FreshSeen
\* If every total was read.
OrderedInv == Without({"zero"}) => Ordered /\ FillsSeen

(* If every total was read, it was so before the step. *)
LEMMA ZeroFree ==
    ASSUME BaseInv, Grows, Without({"zero"})' PROVE Without({"zero"}) /\ budget'["zero"] = 0
  <1>1. {"zero"} \in SUBSET Faults /\ budget \in [Faults -> Nat]
    BY DEF Faults, BaseInv, TypeOK
  <1>2. budget'["zero"] = 0 /\ (\A f \in {"zero"} : budget'[f] = 0)
    BY DEF Without
  <1> QED BY <1>1, <1>2, WithoutBefore

\* What a poll does, if its total was read: the counters of the row and of the sample.
LEMMA ProcessedCounters ==
    ASSUME BaseInv, PollRecord, Ordered, Processed
    PROVE  /\ row'.lastCtr <= poll.total
           /\ row'.pend # None => row'.pendCtr <= row'.lastCtr
           /\ row'.ancCtr = None \/ row'.ancCtr = poll.total \/ (row'.ancCtr = row.ancCtr /\ ~IsSwap(Input))
           /\ sample' # sample => sample' # None /\ sample'.to <= poll.total
           /\ sample' # sample /\ sample'.kind = "poll" =>
                 /\ poll.level # None /\ sample'.to = poll.total
                 /\ \/ sample'.from = poll.total
                    \/ /\ sample'.from = row.ancCtr /\ row.ancCtr \in Nat /\ ~IsSwap(Input)
                       /\ row.anc # None /\ row.anc > poll.level
           /\ sample' # sample /\ sample'.kind = "cycle" =>
                 /\ row'.cycCtr = poll.total
                 /\ sample'.from = poll.total \/ (sample'.from = row.cycCtr /\ row.cycCtr # None)
           /\ row'.cycCtr \in {row.cycCtr, poll.total}
           /\ sample' # sample => sample'.kind \in {"poll", "cycle"}
  <1>1. PICK e :
             /\ Good(e) /\ StartsFrom(e, Input) /\ Effect(e, Input)
             /\ Given(Input) /\ Input.level = poll.level /\ Input.ctr = poll.total
             /\ (Input.quarantined <=> poll.active # None)
    BY ProcessedFacts
  <1>2. /\ row # None /\ disp # None /\ Good(row) /\ disp.total \in Nat /\ poll # Idle
        /\ poll.total \in Nat /\ disp.total <= poll.total /\ row.lastCtr <= disp.total
        /\ row.lastCtr \in Nat /\ (row.pend # None => row.pendCtr \in Nat /\ row.pendCtr <= row.lastCtr)
    <2>1. poll # Idle /\ row # None /\ disp # None
      BY DEF Processed, PollRecord, Idle, BaseInv, Rows
    <2>2. disp.total \in Nat /\ poll.total \in Nat /\ Good(row) /\ row.lastCtr \in Nat
      BY <2>1 DEF BaseInv, TypeOK, Rows, Displays, Polls, OrNone, Good, RowTypes
    <2> QED BY <2>1, <2>2 DEF Ordered, Good, Linked, RowTypes, OrNone
  <1>3. /\ e.lastCtr \in Nat /\ e.lastCtr <= poll.total
        /\ e.pend # None => e.pendCtr \in Nat /\ e.pendCtr <= e.lastCtr
        /\ e.cycCtr \in {row.cycCtr, poll.total}
        /\ e.ancCtr = poll.total \/ (e.ancCtr = row.ancCtr /\ ~IsSwap(Input) /\ e.anc = row.anc)
    BY <1>1, <1>2 DEF StartsFrom, Same, Swapped
  <1>4. Moves(e, Input) /\ SamplesOf(e, Input)
    BY <1>1 DEF Effect
  <1>5. /\ row'.lastCtr <= poll.total
        /\ row'.pend # None => row'.pendCtr <= row'.lastCtr
    BY <1>1, <1>2, <1>3, <1>4 DEF Moves
  <1>6. row'.ancCtr = None \/ row'.ancCtr = poll.total \/ (row'.ancCtr = row.ancCtr /\ ~IsSwap(Input))
    BY <1>1, <1>3, <1>4 DEF Moves, Keeps, Anchors
  <1>7. row'.cycCtr \in {row.cycCtr, poll.total}
    BY <1>1, <1>3, <1>4 DEF Moves
  <1>8. CASE sample' = sample
    BY <1>5, <1>6, <1>7, <1>8
  <1>9. CASE PollSample(e, Input)
    <2>1. /\ sample'.kind = "poll" /\ sample'.to = poll.total /\ sample'.from = e.ancCtr
          /\ sample'.drop = e.anc - poll.level /\ sample'.drop \in 1..MaxLevel /\ e.anc # None
          /\ poll.level # None
          /\ sample' \in [kind : {"poll"}, from : Nat, to : Nat, drop : 1..MaxLevel]
      BY <1>1, <1>9 DEF PollSample
    <2>2. e.anc \in Levels /\ poll.level \in Levels /\ e.ancCtr \in Nat
      BY <1>1, <2>1 DEF Good, Linked, RowTypes, OrNone, Given
    <2>3. e.anc > poll.level
      BY <2>1, <2>2, Constants DEF Levels
    <2>4. sample' # None
      BY <2>1, LevelsAssumption DEF Samples
    <2> QED BY <1>2, <1>3, <1>5, <1>6, <1>7, <2>1, <2>2, <2>3, <2>4
  <1>10. CASE CycleSample(e, Input)
    <2>1. /\ sample'.kind = "cycle" /\ sample'.to = e.pendCtr /\ sample'.from = e.cycCtr
          /\ e.cycCtr # None /\ e.pend # None /\ row'.cycCtr = poll.total
          /\ sample' \in [kind : {"cycle"}, from : Nat, to : Nat, drop : 1..MaxLevel]
      BY <1>1, <1>10 DEF CycleSample
    <2>2. sample' # None
      BY <2>1, LevelsAssumption DEF Samples
    <2> QED BY <1>2, <1>3, <1>5, <1>6, <1>7, <2>1, <2>2
  <1> QED BY <1>4, <1>8, <1>9, <1>10 DEF SamplesOf

(* The counters of a new row. *)
LEMMA FirstSeenCounters ==
    ASSUME BaseInv, PollRecord, FirstSeen
    PROVE  /\ row = None /\ disp = None /\ sample = None /\ sample' = None /\ ended = 0
           /\ row'.lastCtr = poll.total /\ row'.pend = None
           /\ row'.cycCtr # None => row'.cycCtr = poll.total
  BY DEF FirstSeen, BaseInv, Rows

(* A poll keeps the order of the counters, and its cycle begins after the one before. *)
LEMMA OrderedPoll ==
    ASSUME BaseInv, PollRecord, Ordered
    PROVE  /\ Ordered'
           /\ sample' # sample /\ sample'.kind = "cycle" => sample'.from >= ended
  <1>1. /\ poll # Idle /\ poll \in Polls /\ poll.total \in Nat /\ poll' = Idle /\ row' # None
        /\ disp' # None
        /\ disp'.total = poll.total /\ NoteCycle /\ ended \in Nat
        /\ sample \in OrNone(Samples) /\ sample' \in OrNone(Samples) /\ Good(row')
        /\ (sample # None => sample' # None)
    <2>1. poll # Idle /\ row' # None /\ Good(row') /\ sample' \in OrNone(Samples)
          /\ (sample # None => sample' # None)
      BY PollRecordRow
    <2>2. BaseInv'
      BY NextBase DEF Next
    <2>3. disp' = [total |-> poll.total, raw |-> poll.level, key |-> poll.key, level |-> row'.cur]
          /\ poll' = Idle /\ NoteCycle
      BY PollRecordFrame
    <2> QED BY <2>1, <2>2, <2>3 DEF BaseInv, TypeOK, Rows, Polls
  <1>2. CASE FirstSeen
    <2>1. /\ sample' = None /\ sample = None /\ ended = 0 /\ row'.lastCtr = poll.total /\ row'.pend = None
          /\ row'.cycCtr # None => row'.cycCtr = poll.total
      BY <1>2, FirstSeenCounters
    <2>2. ended' = 0
      BY <1>1, <2>1 DEF NoteCycle
    <2> QED BY <1>1, <2>1, <2>2 DEF Ordered
  <1>3. CASE Displayed
    <2>1. /\ sample' = sample /\ row # None /\ disp # None
          /\ row'.lastCtr = row.lastCtr /\ row'.pend = row.pend /\ row'.pendCtr = row.pendCtr
          /\ row'.cycCtr = row.cycCtr
      BY <1>3 DEF Displayed, BaseInv, Rows
    <2>2. ended' = ended
      BY <2>1, <1>1 DEF NoteCycle
    <2>3. /\ disp.total \in Nat /\ disp.total <= poll.total /\ row.lastCtr \in Nat
          /\ sample # None => sample.to \in Nat
      BY <1>1, <2>1 DEF Ordered, BaseInv, TypeOK, Displays, OrNone, Samples, Rows, Good, RowTypes
    <2> QED BY <1>1, <2>1, <2>2, <2>3 DEF Ordered
  <1>4. CASE Processed
    <2>1. row # None /\ disp # None /\ disp.total \in Nat /\ disp.total <= poll.total
          /\ ended <= poll.total /\ (sample # None => sample.to \in Nat /\ sample.to <= disp.total)
          /\ (row.cycCtr # None => row.cycCtr \in Nat /\ row.cycCtr >= ended)
      <3>1. row # None /\ disp # None /\ Good(row) /\ disp.total \in Nat /\ disp.total <= poll.total
        BY <1>1, <1>4 DEF Processed, Ordered, BaseInv, TypeOK, Rows, Displays, OrNone
      <3> QED BY <1>1, <3>1 DEF Ordered, Samples, OrNone, Good, RowTypes
    <2>2. /\ row'.lastCtr <= poll.total
          /\ row'.pend # None => row'.pendCtr <= row'.lastCtr
          /\ sample' # sample => sample' # None /\ sample'.to <= poll.total
          /\ sample' # sample /\ sample'.kind = "cycle" =>
                 /\ row'.cycCtr = poll.total
                 /\ sample'.from = poll.total \/ (sample'.from = row.cycCtr /\ row.cycCtr # None)
          /\ row'.cycCtr \in {row.cycCtr, poll.total}
      BY <1>4, ProcessedCounters
    <2>3. sample' # None => sample'.to \in Nat /\ sample'.to <= poll.total
      BY <1>1, <2>1, <2>2 DEF Samples, OrNone
    <2>4. CASE sample' # sample /\ sample'.kind = "cycle"
      <3>1. ended' = sample'.to
        BY <1>1, <2>4 DEF NoteCycle
      <3>2. ended' <= poll.total /\ row'.cycCtr >= ended'
        BY <1>1, <2>2, <2>3, <2>4, <3>1
      <3> QED BY <1>1, <2>1, <2>2, <2>3, <2>4, <3>2 DEF Ordered
    <2>5. CASE ~(sample' # sample /\ sample'.kind = "cycle")
      <3>1. ended' = ended
        BY <1>1, <2>5 DEF NoteCycle
      <3>2. row'.cycCtr # None => row'.cycCtr >= ended
        BY <1>1, <2>1, <2>2
      <3> QED BY <1>1, <2>1, <2>2, <2>3, <2>5, <3>1, <3>2 DEF Ordered
    <2> QED BY <2>4, <2>5
  <1> QED BY <1>2, <1>3, <1>4, PollRecordRow

(* A poll keeps a fill behind the anchor. *)
LEMMA FillsPoll ==
    ASSUME BaseInv, PollRecord, Ordered, FillsSeen, NEW f \in Nat,
           row # None /\ f <= disp.total /\ (row.ancCtr = None \/ row.ancCtr >= f) /\ NotSpanned(f)
    PROVE  FillSeen(f)'
  <1>1. /\ poll # Idle /\ row' # None /\ disp' # None /\ disp'.total = poll.total /\ poll.total \in Nat
        /\ disp # None /\ disp.total \in Nat /\ disp.total <= poll.total
    <2>1. poll # Idle /\ row' # None
      BY PollRecordRow
    <2>2. disp' = [total |-> poll.total, raw |-> poll.level, key |-> poll.key, level |-> row'.cur]
      BY PollRecordFrame
    <2>3. BaseInv'
      BY NextBase DEF Next
    <2> QED BY <2>1, <2>2, <2>3 DEF BaseInv, TypeOK, Rows, Polls, Displays, OrNone, Ordered
  <1>2. f <= poll.total
    BY <1>1
  <1>3. CASE Displayed
    BY <1>1, <1>2, <1>3 DEF Displayed, FillSeen, NotSpanned
  <1>4. CASE Processed
    <2>1. /\ row'.ancCtr = None \/ row'.ancCtr = poll.total \/ row'.ancCtr = row.ancCtr
          /\ sample' # sample /\ sample'.kind = "poll" =>
                 /\ sample'.to = poll.total
                 /\ \/ sample'.from = poll.total
                    \/ sample'.from = row.ancCtr /\ row.ancCtr \in Nat
      BY <1>4, ProcessedCounters
    <2>2. row'.ancCtr = None \/ row'.ancCtr >= f
      BY <1>2, <2>1
    <2>3. NotSpanned(f)'
      <3>1. CASE sample' = sample
        BY <3>1 DEF NotSpanned
      <3>2. CASE sample' # sample /\ sample'.kind = "poll"
        <4>1. row.ancCtr \in Nat => row.ancCtr >= f
          BY Constants
        <4> QED BY <1>1, <1>2, <2>1, <3>2, <4>1 DEF NotSpanned
      <3> QED BY <3>1, <3>2 DEF NotSpanned
    <2> QED BY <1>1, <1>2, <2>2, <2>3 DEF FillSeen
  <1>5. ~FirstSeen
    BY DEF FirstSeen
  <1> QED BY <1>3, <1>4, <1>5, PollRecordRow

\* The fill that is about to be shown, when this poll shows it: from now on the row counts
\* from it or later, and the sample of this poll ended before it or begins with it.
LEMMA ShownNow ==
    ASSUME BaseInv, PollRecord, Ordered, FillsSeen, NEW f,
           fresh # None, fresh.at = f, poll.level # None, poll.total >= f,
           ShowsSwap \/ (ShowsJump /\ fresh.shown = 1)
    PROVE  FillSeen(f)'
  <1>1. /\ poll # Idle /\ row' # None /\ disp' # None /\ disp'.total = poll.total /\ poll.total \in Nat
        /\ poll.level \in Levels /\ f \in Nat
    <2>1. poll # Idle /\ row' # None
      BY PollRecordRow
    <2>2. disp' = [total |-> poll.total, raw |-> poll.level, key |-> poll.key, level |-> row'.cur]
      BY PollRecordFrame
    <2>3. BaseInv'
      BY NextBase DEF Next
    <2> QED BY <2>1, <2>2, <2>3 DEF BaseInv, TypeOK, Rows, Polls, OrNone
  <1>2. row # None /\ disp # None /\ disp.total <= poll.total /\ row.lastCtr <= disp.total
        /\ disp.total \in Nat /\ row.lastCtr \in Nat /\ Good(row)
    <2>1. row # None /\ disp # None
      BY DEF ShowsSwap, ShowsJump, BaseInv, Rows
    <2> QED BY <1>1, <2>1 DEF Ordered, BaseInv, TypeOK, Rows, Displays, OrNone, Good, RowTypes
  <1>3. Processed
    BY <1>1, <1>2, PollRecordRow DEF FirstSeen, Displayed
  <1>4. PICK e :
             /\ Good(e) /\ StartsFrom(e, Input) /\ Effect(e, Input)
             /\ Given(Input) /\ Input.level = poll.level /\ Input.ctr = poll.total
             /\ (Input.quarantined <=> poll.active # None)
    BY <1>3, ProcessedFacts
  <1>5. /\ row'.ancCtr = None \/ row'.ancCtr = poll.total \/ (row'.ancCtr = row.ancCtr /\ ~IsSwap(Input))
        /\ sample' # sample /\ sample'.kind = "poll" =>
                 /\ sample'.to = poll.total
                 /\ \/ sample'.from = poll.total
                    \/ /\ sample'.from = row.ancCtr /\ ~IsSwap(Input)
                       /\ row.anc # None /\ row.anc > poll.level
    BY <1>3, ProcessedCounters
  <1>6. NotSpanned(f)
    BY DEF FillsSeen, FreshSeen
  <1>7. CASE IsSwap(Input)
    <2>1. row'.ancCtr = None \/ row'.ancCtr >= f
      BY <1>1, <1>5, <1>7
    <2>2. NotSpanned(f)'
      BY <1>1, <1>5, <1>6, <1>7 DEF NotSpanned
    <2> QED BY <1>1, <2>1, <2>2 DEF FillSeen
  <1>8. CASE ~IsSwap(Input)
    <2>1. /\ ShowsJump /\ fresh.shown = 1
          /\ poll.active = None /\ row.anc # None /\ row.last # None
          /\ poll.level - row.anc >= RefillJump /\ row.last - poll.level \in 0..NoiseDrop
      BY <1>8 DEF ShowsSwap, ShowsJump
    <2>2. row.anc \in Nat /\ row.last \in Nat
      BY <1>2, <2>1, Constants DEF Good, RowTypes, OrNone, Levels
    <2>3. row.anc < poll.level /\ row.last >= poll.level
      BY <1>1, <2>1, <2>2, Constants DEF Levels
    <2>4. row.pend # None
      <3>1. row.pend # None \/ row.anc = None \/ row.anc >= row.last
        BY <2>1 DEF FillsSeen, FreshSeen
      <3> QED BY <1>1, <2>1, <2>2, <2>3, <3>1, Constants DEF Levels
    <2>5. e.pend = row.pend /\ e.anc = row.anc /\ e.last = row.last /\ e.lastCtr = row.lastCtr
      BY <1>4, <1>8 DEF StartsFrom, Swapped, Same
    <2>6. Input.ctr >= e.lastCtr
      BY <1>1, <1>2, <1>4, <2>5
    <2>7. Anchors(Input)
      BY <1>4, <2>1, <2>4, <2>5, <2>6 DEF Effect, Shows
    <2>8. row'.ancCtr >= f
      BY <1>1, <1>4, <2>7 DEF Anchors
    <2>9. sample' = sample \/ sample'.kind # "poll" \/ sample'.from = poll.total
      BY <1>1, <1>5, <2>2, <2>3, Constants DEF Levels
    <2>10. NotSpanned(f)'
      BY <1>1, <1>5, <1>6, <2>9 DEF NotSpanned
    <2> QED BY <1>1, <2>8, <2>10 DEF FillSeen
  <1> QED BY <1>7, <1>8

(* A poll keeps what is said of the fills. *)
LEMMA FreshPoll ==
    ASSUME BaseInv, PollRecord, Ordered, FillsSeen PROVE FillsSeen'
  <1>1. /\ poll # Idle /\ poll \in Polls /\ row' # None /\ disp' # None /\ disp'.total = poll.total
        /\ poll.total \in Nat
        /\ NoteFills /\ ctr' = ctr /\ poll.total <= ctr /\ ctr \in Nat
        /\ disp # None => disp.total \in Nat /\ disp.total <= poll.total
        /\ fills \subseteq Nat /\ (row # None <=> disp # None)
    <2>1. poll # Idle /\ row' # None
      BY PollRecordRow
    <2>2. disp' = [total |-> poll.total, raw |-> poll.level, key |-> poll.key, level |-> row'.cur]
          /\ ctr' = ctr /\ NoteFills
      BY PollRecordFrame
    <2>3. BaseInv'
      BY NextBase DEF Next
    <2> QED BY <2>1, <2>2, <2>3 DEF BaseInv, TypeOK, Rows, Polls, Displays, OrNone, Ordered
  <1>2. \A f \in fills : FillSeen(f)'
    <2>1. TAKE f \in fills
    <2>2. f \in Nat /\ FillSeen(f)
      BY <1>1 DEF FillsSeen
    <2> QED BY <2>2, FillsPoll DEF FillSeen
  <1>3. fresh # None => fresh \in [at : Nat, shown : 0..1] /\ fresh.at <= ctr /\ NotSpanned(fresh.at)
    BY DEF FillsSeen, FreshSeen, BaseInv, TypeOK, OrNone
  \* A poll that says nothing of the fill, or too early: no sample spans it.
  <1>4. ASSUME NEW f \in Nat, fresh # None, fresh.at = f, poll.level = None \/ poll.total < f \/ ShowsJump
        PROVE  NotSpanned(f)'
    <2>1. NotSpanned(f)
      BY <1>3, <1>4
    <2>2. CASE Processed
      <3>1. sample' # sample /\ sample'.kind = "poll" =>
              /\ poll.level # None /\ sample'.to = poll.total
              /\ \/ sample'.from = poll.total
                 \/ row.anc # None /\ row.anc > poll.level
        BY <2>2, ProcessedCounters
      <3>2. ShowsJump => ~(row.anc # None /\ row.anc > poll.level) \/ poll.level = None
        <4>1. row # None /\ row.anc # None => row.anc \in Levels
          BY DEF BaseInv, Rows, Good, RowTypes, OrNone
        <4>2. poll.level # None => poll.level \in Levels
          BY <1>1 DEF Polls, OrNone
        <4> QED BY <4>1, <4>2, Constants DEF ShowsJump, Levels
      <3> QED BY <1>1, <1>4, <2>1, <3>1, <3>2 DEF NotSpanned
    <2>3. CASE FirstSeen \/ Displayed
      BY <2>1, <2>3 DEF FirstSeen, Displayed, NotSpanned
    <2> QED BY <2>2, <2>3, PollRecordRow
  <1>5. CASE fresh = None \/ poll.level = None \/ poll.total < fresh.at
    <2>1. fresh' = fresh /\ fills' = fills
      BY <1>1, <1>5 DEF NoteFills
    <2>2. ASSUME fresh # None PROVE fresh'.at <= ctr' /\ NotSpanned(fresh.at)'
      <3>1. PICK f \in Nat : fresh.at = f
        BY <1>3, <2>2
      <3>2. NotSpanned(f)'
        BY <1>4, <1>5, <2>2, <3>1
      <3> QED BY <1>1, <1>3, <2>1, <2>2, <3>1, <3>2
    <2>3. ASSUME fresh # None, fresh.shown = 1
          PROVE  /\ fresh.at <= poll.total
                 /\ row'.pend # None \/ row'.anc = None \/ row'.anc >= row'.last
      <3>1. /\ row # None /\ fresh.at <= disp.total
            /\ row.pend # None \/ row.anc = None \/ row.anc >= row.last
        BY <2>3 DEF FillsSeen, FreshSeen
      <3>2. fresh.at <= poll.total /\ poll.level = None
        BY <1>1, <1>3, <1>5, <2>3, <3>1
      <3>3. CASE Displayed
        BY <3>1, <3>2, <3>3 DEF Displayed
      <3>4. CASE Processed
        <4>1. PICK e :
             /\ Good(e) /\ StartsFrom(e, Input) /\ Effect(e, Input)
             /\ Given(Input) /\ Input.level = poll.level /\ Input.ctr = poll.total
             /\ (Input.quarantined <=> poll.active # None)
          BY <3>4, ProcessedFacts
        <4>2. row'.anc = e.anc /\ row'.last = e.last /\ row'.pend = e.pend
          BY <3>2, <4>1 DEF Effect, Reads, Keeps
        <4>3. CASE Same(e, Input)
          BY <3>1, <3>2, <4>2, <4>3 DEF Same
        <4>4. CASE Swapped(e, Input)
          BY <3>2, <4>1, <4>2, <4>4 DEF Swapped
        <4> QED BY <4>1, <4>3, <4>4 DEF StartsFrom
      <3> QED BY <3>1, <3>3, <3>4, PollRecordRow DEF FirstSeen
    <2>4. FreshSeen'
      BY <1>1, <2>1, <2>2, <2>3 DEF FreshSeen
    <2> QED BY <1>2, <2>1, <2>4 DEF FillsSeen
  <1>6. CASE ~(fresh = None \/ poll.level = None \/ poll.total < fresh.at)
             /\ (ShowsSwap \/ (ShowsJump /\ fresh.shown = 1))
    <2>1. fresh' = None /\ fills' = fills \cup {fresh.at}
      BY <1>1, <1>6 DEF NoteFills
    <2>2. PICK f \in Nat : f = fresh.at
      BY <1>3, <1>6
    <2>3. FillSeen(f)'
      BY <1>1, <1>3, <1>6, <2>2, ShownNow
    <2> QED BY <1>2, <2>1, <2>2, <2>3 DEF FillsSeen, FreshSeen
  <1>7. CASE ~(fresh = None \/ poll.level = None \/ poll.total < fresh.at)
             /\ ~(ShowsSwap \/ (ShowsJump /\ fresh.shown = 1))
    <2>1. fills' = fills
      BY <1>1, <1>7 DEF NoteFills
    <2>2. CASE ~ShowsJump
      <3>1. fresh' = None
        BY <1>1, <1>7, <2>2 DEF NoteFills
      <3> QED BY <1>2, <2>1, <3>1 DEF FillsSeen, FreshSeen
    <2>3. CASE ShowsJump
      <3>1. fresh' = [fresh EXCEPT !.shown = 1] /\ fresh.shown = 0
        BY <1>1, <1>3, <1>7, <2>3 DEF NoteFills
      <3>2. PICK f \in Nat : f = fresh.at
        BY <1>3, <1>7
      <3>3. NotSpanned(f)'
        BY <1>4, <1>7, <2>3, <3>2
      <3>4. fresh'.at = f /\ f <= poll.total
        BY <1>1, <1>3, <1>7, <3>1, <3>2
      <3>5. /\ row # None /\ poll.active = None /\ row.anc # None /\ row.last # None
            /\ poll.level - row.last >= RefillJump /\ ~IsSwap(Input)
        BY <1>7, <2>3, <3>1 DEF ShowsJump, ShowsSwap
      <3>6. row'.pend # None \/ row'.anc = None \/ row'.anc >= row'.last
        <4>1. Processed
          BY <1>7, <3>5, PollRecordRow DEF FirstSeen, Displayed
        <4>2. PICK e :
             /\ Good(e) /\ StartsFrom(e, Input) /\ Effect(e, Input)
             /\ Given(Input) /\ Input.level = poll.level /\ Input.ctr = poll.total
             /\ (Input.quarantined <=> poll.active # None)
          BY <4>1, ProcessedFacts
        <4>3. Same(e, Input)
          BY <3>5, <4>2 DEF StartsFrom, Swapped
        <4>4. e.lastCtr <= Input.ctr
          <5>1. row.lastCtr \in Nat /\ row.lastCtr <= disp.total
            BY <3>5 DEF Ordered, BaseInv, Rows, Good, RowTypes
          <5> QED BY <1>1, <3>5, <4>2, <4>3, <5>1 DEF Same
        <4>5. row'.pend # None \/ row'.anc = row'.last
          BY <1>7, <3>5, <4>2, <4>3, <4>4 DEF Effect, Shows, Same, Given, Good, RowTypes
        <4>6. row'.anc # None => row'.anc \in Int
          <5>1. Good(row')
            BY PollRecordRow
          <5> QED BY <5>1 DEF Good, RowTypes, OrNone, Levels
        <4> QED BY <4>5, <4>6
      <3>7. FreshSeen'
        BY <1>1, <3>1, <3>2, <3>3, <3>4, <3>6 DEF FreshSeen
      <3> QED BY <1>2, <2>1, <3>7 DEF FillsSeen
    <2> QED BY <2>2, <2>3
  <1> QED BY <1>5, <1>6, <1>7

(* Every step keeps the order. *)
LEMMA OrderedStep ==
    ASSUME BaseInv, OrderedInv, [Next]_vars
    PROVE  /\ OrderedInv'
           /\ sample' # sample /\ sample'.kind = "cycle" /\ Without({"zero"}) => sample'.from >= ended
  <1>1. BaseInv' /\ Grows /\ TypeOK /\ Rows
    BY NextBase DEF BaseInv
  <1>2. Without({"zero"})' => Without({"zero"}) /\ budget'["zero"] = 0
    BY <1>1, ZeroFree
  <1>3. CASE UNCHANGED vars
    BY <1>2, <1>3 DEF vars, device, program, history, OrderedInv, Ordered, FillsSeen, FillSeen, FreshSeen,
                      NotSpanned, Without
  <1>4. CASE Device
    <2>1. /\ SameProgram /\ SameHistory /\ ctr' \in Nat /\ ctr' >= ctr
          /\ fresh' = fresh \/ (fresh' = Fresh /\ ctr' = ctr)
      BY <1>1, <1>4, DeviceFacts
    <2>2. SUFFICES ASSUME Without({"zero"}), Ordered, FillsSeen PROVE Ordered' /\ FillsSeen'
      BY <1>2, <2>1 DEF OrderedInv, SameProgram
    <2>3. Ordered'
      BY <2>1, <2>2 DEF Ordered, SameProgram, SameHistory
    <2>4. \A f \in fills : FillSeen(f)'
      BY <2>1, <2>2 DEF FillsSeen, FillSeen, NotSpanned, SameProgram
    <2>5. CASE fresh' = fresh
      <3>1. FreshSeen'
        <4>1. fresh # None => fresh.at \in Nat /\ ctr \in Nat
          BY <1>1 DEF TypeOK, OrNone
        <4> QED BY <2>1, <2>2, <2>5, <4>1 DEF FillsSeen, FreshSeen, NotSpanned, SameProgram
      <3> QED BY <2>1, <2>3, <2>4, <3>1 DEF FillsSeen, SameHistory
    <2>6. CASE fresh' = Fresh /\ ctr' = ctr
      <3>1. sample # None => sample.to <= ctr /\ sample.to \in Nat /\ ctr \in Nat
        <4>1. sample # None => disp # None /\ sample.to <= disp.total /\ disp.total <= ctr
          BY <1>1, <2>2 DEF Rows, Ordered
        <4> QED BY <1>1, <4>1 DEF TypeOK, Displays, Samples, OrNone
      <3>2. fresh'.at = ctr /\ fresh'.shown = 0 /\ sample' = sample
        BY <2>1, <2>6 DEF Fresh, SameProgram
      <3>3. FreshSeen'
        BY <1>1, <2>6, <3>1, <3>2 DEF FreshSeen, NotSpanned, TypeOK
      <3> QED BY <2>1, <2>3, <2>4, <3>3 DEF FillsSeen, SameHistory
    <2> QED BY <2>1, <2>5, <2>6
  <1>5. CASE PollRead
    <2>1. /\ poll' \in Polls /\ row' = row /\ sample' = sample /\ disp' = disp /\ fresh' = fresh
          /\ fills' = fills /\ ended' = ended /\ ctr' = ctr
          /\ poll'.total = ctr \/ budget'["zero"] > 0
      BY <1>1, <1>5, PollReadFacts
    <2>2. SUFFICES ASSUME Without({"zero"}), budget'["zero"] = 0, Ordered, FillsSeen
                   PROVE  Ordered' /\ FillsSeen'
      BY <1>2, <2>1 DEF OrderedInv
    <2>3. disp # None => disp.total <= poll'.total
      BY <1>1, <2>1, <2>2 DEF Rows
    <2>4. Ordered'
      BY <2>1, <2>2, <2>3 DEF Ordered
    <2>5. FillsSeen'
      BY <2>1, <2>2 DEF FillsSeen, FillSeen, FreshSeen, NotSpanned
    <2> QED BY <2>4, <2>5
  <1>6. CASE PollRecord
    <2>1. budget' = budget
      BY <1>6, PollRecordFrame
    <2>2. CASE ~Without({"zero"})
      BY <2>1, <2>2 DEF OrderedInv, Without
    <2>3. CASE Without({"zero"})
      BY <1>6, <2>3, OrderedPoll, FreshPoll DEF OrderedInv
    <2> QED BY <2>2, <2>3
  <1>7. CASE ResetEngine
    <2>1. PICK m : /\ m.ctr = disp.total /\ m.level = MaxLevel
                   /\ reset = Idle /\ disp # None /\ row # None
                   /\ Good(row') /\ row' # None /\ Anchors(m) /\ row'.lastCtr = m.ctr
                   /\ row'.cycCtr = m.ctr /\ row'.pend = None /\ ManualSample(m)
                   /\ (sample # None => sample' # None) /\ NoteCycle
                   /\ ctr' = ctr /\ disp' = disp /\ poll' = poll /\ fresh' = fresh /\ fills' = fills
      BY <1>7, ResetEngineFacts
    <2>2. SUFFICES ASSUME Without({"zero"}), Ordered, FillsSeen
                   PROVE  /\ Ordered' /\ FillsSeen'
                          /\ sample' # sample /\ sample'.kind = "cycle" => sample'.from >= ended
      BY <1>2 DEF OrderedInv
    <2>3. disp.total \in Nat /\ ended \in Nat /\ Good(row)
      BY <1>1, <2>1 DEF TypeOK, Rows, Displays, OrNone
    <2>4. /\ sample' = sample \/ /\ sample' # None /\ sample'.to = disp.total
                                 /\ sample'.kind \in {"bound", "cycle"}
                                 /\ sample'.kind = "cycle" => sample'.from = row.cycCtr /\ row.cycCtr # None
          /\ ended' = ended \/ ended' = disp.total
      <3>1. CASE sample' = sample
        BY <2>1, <3>1 DEF NoteCycle
      <3>2. CASE sample' \in [kind : {"bound"}, from : Nat, to : {m.ctr}, drop : 1..MaxLevel]
        <4>1. sample' \in Samples
          BY <2>1, <2>3, <3>2 DEF Samples
        <4> QED BY <2>1, <3>2, <4>1, LevelsAssumption DEF NoteCycle
      <3>3. CASE /\ row # None /\ row.cycCtr # None
                 /\ sample' \in [kind : {"cycle"}, from : {row.cycCtr}, to : {m.ctr}, drop : 1..MaxLevel]
        <4>1. row.cycCtr \in Nat
          BY <2>3, <3>3 DEF Good, RowTypes, OrNone
        <4>2. sample' \in Samples
          BY <2>1, <2>3, <3>3, <4>1 DEF Samples
        <4> QED BY <2>1, <3>3, <4>2, LevelsAssumption DEF NoteCycle
      <3> QED BY <2>1, <3>1, <3>2, <3>3 DEF ManualSample
    <2>5. Ordered'
      <3>1. ended' <= disp.total
        BY <2>1, <2>2, <2>3, <2>4 DEF Ordered
      <3>2. sample' # None => sample'.to <= disp.total
        BY <2>1, <2>2, <2>3, <2>4 DEF Ordered
      <3> QED BY <2>1, <2>2, <2>3, <3>1, <3>2 DEF Ordered
    <2>6. \A f \in fills : FillSeen(f)'
      <3>1. TAKE f \in fills
      <3>2. FillSeen(f)
        BY <2>2 DEF FillsSeen
      <3>3. f <= disp.total /\ row'.ancCtr = disp.total
        BY <2>1, <3>2 DEF FillSeen, Anchors
      <3> QED BY <2>1, <2>4, <3>2, <3>3 DEF FillSeen, NotSpanned
    <2>7. FreshSeen'
      <3>1. row'.anc = row'.last /\ row'.anc = MaxLevel
        BY <2>1 DEF Anchors
      <3>2. MaxLevel >= MaxLevel
        BY Constants
      <3> QED BY <2>1, <2>2, <2>4, <3>1, <3>2 DEF FillsSeen, FreshSeen, NotSpanned
    <2>8. sample' # sample /\ sample'.kind = "cycle" => sample'.from >= ended
      BY <2>1, <2>2, <2>4 DEF Ordered
    <2> QED BY <2>1, <2>5, <2>6, <2>7, <2>8 DEF FillsSeen
  <1>8. CASE ResetStore
    <2>1. /\ row' = row /\ sample' = sample /\ disp' = disp /\ poll' = poll
          /\ fresh' = fresh /\ fills' = fills /\ ended' = ended /\ ctr' = ctr /\ budget' = budget
      BY <1>8, ResetStoreFacts
    <2> QED BY <2>1 DEF OrderedInv, Ordered, FillsSeen, FillSeen, FreshSeen, NotSpanned, Without
  <1> QED BY <1>3, <1>4, <1>5, <1>6, <1>7, <1>8 DEF Next

-----------------------------------------------------------------------------
(* While no level rises, by a fill or by a wrong reading, and every total is read, the level
   read last is no higher than the anchor; and if they are equal, the anchor is at least as
   young as the first reading of that level. *)
Falling ==
    /\ chip # None => toner <= chip
    /\ reads.since <= ctr
    /\ reads.level # None => Reading <= reads.level
    /\ reads.level = MaxLevel => reads.since = 0
    /\ poll # Idle /\ poll.level # None => reads.level = poll.level
    /\ poll # Idle => reads.since <= poll.total
\* An anchor is above the level read last, or younger than its first reading.
AnchorAbove(anc, at) ==
    anc # None =>
       /\ reads.level = None => anc = MaxLevel
       /\ reads.level # None => anc >= reads.level
       /\ anc = reads.level => at >= reads.since
\* As long as no level rose and every total was read.
FallingInv ==
    NothingRose /\ Without({"zero"}) => Falling /\ (row # None => AnchorAbove(row.anc, row.ancCtr))

(* If no level rose, none had risen before the step. *)
LEMMA RoseBefore ==
    ASSUME BaseInv, Grows, NothingRose', Without({"zero"})'
    PROVE  /\ NothingRose /\ Without({"zero"})
           /\ \A f \in {"up", "down", "fills", "replaced", "zero"} : budget'[f] = 0
  <1>1. /\ {"zero"} \in SUBSET Faults /\ {"up", "down", "fills", "replaced"} \in SUBSET Faults
        /\ budget \in [Faults -> Nat]
    BY DEF Faults, BaseInv, TypeOK
  <1>2. /\ \A f \in {"zero"} : budget'[f] = 0
        /\ \A f \in {"up", "down", "fills", "replaced"} : budget'[f] = 0
    BY DEF Without, NothingRose
  <1> QED BY <1>1, <1>2, WithoutBefore DEF NothingRose

(* A poll keeps the anchor above the level, and calls a chip frozen only after FreezePages. *)
LEMMA FallingPoll ==
    ASSUME BaseInv, PollRecord, Falling, row # None => AnchorAbove(row.anc, row.ancCtr)
    PROVE  /\ AnchorAbove(row'.anc, row'.ancCtr)
           /\ CallsFrozen => StuckForPages
  <1>1. /\ poll # Idle /\ poll \in Polls /\ Good(row') /\ poll.level \in OrNone(Levels)
        /\ poll.total \in Nat
        /\ reads.since \in Nat /\ reads.level \in OrNone(Levels)
        /\ reads.since <= poll.total /\ (poll.level # None => reads.level = poll.level)
    <2>1. poll # Idle /\ Good(row')
      BY PollRecordRow
    <2> QED BY <2>1 DEF BaseInv, TypeOK, Polls, Falling
  <1>2. CASE FirstSeen
    <2>1. /\ row'.anc \in {poll.level, None} /\ ~Found(row')
          /\ row'.anc # None => row'.ancCtr = poll.total
      BY <1>2 DEF FirstSeen
    <2>2. AnchorAbove(row'.anc, row'.ancCtr)
      BY <1>1, <2>1, Constants DEF AnchorAbove, OrNone, Levels
    <2>3. ~CallsFrozen
      BY <2>1 DEF CallsFrozen, Found
    <2> QED BY <2>2, <2>3
  <1>3. CASE Displayed
    BY <1>3 DEF Displayed, CallsFrozen
  <1>4. CASE Processed
    <2>1. PICK e :
             /\ Good(e) /\ StartsFrom(e, Input) /\ Effect(e, Input)
             /\ Given(Input) /\ Input.level = poll.level /\ Input.ctr = poll.total
             /\ (Input.quarantined <=> poll.active # None)
      BY <1>4, ProcessedFacts
    <2>2. row # None /\ AnchorAbove(row.anc, row.ancCtr) /\ Good(row)
      BY <1>4 DEF Processed, BaseInv, Rows
    <2>3. poll.level # None => AnchorAbove(poll.level, poll.total)
      BY <1>1, Constants DEF AnchorAbove, OrNone, Levels
    <2>4. AnchorAbove(e.anc, e.ancCtr)
      <3>1. CASE Same(e, Input)
        BY <2>2, <3>1 DEF Same
      <3>2. CASE Swapped(e, Input)
        <4>1. e.anc = poll.level /\ e.ancCtr = poll.total
          BY <2>1, <3>2 DEF Swapped
        <4>2. CASE poll.level # None
          BY <2>3, <4>1, <4>2
        <4>3. CASE poll.level = None
          BY <4>1, <4>3 DEF AnchorAbove
        <4> QED BY <4>2, <4>3
      <3> QED BY <2>1, <3>1, <3>2 DEF StartsFrom
    <2>5. AnchorAbove(row'.anc, row'.ancCtr)
      BY <2>1, <2>3, <2>4 DEF Effect, Moves, Keeps, Anchors
    <2>6. ASSUME CallsFrozen PROVE StuckForPages
      <3>1. Found(row') /\ ~Found(row) /\ poll.active = None
        BY <2>2, <2>6 DEF CallsFrozen, Found
      <3>2. ~Found(e)
        BY <2>1, <3>1 DEF StartsFrom, Same, Swapped
      <3>3. poll.level # None /\ e.anc # None /\ e.anc <= poll.level /\ poll.total - e.ancCtr >= FreezePages
        BY <2>1, <3>1, <3>2 DEF Effect, Freezes
      <3>4. e.anc \in Levels /\ e.ancCtr \in Nat
        BY <2>1, <3>3 DEF Good, Linked, RowTypes, OrNone
      <3>5. e.anc = reads.level /\ e.ancCtr >= reads.since
        BY <1>1, <2>4, <3>3, <3>4, Constants DEF AnchorAbove, OrNone, Levels
      <3> QED BY <1>1, <3>3, <3>4, <3>5, Constants DEF StuckForPages
    <2> QED BY <2>5, <2>6
  <1> QED BY <1>2, <1>3, <1>4, PollRecordRow DEF Displayed

(* Every step keeps the levels falling. *)
LEMMA FallingStep ==
    ASSUME BaseInv, FallingInv, [Next]_vars
    PROVE  /\ FallingInv'
           /\ CallsFrozen /\ NothingRose /\ Without({"zero"}) => StuckForPages
  <1>1. BaseInv' /\ Grows /\ TypeOK /\ Rows
    BY NextBase DEF BaseInv
  <1>2. NothingRose' /\ Without({"zero"})' =>
           /\ NothingRose /\ Without({"zero"})
           /\ \A f \in {"up", "down", "fills", "replaced", "zero"} : budget'[f] = 0
    BY <1>1, RoseBefore
  <1>3. Reading \in Levels /\ ctr \in Nat /\ reads.since \in Nat /\ reads.level \in OrNone(Levels)
    BY <1>1, ReadingType DEF TypeOK
  <1>4. CASE UNCHANGED vars
    BY <1>2, <1>4 DEF vars, device, program, history, FallingInv, Falling, AnchorAbove, Reading,
                      Without, NothingRose, CallsFrozen
  <1>5. CASE Device
    <2>1. /\ SameProgram /\ SameHistory /\ ctr' \in Nat /\ ctr' >= ctr
          /\ budget'["fills"] = 0 /\ budget'["replaced"] = 0 /\ (chip # None => toner <= chip)
                => Reading' <= Reading /\ (chip' # None => toner' <= chip')
      BY <1>1, <1>5, DeviceFacts
    <2>2. ~CallsFrozen
      BY <2>1 DEF CallsFrozen, SameProgram
    <2>3. SUFFICES ASSUME Falling, row # None => AnchorAbove(row.anc, row.ancCtr),
                          budget'["fills"] = 0, budget'["replaced"] = 0
                   PROVE  Falling' /\ (row' # None => AnchorAbove(row.anc, row.ancCtr)')
      BY <1>2, <2>2 DEF FallingInv
    <2>4. Reading' <= Reading /\ (chip' # None => toner' <= chip') /\ Reading' \in Levels
      <3>1. Reading' \in Levels
        BY <1>1 DEF BaseInv, TypeOK, Reading, OrNone
      <3> QED BY <2>1, <2>3, <3>1 DEF Falling
    <2>5. reads.level # None => Reading' <= reads.level
      BY <1>3, <2>3, <2>4, Constants DEF Falling, Levels, OrNone
    <2> QED BY <1>3, <2>1, <2>3, <2>4, <2>5 DEF Falling, AnchorAbove, SameProgram, SameHistory
  <1>6. CASE PollRead
    <2>1. /\ poll = Idle /\ poll' \in Polls /\ row' = row
          /\ poll'.total = ctr \/ budget'["zero"] > 0
          /\ poll'.level # None => \/ poll'.level = Reading
                                   \/ budget'["up"] > 0 \/ budget'["down"] > 0
          /\ reads' = IF poll'.level \in {None, reads.level} THEN reads
                      ELSE [level |-> poll'.level, since |-> IF reads.level = None THEN 0 ELSE ctr]
          /\ ctr' = ctr /\ toner' = toner /\ chip' = chip
      BY <1>1, <1>6, PollReadFacts
    <2>2. ~CallsFrozen
      BY <2>1 DEF CallsFrozen
    <2>3. SUFFICES ASSUME Falling, row # None => AnchorAbove(row.anc, row.ancCtr),
                          \A f \in {"up", "down", "zero"} : budget'[f] = 0
                   PROVE  Falling' /\ (row' # None => AnchorAbove(row.anc, row.ancCtr)')
      BY <1>2, <2>2 DEF FallingInv
    <2>4. poll'.total = ctr /\ (poll'.level # None => poll'.level = Reading)
      BY <2>1, <2>3
    <2>5. Reading' = Reading
      BY <2>1 DEF Reading
    <2>6. CASE poll'.level \in {None, reads.level}
      <3>1. reads' = reads
        BY <2>1, <2>6
      <3> QED BY <2>1, <2>3, <2>4, <2>5, <2>6, <3>1 DEF Falling, AnchorAbove
    <2>7. CASE poll'.level \notin {None, reads.level}
      <3>1. /\ reads'.level = poll'.level /\ poll'.level = Reading
            /\ reads'.since = IF reads.level = None THEN 0 ELSE ctr
        BY <2>1, <2>4, <2>7
      <3>2. reads.level # None => Reading < reads.level
        BY <1>3, <2>3, <2>7, <3>1, Constants DEF Falling, Levels, OrNone
      <3>3. Falling'
        BY <1>3, <2>1, <2>3, <2>4, <2>5, <3>1, <3>2, Constants DEF Falling, Levels, OrNone
      <3>4. row # None /\ row.anc # None => row.anc \in Levels /\ row.ancCtr \in Nat
        BY <1>1 DEF Rows, Good, Linked, RowTypes, OrNone
      <3>5. row # None => AnchorAbove(row.anc, row.ancCtr)'
        BY <1>3, <2>1, <2>3, <3>1, <3>2, <3>4, Constants DEF AnchorAbove, Levels, OrNone
      <3> QED BY <2>1, <3>3, <3>5
    <2> QED BY <2>6, <2>7
  <1>7. CASE PollRecord
    <2>1. /\ poll' = Idle /\ ctr' = ctr /\ toner' = toner /\ chip' = chip /\ reads' = reads
          /\ budget' = budget
      BY <1>7, PollRecordFrame
    <2>2. CASE ~(NothingRose /\ Without({"zero"}))
      BY <2>1, <2>2 DEF FallingInv, NothingRose, Without
    <2>3. CASE NothingRose /\ Without({"zero"})
      <3>1. AnchorAbove(row'.anc, row'.ancCtr) /\ (CallsFrozen => StuckForPages) /\ Falling
        BY <1>7, <2>3, FallingPoll DEF FallingInv
      <3>2. Falling' /\ AnchorAbove(row.anc, row.ancCtr)'
        BY <2>1, <3>1 DEF Falling, AnchorAbove, Reading
      <3> QED BY <3>1, <3>2 DEF FallingInv
    <2> QED BY <2>2, <2>3
  <1>8. CASE ResetEngine
    <2>1. PICK m : /\ m.ctr = disp.total /\ m.level = MaxLevel /\ Anchors(m) /\ ~Found(row')
                   /\ ctr' = ctr /\ toner' = toner /\ chip' = chip /\ reads' = reads /\ poll' = poll
                   /\ disp # None
      BY <1>8, ResetEngineFacts
    <2>2. ~CallsFrozen
      BY <2>1 DEF CallsFrozen, Found
    <2>3. SUFFICES ASSUME Falling PROVE Falling' /\ AnchorAbove(row.anc, row.ancCtr)'
      BY <1>2, <2>2 DEF FallingInv
    <2>4. disp.total \in Nat /\ row'.anc = MaxLevel /\ row'.ancCtr = disp.total
      BY <1>1, <2>1 DEF TypeOK, Displays, OrNone, Anchors
    <2>5. Falling'
      BY <2>1, <2>3 DEF Falling, Reading
    <2>6. AnchorAbove(row.anc, row.ancCtr)'
      BY <1>3, <2>1, <2>3, <2>4, Constants DEF AnchorAbove, Falling, OrNone, Levels
    <2> QED BY <2>5, <2>6
  <1>9. CASE ResetStore
    <2>1. row' = row /\ poll' = poll /\ reads' = reads /\ budget' = budget
          /\ ctr' = ctr /\ toner' = toner /\ chip' = chip
      BY <1>9, ResetStoreFacts
    <2> QED BY <2>1 DEF FallingInv, Falling, AnchorAbove, Reading, NothingRose, Without, CallsFrozen
  <1> QED BY <1>4, <1>5, <1>6, <1>7, <1>8, <1>9 DEF Next

-----------------------------------------------------------------------------
(* While the chip tells no level other than its own and no poll crosses a reset, a level that
   the program holds, plus the counter it belongs to, is no more than what the chip tells now
   plus the counter now: for the anchor of the row, up to the tolerance of a reset, or else a
   reset put the anchor there and its slot keeps every poll from counting a drop from it. *)
Told == Reading + ctr
\* A level read at a counter claims no more than the chip tells.
Honest(lvl, total) == lvl # None => lvl + total <= Told
\* The anchor claims no more than that, up to the tolerance of a reset.
OnTrack == row.anc + row.ancCtr <= Told + AlignTol
\* The slot of the last reset, while the chip is not taken for the real level.
Shield ==
    /\ slot # None /\ slot.mode = "manual_reset" /\ slot.start = row.ancCtr /\ slot.toner = MaxLevel
    /\ slot.aligned => MaxLevel + slot.start <= Told + AlignTol
\* The anchor of a reset may claim more as long as no level is compared with it.
Shielded ==
    /\ row.anc = MaxLevel /\ row.lastCtr >= row.ancCtr
    /\ \/ reset # Idle
       \/ poll = Idle /\ Shield
       \/ poll # Idle /\ Shield /\ poll.active = slot /\ poll.saved = slot
       \/ poll # Idle /\ poll.active = None /\ poll.level # None /\ poll.total < row.lastCtr
\* A level that is about to be compared is older than the anchor or not below its claim.
Judged ==
    poll # Idle /\ poll.active = None /\ poll.level # None /\ poll.total >= row.lastCtr =>
        \/ poll.total <= row.ancCtr
        \/ row.anc + row.ancCtr <= poll.level + poll.total + AlignTol
\* All of it.
Tracks ==
    /\ poll # Idle => Honest(poll.level, poll.total)
    /\ disp # None => Honest(disp.raw, disp.total)
    /\ reset # Idle => /\ poll = Idle /\ Honest(reset.raw, reset.total)
                       /\ row.anc = MaxLevel /\ row.ancCtr = reset.total /\ row.lastCtr >= row.ancCtr
    /\ row # None => row.lastCtr <= ctr
    /\ row # None /\ row.anc # None => (OnTrack \/ Shielded) /\ Judged
\* If no reading was wrong, the chip did not jump and no poll crossed a reset.
TracksInv == Without({"up", "down", "thaw"}) /\ ~crossed => Tracks

(* If that has not happened after a step, it had not before. *)
LEMMA ToldBefore ==
    ASSUME BaseInv, Grows, Without({"up", "down", "thaw"})'
    PROVE  /\ Without({"up", "down", "thaw"})
           /\ \A f \in {"up", "down", "thaw"} : budget'[f] = 0
  <1>1. {"up", "down", "thaw"} \in SUBSET Faults /\ budget \in [Faults -> Nat]
    BY DEF Faults, BaseInv, TypeOK
  <1>2. \A f \in {"up", "down", "thaw"} : budget'[f] = 0
    BY DEF Without
  <1> QED BY <1>1, <1>2, WithoutBefore

(* The numbers in these claims. *)
LEMMA ToldType ==
    ASSUME BaseInv
    PROVE  /\ Told \in Nat /\ Reading \in Levels /\ ctr \in Nat /\ AlignTol \in Nat
           /\ row # None /\ row.anc # None => row.anc \in Nat /\ row.ancCtr \in Nat /\ row.lastCtr \in Nat
           /\ row # None => row.lastCtr \in Nat
           /\ poll # Idle => poll \in Polls /\ poll.total \in Nat /\ (poll.level # None => poll.level \in Levels)
           /\ disp # None => disp.total \in Nat /\ (disp.raw # None => disp.raw \in Levels)
           /\ reset # Idle => reset.total \in Nat /\ (reset.raw # None => reset.raw \in Levels)
           /\ slot # None => slot \in Slots /\ slot.start \in Nat /\ slot.toner \in Levels
  <1>1. TypeOK /\ Rows
    BY DEF BaseInv
  <1>2. Reading \in Levels /\ ctr \in Nat /\ AlignTol \in Nat
    BY <1>1, ReadingType, OverrideAssumption DEF TypeOK
  <1>3. Told \in Nat
    BY <1>2, Constants DEF Told, Levels
  <1>4. row # None => /\ row.lastCtr \in Nat
                      /\ row.anc # None => row.anc \in Nat /\ row.ancCtr \in Nat
    BY <1>1, Constants DEF Rows, Good, Linked, RowTypes, OrNone, Levels
  <1>5. /\ poll # Idle => poll \in Polls /\ poll.total \in Nat /\ (poll.level # None => poll.level \in Levels)
        /\ disp # None => disp.total \in Nat /\ (disp.raw # None => disp.raw \in Levels)
        /\ reset # Idle => reset.total \in Nat /\ (reset.raw # None => reset.raw \in Levels)
    BY <1>1 DEF TypeOK, Polls, Displays, Resets, OrNone
  <1>6. slot # None => slot \in Slots /\ slot.start \in Nat /\ slot.toner \in Levels
    BY <1>1 DEF TypeOK, OrNone, Slots
  <1> QED BY <1>2, <1>3, <1>4, <1>5, <1>6

\* What holds of the program goes on holding while the device works.
LEMMA TracksDevice ==
    ASSUME BaseInv, BaseInv', Tracks, SameProgram, ctr' >= ctr, Told' >= Told
    PROVE  Tracks'
  <1>1. /\ Told \in Nat /\ Told' \in Nat /\ AlignTol \in Nat /\ ctr \in Nat /\ ctr' \in Nat
        /\ row # None /\ row.anc # None => row.anc \in Nat /\ row.ancCtr \in Nat
        /\ row # None => row.lastCtr \in Nat
        /\ poll # Idle => poll.total \in Nat /\ (poll.level # None => poll.level \in Nat)
        /\ disp # None => disp.total \in Nat /\ (disp.raw # None => disp.raw \in Nat)
        /\ reset # Idle => reset.total \in Nat /\ (reset.raw # None => reset.raw \in Nat)
        /\ slot # None => slot.start \in Nat
    <2>1. Told' \in Nat /\ ctr' \in Nat
      <3>1. ctr' \in Nat /\ toner' \in Levels /\ chip' \in OrNone(Levels)
        BY DEF BaseInv, TypeOK
      <3>2. Reading' \in Nat
        <4>1. Reading' \in Levels
          BY <3>1 DEF Reading, OrNone
        <4> QED BY <4>1, Constants
      <3>3. \A a \in Nat, b \in Nat : a + b \in Nat
        OBVIOUS
      <3>4. Told' = Reading' + ctr'
        BY DEF Told, Reading
      <3> QED BY <3>1, <3>2, <3>3, <3>4
    <2> QED BY <2>1, ToldType, Constants DEF Levels
  <1>2. \A l \in Nat, t \in Nat : l + t <= Told => l + t <= Told'
    BY <1>1
  <1>3. /\ poll' # Idle => Honest(poll.level, poll.total)'
        /\ disp' # None => Honest(disp.raw, disp.total)'
        /\ reset' # Idle => Honest(reset.raw, reset.total)'
    BY <1>1, <1>2 DEF Tracks, Honest, SameProgram
  <1>4. row # None => row.lastCtr <= ctr'
    BY <1>1 DEF Tracks
  <1>5. row # None /\ row.anc # None /\ OnTrack => OnTrack'
    BY <1>1 DEF OnTrack, SameProgram
  <1>6. Shield => Shield'
    <2>1. SUFFICES ASSUME Shield PROVE Shield'
      OBVIOUS
    <2>2. slot.aligned => MaxLevel + slot.start <= Told' + AlignTol
      BY <1>1, <2>1, Constants DEF Shield
    <2> QED BY <2>1, <2>2 DEF Shield, SameProgram
  <1>7. Shielded => Shielded'
    BY <1>6 DEF Shielded, SameProgram
  <1>8. Judged => Judged'
    BY DEF Judged, SameProgram
  <1> QED BY <1>3, <1>4, <1>5, <1>7, <1>8 DEF Tracks, SameProgram

\* A slot that was set by hand and found aligned: what the chip tells covers it.
LEMMA AlignedCovers ==
    ASSUME NEW s \in Slots, NEW total \in Nat, NEW lvl \in OrNone(Levels), AlignTol \in Nat,
           NEW told \in Nat, s.toner = MaxLevel, lvl # None => lvl + total <= told, total >= s.start,
           s.aligned => MaxLevel + s.start <= told + AlignTol,
           Aligned(s, total, lvl).aligned
    PROVE  MaxLevel + s.start <= told + AlignTol
  <1>1. s.aligned \/ Aligns(s, total, lvl)
    BY AlignedFacts
  <1>2. ASSUME Aligns(s, total, lvl) PROVE MaxLevel + s.start <= told + AlignTol
    <2>1. lvl \in Levels /\ Distance(lvl, MaxLevel) <= AlignTol /\ s.start \in Nat
      BY <1>2 DEF Aligns, OrNone, Slots
    <2>2. MaxLevel <= lvl + AlignTol
      BY <2>1, Constants DEF Distance, Levels
    <2> QED BY <2>1, <2>2, Constants DEF Levels
  <1> QED BY <1>1, <1>2

(* The first step of a poll keeps it. *)
LEMMA TracksRead ==
    ASSUME BaseInv, Tracks, PollRead, ~crossed', \A f \in {"up", "down"} : budget'[f] = 0
    PROVE  Tracks'
  <1> DEFINE old == Normalised(slot, manual)
  <1>1. /\ poll = Idle /\ poll' \in Polls /\ poll' # Idle /\ reset = Idle
        /\ poll'.total \in Nat /\ poll'.level \in OrNone(Levels)
        /\ poll'.total = ctr \/ (poll'.total = 0 /\ poll'.level = Reading)
        /\ poll'.level # None => poll'.level = Reading
        /\ poll'.active = Evaluated(old, poll'.total, poll'.level)
        /\ slot' = IF poll'.active = old THEN slot ELSE poll'.active
        /\ poll'.saved = Normalised(slot', manual)
        /\ ctr' = ctr /\ toner' = toner /\ chip' = chip
        /\ row' = row /\ disp' = disp /\ reset' = reset
    <2>1. TypeOK
      BY DEF BaseInv
    <2>2. \A f \in {"up", "down"} : ~(budget'[f] > 0)
      OBVIOUS
    <2>3. /\ poll = Idle /\ poll' \in Polls
          /\ raced' = (reset # Idle) /\ crossed' = (crossed \/ raced')
          /\ poll'.total = ctr \/ (poll'.total = 0 /\ poll'.level = Reading)
          /\ poll'.level # None => poll'.level = Reading
      BY <2>1, <2>2, PollReadFacts
    <2>4. poll' # Idle /\ poll'.total \in Nat /\ poll'.level \in OrNone(Levels)
      BY <2>3 DEF Polls, Idle
    <2>5. /\ poll'.active = Evaluated(old, poll'.total, poll'.level)
          /\ slot' = IF poll'.active = old THEN slot ELSE poll'.active
          /\ poll'.saved = Normalised(slot', manual)
          /\ ctr' = ctr /\ toner' = toner /\ chip' = chip
          /\ row' = row /\ disp' = disp /\ reset' = reset
      BY <2>1, PollReadFacts
    <2> HIDE DEF old
    <2> QED BY <2>3, <2>4, <2>5
  <1>2. /\ Told \in Nat /\ Reading \in Nat /\ Reading \in Levels /\ ctr \in Nat /\ AlignTol \in Nat
        /\ row # None /\ row.anc # None => row.anc \in Nat /\ row.ancCtr \in Nat /\ row.lastCtr \in Nat
        /\ Told' = Told /\ Told = Reading + ctr
    BY <1>1, ToldType, Constants DEF Told, Reading, Levels
  <1>3. Honest(poll.level, poll.total)'
    BY <1>1, <1>2 DEF Honest
  <1> HIDE DEF old
  <1>4. /\ disp' # None => Honest(disp.raw, disp.total)'
        /\ reset' = Idle
        /\ row' # None => row'.lastCtr <= ctr'
    BY <1>1, <1>2 DEF Tracks, Honest
  <1>5. ASSUME row # None, row.anc # None PROVE (OnTrack \/ Shielded)' /\ Judged'
    <2>1. CASE OnTrack
      <3>1. OnTrack'
        BY <1>1, <1>2, <2>1 DEF OnTrack
      <3>2. Judged'
        BY <1>1, <1>2, <1>5, <2>1 DEF OnTrack, Judged
      <3> QED BY <3>1, <3>2
    <2>2. CASE ~OnTrack
      <3>1. Shielded /\ Shield
        BY <1>1, <1>5, <2>2 DEF Tracks, Shielded
      <3>2. /\ slot \in Slots /\ slot # None /\ old = slot /\ slot.start = row.ancCtr
            /\ slot.mode = "manual_reset"
            /\ slot.toner = MaxLevel /\ slot.start \in Nat
            /\ slot.aligned => MaxLevel + slot.start <= Told + AlignTol
            /\ row.anc = MaxLevel /\ row.lastCtr >= row.ancCtr /\ row.lastCtr <= ctr
        BY <1>5, <3>1, ToldType DEF Shielded, Shield, old, Normalised, Tracks
      <3>3. poll'.level # None => poll'.level + poll'.total <= Told
        BY <1>1, <1>2
      <3>4. ASSUME poll'.total >= slot.start, Aligned(slot, poll'.total, poll'.level).aligned
            PROVE  FALSE
        <4>1. MaxLevel + slot.start <= Told + AlignTol
          BY <1>1, <1>2, <3>2, <3>3, <3>4, AlignedCovers
        <4> QED BY <2>2, <3>2, <4>1 DEF OnTrack
      <3>5. CASE poll'.active # None
        <4>1. poll'.active = Aligned(slot, poll'.total, poll'.level) /\ poll'.total >= slot.start
          BY <1>1, <3>2, <3>5, EvaluatedFacts DEF OrNone
        <4>2. /\ poll'.active.start = slot.start /\ poll'.active.mode = "manual_reset"
              /\ poll'.active.toner = MaxLevel /\ ~poll'.active.aligned
          BY <1>1, <3>2, <3>4, <4>1, AlignedFacts
        <4>3. slot' = poll'.active
          BY <1>1, <3>2
        <4>4. poll'.saved = poll'.active
          BY <1>1, <3>5, <4>3 DEF Normalised
        <4>5. Shield'
          BY <1>1, <3>2, <3>5, <4>2, <4>3 DEF Shield
        <4>6. Shielded'
          BY <1>1, <3>2, <4>3, <4>4, <4>5 DEF Shielded
        <4>7. Judged'
          BY <3>5 DEF Judged
        <4> QED BY <4>6, <4>7
      <3>6. CASE poll'.active = None
        <4>1. poll'.total < slot.start \/ Thaws(slot, poll'.total, poll'.level)
                \/ Follows(slot, poll'.total, poll'.level)
          BY <1>1, <3>2, <3>6, EvaluatedFacts DEF OrNone
        <4>2. ~Thaws(slot, poll'.total, poll'.level)
          BY <3>2 DEF Thaws
        <4>3. poll'.total < slot.start
          BY <1>1, <3>2, <3>4, <4>1, <4>2 DEF Follows
        <4>4. poll'.level # None /\ poll'.total < row.lastCtr
          BY <1>1, <1>2, <1>5, <3>2, <4>3, Constants
        <4>5. Shielded'
          BY <1>1, <3>2, <3>6, <4>4 DEF Shielded
        <4>6. Judged'
          BY <1>1, <1>2, <1>5, <4>4 DEF Judged
        <4> QED BY <4>5, <4>6
      <3> QED BY <3>5, <3>6
    <2> QED BY <2>1, <2>2
  <1> QED BY <1>1, <1>3, <1>4, <1>5 DEF Tracks

(* So does the second, whose sample is no more than was used. *)
LEMMA TracksRecord ==
    ASSUME BaseInv, Tracks, PollRecord
    PROVE  /\ Tracks'
           /\ sample' # sample /\ sample'.kind = "poll" => sample'.drop - AlignTol <= sample'.to - sample'.from
  <1>1. /\ poll # Idle /\ poll \in Polls /\ poll.total \in Nat /\ (poll.level # None => poll.level \in Nat)
        /\ Good(row') /\ row' # None /\ poll.total <= ctr
        /\ Told \in Nat /\ ctr \in Nat /\ AlignTol \in Nat
        /\ row # None /\ row.anc # None => row.anc \in Nat /\ row.ancCtr \in Nat /\ row.lastCtr \in Nat
        /\ row # None => row.lastCtr \in Nat
        /\ slot # None => slot \in Slots /\ slot.start \in Nat
    <2>1. poll # Idle /\ Good(row') /\ row' # None
      BY PollRecordRow
    <2> QED BY <2>1, ToldType, Constants DEF BaseInv, Rows, Levels
  <1>2. /\ poll' = Idle /\ reset' = reset /\ reset = Idle /\ slot' = SlotAfterPoll(row')
        /\ disp'.raw = poll.level /\ disp'.total = poll.total
        /\ ctr' = ctr /\ Told' = Told
    <2>1. disp' = [total |-> poll.total, raw |-> poll.level, key |-> poll.key, level |-> row'.cur]
          /\ poll' = Idle /\ reset' = reset /\ slot' = SlotAfterPoll(row')
          /\ ctr' = ctr /\ toner' = toner /\ chip' = chip
      BY PollRecordFrame
    <2>2. reset = Idle
      BY <1>1 DEF Tracks
    <2>3. Told' = Told
      BY <2>1 DEF Told, Reading
    <2> QED BY <2>1, <2>2, <2>3
  <1>3. Honest(poll.level, poll.total)
    BY <1>1 DEF Tracks
  <1>4. Honest(disp.raw, disp.total)'
    BY <1>2, <1>3 DEF Honest
  <1>5. ASSUME row'.anc = poll.level, row'.anc # None, row'.ancCtr = poll.total PROVE OnTrack'
    BY <1>1, <1>2, <1>3, <1>5 DEF Honest, OnTrack
  <1>6. Judged'
    BY <1>2 DEF Judged
  <1>7. SUFFICES ASSUME TRUE
                 PROVE /\ row'.lastCtr <= ctr
                       /\ row'.anc # None => (OnTrack \/ Shielded)'
                       /\ sample' # sample /\ sample'.kind = "poll" => sample'.drop - AlignTol <= sample'.to - sample'.from
    BY <1>1, <1>2, <1>4, <1>6 DEF Tracks
  <1>8. CASE FirstSeen
    BY <1>1, <1>5, <1>8 DEF FirstSeen
  <1>9. CASE Displayed
    <2>1. /\ row'.anc = row.anc /\ row'.ancCtr = row.ancCtr /\ row'.lastCtr = row.lastCtr
          /\ poll.level = None /\ poll.active = None /\ sample' = sample /\ row # None
      BY <1>9 DEF Displayed
    <2>2. row.anc # None => OnTrack
      BY <1>1, <1>2, <2>1, Constants DEF Tracks, Shielded, Shield, Polls
    <2>3. row.anc # None => OnTrack'
      BY <1>2, <2>1, <2>2 DEF OnTrack
    <2> QED BY <1>2, <2>1, <2>3 DEF Tracks
  <1>10. CASE Processed
    <2>1. PICK e :
             /\ Good(e) /\ StartsFrom(e, Input) /\ Effect(e, Input)
             /\ Given(Input) /\ Input.level = poll.level /\ Input.ctr = poll.total
             /\ (Input.quarantined <=> poll.active # None)
      BY <1>10, ProcessedFacts
    <2>2. row # None /\ row.lastCtr <= ctr
      BY <1>10 DEF Processed, Tracks
    <2>3. e.lastCtr <= ctr /\ e.lastCtr \in Nat
      BY <1>1, <2>1, <2>2 DEF StartsFrom, Same, Swapped
    <2>4. row'.lastCtr <= ctr
      BY <1>1, <2>1, <2>3 DEF Effect, Moves
    <2>5. CASE Anchors(Input)
      <3>1. row'.anc = poll.level /\ row'.anc # None /\ row'.ancCtr = poll.total
        BY <2>1, <2>5 DEF Anchors
      <3>2. OnTrack'
        BY <1>5, <3>1
      <3>3. ASSUME sample' # sample, sample'.kind = "poll"
            PROVE  sample'.drop - AlignTol <= sample'.to - sample'.from
        <4>1. PollSample(e, Input)
          BY <2>1, <3>3 DEF Effect, SamplesOf, CycleSample
        <4>2. /\ poll.active = None /\ poll.level # None /\ poll.total >= e.lastCtr /\ e.anc # None
              /\ sample'.from = e.ancCtr /\ sample'.to = poll.total /\ sample'.drop = e.anc - poll.level
              /\ poll.total - e.ancCtr >= MinPages /\ sample'.drop \in 1..MaxLevel
          BY <2>1, <4>1 DEF PollSample
        <4>3. e.anc \in Nat /\ e.ancCtr \in Nat
          BY <2>1, <4>2, Constants DEF Good, Linked, RowTypes, OrNone, Levels
        <4>4. CASE Same(e, Input)
          <5>1. e.anc = row.anc /\ e.ancCtr = row.ancCtr /\ e.lastCtr = row.lastCtr
            BY <4>4 DEF Same
          <5>2. Judged
            BY <2>2, <4>2, <5>1 DEF Tracks
          <5>3. row.anc + row.ancCtr <= poll.level + poll.total + AlignTol
            BY <1>1, <4>2, <4>3, <5>1, <5>2, Constants DEF Judged
          <5> QED BY <1>1, <4>2, <4>3, <5>1, <5>3
        <4>5. CASE Swapped(e, Input)
          <5>1. e.anc = poll.level
            BY <2>1, <4>5 DEF Swapped
          <5> QED BY <4>2, <4>3, <5>1
        <4> QED BY <2>1, <4>4, <4>5 DEF StartsFrom
      <3> QED BY <2>4, <3>2, <3>3
    <2>6. CASE ~Anchors(Input)
      <3>1. Keeps(e) /\ row'.anc = e.anc /\ row'.ancCtr = e.ancCtr
        BY <2>1, <2>6 DEF Effect, Moves, Keeps
      <3>2. sample' = sample \/ sample'.kind # "poll"
        BY <2>1, <2>6 DEF Effect, SamplesOf, PollSample, CycleSample
      <3>3. CASE Swapped(e, Input)
        BY <1>5, <2>1, <2>4, <3>1, <3>2, <3>3 DEF Swapped
      <3>4. CASE Same(e, Input)
        <4>1. row'.anc = row.anc /\ row'.ancCtr = row.ancCtr /\ e.lastCtr = row.lastCtr
          BY <3>1, <3>4 DEF Same
        <4>2. CASE row.anc # None /\ OnTrack
          <5>1. OnTrack'
            BY <1>2, <4>1, <4>2 DEF OnTrack
          <5> QED BY <2>4, <3>2, <5>1
        <4>3. CASE row.anc # None /\ ~OnTrack
          <5>1. Shielded
            BY <2>2, <4>3 DEF Tracks
          <5>2. ~(poll.active = None /\ poll.level # None /\ poll.total < row.lastCtr)
            BY <2>1, <2>6, <4>1 DEF Effect, Reads
          <5>3. /\ Shield /\ poll.active = slot /\ poll.saved = slot /\ slot # None
                /\ row.anc = MaxLevel /\ slot.start = row.ancCtr
            BY <1>1, <1>2, <5>1, <5>2 DEF Shielded, Shield
          <5>4. poll.total >= slot.start
            BY <1>1, <5>3 DEF BaseInv, Rows
          <5>5. slot' = slot
            BY <1>1, <1>2, <5>3, <5>4 DEF SlotAfterPoll, FindsFrozen, ValidAfter
          <5>6. row'.lastCtr = poll.total
            BY <2>1, <5>3 DEF Effect, Reads
          <5>7. Shield'
            BY <1>2, <4>1, <5>3, <5>5 DEF Shield
          <5>8. Shielded'
            BY <1>2, <4>1, <5>3, <5>4, <5>6, <5>7 DEF Shielded
          <5> QED BY <2>4, <3>2, <5>8
        <4>4. CASE row.anc = None
          BY <2>4, <3>2, <4>1, <4>4
        <4> QED BY <4>2, <4>3, <4>4
      <3> QED BY <2>1, <3>3, <3>4 DEF StartsFrom
    <2> QED BY <2>5, <2>6
  <1> QED BY <1>8, <1>9, <1>10, PollRecordRow

(* So does the first step of a reset, *)
LEMMA TracksResetEngine ==
    ASSUME BaseInv, Tracks, ResetEngine, ~crossed'
    PROVE  Tracks'
  <1>1. PICK m : /\ m.ctr = disp.total /\ m.level = MaxLevel
                 /\ disp # None /\ Anchors(m) /\ row'.lastCtr = m.ctr
                 /\ reset' = [pc |-> "engine", total |-> disp.total, raw |-> disp.raw, cap |-> row'.cap]
                 /\ crossed' = (crossed \/ poll # Idle)
                 /\ ctr' = ctr /\ toner' = toner /\ chip' = chip
                 /\ disp' = disp /\ poll' = poll
    BY ResetEngineFacts
  <1>2. /\ poll' = Idle /\ poll = Idle /\ Told' = Told
        /\ row'.anc = MaxLevel /\ row'.ancCtr = disp.total /\ row'.lastCtr = disp.total
        /\ disp.total \in Nat /\ disp.total <= ctr /\ Honest(disp.raw, disp.total)
        /\ reset'.raw = disp.raw /\ reset'.total = disp.total /\ reset' # Idle
    <2>1. Told' = Told
      BY <1>1 DEF Told, Reading
    <2>2. reset'.raw = disp.raw /\ reset'.total = disp.total /\ reset' # Idle
      BY <1>1 DEF Idle
    <2>3. disp.total \in Nat /\ disp.total <= ctr /\ Honest(disp.raw, disp.total)
      BY <1>1, ToldType DEF BaseInv, Rows, Tracks
    <2> QED BY <1>1, <2>1, <2>2, <2>3 DEF Anchors
  <1>3. Honest(disp.raw, disp.total)' /\ Honest(reset.raw, reset.total)'
    BY <1>1, <1>2 DEF Honest
  <1>4. disp.total >= disp.total
    BY <1>2
  <1>5. Shielded' /\ Judged'
    BY <1>2, <1>4 DEF Shielded, Judged
  <1> QED BY <1>1, <1>2, <1>3, <1>4, <1>5 DEF Tracks

(* and the second. *)
LEMMA TracksResetStore ==
    ASSUME BaseInv, Tracks, ResetStore, ~crossed'
    PROVE  Tracks'
  <1>1. /\ reset # Idle /\ reset' = Idle
        /\ slot' = NewSlot /\ slot' # None /\ crossed' = (crossed \/ poll # Idle)
        /\ ctr' = ctr /\ toner' = toner /\ chip' = chip
        /\ row' = row /\ disp' = disp /\ poll' = poll
    BY ResetStoreFacts
  <1>2. poll = Idle /\ Told' = Told
    BY <1>1 DEF Told, Reading
  <1>3. /\ row.anc = MaxLevel /\ row.ancCtr = reset.total /\ row.lastCtr >= row.ancCtr
        /\ Honest(reset.raw, reset.total)
    BY <1>1 DEF Tracks
  <1>4. /\ NewSlot.start = reset.total /\ NewSlot.mode = "manual_reset" /\ NewSlot.toner = MaxLevel
        /\ NewSlot.aligned => reset.raw # None /\ Distance(First(reset.raw, 0), MaxLevel) <= AlignTol
    BY DEF NewSlot
  <1>5. ASSUME NewSlot.aligned PROVE MaxLevel + reset.total <= Told + AlignTol
    <2>1. reset.raw \in Levels /\ reset.total \in Nat /\ Told \in Nat /\ AlignTol \in Nat
      BY <1>1, <1>4, <1>5, ToldType
    <2>2. Distance(reset.raw, MaxLevel) <= AlignTol /\ reset.raw + reset.total <= Told
      BY <1>3, <1>4, <1>5 DEF First, Honest
    <2>3. MaxLevel <= reset.raw + AlignTol
      BY <2>1, <2>2, Constants DEF Distance, Levels
    <2> QED BY <2>1, <2>2, <2>3, Constants DEF Levels
  <1>6. Shield'
    BY <1>1, <1>2, <1>3, <1>4, <1>5 DEF Shield
  <1>7. Shielded' /\ Judged'
    BY <1>1, <1>2, <1>3, <1>6 DEF Shielded, Judged
  <1>8. disp # None => Honest(disp.raw, disp.total)'
    BY <1>1, <1>2 DEF Tracks, Honest
  <1> QED BY <1>1, <1>2, <1>7, <1>8 DEF Tracks

\* A sample of this step that is no more than was used.
DropIsReal == sample' # sample /\ sample'.kind = "poll"
                => sample'.drop - AlignTol <= sample'.to - sample'.from

(* Every step keeps it. *)
LEMMA TracksStep ==
    ASSUME BaseInv, TracksInv, [Next]_vars
    PROVE  /\ TracksInv'
           /\ Without({"up", "down", "thaw"}) /\ ~crossed => DropIsReal
  <1>1. BaseInv' /\ Grows /\ TypeOK /\ Rows
    BY NextBase DEF BaseInv
  <1>2. Without({"up", "down", "thaw"})' =>
           /\ Without({"up", "down", "thaw"})
           /\ \A f \in {"up", "down", "thaw"} : budget'[f] = 0
    BY <1>1, ToldBefore
  <1>3. CASE UNCHANGED vars
    BY <1>2, <1>3 DEF vars, device, program, history, TracksInv, Tracks, Honest, OnTrack, Shielded,
       Shield,
                      Judged, Told, Reading, Without, DropIsReal
  <1>4. CASE Device
    <2>1. /\ SameProgram /\ SameHistory /\ ctr' \in Nat /\ ctr' >= ctr
          /\ budget'["thaw"] = 0 => Reading' + (ctr' - ctr) >= Reading
      BY <1>1, <1>4, DeviceFacts
    <2>2. SUFFICES ASSUME Tracks, budget'["thaw"] = 0 PROVE Tracks'
      BY <1>2, <2>1 DEF TracksInv, SameProgram, SameHistory, DropIsReal
    <2>3. Told' >= Told
      <3>1. \A r \in Nat, s \in Nat, c \in Nat, d \in Nat : s + (d - c) >= r => s + d >= r + c
        OBVIOUS
      <3>2. Told' = Reading' + ctr' /\ Told = Reading + ctr
        BY DEF Told, Reading
      <3>3. Reading \in Nat /\ ctr \in Nat
        BY <1>1, ToldType, Constants
      <3>4. Reading' \in Nat
        <4>1. Reading' \in Levels
          BY <1>1 DEF BaseInv, TypeOK, Reading, OrNone
        <4> QED BY <4>1, Constants
      <3> QED BY <2>1, <2>2, <3>1, <3>2, <3>3, <3>4
    <2> QED BY <1>1, <2>1, <2>2, <2>3, TracksDevice
  <1>5. CASE PollRead
    <2>1. sample' = sample /\ (crossed => crossed')
      BY <1>1, <1>5, PollReadFacts
    <2>2. SUFFICES ASSUME Tracks, ~crossed', \A f \in {"up", "down", "thaw"} : budget'[f] = 0 PROVE Tracks'
      BY <1>2, <2>1 DEF TracksInv, DropIsReal
    <2> QED BY <1>5, <2>2, TracksRead
  <1>6. CASE PollRecord
    <2>1. budget' = budget /\ crossed' = crossed
      BY <1>6, PollRecordFrame
    <2>2. CASE ~(Without({"up", "down", "thaw"}) /\ ~crossed)
      BY <2>1, <2>2 DEF TracksInv, Without
    <2>3. CASE Without({"up", "down", "thaw"}) /\ ~crossed
      BY <1>6, <2>3, TracksRecord DEF TracksInv, DropIsReal
    <2> QED BY <2>2, <2>3
  <1>7. CASE ResetEngine
    <2>1. crossed => crossed'
      BY <1>7, ResetEngineFacts
    <2>2. PICK m : ManualSample(m)
      BY <1>7, ResetEngineFacts
    <2>3. DropIsReal
      BY <2>2 DEF DropIsReal, ManualSample
    <2>4. Tracks /\ ~crossed' => Tracks'
      BY <1>7, TracksResetEngine
    <2> QED BY <1>2, <2>1, <2>3, <2>4 DEF TracksInv
  <1>8. CASE ResetStore
    <2>1. sample' = sample /\ (crossed => crossed')
      BY <1>8, ResetStoreFacts
    <2>2. Tracks /\ ~crossed' => Tracks'
      BY <1>8, TracksResetStore
    <2> QED BY <1>2, <2>1, <2>2 DEF TracksInv, DropIsReal
  <1> QED BY <1>3, <1>4, <1>5, <1>6, <1>7, <1>8 DEF Next

-----------------------------------------------------------------------------
(* The theorems. *)

\* The types hold, and what ties the row, the display, the slot and the two processes.
THEOREM TypesHold == Spec => []TypeOK
  <1>1. BaseInv => TypeOK
    BY DEF BaseInv
  <1> QED BY <1>1, InitBase, NextBase, PTL DEF Spec

(* The base holds, *)
LEMMA BaseHolds == Spec => []BaseInv
  BY InitBase, NextBase, PTL DEF Spec

(* and the four invariants hold at first. *)
LEMMA InitInvariants == ASSUME Init PROVE HeldInv /\ OrderedInv /\ FallingInv /\ TracksInv
  <1>1. HeldInv
    BY DEF Init, HeldInv
  <1>2. OrderedInv
    BY DEF Init, OrderedInv, Ordered, FillsSeen, FreshSeen
  <1>3. FallingInv
    BY Constants DEF Init, FallingInv, Falling
  <1>4. TracksInv
    BY DEF Init, TracksInv, Tracks
  <1> QED BY <1>1, <1>2, <1>3, <1>4

\* After a manual reset that crosses no poll (web/routes/printers.py, toner_reset), and until a
\* release, every poll shows the level counted down from it.
THEOREM ManualLevelHeld == Spec => []ManualLevelHolds
  <1>1. BaseInv /\ HeldInv => ManualLevelHolds
    BY DEF ManualLevelHolds, HeldInv, BaseInv, TypeOK, Polls, Idle
  <1>2. BaseInv /\ HeldInv /\ [Next]_vars => HeldInv'
    BY HeldStep
  <1>3. Init => HeldInv
    BY InitInvariants
  <1> QED BY <1>1, <1>2, <1>3, BaseHolds, PTL DEF Spec

\* No sample of a poll spans a fill that polls have shown, if every total was read
\* (core/yield_engine.py, process_cartridge_snapshot).
THEOREM SampleOfOneCartridge == Spec => []SampleIsOneCartridge
  <1>1. BaseInv /\ OrderedInv => SampleIsOneCartridge
    BY DEF SampleIsOneCartridge, OrderedInv, FillsSeen, FillSeen, NotSpanned
  <1>2. BaseInv /\ OrderedInv /\ [Next]_vars => OrderedInv'
    BY OrderedStep
  <1>3. Init => OrderedInv
    BY InitInvariants
  <1> QED BY <1>1, <1>2, <1>3, BaseHolds, PTL DEF Spec

\* No closed cycle begins before the one closed before it ended (_maybe_close_cycle).
THEOREM CyclesAreDisjoint == Spec => CyclesDisjoint
  <1>1. BaseInv /\ OrderedInv /\ [Next]_vars
          => [sample' # sample /\ sample'.kind = "cycle" /\ Without({"zero"}) => sample'.from >= ended]_vars
    BY OrderedStep
  <1>2. BaseInv /\ OrderedInv /\ [Next]_vars => OrderedInv'
    BY OrderedStep
  <1>3. Init => OrderedInv
    BY InitInvariants
  <1> QED BY <1>1, <1>2, <1>3, BaseHolds, PTL DEF Spec, CyclesDisjoint

\* A poll calls a chip frozen only if every reading of the last FreezePages pages was the
\* same, as long as no level rose and every total was read.
THEOREM FrozenMeansStuckHolds == Spec => FrozenMeansStuck
  <1>1. BaseInv /\ FallingInv /\ [Next]_vars
          => [CallsFrozen /\ NothingRose /\ Without({"zero"}) => StuckForPages]_vars
    BY FallingStep
  <1>2. BaseInv /\ FallingInv /\ [Next]_vars => FallingInv'
    BY FallingStep
  <1>3. Init => FallingInv
    BY InitInvariants
  <1> QED BY <1>1, <1>2, <1>3, BaseHolds, PTL DEF Spec, FrozenMeansStuck

\* What a sample of a poll says was used was used, up to the tolerance of a reset, if the chip
\* never told a level other than its own and no poll crossed a reset.
THEOREM SampleDropHolds == Spec => SampleDropIsReal
  <1>1. BaseInv /\ TracksInv /\ [Next]_vars
          => [sample' # sample /\ sample'.kind = "poll" /\ Without({"up", "down", "thaw"}) /\ ~crossed
                => sample'.drop - AlignTol <= sample'.to - sample'.from]_vars
    BY TracksStep DEF DropIsReal
  <1>2. BaseInv /\ TracksInv /\ [Next]_vars => TracksInv'
    BY TracksStep
  <1>3. Init => TracksInv
    BY InitInvariants
  <1> QED BY <1>1, <1>2, <1>3, BaseHolds, PTL DEF Spec, SampleDropIsReal
===============================================================================
