-------------------------- MODULE CycleReportsProofs -------------------------
(***************************************************************************)
(* Proofs about CycleReports: its type invariant and what the bar and the  *)
(* chart say of deadline misses, for all durations, thresholds and bounds. *)
(***************************************************************************)
EXTENDS CycleReports, SequenceTheorems, TLAPS

\* What BudgetBarAgrees asks of one frame.
BarAgrees(f) ==
  IF OverBudget(f) THEN DeadlineMissLabel(f)
  ELSE DeadlineMissLabel(f) => f.cycle_ms = Deadline /\ f.slack_ms \in -5 .. -1

\* Printing keeps the order with the deadline, but for half a digit.
LEMMA PrintingKeepsDeadline ==
  ASSUME NEW d \in Nat, NEW n \in Printed(d)
  PROVE /\ n \in Nat
        /\ d <= Deadline => n = d
        /\ d > Deadline => n >= Deadline /\ (n = Deadline => d <= Deadline + 5)
<1> USE DEF Deadline
<1>1. CASE d < 1000000
  <2>1. Digit(d) = 1 BY <1>1 DEF Digit
  <2>2. n \in {d, d + 1} /\ 2 * (n - d) <= 1 BY <2>1 DEF Printed
  <2> QED BY <1>1, <2>2
<1>2. CASE d >= 1000000 /\ d < 10000000
  <2>1. Digit(d) = 10 BY <1>2 DEF Digit
  <2>2. PICK m \in {d - (d % 10), d - (d % 10) + 10} :
          n = m /\ 2 * (n - d) <= 10 /\ 2 * (d - n) <= 10
    BY <2>1 DEF Printed
  <2>3. n \in Nat /\ n >= 1000000 BY <1>2, <2>2
  <2>4. d = 1000000 => n = 1000000 BY <2>2
  <2> QED BY <1>2, <2>2, <2>3, <2>4
<1>3. CASE d >= 10000000
  <2>1. Digit(d) = 100 BY <1>3 DEF Digit
  <2>2. PICK m \in {d - (d % 100), d - (d % 100) + 100} : n = m /\ 2 * (d - n) <= 100
    BY <2>1 DEF Printed
  <2>3. n \in Nat /\ n > 1000000 BY <1>3, <2>2
  <2> QED BY <1>3, <2>3
<1> QED BY <1>1, <1>2, <1>3

LEMMA PrintedFramesAgree ==
  ASSUME NEW d \in Nat, run \in Nat, cycle_id \in Nat,
         NEW total \in Nat, NEW published \in Nat, NEW f \in Report(d, total, published)
  PROVE /\ f \in Frame /\ BarAgrees(f)
        /\ f.run = run /\ f.cycle_id = cycle_id /\ f.deadline_miss = Missed(d)
        /\ f.deadline_miss_total = total /\ f.consecutive_miss = published
<1> USE DEF Deadline
<1>1. PICK n \in Printed(d), s \in PrintedSlack(d) :
        f = [run |-> run, cycle_id |-> cycle_id, cycle_ms |-> n, slack_ms |-> s,
             deadline_miss |-> Missed(d), deadline_miss_total |-> total,
             consecutive_miss |-> published]
  BY DEF Report
<1>2. /\ n \in Nat
      /\ d <= Deadline => n = d
      /\ d > Deadline => n >= Deadline /\ (n = Deadline => d <= Deadline + 5)
  BY PrintingKeepsDeadline
<1>3. s \in Int /\ (d > Deadline /\ d <= Deadline + 5 => s \in -5 .. -1)
  <2>1. CASE d <= Deadline
    <3>1. Deadline - d \in Nat /\ s \in Printed(Deadline - d) BY <2>1 DEF PrintedSlack
    <3> QED BY <2>1, <3>1, PrintingKeepsDeadline
  <2>2. CASE d > Deadline
    <3>1. PICK k \in Printed(d - Deadline) : s = -k BY <2>2 DEF PrintedSlack
    <3>2. d - Deadline \in Nat BY <2>2
    <3>3. k \in Nat /\ (d - Deadline <= Deadline => k = d - Deadline)
      BY <3>2, PrintingKeepsDeadline
    <3> QED BY <2>2, <3>1, <3>3
  <2> QED BY <2>1, <2>2
<1>4. Missed(d) \in BOOLEAN /\ (Missed(d) <=> d > Deadline) BY DEF Missed
<1>5. f \in Frame BY <1>1, <1>2, <1>3, <1>4 DEF Frame
<1>6. BarAgrees(f)
  BY <1>1, <1>2, <1>3, <1>4 DEF BarAgrees, OverBudget, DeadlineMissLabel
<1> QED BY <1>1, <1>5, <1>6

----------------------------------------------------------------------------
(* The store. *)

LEMMA RememberShape ==
  ASSUME NEW h \in Seq(Frame), Len(h) <= MAX_HISTORY, NEW f \in Frame
  PROVE /\ Remember(h, f) \in Seq(Frame)
        /\ Len(Remember(h, f)) \in 1..MAX_HISTORY
        /\ Remember(h, f)[Len(Remember(h, f))] = f
        /\ \E k \in Nat : /\ Len(Remember(h, f)) = Len(h) - k + 1
                          /\ \A i \in 1..Len(h) - k : Remember(h, f)[i] = h[i + k]
<1>0. MAX_HISTORY \in Nat /\ MAX_HISTORY >= 2 /\ Len(h) \in Nat
  BY ReportAssumption, LenProperties
<1>1. PICK k \in Nat : /\ k <= Len(h) /\ Len(h) - k < MAX_HISTORY
                       /\ Remember(h, f) = Append(SubSeq(h, k + 1, Len(h)), f)
  <2>1. CASE Len(h) < MAX_HISTORY
    <3>1. 0 + 1 = 1 OBVIOUS
    <3>2. Remember(h, f) = Append(SubSeq(h, 0 + 1, Len(h)), f)
      BY <1>0, <2>1, <3>1 DEF Remember
    <3>3. WITNESS 0 \in Nat
    <3> QED BY <1>0, <2>1, <3>2
  <2>2. CASE Len(h) = MAX_HISTORY
    <3>1. Remember(h, f) = Append(SubSeq(h, 2, Len(h)), f)
      <4>1. Len(h) - MAX_HISTORY + 2 = 2 BY <1>0, <2>2
      <4> QED BY <1>0, <2>2, <4>1 DEF Remember
    <3>2. 1 + 1 = 2 OBVIOUS
    <3>3. WITNESS 1 \in Nat
    <3> QED BY <1>0, <2>2, <3>1, <3>2
  <2> QED BY <1>0, <2>1, <2>2
<1> DEFINE kept == SubSeq(h, k + 1, Len(h))
<1>2. /\ kept \in Seq(Frame) /\ Len(kept) = Len(h) - k
      /\ \A i \in 1..Len(h) - k : kept[i] = h[i + k]
  <2>1. \A i \in k + 1 .. Len(h) : h[i] \in Frame BY <1>0, ElementOfSeq
  <2>2. /\ SubSeq(h, k + 1, Len(h)) \in Seq(Frame)
        /\ Len(SubSeq(h, k + 1, Len(h)))
             = IF k + 1 <= Len(h) THEN Len(h) - (k + 1) + 1 ELSE 0
        /\ \A i \in 1 .. Len(h) - (k + 1) + 1 :
             SubSeq(h, k + 1, Len(h))[i] = h[k + 1 + i - 1]
    <3>1. k + 1 \in Int /\ Len(h) \in Int BY <1>0
    <3> QED BY <2>1, <3>1, SubSeqProperties
  <2> QED BY <1>0, <1>1, <2>2
<1> HIDE DEF kept
<1>3. /\ Append(kept, f) \in Seq(Frame) /\ Len(Append(kept, f)) = Len(kept) + 1
      /\ Append(kept, f)[Len(kept) + 1] = f
      /\ \A i \in 1..Len(kept) : Append(kept, f)[i] = kept[i]
  BY <1>2, AppendProperties
<1>4. Remember(h, f) = Append(kept, f) BY <1>1 DEF kept
<1>5. Len(Remember(h, f)) = Len(h) - k + 1 BY <1>0, <1>2, <1>3, <1>4
<1>6. \A i \in 1..Len(h) - k : Remember(h, f)[i] = h[i + k] BY <1>2, <1>3, <1>4
<1>7. \E n \in Nat : /\ Len(Remember(h, f)) = Len(h) - n + 1
                     /\ \A i \in 1..Len(h) - n : Remember(h, f)[i] = h[i + n]
  BY <1>5, <1>6
<1>8. Len(Remember(h, f)) \in 1..MAX_HISTORY BY <1>0, <1>1, <1>5
<1> QED BY <1>2, <1>3, <1>4, <1>7, <1>8

----------------------------------------------------------------------------
(* What is known of a frame. *)

\* A frame of this start of sat_core counts no more misses than there are now,
\* and what is missing has happened since; the streak that is running reaches
\* back over misses only.
Past(f, r, id, total, last) ==
  /\ f.run <= r
  /\ f.run = r =>
       /\ f.cycle_id < id
       /\ total - f.deadline_miss_total \in 0 .. id - 1 - f.cycle_id
       /\ id - f.cycle_id <= last => f.deadline_miss

BeforeNow(f) == Past(f, run, cycle_id, deadline_miss_total, streak)
BeforeNext(f) == Past(f, run', cycle_id', deadline_miss_total', streak')

\* Two frames of one start do not contradict each other, whichever of them has
\* been stored first.
Agree(a, b) ==
  LET passed == b.cycle_id - a.cycle_id
      counted == b.deadline_miss_total - a.deadline_miss_total
  IN a.run = b.run /\ passed >= 0 =>
       \/ a = b
       \/ /\ passed > 0
          /\ IF b.deadline_miss THEN counted \in 1 .. passed
             ELSE counted \in 0 .. passed - 1
          /\ passed < b.consecutive_miss => a.deadline_miss

GoodFrame(f) == f \in Frame /\ BarAgrees(f) /\ (f.consecutive_miss > 0 => f.deadline_miss)

Elements(q) == {q[i] : i \in DOMAIN q}

\* The frames that are stored, on their way, or kept by the gateway.
Known == Elements(history)
         \union (UNION {Elements(pipe[s]) : s \in Streams})
         \union ({latestFrame} \ {Null})

KnownInv ==
  /\ \A f \in Known : GoodFrame(f) /\ BeforeNow(f)
  /\ \A f, g \in Known : Agree(f, g)

IInv == TypeOK /\ KnownInv

LEMMA ElementsKnown ==
  /\ Elements(history) \subseteq Known
  /\ \A s \in Streams : Elements(pipe[s]) \subseteq Known
  /\ latestFrame \in Known \union {Null}
<1>1. Elements(history) \subseteq Known BY Zenon DEF Known
<1>2. ASSUME NEW s \in Streams, NEW e \in Elements(pipe[s]) PROVE e \in Known
  <2>1. e \in UNION {Elements(pipe[r]) : r \in Streams} BY <1>2
  <2> QED BY <2>1, Zenon DEF Known
<1>3. latestFrame \in Known \union {Null}
  <2>1. latestFrame # Null => latestFrame \in {latestFrame} \ {Null} OBVIOUS
  <2> QED BY <2>1, Zenon DEF Known
<1> QED BY <1>1, <1>2, <1>3

LEMMA KnownGrows ==
  ASSUME NEW X,
         Elements(history') \subseteq X,
         \A s \in Streams : Elements(pipe'[s]) \subseteq X,
         latestFrame' \in X \union {Null}
  PROVE  Known' \subseteq X
<1>1. Known' = Elements(history') \union (UNION {Elements(pipe'[s]) : s \in Streams})
               \union ({latestFrame'} \ {Null})
  BY DEF Known, Elements
<1>2. UNION {Elements(pipe'[s]) : s \in Streams} \subseteq X OBVIOUS
<1>3. {latestFrame'} \ {Null} \subseteq X OBVIOUS
<1> QED BY <1>1, <1>2, <1>3, Zenon

LEMMA RememberElements ==
  ASSUME NEW h \in Seq(Frame), Len(h) <= MAX_HISTORY, NEW f \in Frame
  PROVE Elements(Remember(h, f)) \subseteq Elements(h) \union {f}
<1>0. DOMAIN Remember(h, f) = 1..Len(Remember(h, f))
  <2>1. Remember(h, f) \in Seq(Frame) BY RememberShape
  <2> QED BY <2>1, LenProperties
<1> SUFFICES ASSUME NEW i \in 1..Len(Remember(h, f))
             PROVE Remember(h, f)[i] \in Elements(h) \union {f}
  BY <1>0, Zenon DEF Elements
<1>1. PICK k \in Nat : /\ Len(Remember(h, f)) = Len(h) - k + 1
                       /\ \A n \in 1..Len(h) - k : Remember(h, f)[n] = h[n + k]
  BY RememberShape
<1>2. Len(h) \in Nat /\ DOMAIN h = 1..Len(h) BY LenProperties
<1>3. CASE i = Len(Remember(h, f)) BY <1>3, RememberShape
<1>4. CASE i # Len(Remember(h, f))
  <2>1. i \in 1..Len(h) - k /\ i + k \in 1..Len(h) BY <1>1, <1>2, <1>4
  <2> QED BY <1>1, <1>2, <2>1 DEF Elements
<1> QED BY <1>3, <1>4

LEMMA AppendElements ==
  ASSUME NEW q \in Seq(Frame), NEW f \in Frame
  PROVE Append(q, f) \in Seq(Frame) /\ Elements(Append(q, f)) \subseteq Elements(q) \union {f}
<1>1. /\ Append(q, f) \in Seq(Frame) /\ Len(Append(q, f)) = Len(q) + 1
      /\ Append(q, f)[Len(q) + 1] = f
      /\ \A i \in 1..Len(q) : Append(q, f)[i] = q[i]
  BY AppendProperties
<1>2. /\ Len(q) \in Nat /\ DOMAIN q = 1..Len(q)
      /\ DOMAIN Append(q, f) = 1..Len(Append(q, f))
  BY <1>1, LenProperties
<1>3. \A i \in 1..Len(q) + 1 : i = Len(q) + 1 \/ i \in 1..Len(q) BY <1>2
<1> QED BY <1>1, <1>2, <1>3 DEF Elements

LEMMA TailElements ==
  ASSUME NEW q \in Seq(Frame), q # <<>>
  PROVE /\ Tail(q) \in Seq(Frame) /\ Head(q) \in Frame
        /\ Head(q) \in Elements(q) /\ Elements(Tail(q)) \subseteq Elements(q)
<1>1. /\ Tail(q) \in Seq(Frame) /\ Len(Tail(q)) = Len(q) - 1
      /\ \A i \in 1..Len(Tail(q)) : Tail(q)[i] = q[i + 1]
      /\ Head(q) \in Frame /\ Head(q) = q[1]
  BY HeadTailProperties
<1>2. /\ Len(q) \in Nat \ {0} /\ DOMAIN q = 1..Len(q)
      /\ DOMAIN Tail(q) = 1..Len(Tail(q))
  BY <1>1, LenProperties, EmptySeq
<1>3. 1 \in 1..Len(q) /\ \A i \in 1..Len(q) - 1 : i + 1 \in 1..Len(q) BY <1>2
<1> QED BY <1>1, <1>2, <1>3 DEF Elements

----------------------------------------------------------------------------
(* A cycle. *)

\* The counters after a cycle.
LEMMA CountersStep ==
  ASSUME TypeOK, NEW d \in Durations, RunCycle(d)
  PROVE /\ d \in Nat /\ run' = run /\ run \in Nat
        /\ cycle_id \in Nat /\ cycle_id' = cycle_id + 1
        /\ deadline_miss_total \in 0..cycle_id
        /\ deadline_miss_total' = deadline_miss_total + (IF Missed(d) THEN 1 ELSE 0)
        /\ streak \in 0..cycle_id /\ streak' = IF Missed(d) THEN streak + 1 ELSE 0
        /\ consecutive_miss' \in 0..streak' /\ (~Missed(d) => consecutive_miss' = 0)
<1> USE DEF TypeOK
<1>1. d \in Nat BY DurationAssumption
<1>2. streak' = IF Missed(d) THEN streak + 1 ELSE 0 BY DEF RunCycle, CountStreak
<1>3. consecutive_miss' \in 0..streak' /\ (~Missed(d) => consecutive_miss' = 0)
  BY <1>2 DEF RunCycle
<1> QED BY <1>1, <1>2, <1>3 DEF RunCycle

\* Frames of before stay before now.
LEMMA StillBefore ==
  ASSUME TypeOK, NEW d \in Durations, RunCycle(d), NEW g \in Frame, BeforeNow(g)
  PROVE BeforeNext(g)
<1>1. /\ g.run \in Nat /\ g.cycle_id \in Nat /\ g.deadline_miss_total \in Nat
      /\ g.deadline_miss \in BOOLEAN
  BY DEF Frame
<1> QED BY <1>1, CountersStep DEF BeforeNow, BeforeNext, Past

\* The frame of this cycle is good, belongs to the past from now on, and agrees
\* with any frame that does already.
LEMMA NewFrame ==
  ASSUME TypeOK, NEW d \in Durations, RunCycle(d),
         NEW f \in Report(d, deadline_miss_total', consecutive_miss')
  PROVE /\ GoodFrame(f)
        /\ BeforeNext(f)
        /\ \A g \in Frame : BeforeNow(g) => Agree(g, f) /\ Agree(f, g)
<1>1. deadline_miss_total' \in Nat /\ consecutive_miss' \in Nat BY CountersStep
<1>2. /\ f \in Frame /\ BarAgrees(f)
      /\ f.run = run /\ f.cycle_id = cycle_id /\ f.deadline_miss = Missed(d)
      /\ f.deadline_miss_total = deadline_miss_total'
      /\ f.consecutive_miss = consecutive_miss'
  BY <1>1, CountersStep, PrintedFramesAgree
<1>3. GoodFrame(f)
  <2>1. consecutive_miss' > 0 => Missed(d) BY CountersStep
  <2> QED BY <1>2, <2>1 DEF GoodFrame
<1>4. BeforeNext(f)
  <2>1. f.run = run' /\ f.cycle_id < cycle_id' /\ cycle_id' - 1 - f.cycle_id = 0
        /\ deadline_miss_total' - f.deadline_miss_total = 0 /\ run' <= run'
    BY <1>2, CountersStep
  <2>2. cycle_id' - f.cycle_id <= streak' => f.deadline_miss
    <3>1. cycle_id' - f.cycle_id = 1 BY <1>2, CountersStep
    <3>2. ~Missed(d) => streak' = 0 BY CountersStep
    <3> QED BY <1>2, <3>1, <3>2
  <2>3. deadline_miss_total' - f.deadline_miss_total \in 0 .. cycle_id' - 1 - f.cycle_id
    BY <2>1
  <2> QED BY <2>1, <2>2, <2>3 DEF BeforeNext, Past
<1>5. ASSUME NEW g \in Frame, BeforeNow(g) PROVE Agree(g, f) /\ Agree(f, g)
  <2>1. /\ g.run \in Nat /\ g.cycle_id \in Nat /\ g.deadline_miss_total \in Nat
        /\ g.deadline_miss \in BOOLEAN
    BY DEF Frame
  <2>2. g.run <= f.run BY <1>2, <1>5 DEF BeforeNow, Past
  <2>3. CASE g.run = f.run
    <3>1. /\ g.cycle_id < cycle_id
          /\ deadline_miss_total - g.deadline_miss_total \in 0 .. cycle_id - 1 - g.cycle_id
          /\ cycle_id - g.cycle_id <= streak => g.deadline_miss
      BY <1>2, <1>5, <2>3 DEF BeforeNow, Past
    <3>2. f.cycle_id - g.cycle_id > 0 BY <1>2, <2>1, <3>1, CountersStep
    <3>3. IF f.deadline_miss
          THEN f.deadline_miss_total - g.deadline_miss_total
                 \in 1 .. f.cycle_id - g.cycle_id
          ELSE f.deadline_miss_total - g.deadline_miss_total
                 \in 0 .. f.cycle_id - g.cycle_id - 1
      <4>1. CASE Missed(d) BY <1>2, <2>1, <3>1, <4>1, CountersStep
      <4>2. CASE ~Missed(d) BY <1>2, <2>1, <3>1, <4>2, CountersStep
      <4> QED BY <4>1, <4>2
    <3>4. f.cycle_id - g.cycle_id < f.consecutive_miss => g.deadline_miss
      <4>1. CASE Missed(d) BY <1>2, <2>1, <3>1, <4>1, CountersStep
      <4>2. CASE ~Missed(d)
        <5>1. f.consecutive_miss = 0 BY <1>2, <4>2, CountersStep
        <5> QED BY <1>2, <2>1, <3>2, <5>1, CountersStep
      <4> QED BY <4>1, <4>2
    <3>5. ~(g.cycle_id - f.cycle_id >= 0)
      BY <1>2, <2>1, <3>2, CountersStep
    <3>6. Agree(g, f) BY <2>3, <3>2, <3>3, <3>4 DEF Agree
    <3>7. Agree(f, g) BY <3>5 DEF Agree
    <3> QED BY <3>6, <3>7
  <2> QED BY <2>2, <2>3 DEF Agree
<1> QED BY <1>3, <1>4, <1>5

----------------------------------------------------------------------------
(* The invariant. *)

\* Frames that are known already stay good while sat_core makes no cycle.
LEMMA NothingNew ==
  ASSUME KnownInv, Known' \subseteq Known,
         \A g \in Frame : BeforeNow(g) => BeforeNext(g)
  PROVE  KnownInv'
<1>1. \A f \in Known' : GoodFrame(f) /\ BeforeNext(f) BY DEF KnownInv, GoodFrame
<1>2. \A f, g \in Known' : Agree(f, g) BY DEF KnownInv
<1> QED BY <1>1, <1>2 DEF KnownInv, BeforeNow, BeforeNext

LEMMA Unchanged ==
  UNCHANGED <<run, counters>> => \A g \in Frame : BeforeNow(g) => BeforeNext(g)
BY DEF counters, BeforeNow, BeforeNext

\* A cycle: its frame joins the known ones, or is lost.
LEMMA CycleStep ==
  ASSUME IInv, NEW d \in Durations, RunCycle(d)
  PROVE TypeOK' /\ KnownInv'
<1> USE DEF IInv
<1>b. \A g \in Frame : BeforeNow(g) => BeforeNext(g) BY StillBefore
<1>t. /\ run' \in Nat /\ cycle_id' \in Nat /\ deadline_miss_total' \in 0..cycle_id'
      /\ streak' \in 0..cycle_id' /\ consecutive_miss' \in 0..streak'
      /\ cycles' \in 0..MaxCycles /\ failures' \in 0..MaxFailures
      /\ UNCHANGED <<open, history>>
  <2>1. cycles' \in 0..MaxCycles /\ failures' \in 0..MaxFailures
    BY ReportAssumption DEF TypeOK, RunCycle
  <2>2. UNCHANGED <<open, history>> BY DEF RunCycle
  <2>3. /\ run' \in Nat /\ cycle_id' \in Nat /\ deadline_miss_total' \in 0..cycle_id'
        /\ streak' \in 0..cycle_id' /\ consecutive_miss' \in 0..streak'
    BY CountersStep
  <2> QED BY <2>1, <2>2, <2>3
<1>1. CASE UNCHANGED <<latestFrame, pipe>>
  <2>1. TypeOK' BY <1>1, <1>t DEF TypeOK
  <2>2. Known' \subseteq Known BY <1>1, <1>t DEF Known, Elements
  <2>3. KnownInv' BY <1>b, <2>2, NothingNew
  <2> QED BY <2>1, <2>3
<1>2. ASSUME NEW f \in Report(d, deadline_miss_total', consecutive_miss'), Broadcast(f)
      PROVE TypeOK' /\ KnownInv'
  <2>1. /\ GoodFrame(f) /\ f \in Frame /\ BeforeNext(f)
        /\ \A g \in Frame : BeforeNow(g) => Agree(g, f) /\ Agree(f, g)
    BY NewFrame DEF GoodFrame
  <2>2. /\ latestFrame' = f
        /\ pipe' = [s \in Streams |-> IF s \in open THEN Append(pipe[s], f) ELSE pipe[s]]
    BY <1>2 DEF Broadcast
  <2>3. \A s \in Streams : /\ pipe'[s] \in Seq(Frame)
                           /\ Elements(pipe'[s]) \subseteq Elements(pipe[s]) \union {f}
    BY <2>1, <2>2, AppendElements DEF TypeOK
  <2>4. TypeOK'
    <3>1. pipe' \in [Streams -> Seq(Frame)] BY <2>2, <2>3
    <3> QED BY <1>t, <2>1, <2>2, <3>1 DEF TypeOK
  <2>5. Known' \subseteq Known \union {f}
    <3>1. Elements(history') \subseteq Known \union {f}
      BY <1>t, ElementsKnown DEF Elements
    <3>2. \A s \in Streams : Elements(pipe'[s]) \subseteq Known \union {f}
      BY <2>3, ElementsKnown
    <3> QED BY <2>2, <3>1, <3>2, KnownGrows
  <2>6. \A g \in Known : /\ GoodFrame(g) /\ BeforeNext(g)
                         /\ Agree(g, f) /\ Agree(f, g)
    BY <1>b, <2>1 DEF KnownInv, GoodFrame
  <2>7. \A g \in Known' : GoodFrame(g) /\ BeforeNext(g) BY <2>1, <2>5, <2>6
  <2>8. \A g, h \in Known' : Agree(g, h)
    <3>1. Agree(f, f) BY DEF Agree
    <3> QED BY <2>5, <2>6, <3>1 DEF KnownInv
  <2> QED BY <2>4, <2>7, <2>8 DEF KnownInv, BeforeNow, BeforeNext
<1> QED BY <1>1, <1>2 DEF RunCycle

LEMMA MessageStep ==
  ASSUME IInv, NEW s \in Streams, OnMessage(s)
  PROVE TypeOK' /\ KnownInv'
<1> USE DEF IInv
<1>1. /\ pipe \in [Streams -> Seq(Frame)] /\ pipe[s] \in Seq(Frame) /\ pipe[s] # <<>>
      /\ history' = Remember(history, Head(pipe[s]))
      /\ pipe' = [pipe EXCEPT ![s] = Tail(pipe[s])]
      /\ UNCHANGED <<run, counters, latestFrame, open, cycles, failures>>
  BY DEF TypeOK, OnMessage
<1>2. /\ Tail(pipe[s]) \in Seq(Frame) /\ Head(pipe[s]) \in Frame
      /\ Head(pipe[s]) \in Elements(pipe[s])
      /\ Elements(Tail(pipe[s])) \subseteq Elements(pipe[s])
  BY <1>1, TailElements
<1>3. history \in Seq(Frame) /\ Len(history) <= MAX_HISTORY BY DEF TypeOK
<1>4. /\ history' \in Seq(Frame) /\ Len(history') \in 1..MAX_HISTORY
      /\ Elements(history') \subseteq Elements(history) \union {Head(pipe[s])}
  <2>1. history' \in Seq(Frame) /\ Len(history') \in 1..MAX_HISTORY
    BY <1>1, <1>2, <1>3, RememberShape
  <2>2. Elements(history') \subseteq Elements(history) \union {Head(pipe[s])}
    BY <1>1, <1>2, <1>3, RememberElements
  <2> QED BY <2>1, <2>2
<1>5. TypeOK'
  <2>1. pipe' \in [Streams -> Seq(Frame)] BY <1>1, <1>2
  <2>2. Len(history') <= MAX_HISTORY BY <1>4, ReportAssumption
  <2> QED BY <1>1, <1>4, <2>1, <2>2 DEF TypeOK, counters
<1>6. Known' \subseteq Known
  <2>1. \A r \in Streams : Elements(pipe'[r]) \subseteq Elements(pipe[r]) BY <1>1, <1>2
  <2>2. Elements(history') \subseteq Known BY <1>2, <1>4, ElementsKnown
  <2>3. \A r \in Streams : Elements(pipe'[r]) \subseteq Known BY <2>1, ElementsKnown
  <2>4. latestFrame' \in Known \union {Null} BY <1>1, ElementsKnown
  <2> QED BY <2>2, <2>3, <2>4, KnownGrows
<1>7. KnownInv' BY <1>1, <1>6, Unchanged, NothingNew
<1> QED BY <1>5, <1>7

\* A WebSocket that breaks or opens: it carries nothing, or the greeting.
LEMMA LinkStep ==
  ASSUME IInv, NEW s \in Streams, LinkBreaks(s) \/ LinkOpens(s)
  PROVE TypeOK' /\ KnownInv'
<1> USE DEF IInv
<1>1. PICK q \in {<<>>, <<latestFrame>>} :
        /\ q = <<>> \/ latestFrame # Null
        /\ pipe' = [pipe EXCEPT ![s] = q]
  BY DEF LinkBreaks, LinkOpens
<1>2. /\ UNCHANGED <<run, counters, latestFrame, history, cycles, failures>>
      /\ open' \subseteq Streams /\ pipe \in [Streams -> Seq(Frame)]
  BY DEF TypeOK, LinkBreaks, LinkOpens
<1>3. q \in Seq(Frame) /\ Elements(q) \subseteq Known
  <2>1. CASE q = <<>>
    BY <2>1 DEF Elements
  <2>2. CASE q = <<latestFrame>> /\ latestFrame # Null
    <3>1. latestFrame \in Frame /\ latestFrame \in Known
      BY <2>2, ElementsKnown DEF TypeOK
    <3>2. Elements(q) = {latestFrame} BY <2>2 DEF Elements
    <3> QED BY <2>2, <3>1, <3>2
  <2> QED BY <1>1, <2>1, <2>2
<1>4. TypeOK'
  <2>1. pipe' \in [Streams -> Seq(Frame)] BY <1>1, <1>2, <1>3
  <2> QED BY <1>2, <2>1 DEF TypeOK, counters
<1>5. Known' \subseteq Known
  <2>1. \A r \in Streams : Elements(pipe'[r]) \subseteq Known
    BY <1>1, <1>2, <1>3, ElementsKnown
  <2>2. Elements(history') \subseteq Known BY <1>2, ElementsKnown DEF Elements
  <2>3. latestFrame' \in Known \union {Null} BY <1>2, ElementsKnown
  <2> QED BY <2>1, <2>2, <2>3, KnownGrows
<1>6. KnownInv' BY <1>2, <1>5, Unchanged, NothingNew
<1> QED BY <1>4, <1>6

LEMMA Invariance == Spec => []IInv
<1>1. Init => IInv
  <2> SUFFICES ASSUME Init PROVE IInv OBVIOUS
  <2>1. history = <<>> /\ history \in Seq(Frame) /\ Len(history) = 0 BY DEF Init
  <2>2. pipe = [s \in Streams |-> <<>>] /\ pipe \in [Streams -> Seq(Frame)] BY DEF Init
  <2>3. TypeOK BY <2>1, <2>2, ReportAssumption DEF Init, TypeOK
  <2>4. Known = {} BY <2>1, <2>2 DEF Init, Known, Elements
  <2> QED BY <2>3, <2>4 DEF IInv, KnownInv
<1>2. IInv /\ [Next]_vars => IInv'
  <2> SUFFICES ASSUME IInv, [Next]_vars PROVE TypeOK' /\ KnownInv'
    BY DEF IInv
  <2> USE DEF IInv
  <2>1. ASSUME NEW d \in Durations, RunCycle(d) PROVE TypeOK' /\ KnownInv'
    BY <2>1, CycleStep
  <2>2. CASE CoreRestarts
    <3>1. TypeOK' BY <2>2, ReportAssumption DEF CoreRestarts, Fails, TypeOK, links
    <3>2. ASSUME NEW g \in Frame, BeforeNow(g) PROVE BeforeNext(g)
      <4>1. g.run \in Nat /\ run \in Nat /\ run' = run + 1
        BY <2>2 DEF Frame, TypeOK, CoreRestarts
      <4> QED BY <3>2, <4>1 DEF BeforeNow, BeforeNext, Past
    <3>3. Known' \subseteq Known BY <2>2 DEF CoreRestarts, links, Known, Elements
    <3>4. KnownInv' BY <3>2, <3>3, NothingNew
    <3> QED BY <3>1, <3>4
  <2>3. CASE GatewayRestarts
    <3>1. /\ UNCHANGED <<run, counters, pipe, history, cycles>> /\ open' = {}
          /\ latestFrame' = Null /\ failures' \in 0..MaxFailures
      BY <2>3, ReportAssumption DEF GatewayRestarts, Fails, TypeOK
    <3>2. TypeOK' BY <3>1 DEF TypeOK, counters
    <3>3. Known' \subseteq Known BY <3>1 DEF Known, Elements
    <3>4. KnownInv' BY <3>1, <3>3, Unchanged, NothingNew
    <3> QED BY <3>2, <3>4
  <2>4. ASSUME NEW s \in Streams, OnMessage(s) PROVE TypeOK' /\ KnownInv'
    BY <2>4, MessageStep
  <2>5. ASSUME NEW s \in Streams, LinkBreaks(s) \/ LinkOpens(s)
        PROVE TypeOK' /\ KnownInv'
    BY <2>5, LinkStep
  <2>6. CASE UNCHANGED vars
    <3>1. TypeOK' BY <2>6 DEF vars, links, counters, TypeOK
    <3>2. Known' \subseteq Known BY <2>6 DEF vars, links, Known, Elements
    <3>3. KnownInv' BY <2>6, <3>2, Unchanged, NothingNew DEF vars
    <3> QED BY <3>1, <3>3
  <2> QED BY <2>1, <2>2, <2>3, <2>4, <2>5, <2>6 DEF Next
<1> QED BY <1>1, <1>2, PTL DEF Spec

----------------------------------------------------------------------------

\* What the store holds is known, and made of frames.
LEMMA Stored ==
  ASSUME IInv
  PROVE  \A i \in DOMAIN history :
           history[i] \in Known /\ history[i] \in Frame /\ GoodFrame(history[i])
<1>1. \A i \in DOMAIN history : history[i] \in Known BY DEF Known, Elements
<1> QED BY <1>1 DEF IInv, KnownInv, GoodFrame

\* CycleReports' variables keep their types, and no counter runs ahead of the
\* cycles.
THEOREM ReportsTypeCorrect == Spec => []TypeOK
<1>1. IInv => TypeOK BY DEF IInv
<1> QED BY <1>1, Invariance, PTL

\* The amber bar and the "Deadline miss" label agree for every duration, but for
\* half a printed digit at 100 ms.
THEOREM BarAndLabelAgree == Spec => []BudgetBarAgrees
<1>1. IInv => BudgetBarAgrees
  BY Stored DEF GoodFrame, BarAgrees, BudgetBarAgrees
<1> QED BY <1>1, Invariance, PTL

LEMMA ChartedMiss ==
  ASSUME NEW i \in DOMAIN history, history[i] \in Frame
  PROVE ChartData[i].miss = Null <=> ~history[i].deadline_miss
<1>1. history[i].cycle_ms \in Nat BY DEF Frame
<1> QED BY <1>1, NullAssumption DEF ChartData, ChartPoint

\* Charted misses and deadline_miss_total add up whichever frames are lost, and in
\* whatever order and however often any number of streams store the others.
THEOREM ChartedMissesAddUp == Spec => []MissesAddUp
<1>1. IInv => MissesAddUp
  <2> SUFFICES ASSUME IInv, NEW i \in DOMAIN history, NEW j \in DOMAIN history,
                      history[i].run = history[j].run
               PROVE LET passed == history[j].cycle_id - history[i].cycle_id
                         counted == history[j].deadline_miss_total
                                      - history[i].deadline_miss_total
                     IN /\ passed = 0 => history[i] = history[j]
                        /\ passed > 0 => IF ChartData[j].miss = Null
                                         THEN counted \in 0 .. passed - 1
                                         ELSE counted \in 1 .. passed
    BY DEF MissesAddUp
  <2>1. Agree(history[i], history[j]) BY Stored DEF IInv, KnownInv
  <2>2. history[i].cycle_id \in Nat /\ history[j].cycle_id \in Nat
    BY Stored DEF Frame
  <2>3. ChartData[j].miss = Null <=> ~history[j].deadline_miss
    BY Stored, ChartedMiss
  <2> QED BY <2>1, <2>2, <2>3 DEF Agree
<1> QED BY <1>1, Invariance, PTL

\* A reported streak of misses is never contradicted by the chart.
THEOREM StreaksAreCharted == Spec => []StreakIsCharted
<1>1. IInv => StreakIsCharted
  <2> SUFFICES ASSUME IInv, NEW i \in DOMAIN history, NEW j \in DOMAIN history,
                      history[i].run = history[j].run,
                      history[j].cycle_id - history[i].cycle_id
                        \in 0 .. history[j].consecutive_miss - 1
               PROVE ChartData[i].miss # Null
    BY DEF StreakIsCharted
  <2>1. /\ history[i].cycle_id \in Nat /\ history[j].cycle_id \in Nat
        /\ history[j].consecutive_miss \in Nat
    BY Stored DEF Frame
  <2>2. history[j].consecutive_miss > 0 /\ history[j].deadline_miss
    BY <2>1, Stored DEF GoodFrame
  <2>3. Agree(history[i], history[j]) BY Stored DEF IInv, KnownInv
  <2>4. history[i].deadline_miss BY <2>1, <2>2, <2>3 DEF Agree
  <2> QED BY <2>4, Stored, ChartedMiss
<1> QED BY <1>1, Invariance, PTL
=============================================================================
