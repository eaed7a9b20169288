----------------------------- MODULE CycleReports ---------------------------
(***************************************************************************)
(* What the operator is told about cycle times: main.cpp measures a cycle  *)
(* and counts deadline misses, to_json prints the numbers with the six     *)
(* significant digits a C++ stream has by default, the frame gets lost or  *)
(* reaches the gateway, which sends it to every WebSocket it has, and the  *)
(* page draws a budget bar of the latest frame and a chart of all that its *)
(* store keeps.  Every visit of the page leaves a run of use-ws-telemetry  *)
(* behind (TelemetryFeed says why), and all of them feed the one store: it *)
(* gets frames repeatedly, and older frames after newer ones.  Times are   *)
(* in units of 0.1 microseconds.                                           *)
(***************************************************************************)
EXTENDS Integers, Sequences

CONSTANTS Durations,   \* times a cycle may take
          Streams,     \* the runs that feed the store, one WebSocket each
          PipeCap,     \* bound: frames on the way to one of them
          MissThreshold,
          MAX_HISTORY,
          Null,
          MaxCycles,   \* bound: cycles of all runs of sat_core
          MaxFailures  \* bound: restarts of sat_core and of the gateway

ASSUME DurationAssumption == Durations \subseteq Nat
ASSUME NullAssumption == Null \notin Nat
ASSUME ReportAssumption ==
  /\ MissThreshold \in Nat \ {0} /\ MAX_HISTORY \in Nat \ {0, 1}
  /\ PipeCap \in Nat \ {0}
  /\ MaxCycles \in Nat /\ MaxFailures \in Nat

Deadline == 1000000 \* 100 ms

VARIABLES
  run,         \* how often sat_core has been started
  cycle_id, deadline_miss_total, consecutive_miss, \* what it reports
  streak,      \* cycle_consecutive_miss
  latestFrame, \* the gateway's, or Null
  open,        \* the streams that the gateway broadcasts to
  pipe,        \* per stream, the frames sent and not yet handed to the page
  history,     \* the store's
  cycles, failures \* how much has happened

counters == <<cycle_id, deadline_miss_total, consecutive_miss, streak>>
links == <<open, pipe>>
vars == <<run, counters, latestFrame, links, history, cycles, failures>>

Frame == [run : Nat, \* not in the code: which start of sat_core it is from
          cycle_id : Nat, cycle_ms : Nat, slack_ms : Int, deadline_miss : BOOLEAN,
          deadline_miss_total : Nat, consecutive_miss : Nat]

TypeOK == /\ run \in Nat
          /\ cycle_id \in Nat /\ deadline_miss_total \in 0..cycle_id
          /\ streak \in 0..cycle_id /\ consecutive_miss \in 0..streak
          /\ latestFrame \in Frame \union {Null}
          /\ open \subseteq Streams /\ pipe \in [Streams -> Seq(Frame)]
          /\ history \in Seq(Frame) /\ Len(history) <= MAX_HISTORY
          /\ cycles \in 0..MaxCycles /\ failures \in 0..MaxFailures

Init == /\ run = 1
        /\ cycle_id = 0 /\ deadline_miss_total = 0 /\ consecutive_miss = 0
        /\ streak = 0
        /\ latestFrame = Null /\ open = {} /\ pipe = [s \in Streams |-> <<>>]
        /\ history = <<>>
        /\ cycles = 0 /\ failures = 0

----------------------------------------------------------------------------
(* sat_core. *)

\* A seeded mistake: a cycle of exactly 100 ms is late.
MissedAtDeadline(d) == d >= Deadline

Missed(d) == d > Deadline

\* What six digits leave of a time: units of 0.1 microseconds up to 100 ms, ten
\* of them up to a second, a hundred above.
Digit(d) == IF d < Deadline THEN 1 ELSE IF d < 10 * Deadline THEN 10 ELSE 100

\* The nearest numbers that can be printed: two at a tie, which the binary value
\* decides.
Printed(d) ==
  LET u == Digit(d)
      floor == d - (d % u)
  IN {n \in {floor, floor + u} : 2 * (n - d) <= u /\ 2 * (d - n) <= u}

PrintedSlack(d) == IF d <= Deadline THEN Printed(Deadline - d)
                   ELSE {-n : n \in Printed(d - Deadline)}

\* A seeded mistake: the total is sampled before this cycle is counted.
ReportBeforeCounting(d, total, published) ==
  {[run |-> run, cycle_id |-> cycle_id, cycle_ms |-> n, slack_ms |-> s,
    deadline_miss |-> Missed(d), deadline_miss_total |-> deadline_miss_total,
    consecutive_miss |-> published] : n \in Printed(d), s \in PrintedSlack(d)}

\* The frames that may be printed for this cycle.
Report(d, total, published) ==
  {[run |-> run, cycle_id |-> cycle_id, cycle_ms |-> n, slack_ms |-> s,
    deadline_miss |-> Missed(d), deadline_miss_total |-> total,
    consecutive_miss |-> published] : n \in Printed(d), s \in PrintedSlack(d)}

\* A seeded mistake: a cycle in time does not end the streak.
CountStreakForEver(d) == IF Missed(d) THEN streak + 1 ELSE streak

CountStreak(d) == IF Missed(d) THEN streak + 1 ELSE 0

\* The frame arrives at the gateway, which keeps and broadcasts it.
Broadcast(f) ==
  /\ latestFrame' = f
  /\ pipe' = [s \in Streams |-> IF s \in open THEN Append(pipe[s], f) ELSE pipe[s]]

\* A cycle that took d; its frame reaches the gateway or is lost.
RunCycle(d) ==
  /\ cycles < MaxCycles /\ cycles' = cycles + 1
  /\ \A s \in open : Len(pipe[s]) < PipeCap
  /\ cycle_id' = cycle_id + 1
  /\ deadline_miss_total' = deadline_miss_total + (IF Missed(d) THEN 1 ELSE 0)
  /\ streak' = CountStreak(d)
  /\ consecutive_miss' = IF ~Missed(d) THEN 0
                         ELSE IF streak' >= MissThreshold THEN streak'
                         ELSE consecutive_miss
  /\ \/ \E f \in Report(d, deadline_miss_total', consecutive_miss') : Broadcast(f)
     \/ UNCHANGED <<latestFrame, pipe>>
  /\ UNCHANGED <<run, open, history, failures>>

Fails == failures < MaxFailures /\ failures' = failures + 1

CoreRestarts ==
  /\ Fails
  /\ run' = run + 1
  /\ cycle_id' = 0 /\ deadline_miss_total' = 0 /\ consecutive_miss' = 0
  /\ streak' = 0
  /\ UNCHANGED <<latestFrame, links, history, cycles>>

----------------------------------------------------------------------------
(* Gateway and browser. *)

\* A seeded mistake: slice(-MAX_HISTORY), then the new frame.
RememberOneTooMany(h, f) ==
  LET from == IF Len(h) <= MAX_HISTORY THEN 1 ELSE Len(h) - MAX_HISTORY + 1
  IN Append(SubSeq(h, from, Len(h)), f)

\* slice(-(MAX_HISTORY - 1)), then the new frame.
Remember(h, f) ==
  LET from == IF Len(h) < MAX_HISTORY THEN 1 ELSE Len(h) - MAX_HISTORY + 2
  IN Append(SubSeq(h, from, Len(h)), f)

\* A stream's next frame reaches the store, whatever the store has already.
OnMessage(s) ==
  /\ pipe[s] # <<>>
  /\ history' = Remember(history, Head(pipe[s]))
  /\ pipe' = [pipe EXCEPT ![s] = Tail(@)]
  /\ UNCHANGED <<run, counters, latestFrame, open, cycles, failures>>

\* What the gateway has sent may still arrive, or be lost with its WebSocket.
GatewayRestarts ==
  /\ Fails
  /\ latestFrame' = Null /\ open' = {}
  /\ UNCHANGED <<run, counters, pipe, history, cycles>>

LinkBreaks(s) ==
  /\ s \in open \/ pipe[s] # <<>>
  /\ open' = open \ {s}
  /\ pipe' = [pipe EXCEPT ![s] = <<>>]
  /\ UNCHANGED <<run, counters, latestFrame, history, cycles, failures>>

\* A run's new WebSocket, after its last one has closed; the gateway greets it
\* with its latest frame, which the store may have, and newer ones too.
LinkOpens(s) ==
  /\ s \notin open /\ pipe[s] = <<>>
  /\ open' = open \union {s}
  /\ pipe' = [pipe EXCEPT ![s] = IF latestFrame = Null THEN <<>> ELSE <<latestFrame>>]
  /\ UNCHANGED <<run, counters, latestFrame, history, cycles, failures>>

Next == \/ \E d \in Durations : RunCycle(d)
        \/ CoreRestarts \/ GatewayRestarts
        \/ \E s \in Streams : OnMessage(s) \/ LinkBreaks(s) \/ LinkOpens(s)

Spec == Init /\ [][Next]_vars

\* What the page draws of a frame.
OverBudget(f) == f.cycle_ms > Deadline
DeadlineMissLabel(f) == f.deadline_miss
ChartPoint(f) == [cycle |-> f.cycle_id, cycleMs |-> f.cycle_ms,
                  miss |-> IF f.deadline_miss THEN f.cycle_ms ELSE Null]
ChartData == [i \in DOMAIN history |-> ChartPoint(history[i])]

----------------------------------------------------------------------------

\* Bar and label agree although one goes by the printed number and the other by
\* the measured one: an amber bar is a deadline miss, and a miss that is printed
\* as 100 ms is one by half a microsecond at most.
BudgetBarAgrees ==
  \A i \in DOMAIN history :
    LET f == history[i]
    IN IF OverBudget(f) THEN DeadlineMissLabel(f)
       ELSE DeadlineMissLabel(f) => f.cycle_ms = Deadline /\ f.slack_ms \in -5 .. -1

\* Charted misses and the counter add up, in whatever order and however often the
\* streams have stored their frames, and whichever were lost: between two cycles
\* of one start of sat_core the counter counts the later one if it is charted as
\* a miss, leaves it out if it is charted as in time, and counts no cycle twice;
\* and a cycle that is charted twice is charted alike.
MissesAddUp ==
  \A i, j \in DOMAIN history :
    LET passed == history[j].cycle_id - history[i].cycle_id
        counted == history[j].deadline_miss_total - history[i].deadline_miss_total
    IN history[i].run = history[j].run =>
         /\ passed = 0 => history[i] = history[j]
         /\ passed > 0 => IF ChartData[j].miss = Null THEN counted \in 0 .. passed - 1
                          ELSE counted \in 1 .. passed

\* A frame that reports n consecutive misses comes after n - 1 others: no cycle
\* among them that has reached the chart was in time.
StreakIsCharted ==
  \A i, j \in DOMAIN history :
    LET passed == history[j].cycle_id - history[i].cycle_id
    IN history[i].run = history[j].run /\ passed \in 0 .. history[j].consecutive_miss - 1
         => ChartData[i].miss # Null
=============================================================================
