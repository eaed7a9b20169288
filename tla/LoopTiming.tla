----------------------------- MODULE LoopTiming ----------------------------
(***************************************************************************)
(* When the control loop of main.cpp runs and when its watchdog thinks it  *)
(* does not.  Time is a whole number of ticks and all times are relative   *)
(* to now.  The loop sleeps to an absolute grid; a cycle reads the clock,  *)
(* stores that reading as the heartbeat, works, measures itself, and then  *)
(* reports (logging, building and sending the frame) before it sleeps.     *)
(* The watchdog sleeps Poll ticks between two looks at the heartbeat, and  *)
(* each look loads the heartbeat, then reads the clock, then judges.  The  *)
(* scheduler may wake a sleeping thread up to Latency ticks late, and hold *)
(* for up to Preempt ticks the loop between its clock reading and the      *)
(* heartbeat's store, and the watchdog between its load and its verdict;   *)
(* how long it holds the loop elsewhere is part of Extras and Reports.     *)
(* Modes, other commands and sensors are left to SatCore.                  *)
(***************************************************************************)
EXTENDS Integers

CONSTANTS Cycle,      \* Config::CYCLE_NS
          Threshold,  \* Config::WATCHDOG_THRESHOLD_MS
          Poll,       \* the watchdog's sleep
          BusyCap,    \* the cap on an injected CPU load
          MissThreshold,
          Word,       \* the range of the unsigned 64-bit age
          Loads,      \* injected loads a cycle may find active (0: none)
          Extras,     \* what else a cycle costs until it measures itself
          Reports,    \* what it costs from then until it sleeps
          Latency,    \* environment bound: how late a sleeper wakes
          Preempt,    \* environment bound: between clock and heartbeat
          StartDelay, \* environment bound: from Init to the first cycle
          Backlog     \* bound: how far behind its grid the loop may fall

ASSUME TimingAssumption ==
  /\ Cycle \in Nat \ {0} /\ Threshold \in Nat /\ Poll \in Nat \ {0}
  /\ BusyCap \in Nat /\ MissThreshold \in Nat \ {0} /\ Word \in Nat \ {0}
  /\ Loads \subseteq Nat /\ Extras \subseteq Nat /\ Reports \subseteq Nat
  /\ Latency \in Nat /\ Preempt \in Nat /\ StartDelay \in Nat
  /\ Backlog \in Nat

VARIABLES
  loop,     \* the control loop: at its head, starting, working, reporting, asleep
  held,     \* ticks since cycle_start was read, while starting
  left,     \* ticks this cycle still works, or reports
  busy,     \* how many of its ticks are the injected load's busy wait
  work,     \* ticks from cycle_start to cycle_end, of the heartbeat's cycle
  report,   \* ticks from its cycle_end to its sleep
  due,      \* ticks until `next`, the grid time the loop sleeps to
  age,      \* ticks since the stored heartbeat was read, or Never
  misses,   \* cycle_consecutive_miss, counted up to MissThreshold
  watchdog, \* asleep, or between loading the heartbeat and its verdict
  timer,    \* ticks until the watchdog's sleep ends
  seen,     \* age of the heartbeat it has loaded, when it loaded it
  lag,      \* ticks since that load
  overran,  \* history: the cycle of that heartbeat misses its deadline
  alarm,    \* the WATCHDOG bit
  quiet     \* history: ticks since a RESET_FAULTS cleared it, up to a bound

vars == <<loop, held, left, busy, work, report, due, age, misses, watchdog, timer,
          seen, lag, overran, alarm, quiet>>
costs == <<busy, work, report>>
loopVars == <<loop, held, left, costs, due, age, misses>>
watchdogVars == <<watchdog, timer, seen, lag, overran>>
alarmVars == <<alarm, quiet>>

Never == -1

\* The longest way from one clock reading of the watchdog to the verdict on the
\* next: the rest of its look, its sleep, and the whole of the next look.
Lookout == Preempt + Poll + Latency + Preempt

TypeOK == /\ loop \in {"head", "starting", "working", "reporting", "asleep"}
          /\ held \in 0..Preempt
          /\ left \in Nat /\ busy \in 0..BusyCap
          /\ work \in Nat /\ report \in Nat
          /\ due \in Int
          /\ age \in Nat \union {Never}
          /\ misses \in 0..MissThreshold
          /\ watchdog \in {"asleep", "loaded"}
          /\ timer \in Int
          /\ seen \in Nat /\ lag \in 0..Preempt
          /\ overran \in BOOLEAN /\ alarm \in BOOLEAN
          /\ quiet \in 0..(Lookout + 1)

\* The watchdog's thread is started, then `next` set one cycle ahead.
Init == /\ loop = "head"
        /\ held = 0 /\ left = 0
        /\ busy = 0 /\ work = 0 /\ report = 0
        /\ due = Cycle
        /\ age = Never
        /\ misses = 0
        /\ watchdog = "asleep"
        /\ timer = Poll
        /\ seen = 0 /\ lag = 0
        /\ overran = FALSE
        /\ alarm = FALSE /\ quiet = Lookout + 1

----------------------------------------------------------------------------
(* The control loop. *)

\* An injected load is cut off below the length of a cycle.
Busy(load) == IF load > BusyCap THEN BusyCap ELSE load

\* cycle_start is read ...
StartCycle ==
  /\ loop = "head"
  /\ loop' = "starting"
  /\ held' = 0
  /\ UNCHANGED <<left, costs, due, age, misses, watchdogVars, alarmVars>>

\* ... and stored as the heartbeat.  What the cycle will cost is fixed here.
StoreHeartbeat ==
  /\ loop = "starting"
  /\ age' = held
  /\ \E load \in Loads, extra \in Extras :
       /\ busy' = Busy(load)
       /\ left' = Busy(load) + extra
  /\ work' = held + left'
  /\ report' \in Reports
  /\ due + Cycle - left' - report' >= -Backlog
  /\ held' = 0
  /\ loop' = "working"
  /\ UNCHANGED <<due, misses, watchdogVars, alarmVars>>

\* A command clears the alarm: after the heartbeat, before the busy wait.
ResetFaults ==
  /\ loop = "working"
  /\ left >= busy
  /\ alarm
  /\ alarm' = FALSE
  /\ quiet' = 0
  /\ UNCHANGED <<loopVars, watchdogVars>>

Missed == work > Cycle

\* cycle_end is read and the deadline accounted for.
MeasureCycle ==
  /\ loop = "working"
  /\ left = 0
  /\ misses' = IF ~Missed THEN 0
               ELSE IF misses < MissThreshold THEN misses + 1 ELSE misses
  /\ left' = report
  /\ loop' = "reporting"
  /\ UNCHANGED <<held, costs, due, age, watchdogVars, alarmVars>>

\* A seeded mistake: `next` does not move on.
FinishOnOldGrid ==
  /\ loop = "reporting"
  /\ left = 0
  /\ loop' = IF due > 0 THEN "asleep" ELSE "head"
  /\ UNCHANGED <<held, left, costs, due, age, misses, watchdogVars, alarmVars>>

\* The frame is sent and `next` moves on by a cycle: from the grid, not from
\* now.  sleep_until_abs returns at once when that time has passed.
FinishCycle ==
  /\ loop = "reporting"
  /\ left = 0
  /\ due' = due + Cycle
  /\ loop' = IF due' > 0 THEN "asleep" ELSE "head"
  /\ UNCHANGED <<held, left, costs, age, misses, watchdogVars, alarmVars>>

\* The sleep ends at `next`, or up to Latency later.
Wake ==
  /\ loop = "asleep"
  /\ due <= 0
  /\ loop' = "head"
  /\ UNCHANGED <<held, left, costs, due, age, misses, watchdogVars, alarmVars>>

----------------------------------------------------------------------------
(* The watchdog. *)

\* A seeded mistake: the watchdog takes a heartbeat of 0 for one.
WatchdogLoadsUnset ==
  /\ watchdog = "asleep"
  /\ timer <= 0
  /\ watchdog' = "loaded"
  /\ seen' = age
  /\ lag' = 0
  /\ overran' = Missed
  /\ UNCHANGED <<timer, loopVars, alarmVars>>

\* No heartbeat yet: the watchdog goes back to sleep.
WatchdogLoads ==
  /\ watchdog = "asleep"
  /\ timer <= 0
  /\ IF age = Never
     THEN /\ timer' = Poll
          /\ UNCHANGED <<watchdog, seen, lag, overran>>
     ELSE /\ watchdog' = "loaded"
          /\ seen' = age
          /\ lag' = 0
          /\ overran' = Missed
          /\ UNCHANGED timer
  /\ UNCHANGED <<loopVars, alarmVars>>

\* The unsigned difference of two clock readings that are n ticks apart.
Unsigned(n) == IF n < 0 THEN n + Word ELSE n

\* A seeded mistake: the clock read before the heartbeat, so that a heartbeat
\* stored in between is in its future.
ClockFirstAge(read) == Unsigned(age - lag)

\* now_ns - hb, in unsigned arithmetic: the age when loaded, and what it aged
\* until the clock was read.
StaleAge(read) == Unsigned(seen + read)

\* A seeded mistake: having raised the alarm, the watchdog takes a longer sleep.
WatchdogBacksOff ==
  /\ watchdog = "loaded"
  /\ \E read \in 0..lag : alarm' = (alarm \/ StaleAge(read) > Threshold)
  /\ watchdog' = "asleep"
  /\ timer' = IF alarm' THEN Threshold ELSE Poll
  /\ seen' = 0 /\ lag' = 0 /\ overran' = FALSE
  /\ UNCHANGED <<loopVars, quiet>>

\* The clock was read at some time since the load.
WatchdogJudges ==
  /\ watchdog = "loaded"
  /\ \E read \in 0..lag : alarm' = (alarm \/ StaleAge(read) > Threshold)
  /\ watchdog' = "asleep"
  /\ timer' = Poll
  /\ seen' = 0 /\ lag' = 0 /\ overran' = FALSE
  /\ UNCHANGED <<loopVars, quiet>>

\* A tick passes unless somebody has waited as long as the bounds allow.
Tick ==
  /\ loop = "head" => age = Never /\ due > Cycle - StartDelay
  /\ loop = "starting" => held < Preempt
  /\ loop \in {"working", "reporting"} => left > 0
  /\ loop = "asleep" => due > -Latency
  /\ watchdog = "asleep" => timer > -Latency
  /\ watchdog = "loaded" => lag < Preempt
  /\ held' = IF loop = "starting" THEN held + 1 ELSE held
  /\ left' = IF loop \in {"working", "reporting"} THEN left - 1 ELSE left
  /\ due' = due - 1
  /\ age' = IF age = Never THEN Never ELSE age + 1
  /\ timer' = IF watchdog = "asleep" THEN timer - 1 ELSE timer
  /\ lag' = IF watchdog = "loaded" THEN lag + 1 ELSE lag
  /\ quiet' = IF quiet > Lookout THEN quiet ELSE quiet + 1
  /\ UNCHANGED <<loop, costs, misses, watchdog, seen, overran, alarm>>

Next == \/ StartCycle \/ StoreHeartbeat \/ ResetFaults
        \/ MeasureCycle \/ FinishCycle \/ Wake
        \/ WatchdogLoads \/ WatchdogJudges
        \/ Tick

Spec == Init /\ [][Next]_vars

\* Both threads run and time passes, within the bounds above.
FairSpec == Spec /\ WF_vars(Next)

----------------------------------------------------------------------------

\* The watchdog raises its alarm only about a cycle that the telemetry reports as
\* a deadline miss: neither the doubled first period, nor late wake-ups, nor what
\* a cycle in time spends on its report after it has measured itself, nor a
\* heartbeat stored between the watchdog's two loads look like a stall to it.
NoFalseAlarm == [][alarm' /\ ~alarm => overran]_vars

\* A loop that has been silent for the threshold and the watchdog's way from one
\* reading to the next verdict is under alarm, except for as long as that way
\* takes after a RESET_FAULTS that the loop carried out during its silence.
StallRaisesAlarm ==
  age > Threshold + Lookout => alarm \/ quiet <= Lookout

\* Overruns are caught up: once every cycle needs less than its period, report
\* included, the loop is again and again asleep ahead of its grid.
CatchesUp == <>[](work + report < Cycle) => []<>(loop = "asleep" /\ due > 0)

\* README's scenario "CPU overload" says that an injected load leads to deadline
\* misses.  It does not by itself, however large: a cycle that misses has other
\* work, and more of it than the cap on the load leaves free.
LoadAloneMeetsDeadline == Missed => work - busy > Cycle - BusyCap
=============================================================================
