-------------------------- MODULE LoopTimingProofs -------------------------
(***************************************************************************)
(* Proofs about LoopTiming for every period, threshold, poll, set of       *)
(* costs and scheduling delay.                                             *)
(***************************************************************************)
EXTENDS LoopTiming, TLAPS

USE DEF Never, watchdogVars, loopVars, costs, alarmVars

LEMMA BusyType == \A load \in Loads : Busy(load) \in 0..BusyCap
BY TimingAssumption DEF Busy

\* What a cycle's start fixes about its costs.
LEMMA CostsFixed ==
  ASSUME TypeOK, StoreHeartbeat
  PROVE  /\ left' \in Nat /\ busy' \in 0..BusyCap /\ report' \in Reports
         /\ work' = held + left'
         /\ \E extra \in Extras : left' = busy' + extra
<1>1. PICK load \in Loads, extra \in Extras :
        busy' = Busy(load) /\ left' = Busy(load) + extra
  BY DEF StoreHeartbeat
<1>2. Busy(load) \in 0..BusyCap /\ extra \in Nat
  BY BusyType, TimingAssumption
<1>3. work' = held + left' /\ report' \in Reports
  BY DEF StoreHeartbeat
<1> QED BY <1>1, <1>2, <1>3, TimingAssumption

\* What a verdict does to the alarm.
LEMMA Verdict ==
  ASSUME TypeOK, WatchdogJudges
  PROVE  \E read \in 0..lag : /\ ~alarm' => seen + read <= Threshold
                              /\ alarm' /\ ~alarm => seen + read > Threshold
<1>1. PICK read \in 0..lag : alarm' = (alarm \/ StaleAge(read) > Threshold)
  BY DEF WatchdogJudges
<1>2. StaleAge(read) = seen + read
  BY DEF StaleAge, Unsigned, TypeOK
<1>3. /\ ~alarm' => ~(StaleAge(read) > Threshold)
      /\ alarm' /\ ~alarm => StaleAge(read) > Threshold
  BY <1>1, Zenon
<1>4. seen + read \in Int /\ Threshold \in Int
  BY TimingAssumption DEF TypeOK
<1>5. /\ ~alarm' => seen + read <= Threshold
      /\ alarm' /\ ~alarm => seen + read > Threshold
  BY <1>2, <1>3, <1>4
<1> QED BY <1>5

\* LoopTiming's variables keep their types.
THEOREM TimingTypeCorrect == Spec => []TypeOK
<1> USE TimingAssumption DEF TypeOK, Lookout
<1>1. Init => TypeOK
  <2> SUFFICES ASSUME Init PROVE TypeOK
    OBVIOUS
  <2>1. overran \in BOOLEAN /\ alarm \in BOOLEAN
    BY Zenon DEF Init
  <2> QED BY <2>1 DEF Init
<1>2. TypeOK /\ [Next]_vars => TypeOK'
  <2> SUFFICES ASSUME TypeOK, [Next]_vars PROVE TypeOK'
    OBVIOUS
  <2>1. CASE StartCycle
    BY <2>1 DEF StartCycle
  <2>2. CASE StoreHeartbeat
    BY <2>2, CostsFixed DEF StoreHeartbeat
  <2>3. CASE ResetFaults
    <3>1. alarm' \in BOOLEAN
      BY <2>3, Zenon DEF ResetFaults
    <3> QED BY <2>3, <3>1 DEF ResetFaults
  <2>4. CASE MeasureCycle
    BY <2>4 DEF MeasureCycle
  <2>5. CASE FinishCycle \/ Wake
    BY <2>5 DEF FinishCycle, Wake
  <2>6. CASE WatchdogLoads
    <3>1. overran' \in {overran, Missed}
      BY <2>6, Zenon DEF WatchdogLoads
    <3>2. age # Never => age \in Nat
      OBVIOUS
    <3>3. overran' \in BOOLEAN
      <4>1. overran \in BOOLEAN /\ Missed \in BOOLEAN
        BY DEF Missed
      <4> QED BY <3>1, <4>1, Zenon
    <3> QED BY <2>6, <3>2, <3>3 DEF WatchdogLoads
  <2>7. CASE WatchdogJudges
    <3>1. alarm' \in BOOLEAN
      BY <2>7 DEF WatchdogJudges
    <3>2. overran' \in BOOLEAN
      BY <2>7, Zenon DEF WatchdogJudges
    <3> QED BY <2>7, <3>1, <3>2 DEF WatchdogJudges
  <2>8. CASE Tick
    BY <2>8 DEF Tick
  <2>9. CASE UNCHANGED vars
    BY <2>9 DEF vars
  <2> QED BY <2>1, <2>2, <2>3, <2>4, <2>5, <2>6, <2>7, <2>8, <2>9 DEF Next
<1> QED BY <1>1, <1>2, PTL DEF Spec

----------------------------------------------------------------------------
(* No false alarm. *)

\* How old a heartbeat can be when the loop reaches its head again: it slept
\* until its grid time, or had none left to sleep.
Renewed(n) == n <= 2 * Cycle + Latency \/ n <= Cycle + report

\* How far the heartbeat, the work and the grid can be apart.  A cycle starts
\* at most one period ahead of its grid time, so that its successor's grid time
\* is at most two periods after its heartbeat: the first cycle uses that up.
GridInv ==
  /\ report \in Reports \union {0}
  /\ loop = "head" => due <= Cycle
  /\ loop = "starting" => due + held <= Cycle
  /\ loop = "working" => age >= 0 /\ age + left = work /\ due + age <= Cycle
  /\ loop = "reporting"
       => age >= 0 /\ age + left = work + report /\ due + age <= Cycle
  /\ loop = "asleep" => age >= 0 /\ due >= -Latency /\ due + age <= 2 * Cycle
  /\ loop = "head" /\ ~Missed => Renewed(age)
  /\ loop = "starting" /\ ~Missed => Renewed(age - held)

LEMMA GridStep == TypeOK /\ GridInv /\ [Next]_vars => GridInv'
<1> SUFFICES ASSUME TypeOK, GridInv, [Next]_vars PROVE GridInv'
  OBVIOUS
<1> USE TimingAssumption DEF TypeOK, GridInv, Missed, Renewed
<1>1. CASE StartCycle
  BY <1>1 DEF StartCycle
<1>2. CASE StoreHeartbeat
  BY <1>2, CostsFixed DEF StoreHeartbeat
<1>3. CASE MeasureCycle
  BY <1>3 DEF MeasureCycle
<1>4. CASE FinishCycle
  BY <1>4 DEF FinishCycle
<1>5. CASE Wake
  BY <1>5 DEF Wake
<1>6. CASE ResetFaults \/ WatchdogLoads \/ WatchdogJudges
  BY <1>6 DEF ResetFaults, WatchdogLoads, WatchdogJudges
<1>7. CASE Tick
  BY <1>7 DEF Tick
<1>8. CASE UNCHANGED vars
  BY <1>8 DEF vars
<1> QED BY <1>1, <1>2, <1>3, <1>4, <1>5, <1>6, <1>7, <1>8 DEF Next

\* What the threshold has to absorb: the delays around a sleep of up to two
\* periods, and around the longest report of a cycle that has no time to sleep.
Margin == /\ 2 * Cycle + Latency + 2 * Preempt <= Threshold
          /\ \A r \in Reports : Cycle + r + 2 * Preempt <= Threshold

\* So the heartbeat of a cycle that meets its deadline is always young.
LEMMA GridBoundsAge ==
  ASSUME TypeOK, GridInv, Margin, ~Missed
  PROVE  age <= Threshold - Preempt
<1>1. Cycle + report + 2 * Preempt <= Threshold
  BY TimingAssumption DEF GridInv, Margin
<1> QED BY <1>1, TimingAssumption DEF TypeOK, GridInv, Missed, Renewed, Margin

\* And so is the one that the watchdog has loaded.
FreshInv == watchdog = "loaded" /\ ~overran => seen <= Threshold - Preempt

LEMMA FreshStep ==
  ASSUME Margin
  PROVE  TypeOK /\ GridInv /\ FreshInv /\ [Next]_vars => FreshInv'
<1> SUFFICES ASSUME TypeOK, GridInv, FreshInv, [Next]_vars PROVE FreshInv'
  OBVIOUS
<1> USE DEF FreshInv
<1>1. CASE WatchdogLoads
  BY <1>1, GridBoundsAge DEF WatchdogLoads
<1>2. CASE StartCycle \/ StoreHeartbeat \/ ResetFaults \/ MeasureCycle
  BY <1>2 DEF StartCycle, StoreHeartbeat, ResetFaults, MeasureCycle
<1>3. CASE FinishCycle \/ Wake \/ Tick \/ WatchdogJudges
  BY <1>3 DEF FinishCycle, Wake, Tick, WatchdogJudges
<1>4. CASE UNCHANGED vars
  BY <1>4 DEF vars
<1> QED BY <1>1, <1>2, <1>3, <1>4 DEF Next

\* Within the margin the watchdog alarms only about cycles that overran.
THEOREM AlarmsAreTrue ==
  ASSUME Margin
  PROVE  Spec => NoFalseAlarm
<1>1. Init => GridInv /\ FreshInv
  BY TimingAssumption DEF Init, GridInv, FreshInv, Missed, Renewed
<1>2. TypeOK /\ FreshInv /\ [Next]_vars => [alarm' /\ ~alarm => overran]_vars
  <2> SUFFICES ASSUME TypeOK, FreshInv, Next, alarm', ~alarm PROVE overran
    OBVIOUS
  <2>1. CASE WatchdogJudges
    <3>1. PICK read \in 0..lag : seen + read > Threshold
      BY <2>1, Verdict
    <3> QED BY <2>1, <3>1, TimingAssumption
            DEF Margin, FreshInv, TypeOK, WatchdogJudges
  <2>2. CASE StartCycle \/ StoreHeartbeat \/ ResetFaults \/ MeasureCycle
    BY <2>2 DEF StartCycle, StoreHeartbeat, ResetFaults, MeasureCycle
  <2>3. CASE FinishCycle \/ Wake \/ WatchdogLoads \/ Tick
    BY <2>3 DEF FinishCycle, Wake, WatchdogLoads, Tick
  <2> QED BY <2>1, <2>2, <2>3 DEF Next
<1> QED BY <1>1, <1>2, GridStep, FreshStep, TimingTypeCorrect, PTL
        DEF Spec, NoFalseAlarm

----------------------------------------------------------------------------
(* Every stall raises the alarm. *)

\* While there is no alarm the heartbeat is no older than the time since the
\* last verdict allows, or the alarm was cleared since; and the heartbeat is the
\* one that the watchdog has loaded, or was stored after that.
StallInv ==
  /\ timer <= Poll
  /\ watchdog = "asleep" => timer >= -Latency
  /\ watchdog = "asleep" /\ ~alarm
       => \/ age + timer <= Threshold + Preempt + Poll
          \/ quiet + timer <= Poll
  /\ watchdog = "loaded" => age = seen + lag \/ age <= lag + Preempt
  /\ watchdog = "loaded" /\ ~alarm
       => \/ age <= Threshold + Preempt + Poll + Latency + lag
          \/ quiet <= Poll + Latency + lag

LEMMA StallStep ==
  ASSUME Preempt <= Threshold
  PROVE  TypeOK /\ StallInv /\ [Next]_vars => StallInv'
<1> SUFFICES ASSUME TypeOK, StallInv, [Next]_vars PROVE StallInv'
  OBVIOUS
<1> USE TimingAssumption DEF TypeOK, StallInv
<1>1. CASE StartCycle \/ MeasureCycle
  BY <1>1 DEF StartCycle, MeasureCycle
<1>2. CASE StoreHeartbeat
  BY <1>2 DEF StoreHeartbeat
<1>3. CASE ResetFaults
  BY <1>3 DEF ResetFaults
<1>4. CASE FinishCycle \/ Wake
  BY <1>4 DEF FinishCycle, Wake
<1>5. CASE WatchdogLoads
  BY <1>5 DEF WatchdogLoads
<1>6. CASE WatchdogJudges
  <2>1. PICK read \in 0..lag : ~alarm' => seen + read <= Threshold
    BY <1>6, Verdict
  <2>2. ~alarm' => age <= Threshold + Preempt
    BY <1>6, <2>1 DEF WatchdogJudges
  <2>3. age' = age /\ timer' = Poll /\ watchdog' = "asleep"
    BY <1>6 DEF WatchdogJudges
  <2> QED BY <2>2, <2>3
<1>7. CASE Tick
  BY <1>7 DEF Tick
<1>8. CASE UNCHANGED vars
  BY <1>8 DEF vars
<1> QED BY <1>1, <1>2, <1>3, <1>4, <1>5, <1>6, <1>7, <1>8 DEF Next

\* A heartbeat older than the threshold and the watchdog's way to its next
\* verdict is under alarm, or was until the loop cleared it that recently.
THEOREM StallsAreSeen ==
  ASSUME Preempt <= Threshold
  PROVE  Spec => []StallRaisesAlarm
<1>1. Init => StallInv
  BY TimingAssumption DEF Init, StallInv
<1>2. TypeOK /\ StallInv => StallRaisesAlarm
  BY TimingAssumption DEF TypeOK, StallInv, StallRaisesAlarm, Lookout
<1> QED BY <1>1, <1>2, StallStep, TimingTypeCorrect, PTL DEF Spec

----------------------------------------------------------------------------
(* The documented overload. *)

\* An injected load never makes a cycle miss its deadline by itself, whatever
\* its size and the cap: a cycle that misses has other work, and more of it
\* than the cap leaves free.
THEOREM LoadIsHarmless == Spec => []LoadAloneMeetsDeadline
<1> USE TimingAssumption DEF Missed, LoadAloneMeetsDeadline
<1>1. TypeOK => LoadAloneMeetsDeadline
  BY DEF TypeOK
<1> QED BY <1>1, TimingTypeCorrect, PTL
=============================================================================
