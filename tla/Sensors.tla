------------------------------ MODULE Sensors ------------------------------
(***************************************************************************)
(* The sensor simulation of sensors.cpp, as operators on its state: two    *)
(* injections counted in remaining 100 ms cycles (Duration: how many calls *)
(* of update still find them positive) and the status that goes into       *)
(* telemetry.  Rates, noise and the spike's amplitude are abstracted to    *)
(* one question, asked each cycle: did a rate exceed GYRO_SPIKE_THRESHOLD? *)
(***************************************************************************)
EXTENDS Command

Fault == {"GYRO_SPIKE", "STAR_TRACKER_DROPOUT", "WATCHDOG", "DEADLINE",
          "CPU_LOAD", "SENSOR_DROPOUT", "POWER_GLITCH"}

SensorState == [dropout : Duration,     \* sensor_dropout_remaining_
                spike   : Duration,     \* gyro_spike_remaining_
                gyro_ok : BOOLEAN,
                star_tracker_ok : BOOLEAN,
                last_star_tracker_update_ms : Nat]

IdleSensors == [dropout |-> 0, spike |-> 0, gyro_ok |-> TRUE,
                star_tracker_ok |-> TRUE, last_star_tracker_update_ms |-> 0]

InjectDropout(s, cycles) ==
  [s EXCEPT !.dropout = cycles, !.star_tracker_ok = FALSE, !.gyro_ok = FALSE]

InjectSpike(s, cycles) == [s EXCEPT !.spike = cycles]

\* A seeded mistake: the dropout's last cycle still counts as one of it.
BlackoutToTheEnd(s) == s.dropout # 0

\* A dropout that outlives this call: update returns before it samples.
Blackout(s) == s.dropout \notin {0, 1}

\* A seeded mistake: the last cycle of an injection is never used up.
CountdownToOne(n) == IF n > 1 THEN n - 1 ELSE n

Countdown(n) == IF n > 0 THEN n - 1 ELSE n

\* STAR_TRACKER_DROPOUT ages the last fix by a cycle, and to 600 ms at least.
StarTrackerAge(s, snapshot) ==
  IF "STAR_TRACKER_DROPOUT" \notin snapshot THEN 0
  ELSE IF s.last_star_tracker_update_ms < 500 THEN 600
  ELSE s.last_star_tracker_update_ms + 100

\* The state after update, given the fault bits its caller loaded before it.
UpdatedSensors(s, snapshot) ==
  IF Blackout(s)
  THEN [dropout         |-> Countdown(s.dropout),
        spike           |-> s.spike,
        gyro_ok         |-> FALSE,
        star_tracker_ok |-> FALSE,
        last_star_tracker_update_ms |-> 9999]
  ELSE [dropout         |-> 0,
        spike           |-> Countdown(s.spike),
        gyro_ok         |-> "GYRO_SPIKE" \notin snapshot,
        star_tracker_ok |-> "STAR_TRACKER_DROPOUT" \notin snapshot,
        last_star_tracker_update_ms |-> StarTrackerAge(s, snapshot)]

\* Bits update sets in the shared mask; a spike's last cycle clears its bit
\* after setting it, so only an earlier one leaves it set.
RaisedBits(s, over) ==
  IF Blackout(s) THEN {"SENSOR_DROPOUT"}
  ELSE {b \in {"GYRO_SPIKE"} : s.spike \notin {0, 1} /\ over}

\* Bits update clears in the shared mask.
ClearedBits(s) ==
  IF Blackout(s) THEN {}
  ELSE {b \in {"SENSOR_DROPOUT"} : s.dropout = 1}
         \union {b \in {"GYRO_SPIKE"} : s.spike = 1}

\* The shared mask after update; `over` says a sampled rate was too large.
UpdatedFaults(s, faults, over) ==
  (faults \ ClearedBits(s)) \union RaisedBits(s, over)
=============================================================================
