--------------------------- MODULE SatCoreProofs ---------------------------
(***************************************************************************)
(* Proofs about SatCore for every command budget, miss threshold, traffic  *)
(* and bound.                                                              *)
(***************************************************************************)
EXTENDS SatCore, TLAPS

LEMMA CommandTypes == NoCommand \in Commands /\ Traffic \subseteq Commands
<1>1. NoCommand \in [verb : Verb, word : ModeWord \union {"none"}, cycles : Duration,
                     numeric : BOOLEAN]
  BY DEF NoCommand, Plain, Verb, Duration
<1>2. NoCommand.numeric BY Zenon DEF NoCommand, Plain
<1> QED BY <1>1, <1>2, TrafficAssumption, Zenon DEF Commands

\* What a command is, for the branches of the dispatcher.
LEMMA CommandShape ==
  ASSUME NEW cmd \in Commands
  PROVE  /\ cmd.cycles \in Duration
         /\ cmd.verb \in Verb
         /\ ~cmd.numeric => cmd.verb \in FaultVerb \union {"SET_TARGET_RATE"}
BY Zenon DEF Commands

\* A countdown of a duration is one; it ends a finite one only at its last cycle.
LEMMA CountdownTypes ==
  ASSUME NEW n \in Duration
  PROVE  Countdown(n) \in Duration /\ (n \notin {0, 1} => Countdown(n) # 0)
BY DEF Countdown, Duration, Endless

\* Sensor updates and injections yield sensor states.
LEMMA SensorTypes ==
  ASSUME NEW s \in SensorState, NEW n \in Duration, NEW snapshot
  PROVE  /\ InjectDropout(s, n) \in SensorState
         /\ InjectSpike(s, n) \in SensorState
         /\ UpdatedSensors(s, snapshot) \in SensorState
<1>1. InjectDropout(s, n) \in SensorState
  BY DEF InjectDropout, SensorState
<1>2. InjectSpike(s, n) \in SensorState
  BY DEF InjectSpike, SensorState
<1>3. /\ s.dropout \in Duration /\ s.spike \in Duration
      /\ s.last_star_tracker_update_ms \in Nat
  BY DEF SensorState
<1>4. StarTrackerAge(s, snapshot) \in Nat
  BY <1>3 DEF StarTrackerAge
<1>5. Countdown(s.spike) \in Duration /\ Countdown(s.dropout) \in Duration
  BY <1>3, CountdownTypes
<1>z. 0 \in Duration BY DEF Duration
<1>6. UpdatedSensors(s, snapshot) \in SensorState
  <2>1. CASE Blackout(s)
    BY <1>3, <1>5, <2>1 DEF UpdatedSensors, SensorState
  <2>2. CASE ~Blackout(s)
    BY <1>z, <1>4, <1>5, <2>2 DEF UpdatedSensors, SensorState
  <2> QED BY <2>1, <2>2
<1> QED BY <1>1, <1>2, <1>6

\* The update touches only its own bits.
LEMMA UpdatedFaultsBounds ==
  ASSUME NEW s, NEW f \in SUBSET Fault, NEW over \in BOOLEAN
  PROVE  /\ UpdatedFaults(s, f, over) \subseteq Fault
         /\ \A b \in Fault \ {"SENSOR_DROPOUT", "GYRO_SPIKE"} :
              b \in UpdatedFaults(s, f, over) <=> b \in f
BY DEF UpdatedFaults, RaisedBits, ClearedBits, Fault

\* SatCore's variables keep their types, for every budget, threshold and traffic.
THEOREM TypeCorrect == Spec => []TypeOK
<1> USE CommandTypes, BudgetAssumption
<1>1. Init => TypeOK
  <2>1. IdleSensors \in SensorState
    BY DEF IdleSensors, SensorState, Duration
  <2>2. [mode |-> "NOMINAL", faults |-> {}] \in Frame
    BY DEF Frame, Mode
  <2>3. ASSUME Init PROVE TypeOK
    <3>1. queue \in Seq(Traffic)
      BY <2>3 DEF Init
    <3>2. last_command \in Traffic \union {NoCommand}
      BY <2>3 DEF Init
    <3>3. processed \in 0..MaxCommandsPerCycle /\ pc \in Location /\ mode \in Mode
      BY <2>3 DEF Init, Location, Mode
    <3>4. heartbeat \in BOOLEAN /\ faults \subseteq Fault /\ wpc \in {"sleep", "latched"}
      BY <2>3 DEF Init
    <3>5. /\ load \in Duration /\ cycle_consecutive_miss \in Nat /\ consecutive_miss \in Nat
          /\ sensors \in SensorState /\ frame \in Frame
      BY <2>1, <2>2, <2>3 DEF Init, Duration
    <3> QED BY <3>1, <3>2, <3>3, <3>4, <3>5 DEF TypeOK
  <2> QED BY <2>3
<1>2. TypeOK /\ [Next]_vars => TypeOK'
  <2> SUFFICES ASSUME TypeOK, [Next]_vars PROVE TypeOK'
    OBVIOUS
  <2> USE DEF TypeOK, Location, payload, missVars
  <2>1. CASE StartCycle
    BY <2>1 DEF StartCycle
  <2>2. CASE TakeCommand
    BY <2>2 DEF TakeCommand
  <2>3. CASE DiscardCommand
    BY <2>3 DEF DiscardCommand
  <2>4. CASE QueueDrained
    BY <2>4 DEF QueueDrained
  <2>5. CASE ExecSetMode
    BY <2>5 DEF ExecSetMode, Dispatch, ParseMode, Mode
  <2>6. CASE ExecResetFaults
    BY <2>6 DEF ExecResetFaults, Dispatch
  <2>7. CASE ExecCpuLoad
    <3>1. last_command.cycles \in Duration
      BY CommandShape
    <3> QED BY <2>7, <3>1 DEF ExecCpuLoad, Dispatch, Fault
  <2>8. CASE ExecSensorDropout
    <3>1. last_command.cycles \in Duration
      BY CommandShape
    <3> QED BY <2>8, <3>1, SensorTypes DEF ExecSensorDropout, Dispatch
  <2>9. CASE ExecGyroSpike
    <3>1. last_command.cycles \in Duration
      BY CommandShape
    <3> QED BY <2>9, <3>1, SensorTypes DEF ExecGyroSpike, Dispatch
  <2>10. CASE ExecPowerGlitch
    BY <2>10 DEF ExecPowerGlitch, Dispatch, Fault
  <2>11. CASE ExecWithoutEffect
    BY <2>11 DEF ExecWithoutEffect, Dispatch
  <2>12. CASE ExecThrows
    BY <2>12 DEF ExecThrows
  <2>13. ASSUME NEW over \in BOOLEAN, Work(over) PROVE TypeOK'
    <3>1. faults \ FinishedLoad \in SUBSET Fault
      OBVIOUS
    <3>2. load' \in Duration
      BY <2>13, CountdownTypes DEF Work
    <3> QED BY <2>13, <3>1, <3>2, SensorTypes, UpdatedFaultsBounds DEF Work
  <2>14. CASE MeetDeadline
    BY <2>14 DEF MeetDeadline
  <2>15. CASE MissDeadline
    <3>1. cycle_consecutive_miss' \in Nat
      BY <2>15 DEF MissDeadline
    <3>2. faults' \subseteq Fault /\ pc' \in Location
      BY <2>15, <3>1 DEF MissDeadline, Fault
    <3> QED BY <2>15, <3>1, <3>2 DEF MissDeadline
  <2>22. CASE ForceSafe
    BY <2>22 DEF ForceSafe, Mode
  <2>16. CASE SampleMode
    BY <2>16 DEF SampleMode, Frame
  <2>17. CASE SendFrame
    BY <2>17 DEF SendFrame, Frame
  <2>18. CASE WatchdogRaises
    BY <2>18 DEF WatchdogRaises, Fault
  <2>19. CASE WatchdogEntersSafe
    BY <2>19 DEF WatchdogEntersSafe, Mode
  <2>20. ASSUME NEW cmd \in Traffic, Arrive(cmd) PROVE TypeOK'
    BY <2>20 DEF Arrive
  <2>21. CASE UNCHANGED vars
    BY <2>21 DEF vars
  <2> QED BY <2>1, <2>2, <2>3, <2>4, <2>5, <2>6, <2>7, <2>8, <2>9, <2>10,
             <2>11, <2>12, <2>13, <2>14, <2>15, <2>16, <2>17, <2>18, <2>19,
             <2>20, <2>21, <2>22 DEF Next, ControlLoop, Execute, Watchdog
<1> QED BY <1>1, <1>2, PTL DEF Spec
----------------------------------------------------------------------------
(* Consecutive misses. *)

\* From the deadline block to the end of the cycle, where the loop is between
\* the stores of SAFE and DEADLINE and the frame that shows them.
MissInv ==
  cycle_consecutive_miss >= MissThreshold
    => /\ pc \in {"sample", "send", "head"}
            => consecutive_miss = cycle_consecutive_miss
       /\ pc = "raised" => "DEADLINE" \in faults
       /\ pc = "sample" => mode = "SAFE" /\ "DEADLINE" \in faults
       /\ pc = "send" => frame.mode = "SAFE" /\ "DEADLINE" \in faults
       /\ pc = "head" => frame.mode = "SAFE" /\ "DEADLINE" \in frame.faults

LEMMA MissStep == TypeOK /\ MissInv /\ [Next]_vars => MissInv'
<1> SUFFICES ASSUME TypeOK, MissInv, [Next]_vars PROVE MissInv'
  OBVIOUS
<1> USE DEF MissInv, missVars
<1>1. ASSUME ControlLoop, pc \in {"head", "commands", "execute", "work"}
      PROVE  MissInv'
  <2>1. pc' \in {"commands", "execute", "work", "deadline", "terminated"}
    BY <1>1 DEF ControlLoop, StartCycle, TakeCommand, DiscardCommand,
       QueueDrained, Execute, Dispatch, ExecSetMode, ExecResetFaults,
       ExecCpuLoad, ExecSensorDropout, ExecGyroSpike, ExecPowerGlitch,
       ExecWithoutEffect, ExecThrows, Work, MeetDeadline, MissDeadline,
       ForceSafe, SampleMode, SendFrame
  <2> QED BY <2>1
<1>2. CASE MeetDeadline
  BY <1>2, ThresholdAssumption DEF MeetDeadline
<1>3. CASE MissDeadline
  BY <1>3 DEF MissDeadline, TypeOK
<1>10. CASE ForceSafe
  BY <1>10 DEF ForceSafe
<1>4. CASE SampleMode
  <2>1. frame'.mode = mode
    BY <1>4 DEF SampleMode, TypeOK, Frame
  <2> QED BY <1>4, <2>1 DEF SampleMode
<1>5. CASE SendFrame
  <2>1. frame'.mode = frame.mode /\ frame'.faults = faults
    BY <1>5 DEF SendFrame, TypeOK, Frame
  <2> QED BY <1>5, <2>1 DEF SendFrame
<1>6. CASE WatchdogRaises
  BY <1>6 DEF WatchdogRaises
<1>7. CASE WatchdogEntersSafe
  BY <1>7 DEF WatchdogEntersSafe
<1>8. ASSUME NEW cmd \in Traffic, Arrive(cmd) PROVE MissInv'
  BY <1>8 DEF Arrive
<1>9. CASE UNCHANGED vars
  BY <1>9 DEF vars
<1> QED
  <2>1. ControlLoop => MeetDeadline \/ MissDeadline \/ ForceSafe \/ SampleMode \/ SendFrame
                       \/ pc \in {"head", "commands", "execute", "work"}
    BY DEF ControlLoop, StartCycle, TakeCommand, DiscardCommand,
       QueueDrained, Execute, Dispatch, ExecSetMode, ExecResetFaults,
       ExecCpuLoad, ExecSensorDropout, ExecGyroSpike, ExecPowerGlitch,
       ExecWithoutEffect, ExecThrows, Work
  <2> QED BY <2>1, <1>1, <1>2, <1>3, <1>4, <1>5, <1>6, <1>7, <1>8, <1>9, <1>10
      DEF Next, Watchdog

\* Three misses in a row (MissThreshold of them) always end in a frame that
\* says SAFE and DEADLINE, whatever the watchdog does in the same cycle.
THEOREM MissesForceSafe == Spec => []SustainedMissesForceSafe
<1>1. Init => MissInv
  BY ThresholdAssumption DEF Init, MissInv
<1>2. MissInv => SustainedMissesForceSafe
  BY DEF MissInv, SustainedMissesForceSafe
<1> QED BY <1>1, <1>2, MissStep, TypeCorrect, PTL DEF Spec

----------------------------------------------------------------------------
(* A bad gyro was announced by the previous frame. *)

\* Until the sensors are updated, the bits hold no GYRO_SPIKE that the last
\* frame did not show: only the update sets it.
GyroInv ==
  /\ pc \in {"head", "commands", "execute", "work"}
       => ("GYRO_SPIKE" \in faults => "GYRO_SPIKE" \in frame.faults)
  /\ DegradedGyroWasAnnounced

LEMMA GyroStep == TypeOK /\ GyroInv /\ [Next]_vars => GyroInv'
<1> SUFFICES ASSUME TypeOK, GyroInv, [Next]_vars PROVE GyroInv'
  OBVIOUS
<1> USE DEF GyroInv, DegradedGyroWasAnnounced, payload, missVars
<1>1. CASE StartCycle
  BY <1>1 DEF StartCycle
<1>2. CASE TakeCommand \/ DiscardCommand \/ QueueDrained
  BY <1>2 DEF TakeCommand, DiscardCommand, QueueDrained
<1>3. CASE Execute
  BY <1>3 DEF Execute, Dispatch, ExecSetMode, ExecResetFaults,
     ExecCpuLoad, ExecSensorDropout, ExecGyroSpike, ExecPowerGlitch,
     ExecWithoutEffect, ExecThrows
<1>4. ASSUME NEW over \in BOOLEAN, Work(over) PROVE GyroInv'
  <2>1. ~sensors'.gyro_ok /\ sensors'.star_tracker_ok => "GYRO_SPIKE" \in faults
    BY <1>4 DEF Work, UpdatedSensors
  <2> QED BY <1>4, <2>1 DEF Work
<1>5. CASE MeetDeadline \/ MissDeadline \/ ForceSafe
  BY <1>5 DEF MeetDeadline, MissDeadline, ForceSafe
<1>6. CASE SampleMode
  <2>1. frame'.faults = frame.faults
    BY <1>6 DEF SampleMode, TypeOK, Frame
  <2> QED BY <1>6, <2>1 DEF SampleMode
<1>7. CASE SendFrame
  <2>1. frame'.faults = faults
    BY <1>7 DEF SendFrame, TypeOK, Frame
  <2> QED BY <1>7, <2>1 DEF SendFrame
<1>8. CASE WatchdogRaises
  BY <1>8 DEF WatchdogRaises
<1>9. CASE WatchdogEntersSafe
  BY <1>9 DEF WatchdogEntersSafe
<1>10. ASSUME NEW cmd \in Traffic, Arrive(cmd) PROVE GyroInv'
  BY <1>10 DEF Arrive
<1>11. CASE UNCHANGED vars
  BY <1>11 DEF vars
<1> QED BY <1>1, <1>2, <1>3, <1>4, <1>5, <1>6, <1>7, <1>8, <1>9, <1>10, <1>11
    DEF Next, ControlLoop, Watchdog

\* Outside a dropout, a frame never degrades the gyro out of the blue.
THEOREM GyroAnnounced == Spec => []DegradedGyroWasAnnounced
<1>1. Init => GyroInv
  BY DEF Init, GyroInv, DegradedGyroWasAnnounced
<1>2. GyroInv => DegradedGyroWasAnnounced
  BY DEF GyroInv
<1> QED BY <1>1, <1>2, GyroStep, TypeCorrect, PTL DEF Spec

----------------------------------------------------------------------------
(* The SAFE gate, seen from the ground. *)

\* A frame that says SAFE keeps saying the truth until the first command of
\* the next cycle: only a command leaves SAFE.  The command being carried out
\* came through the queue.
GateInv ==
  /\ pc \in {"send", "head"} /\ frame.mode = "SAFE" => mode = "SAFE"
  /\ pc = "execute" => processed # 0 /\ last_command \in Traffic
  /\ pc = "commands" /\ processed = 0 /\ frame.mode = "SAFE" => mode = "SAFE"
  /\ SafeFrameBlocksInjection

LEMMA GateStep == TypeOK /\ GateInv /\ [Next]_vars => GateInv'
<1> SUFFICES ASSUME TypeOK, GateInv, [Next]_vars PROVE GateInv'
  OBVIOUS
<1> USE DEF GateInv, SafeFrameBlocksInjection, payload, missVars
<1>1. CASE StartCycle
  BY <1>1 DEF StartCycle
<1>2. CASE TakeCommand
  <2>1. processed' # 0
    BY <1>2, BudgetAssumption DEF TakeCommand, TypeOK
  <2>2. processed' = 1 => processed = 0
    BY <1>2, BudgetAssumption DEF TakeCommand, TypeOK
  <2>3. frame.mode \in Mode
    BY DEF TypeOK, Frame
  <2>4. last_command' \in Traffic
    BY <1>2 DEF TakeCommand, TypeOK
  <2> QED BY <1>2, <2>1, <2>2, <2>3, <2>4 DEF TakeCommand, Refused, Mode
<1>3. CASE DiscardCommand \/ QueueDrained
  BY <1>3 DEF DiscardCommand, QueueDrained
<1>4. CASE Execute
  <2>1. pc' \in {"commands", "terminated"} /\ processed' = processed
    BY <1>4 DEF Execute, Dispatch, ExecSetMode, ExecResetFaults, ExecCpuLoad,
       ExecSensorDropout, ExecGyroSpike, ExecPowerGlitch, ExecWithoutEffect,
       ExecThrows
  <2>2. pc = "execute"
    BY <1>4 DEF Execute, Dispatch, ExecSetMode, ExecResetFaults, ExecCpuLoad,
       ExecSensorDropout, ExecGyroSpike, ExecPowerGlitch, ExecWithoutEffect,
       ExecThrows
  <2> QED BY <2>1, <2>2
<1>5. CASE \E over \in BOOLEAN : Work(over)
  BY <1>5 DEF Work
<1>6. CASE MeetDeadline \/ MissDeadline \/ ForceSafe
  BY <1>6 DEF MeetDeadline, MissDeadline, ForceSafe
<1>7. CASE SampleMode
  <2>1. frame'.mode = mode
    BY <1>7 DEF SampleMode, TypeOK, Frame
  <2> QED BY <1>7, <2>1 DEF SampleMode
<1>8. CASE SendFrame
  <2>1. frame'.mode = frame.mode
    BY <1>8 DEF SendFrame, TypeOK, Frame
  <2> QED BY <1>8, <2>1 DEF SendFrame
<1>9. CASE WatchdogRaises
  BY <1>9 DEF WatchdogRaises
<1>10. CASE WatchdogEntersSafe
  BY <1>10 DEF WatchdogEntersSafe
<1>11. ASSUME NEW cmd \in Traffic, Arrive(cmd) PROVE GateInv'
  BY <1>11 DEF Arrive
<1>12. CASE UNCHANGED vars
  BY <1>12 DEF vars
<1> QED BY <1>1, <1>2, <1>3, <1>4, <1>5, <1>6, <1>7, <1>8, <1>9, <1>10, <1>11,
           <1>12 DEF Next, ControlLoop, Watchdog

\* A SAFE frame blocks injections and crashes by garbled injections at the
\* start of the next cycle, for every traffic and budget.
THEOREM SafeFrameHolds == Spec => []SafeFrameBlocksInjection
<1>1. Init => GateInv
  BY DEF Init, GateInv, SafeFrameBlocksInjection
<1>2. GateInv => SafeFrameBlocksInjection
  BY DEF GateInv
<1> QED BY <1>1, <1>2, GateStep, TypeCorrect, PTL DEF Spec

----------------------------------------------------------------------------
(* Injections, their bits and the sensor status. *)

\* Every injection that clients send lasts at least a cycle.
PositiveDurations ==
  \A cmd \in Traffic :
    cmd.verb \in {"CPU_LOAD", "SENSOR_DROPOUT", "GYRO_SPIKE"} => cmd.cycles # 0

\* At every step a set bit has cycles left, the star tracker's own bit is never
\* set, and the frame last sent shows no injection bit that has gone since.
ActiveInv ==
  /\ "CPU_LOAD" \in faults => load # 0
  /\ "SENSOR_DROPOUT" \in faults => sensors.dropout # 0
  /\ "GYRO_SPIKE" \in faults => sensors.spike # 0
  /\ "STAR_TRACKER_DROPOUT" \notin faults
  /\ pc = "head"
       => \A b \in {"CPU_LOAD", "SENSOR_DROPOUT", "GYRO_SPIKE"} :
            b \in frame.faults <=> b \in faults

LEMMA ActiveStep ==
  ASSUME PositiveDurations
  PROVE  TypeOK /\ ActiveInv /\ [Next]_vars => ActiveInv'
<1> SUFFICES ASSUME TypeOK, ActiveInv, [Next]_vars PROVE ActiveInv'
  OBVIOUS
<1> USE DEF ActiveInv, payload, missVars
<1>1. CASE StartCycle \/ TakeCommand \/ DiscardCommand \/ QueueDrained
  BY <1>1 DEF StartCycle, TakeCommand, DiscardCommand, QueueDrained
<1>2. CASE ExecSetMode \/ ExecResetFaults \/ ExecPowerGlitch \/ ExecWithoutEffect
           \/ ExecThrows
  BY <1>2 DEF ExecSetMode, ExecResetFaults, ExecPowerGlitch,
     ExecWithoutEffect, ExecThrows, Dispatch
<1>3. pc = "execute" /\ last_command.verb \in {"CPU_LOAD", "SENSOR_DROPOUT", "GYRO_SPIKE"}
        => last_command.cycles # 0
  BY DEF TypeOK, PositiveDurations, NoCommand, Plain
<1>4. CASE ExecCpuLoad
  BY <1>3, <1>4 DEF ExecCpuLoad, Dispatch
<1>5. CASE ExecSensorDropout
  <2>1. /\ sensors'.dropout = last_command.cycles
        /\ sensors'.spike = sensors.spike
    BY <1>5 DEF ExecSensorDropout, InjectDropout, TypeOK, SensorState
  <2> QED BY <1>3, <1>5, <2>1 DEF ExecSensorDropout, Dispatch
<1>6. CASE ExecGyroSpike
  <2>1. /\ sensors'.dropout = sensors.dropout
        /\ sensors'.spike = last_command.cycles
    BY <1>6 DEF ExecGyroSpike, InjectSpike, TypeOK, SensorState
  <2> QED BY <1>3, <1>6, <2>1 DEF ExecGyroSpike, Dispatch
<1>7. ASSUME NEW over \in BOOLEAN, Work(over) PROVE ActiveInv'
  <2>1. /\ sensors.dropout \in Duration /\ sensors.spike \in Duration
        /\ load \in Duration
    BY DEF TypeOK, SensorState
  <2>2. "CPU_LOAD" \in faults' => load' # 0
    <3>1. "CPU_LOAD" \in faults' => "CPU_LOAD" \in faults /\ load \notin {0, 1}
      BY <1>7 DEF Work, FinishedLoad, UpdatedFaults, RaisedBits, ClearedBits
    <3> QED BY <1>7, <2>1, <3>1, CountdownTypes DEF Work
  <2>3. "SENSOR_DROPOUT" \in faults' => sensors'.dropout # 0
    <3>1. "SENSOR_DROPOUT" \in faults' => Blackout(sensors)
      BY <1>7 DEF Work, FinishedLoad, UpdatedFaults, RaisedBits, ClearedBits, Blackout
    <3>2. Blackout(sensors) => sensors'.dropout = Countdown(sensors.dropout)
      BY <1>7 DEF Work, UpdatedSensors
    <3> QED BY <2>1, <3>1, <3>2, CountdownTypes DEF Blackout
  <2>4. "GYRO_SPIKE" \in faults' => sensors'.spike # 0
    <3>1. CASE Blackout(sensors)
      <4>1. sensors'.spike = sensors.spike /\ ("GYRO_SPIKE" \in faults' => "GYRO_SPIKE" \in faults)
        BY <1>7, <3>1 DEF Work, UpdatedSensors, UpdatedFaults, RaisedBits, ClearedBits
      <4> QED BY <4>1
    <3>2. CASE ~Blackout(sensors)
      <4>1. sensors'.spike = Countdown(sensors.spike)
        BY <1>7, <3>2 DEF Work, UpdatedSensors
      <4>2. "GYRO_SPIKE" \in faults' => sensors.spike \notin {0, 1}
        BY <1>7, <3>2 DEF Work, UpdatedFaults, RaisedBits, ClearedBits
      <4> QED BY <2>1, <4>1, <4>2, CountdownTypes
    <3> QED BY <3>1, <3>2
  <2>5. "STAR_TRACKER_DROPOUT" \notin faults'
    BY <1>7 DEF Work, FinishedLoad, UpdatedFaults, RaisedBits, ClearedBits
  <2> QED BY <1>7, <2>2, <2>3, <2>4, <2>5 DEF Work
<1>8. CASE MeetDeadline \/ MissDeadline \/ ForceSafe \/ SampleMode
  BY <1>8 DEF MeetDeadline, MissDeadline, ForceSafe, SampleMode
<1>9. CASE SendFrame
  <2>1. frame'.faults = faults
    BY <1>9 DEF SendFrame, TypeOK, Frame
  <2> QED BY <1>9, <2>1 DEF SendFrame
<1>10. CASE WatchdogRaises \/ WatchdogEntersSafe
  BY <1>10 DEF WatchdogRaises, WatchdogEntersSafe
<1>11. ASSUME NEW cmd \in Traffic, Arrive(cmd) PROVE ActiveInv'
  BY <1>11 DEF Arrive
<1>12. CASE UNCHANGED vars
  BY <1>12 DEF vars
<1> QED BY <1>1, <1>2, <1>4, <1>5, <1>6, <1>7, <1>8, <1>9, <1>10, <1>11, <1>12
    DEF Next, ControlLoop, Execute, Watchdog

\* With positive durations no fault bit of an injection outlives it.
THEOREM BitsAreActive ==
  ASSUME PositiveDurations
  PROVE  Spec => []FaultBitsAreActive
<1>1. Init => ActiveInv
  BY DEF Init, ActiveInv
<1>2. ActiveInv => FaultBitsAreActive
  BY DEF ActiveInv, FaultBitsAreActive
<1> QED BY <1>1, <1>2, ActiveStep, TypeCorrect, PTL DEF Spec

\* Between the sensor update and the next cycle the status agrees with the bits.
StatusInv ==
  pc \in {"deadline", "raised", "sample", "send", "head"}
    => IF "SENSOR_DROPOUT" \in faults
       THEN /\ ~sensors.star_tracker_ok
            /\ ~sensors.gyro_ok
            /\ sensors.last_star_tracker_update_ms = 9999
       ELSE /\ sensors.star_tracker_ok
            /\ sensors.last_star_tracker_update_ms = 0

\* An update outside a blackout takes a fresh fix.
LEMMA SampledStatus ==
  ASSUME NEW s, NEW snapshot, ~Blackout(s), "STAR_TRACKER_DROPOUT" \notin snapshot
  PROVE /\ UpdatedSensors(s, snapshot).star_tracker_ok
        /\ UpdatedSensors(s, snapshot).last_star_tracker_update_ms = 0
<1>1. UpdatedSensors(s, snapshot).star_tracker_ok BY Zenon DEF UpdatedSensors
<1>2. UpdatedSensors(s, snapshot).last_star_tracker_update_ms = 0
  BY DEF UpdatedSensors, StarTrackerAge
<1> QED BY <1>1, <1>2

LEMMA StatusStep == TypeOK /\ ActiveInv /\ StatusInv /\ [Next]_vars => StatusInv'
<1> SUFFICES ASSUME TypeOK, ActiveInv, StatusInv, [Next]_vars PROVE StatusInv'
  OBVIOUS
<1> USE DEF StatusInv, payload, missVars
<1>1. CASE StartCycle \/ TakeCommand \/ DiscardCommand \/ QueueDrained \/ Execute
  <2>1. pc' \in {"commands", "execute", "work", "terminated"}
    BY <1>1 DEF StartCycle, TakeCommand, DiscardCommand, QueueDrained, Execute,
       Dispatch, ExecSetMode, ExecResetFaults, ExecCpuLoad, ExecSensorDropout,
       ExecGyroSpike, ExecPowerGlitch, ExecWithoutEffect, ExecThrows
  <2> QED BY <2>1
<1>2. ASSUME NEW over \in BOOLEAN, Work(over) PROVE StatusInv'
  <2>1. "STAR_TRACKER_DROPOUT" \notin faults
    BY DEF ActiveInv
  <2>2. CASE Blackout(sensors)
    BY <1>2, <2>2 DEF Work, UpdatedFaults, RaisedBits, UpdatedSensors
  <2>3. CASE ~Blackout(sensors)
    <3>1. "SENSOR_DROPOUT" \notin faults'
      <4>1. "SENSOR_DROPOUT" \in faults => sensors.dropout = 1
        BY <2>3 DEF Blackout, ActiveInv, TypeOK, SensorState
      <4>2. "SENSOR_DROPOUT" \in faults => "SENSOR_DROPOUT" \in ClearedBits(sensors)
        BY <2>3, <4>1 DEF ClearedBits
      <4>3. "SENSOR_DROPOUT" \notin RaisedBits(sensors, over) BY <2>3 DEF RaisedBits
      <4> QED BY <1>2, <4>2, <4>3 DEF Work, UpdatedFaults
    <3>2. sensors'.star_tracker_ok /\ sensors'.last_star_tracker_update_ms = 0
      <4>1. sensors' = UpdatedSensors(sensors, faults \ FinishedLoad)
        BY <1>2 DEF Work
      <4> QED BY <2>1, <2>3, <4>1, SampledStatus
    <3> QED BY <3>1, <3>2
  <2> QED BY <2>2, <2>3
<1>3. CASE MeetDeadline \/ MissDeadline \/ ForceSafe \/ SampleMode \/ SendFrame
  BY <1>3 DEF MeetDeadline, MissDeadline, ForceSafe, SampleMode, SendFrame
<1>4. CASE WatchdogRaises \/ WatchdogEntersSafe
  BY <1>4 DEF WatchdogRaises, WatchdogEntersSafe
<1>5. ASSUME NEW cmd \in Traffic, Arrive(cmd) PROVE StatusInv'
  BY <1>5 DEF Arrive
<1>6. CASE UNCHANGED vars
  BY <1>6 DEF vars
<1> QED BY <1>1, <1>2, <1>3, <1>4, <1>5, <1>6 DEF Next, ControlLoop, Watchdog

\* With positive durations the status in a frame agrees with its fault bits.
THEOREM StatusAgrees ==
  ASSUME PositiveDurations
  PROVE  Spec => []StatusMatchesFaults
<1>1. Init => ActiveInv /\ StatusInv
  BY DEF Init, ActiveInv, StatusInv, IdleSensors
<1>2. ActiveInv /\ StatusInv => StatusMatchesFaults
  BY DEF ActiveInv, StatusInv, StatusMatchesFaults
<1> QED BY <1>1, <1>2, ActiveStep, StatusStep, TypeCorrect, PTL DEF Spec

----------------------------------------------------------------------------
(* Refinement. *)

\* The loop takes a command to the gate and, past it, to its branch.
LEMMA GateRefined ==
  ASSUME TypeOK, TakeCommand
  PROVE  [Protection!Next]_Protection!vars
<1> USE DEF payload, missVars
<1>1. pc = "commands" /\ Head(queue) \in Traffic
  BY DEF TakeCommand, TypeOK
<1>2. UNCHANGED <<mode, faults, wpc>> BY DEF TakeCommand
<1>3. CASE Refused(Head(queue))
  <2>1. pc' = "commands" BY <1>3 DEF TakeCommand
  <2> QED BY <1>1, <1>2, <2>1 DEF Protection!vars
<1>4. CASE ~Refused(Head(queue))
  <2>1. pc' = "execute" /\ last_command' = Head(queue) BY <1>4 DEF TakeCommand
  <2>2. Protection!Accept(Head(queue))
    BY <1>1, <1>2, <1>4, <2>1
       DEF Protection!Accept, Protection!Ready, Protection!Refused, Refused,
           Protection!AcceptedInSafe, AcceptedInSafe
  <2> QED BY <1>1, <2>2 DEF Protection!Next
<1> QED BY <1>3, <1>4

\* A branch carries out the command that passed the gate, and no other.
LEMMA BranchRefined ==
  ASSUME TypeOK, GateInv, Execute
  PROVE  [Protection!Next]_Protection!vars
<1> USE DEF payload, missVars
<1> DEFINE alarms == faults \intersect {"WATCHDOG", "DEADLINE", "POWER_GLITCH"}
<1>1. pc = "execute" /\ pc' \in {"commands", "terminated"} /\ UNCHANGED wpc
  BY DEF Execute, Dispatch, ExecSetMode, ExecResetFaults, ExecCpuLoad,
     ExecSensorDropout, ExecGyroSpike, ExecPowerGlitch, ExecWithoutEffect, ExecThrows
<1>2. Protection!CarryOut(last_command)
  BY <1>1 DEF Protection!CarryOut
<1>3. CASE last_command \in Traffic
  <2>1. CASE ExecSetMode
    <3>1. Protection!OperatorSetsMode(last_command)
      BY <1>2, <2>1 DEF Protection!OperatorSetsMode, ExecSetMode, Dispatch,
         Protection!ParseMode, ParseMode
    <3> QED BY <1>3, <3>1 DEF Protection!Next
  <2>2. CASE ExecResetFaults
    <3>1. Protection!OperatorResets(last_command)
      BY <1>2, <2>2 DEF Protection!OperatorResets, ExecResetFaults, Dispatch
    <3> QED BY <1>3, <3>1 DEF Protection!Next
  <2>3. CASE ExecPowerGlitch
    <3>1. alarms' = alarms \union {"POWER_GLITCH"} /\ mode' = mode
      BY <2>3 DEF ExecPowerGlitch, Dispatch
    <3>2. last_command.verb = "POWER_GLITCH" /\ last_command.numeric
      BY <2>3, Zenon DEF ExecPowerGlitch, Dispatch
    <3>3. Protection!PowerGlitch(last_command)
      BY <1>2, <3>1, <3>2, Zenon DEF Protection!PowerGlitch
    <3> QED BY <1>3, <3>3 DEF Protection!Next
  <2>4. CASE ExecCpuLoad \/ ExecSensorDropout \/ ExecGyroSpike \/ ExecWithoutEffect
    <3>1. alarms' = alarms /\ mode' = mode
      BY <2>4 DEF ExecCpuLoad, ExecSensorDropout, ExecGyroSpike, ExecWithoutEffect, Dispatch
    <3>2. last_command.verb \notin {"SET_MODE", "RESET_FAULTS", "POWER_GLITCH"}
      BY <2>4 DEF ExecCpuLoad, ExecSensorDropout, ExecGyroSpike, ExecWithoutEffect, Dispatch
    <3>3. Protection!WithoutEffect(last_command)
      BY <1>2, <3>1, <3>2 DEF Protection!WithoutEffect
    <3> QED BY <1>3, <3>3 DEF Protection!Next
  <2>5. CASE ExecThrows
    <3>1. alarms' = alarms /\ mode' = mode BY <2>5 DEF ExecThrows
    <3>2. ~last_command.numeric BY <2>5, Zenon DEF ExecThrows
    <3>3. last_command.verb \in FaultVerb \union {"SET_TARGET_RATE"}
      BY <1>3, <3>2, CommandTypes, CommandShape, Zenon
    <3>4. \/ last_command.verb \notin {"SET_MODE", "RESET_FAULTS", "POWER_GLITCH"}
          \/ last_command.verb = "POWER_GLITCH"
      BY <3>3 DEF FaultVerb
    <3>5. Protection!WithoutEffect(last_command)
      BY <1>2, <3>1, <3>2, <3>4, Zenon DEF Protection!WithoutEffect
    <3> QED BY <1>3, <3>5 DEF Protection!Next
  <2> QED BY <2>1, <2>2, <2>3, <2>4, <2>5 DEF Execute
<1> QED BY <1>1, <1>3 DEF GateInv

\* The process implements the protection logic of SafeMode, one shared access at
\* a time: gate, branch, the two stores of the deadline block and the two of the
\* watchdog.
THEOREM ImplementsSafeMode == Spec => RefinesSafeMode
<1> USE DEF payload, missVars
<1>1. Init => Protection!Init
  BY DEF Init, Protection!Init
<1>2. TypeOK /\ GateInv /\ [Next]_vars => [Protection!Next]_Protection!vars
  <2> SUFFICES ASSUME TypeOK, GateInv, [Next]_vars
               PROVE  [Protection!Next]_Protection!vars
    OBVIOUS
  <2> DEFINE alarms == faults \intersect {"WATCHDOG", "DEADLINE", "POWER_GLITCH"}
             Inner == {"head", "commands", "work", "deadline", "sample", "send"}
  <2>1. ASSUME UNCHANGED <<mode, alarms, wpc>>, pc \in Inner, pc' \in Inner
        PROVE  UNCHANGED Protection!vars
    BY <2>1 DEF Protection!vars
  <2>2. CASE StartCycle \/ DiscardCommand \/ QueueDrained \/ MeetDeadline
             \/ SampleMode \/ SendFrame
    BY <2>1, <2>2 DEF StartCycle, DiscardCommand, QueueDrained, MeetDeadline,
       SampleMode, SendFrame
  <2>3. ASSUME NEW over \in BOOLEAN, Work(over) PROVE UNCHANGED Protection!vars
    <3>1. UNCHANGED <<mode, alarms, wpc>> /\ pc = "work" /\ pc' = "deadline"
      BY <2>3 DEF Work, FinishedLoad, UpdatedFaults, RaisedBits, ClearedBits
    <3> QED BY <2>1, <3>1
  <2>4. CASE (\E cmd \in Traffic : Arrive(cmd)) \/ UNCHANGED vars
    BY <2>4 DEF Arrive, vars, Protection!vars
  <2>5. CASE TakeCommand BY <2>5, GateRefined
  <2>6. CASE Execute BY <2>6, BranchRefined
  <2>7. CASE MissDeadline
    <3>1. pc = "deadline" /\ UNCHANGED <<mode, wpc>> BY <2>7 DEF MissDeadline
    <3>2. CASE pc' = "sample" /\ UNCHANGED faults
      BY <2>1, <3>1, <3>2
    <3>3. CASE pc' = "raised" /\ faults' = faults \union {"DEADLINE"}
      <4>1. Protection!RaiseDeadline
        BY <3>1, <3>3 DEF Protection!RaiseDeadline, Protection!Ready
      <4> QED BY <4>1 DEF Protection!Next
    <3> QED BY <2>7, <3>2, <3>3 DEF MissDeadline
  <2>8. CASE ForceSafe
    <3>1. Protection!EnterSafe("DEADLINE")
      BY <2>8 DEF ForceSafe, Protection!EnterSafe
    <3> QED BY <3>1 DEF Protection!Next
  <2>9. CASE WatchdogRaises
    <3>1. Protection!RaiseWatchdog
      BY <2>9 DEF WatchdogRaises, Protection!RaiseWatchdog
    <3> QED BY <3>1 DEF Protection!Next
  <2>10. CASE WatchdogEntersSafe
    <3>1. Protection!EnterSafe("WATCHDOG")
      BY <2>10 DEF WatchdogEntersSafe, Protection!EnterSafe
    <3> QED BY <3>1 DEF Protection!Next
  <2> QED BY <2>2, <2>3, <2>4, <2>5, <2>6, <2>7, <2>8, <2>9, <2>10
      DEF Next, ControlLoop, Watchdog
<1>3. Init => GateInv
  BY DEF Init, GateInv, SafeFrameBlocksInjection
<1> QED BY <1>1, <1>2, <1>3, GateStep, TypeCorrect, PTL
    DEF Spec, RefinesSafeMode, Protection!Spec
=============================================================================
