------------------------------ MODULE SatCore ------------------------------
(***************************************************************************)
(* The flight software process of main.cpp: the 10 Hz control loop, the    *)
(* watchdog thread, and the command queue the TCP thread fills.  Threads   *)
(* interleave at each access to an atomic they share; code between two     *)
(* such accesses is one step.  Time is abstracted: a cycle may miss its    *)
(* deadline or not, and once the loop has stored a heartbeat the watchdog  *)
(* may find it stale or not (module LoopTiming says when it can).          *)
(***************************************************************************)
EXTENDS Sensors, Sequences

CONSTANTS MaxCommandsPerCycle,  \* Config::MAX_COMMANDS_PER_CYCLE
          MissThreshold,        \* Config::CONSECUTIVE_MISS_SAFE_THRESHOLD
          Traffic,              \* the commands clients may send
          QueueCap,             \* bound: commands queued at once
          MaxMisses             \* bound: consecutive misses counted

ASSUME BudgetAssumption == MaxCommandsPerCycle \in Nat
ASSUME ThresholdAssumption == MissThreshold \in Nat \ {0}
ASSUME TrafficAssumption == Traffic \subseteq Commands
ASSUME BoundAssumption == QueueCap \in Nat /\ MaxMisses \in Nat

VARIABLES
  pc,                \* where the control loop is
  queue,             \* cmd_queue
  processed,         \* cmds_processed of this cycle
  last_command,      \* the last command taken within the budget
  mode,              \* shared with the watchdog
  faults,            \* faults_bitmask, as the set of its bits
  heartbeat,         \* heartbeat_ns is nonzero
  load,              \* cpu_load_remaining, in cycles
  sensors,
  cycle_consecutive_miss,   \* the loop's own counter
  consecutive_miss,         \* the counter telemetry reports
  frame,             \* mode and fault bits of the last telemetry frame
  wpc                \* the watchdog: asleep, or its alarm latched

vars == <<pc, queue, processed, last_command, mode, faults, heartbeat, load,
          sensors, cycle_consecutive_miss, consecutive_miss, frame, wpc>>

\* What only the control loop touches, besides pc and what it dispatches on.
missVars == <<cycle_consecutive_miss, consecutive_miss>>
payload == <<load, sensors>>

Location == {"head", "commands", "execute", "work", "deadline", "raised",
             "sample", "send", "terminated"}

Frame == [mode : Mode, faults : SUBSET Fault]

TypeOK == /\ pc \in Location
          /\ queue \in Seq(Traffic)
          /\ processed \in 0..MaxCommandsPerCycle
          /\ last_command \in Traffic \union {NoCommand}
          /\ mode \in Mode
          /\ faults \subseteq Fault
          /\ heartbeat \in BOOLEAN
          /\ load \in Duration
          /\ sensors \in SensorState
          /\ cycle_consecutive_miss \in Nat
          /\ consecutive_miss \in Nat
          /\ frame \in Frame
          /\ wpc \in {"sleep", "latched"}

Init == /\ pc = "head"
        /\ queue = <<>>
        /\ processed = 0
        /\ last_command = NoCommand
        /\ mode = "NOMINAL"
        /\ faults = {}
        /\ heartbeat = FALSE
        /\ load = 0
        /\ sensors = IdleSensors
        /\ cycle_consecutive_miss = 0
        /\ consecutive_miss = 0
        /\ frame = [mode |-> "NOMINAL", faults |-> {}]
        /\ wpc = "sleep"

----------------------------------------------------------------------------
(* The head of a cycle and its command loop. *)

StartCycle ==
  /\ pc = "head"
  /\ heartbeat' = TRUE
  /\ processed' = 0
  /\ pc' = "commands"
  /\ UNCHANGED <<queue, last_command, mode, faults, payload, missVars, frame, wpc>>

\* A seeded mistake: the gate looks at the fault bits instead of the mode.
RefusedByFaults(cmd) == faults # {} /\ cmd.verb \notin AcceptedInSafe

Refused(cmd) == mode = "SAFE" /\ cmd.verb \notin AcceptedInSafe

\* Seeded mistakes: a budget that is one too large; one that is never used up.
TakeOneTooMany ==
  /\ pc = "commands"
  /\ queue # <<>>
  /\ processed <= MaxCommandsPerCycle
  /\ queue' = Tail(queue)
  /\ processed' = processed + 1
  /\ last_command' = Head(queue)
  /\ pc' = IF Refused(Head(queue)) THEN "commands" ELSE "execute"
  /\ UNCHANGED <<mode, faults, heartbeat, payload, missVars, frame, wpc>>

TakeUncounted ==
  /\ pc = "commands"
  /\ queue # <<>>
  /\ processed < MaxCommandsPerCycle
  /\ queue' = Tail(queue)
  /\ last_command' = Head(queue)
  /\ pc' = IF Refused(Head(queue)) THEN "commands" ELSE "execute"
  /\ UNCHANGED <<processed, mode, faults, heartbeat, payload, missVars, frame, wpc>>

\* pop() succeeds within the budget: the command becomes last_command even
\* if the SAFE gate then ignores it.
TakeCommand ==
  /\ pc = "commands"
  /\ queue # <<>>
  /\ processed < MaxCommandsPerCycle
  /\ queue' = Tail(queue)
  /\ processed' = processed + 1
  /\ last_command' = Head(queue)
  /\ pc' = IF Refused(Head(queue)) THEN "commands" ELSE "execute"
  /\ UNCHANGED <<mode, faults, heartbeat, payload, missVars, frame, wpc>>

\* The loop condition pops before it looks at the budget: a command popped
\* with the budget spent is neither processed nor put back.
DiscardCommand ==
  /\ pc = "commands"
  /\ queue # <<>>
  /\ processed >= MaxCommandsPerCycle
  /\ queue' = Tail(queue)
  /\ pc' = "work"
  /\ UNCHANGED <<processed, last_command, mode, faults, heartbeat, payload,
                 missVars, frame, wpc>>

QueueDrained ==
  /\ pc = "commands"
  /\ queue = <<>>
  /\ pc' = "work"
  /\ UNCHANGED <<queue, processed, last_command, mode, faults, heartbeat,
                 payload, missVars, frame, wpc>>

----------------------------------------------------------------------------
(* Dispatch.  The gate's load of mode and the branch that follows are      *)
(* separate steps: the watchdog may set SAFE between them.                 *)

Dispatch(verbs) ==
  /\ pc = "execute"
  /\ last_command.verb \in verbs
  /\ last_command.numeric
  /\ pc' = "commands"
  /\ UNCHANGED <<queue, processed, last_command, heartbeat, missVars, frame, wpc>>

ExecSetMode ==
  /\ Dispatch({"SET_MODE"})
  /\ mode' = IF last_command.word = "none" THEN mode
             ELSE ParseMode(last_command.word)
  /\ UNCHANGED <<faults, payload>>

ExecResetFaults ==
  /\ Dispatch({"RESET_FAULTS"})
  /\ faults' = {}
  /\ UNCHANGED <<mode, payload>>

ExecCpuLoad ==
  /\ Dispatch({"CPU_LOAD"})
  /\ load' = last_command.cycles
  /\ faults' = faults \union {"CPU_LOAD"}
  /\ UNCHANGED <<mode, sensors>>

ExecSensorDropout ==
  /\ Dispatch({"SENSOR_DROPOUT"})
  /\ sensors' = InjectDropout(sensors, last_command.cycles)
  /\ UNCHANGED <<mode, faults, load>>

ExecGyroSpike ==
  /\ Dispatch({"GYRO_SPIKE"})
  /\ sensors' = InjectSpike(sensors, last_command.cycles)
  /\ UNCHANGED <<mode, faults, load>>

ExecPowerGlitch ==
  /\ Dispatch({"POWER_GLITCH"})
  /\ faults' = faults \union {"POWER_GLITCH"}
  /\ UNCHANGED <<mode, payload>>

\* PING and STATS only log; target rates are data; the rest has no branch.
ExecWithoutEffect ==
  /\ Dispatch({"PING", "STATS", "SET_TARGET_RATE", "OTHER"})
  /\ UNCHANGED <<mode, faults, payload>>

\* std::stod throws, nothing catches it, and the process terminates.
ExecThrows ==
  /\ pc = "execute"
  /\ ~last_command.numeric
  /\ pc' = "terminated"
  /\ UNCHANGED <<queue, processed, last_command, mode, faults, heartbeat,
                 payload, missVars, frame, wpc>>

Execute == \/ ExecSetMode       \/ ExecResetFaults
           \/ ExecCpuLoad       \/ ExecSensorDropout
           \/ ExecGyroSpike     \/ ExecPowerGlitch
           \/ ExecWithoutEffect \/ ExecThrows

----------------------------------------------------------------------------
(* The rest of the cycle. *)

\* A seeded mistake: the remaining load is looked at before it is decremented.
FinishedLoadLate == {b \in {"CPU_LOAD"} : load = 0}

\* Bits the busy-wait block clears: the last cycle of a load ends its fault.
FinishedLoad == {b \in {"CPU_LOAD"} : load = 1}

\* A seeded mistake: the status is taken from the bits this update raises.
WorkOnFreshBits(over) ==
  /\ pc = "work"
  /\ faults' = UpdatedFaults(sensors, faults \ FinishedLoad, over)
  /\ sensors' = UpdatedSensors(sensors, faults')
  /\ load' = Countdown(load)
  /\ pc' = "deadline"
  /\ UNCHANGED <<queue, processed, last_command, mode, heartbeat, missVars,
                 frame, wpc>>

\* The busy wait, the snapshot of the fault bits, the sensor update that uses
\* it, and attitude propagation.  The watchdog can interleave, but only sets
\* bits and a mode that none of these read.
Work(over) ==
  /\ pc = "work"
  /\ LET snapshot == faults \ FinishedLoad
     IN  /\ faults' = UpdatedFaults(sensors, snapshot, over)
         /\ sensors' = UpdatedSensors(sensors, snapshot)
  /\ load' = Countdown(load)
  /\ pc' = "deadline"
  /\ UNCHANGED <<queue, processed, last_command, mode, heartbeat, missVars,
                 frame, wpc>>

\* A seeded mistake: a cycle in time ends SAFE.
MeetDeadlineAndRecover ==
  /\ pc = "deadline"
  /\ cycle_consecutive_miss' = 0
  /\ consecutive_miss' = 0
  /\ mode' = "NOMINAL"
  /\ pc' = "sample"
  /\ UNCHANGED <<queue, processed, last_command, faults, heartbeat,
                 payload, frame, wpc>>

MeetDeadline ==
  /\ pc = "deadline"
  /\ cycle_consecutive_miss' = 0
  /\ consecutive_miss' = 0
  /\ pc' = "sample"
  /\ UNCHANGED <<queue, processed, last_command, mode, faults, heartbeat,
                 payload, frame, wpc>>

\* A seeded mistake: only the miss that reaches the threshold raises the alarm.
MissDeadlineExact ==
  /\ pc = "deadline"
  /\ cycle_consecutive_miss < MaxMisses
  /\ cycle_consecutive_miss' = cycle_consecutive_miss + 1
  /\ IF cycle_consecutive_miss' = MissThreshold
     THEN faults' = faults \union {"DEADLINE"} /\ pc' = "raised"
     ELSE UNCHANGED faults /\ pc' = "sample"
  /\ UNCHANGED <<queue, processed, last_command, mode, heartbeat, payload,
                 consecutive_miss, frame, wpc>>

\* From the threshold on, a miss raises the alarm first ...
MissDeadline ==
  /\ pc = "deadline"
  /\ cycle_consecutive_miss < MaxMisses
  /\ cycle_consecutive_miss' = cycle_consecutive_miss + 1
  /\ IF cycle_consecutive_miss' >= MissThreshold
     THEN faults' = faults \union {"DEADLINE"} /\ pc' = "raised"
     ELSE UNCHANGED faults /\ pc' = "sample"
  /\ UNCHANGED <<queue, processed, last_command, mode, heartbeat, payload,
                 consecutive_miss, frame, wpc>>

\* ... and then forces SAFE.  Only here the reported counter is raised.
ForceSafe ==
  /\ pc = "raised"
  /\ mode' = "SAFE"
  /\ consecutive_miss' = cycle_consecutive_miss
  /\ pc' = "sample"
  /\ UNCHANGED <<queue, processed, last_command, faults, heartbeat, payload,
                 cycle_consecutive_miss, frame, wpc>>

\* The frame loads mode and fault bits one after the other.
SampleMode ==
  /\ pc = "sample"
  /\ frame' = [frame EXCEPT !.mode = mode]
  /\ pc' = "send"
  /\ UNCHANGED <<queue, processed, last_command, mode, faults, heartbeat,
                 payload, missVars, wpc>>

SendFrame ==
  /\ pc = "send"
  /\ frame' = [frame EXCEPT !.faults = faults]
  /\ pc' = "head"
  /\ UNCHANGED <<queue, processed, last_command, mode, faults, heartbeat,
                 payload, missVars, wpc>>

ControlLoop == \/ StartCycle
               \/ TakeCommand \/ DiscardCommand \/ QueueDrained
               \/ Execute
               \/ \E over \in BOOLEAN : Work(over)
               \/ MeetDeadline \/ MissDeadline \/ ForceSafe
               \/ SampleMode \/ SendFrame

----------------------------------------------------------------------------
(* The watchdog thread and the clients. *)

\* A poll finds a heartbeat that is set and stale: the fault bit first ...
WatchdogRaises ==
  /\ pc # "terminated"
  /\ wpc = "sleep"
  /\ heartbeat
  /\ faults' = faults \union {"WATCHDOG"}
  /\ wpc' = "latched"
  /\ UNCHANGED <<pc, queue, processed, last_command, mode, heartbeat, payload,
                 missVars, frame>>

\* ... then the mode, whatever the control loop did in between.
WatchdogEntersSafe ==
  /\ pc # "terminated"
  /\ wpc = "latched"
  /\ mode' = "SAFE"
  /\ wpc' = "sleep"
  /\ UNCHANGED <<pc, queue, processed, last_command, faults, heartbeat, payload,
                 missVars, frame>>

Watchdog == WatchdogRaises \/ WatchdogEntersSafe

\* The TCP thread pushes a parsed line.
Arrive(cmd) ==
  /\ pc # "terminated"
  /\ Len(queue) < QueueCap
  /\ queue' = Append(queue, cmd)
  /\ UNCHANGED <<pc, processed, last_command, mode, faults, heartbeat, payload,
                 missVars, frame, wpc>>

Next == \/ ControlLoop
        \/ Watchdog
        \/ \E cmd \in Traffic : Arrive(cmd)

Spec == Init /\ [][Next]_vars

\* The scheduler runs both threads; stale verdicts and arrivals are not owed.
FairSpec == Spec /\ WF_vars(ControlLoop) /\ WF_vars(WatchdogEntersSafe)

----------------------------------------------------------------------------
(* Properties. *)

\* Whenever a cycle ends with the loop's own miss counter at or past the
\* threshold, the frame just sent says SAFE, carries the DEADLINE bit and
\* reports that very count, whatever commands and the watchdog did meanwhile.
SustainedMissesForceSafe ==
  pc = "head" /\ cycle_consecutive_miss >= MissThreshold
    => /\ frame.mode = "SAFE"
       /\ "DEADLINE" \in frame.faults
       /\ consecutive_miss = cycle_consecutive_miss

\* A fault bit that an injection raises is in a frame only while that injection
\* has cycles left: no bit outlives its cause through a chain of injections,
\* re-injections and resets (for durations that are positive).
FaultBitsAreActive ==
  pc = "head"
    => /\ "CPU_LOAD" \in frame.faults => load # 0
       /\ "SENSOR_DROPOUT" \in frame.faults => sensors.dropout # 0
       /\ "GYRO_SPIKE" \in frame.faults => sensors.spike # 0

\* The sensor status of a frame agrees with its fault bits: the star tracker is
\* down and stale exactly in the frames that carry SENSOR_DROPOUT (for durations
\* that are positive), although the status is assigned by commands and by the
\* update and the bit by the update alone.
StatusMatchesFaults ==
  pc = "head"
    => IF "SENSOR_DROPOUT" \in frame.faults
       THEN /\ ~sensors.star_tracker_ok
            /\ ~sensors.gyro_ok
            /\ sensors.last_star_tracker_update_ms = 9999
       ELSE /\ sensors.star_tracker_ok
            /\ sensors.last_star_tracker_update_ms = 0

\* A gyro that is reported bad outside a dropout was announced: the frame
\* before the one being built already carried GYRO_SPIKE (update takes the
\* status from the bits as they were before it sampled the rates).
DegradedGyroWasAnnounced ==
  pc \in {"deadline", "raised", "sample", "send"}
    /\ ~sensors.gyro_ok /\ sensors.star_tracker_ok
    => "GYRO_SPIKE" \in frame.faults

\* Once a frame has told the ground SAFE, the first command of the next cycle
\* gets past the gate only if SAFE admits it: no injection, and in particular
\* none with a garbled number that would end the process.
SafeFrameBlocksInjection ==
  pc = "execute" /\ processed = 1 /\ last_command.verb \notin AcceptedInSafe
    => frame.mode = "NOMINAL"

\* The protection logic behaves as SafeMode: SAFE is left for a SET_MODE that
\* passed the gate and for nothing else, latched bits are cleared by RESET_FAULTS
\* and by nothing else, and a command gets past the gate in SAFE only if SAFE
\* admits it, whatever loop and watchdog do between each other's stores.
Protection ==
  INSTANCE SafeMode
    WITH Orders <- Traffic,
         mode <- mode,
         alarms <- faults \intersect {"WATCHDOG", "DEADLINE", "POWER_GLITCH"},
         pending <- {a \in {"WATCHDOG"} : wpc = "latched"}
                      \union {a \in {"DEADLINE"} : pc = "raised"},
         order <- IF pc = "execute" THEN <<last_command>> ELSE <<>>

RefinesSafeMode == Protection!Spec

\* The loop comes back to its head again and again, although clients may keep
\* pushing commands as fast as it takes them: the budget bounds the command
\* loop of each cycle.
LoopMakesProgress == []<>(pc = "head")

\* An injection is over, and its bit gone from the frame; or it is endless.
DiesOut(cycles, bit) == \/ cycles = 0 /\ bit \notin frame.faults
                        \/ cycles = Endless

\* If from some point on nothing is queued, every injection dies out and takes
\* its bit with it, unless its duration was endless; an endless dropout also
\* keeps a spike from being counted down, since update returns before it.
InjectionsDieOut ==
  <>[](queue = <<>>)
    => <>[](/\ DiesOut(load, "CPU_LOAD")
            /\ DiesOut(sensors.dropout, "SENSOR_DROPOUT")
            /\ sensors.dropout = 0 => DiesOut(sensors.spike, "GYRO_SPIKE"))

\* README, "Bounded work": at most so many commands are processed per cycle.
\* It would follow that a popped command is one of those processed.
PoppedCommandsAreProcessed ==
  [][queue # <<>> /\ queue' = Tail(queue) => processed' = processed + 1]_vars
=============================================================================
