# Verification of SatFSW_Lab

TLA+ specifications, model-checking runs and TLAPS proofs for the flight
software simulator `sat_core` (C++), the `gateway` (Node) and the `dashboard`
(Next.js). Paths below are relative to the repository.

## 1. The system

| Part | State it keeps | Operations | Interaction |
|---|---|---|---|
| Control loop, `sat_core/src/main.cpp` | cycle, command budget, miss counter, CPU load, sensors, attitude | one 100 ms cycle: heartbeat, at most 5 commands, busy wait, sensor update, deadline accounting, telemetry frame, sleep to the grid | pops the command queue; shares `faults_bitmask`, `mode`, `heartbeat_ns` with the watchdog; sends UDP |
| Watchdog, `main.cpp:76` | none of its own | every 50 ms: compare the heartbeat with the clock; raise WATCHDOG, then SAFE | writes `faults_bitmask`, then `mode` |
| Sensors, `sensors.cpp` | remaining dropout and spike, status flags | inject, update | sets and clears bits of `faults_bitmask` |
| Command queue and parser, `command.hpp`, `command.cpp` | FIFO under a mutex | push, pop, size | TCP thread to control loop |
| TCP command server, `tcp_server.cpp` | one client, a partial line | accept, receive, split, push, stop, join | fills the queue |
| Telemetry, `telemetry.cpp`, `udp_sender.hpp` | none | print as JSON, send | UDP to the gateway, which parses it or drops it |
| Gateway command path, `gateway/src/tcp-client.ts`, `index.ts` | `socket`, `connected`, `reconnectTimer` | POST handler, socket and timer callbacks | TCP to sat_core, HTTP to the browser |
| Gateway telemetry fan-out, `udp-server.ts`, `ws-broadcast.ts` | `latestFrame`, clients | ingest, broadcast, greet | UDP in, WebSocket out |
| Dashboard link and store, `use-ws-telemetry.ts`, `telemetry-store.ts` | `latest`, `history`, `connected`, a socket and a timer per mount | mount, unmount, socket callbacks | WebSocket in |
| Dashboard command hook, console and fault lab, `use-command.ts`, `console/page.tsx`, `fault-lab/page.tsx` | per visit: `loading`, `lastAck`, `lastError`; input, log, command history and index; slider parameters, running scenario | send, effects on the answers, key handlers, quick actions, sliders, scenarios | HTTP out; reads `connected` of the store |
| Dashboard panels, `app/page.tsx`, `components/` | none that matters | draw the latest frame or the history | read the store |

What is hard here:

- two threads and a queue around three shared atomics, with two-step updates
  (fault bit, then mode) and a load-then-use gate;
- fault bits that four places set and clear, and a sensor status that is
  assigned by commands and by the update, one of them from a stale snapshot;
- time: an absolute grid, a doubled first period, a watchdog with its own
  rhythm, preemption between its two loads and before the loop's store, a report
  that is made after the cycle has been measured;
- a TCP client whose callbacks, of old and of new sockets, share three
  variables, and a peer that restarts;
- a shutdown that has to collect a thread blocked on a client;
- a browser hook that is mounted on every page, whose callbacks outlive it, so that
  several streams feed one store;
- request state that is set before an await and after it, effects that compare
  answers by value and run after the commit, and requests that outlive their page;
- a telemetry frame that is built from several loads, printed with six digits,
  lost, repeated, or unparsable, before an operator draws conclusions from it.

`PROJECT.json` lists every hazard at its line with the properties that cover it.

Correctness, by part: sustained misses force SAFE and are seen in telemetry;
alarms are latched until RESET_FAULTS, and only a SET_MODE ends SAFE; the bit of an
injected fault is reported only while the fault lasts; the sensor status agrees with the
bits; the loop survives command floods; a stall raises an alarm and nothing else
does; commands arrive whole and in order, and a signal ends the process; the
gateway has one connection, writes only to an established one, and answers every
request; the telemetry stream has no gaps, and the page on screen gets it back
after every failure; the page shows a lasting SAFE, with its reason, and agrees
with the gateway's status; bar, label, chart and counters of cycle times agree;
every command of the pages gets one answer, and settles.

## 2. Modules

| Module | Models | Composed of |
|---|---|---|
| `Command` | modes, verbs and the parsed shapes of commands | |
| `Sensors` | `sensors.cpp` as operators on a record | |
| `SatCore` | control loop, watchdog, clients | `Command`, `Sensors` |
| `SafeMode` | abstract protection logic that `SatCore` implements | `Command` |
| `SatCoreProofs` | theorems about `SatCore` | `SatCore`, TLAPS |
| `MCSatCore` | the commands clients send in each run | `SatCore` |
| `LoopTiming` | when cycles run and what the watchdog sees | |
| `LoopTimingProofs` | theorems about `LoopTiming` | `LoopTiming`, TLAPS |
| `Places` | the k-th of a set of places in a sequence, and the entries at them (`filter()`) | |
| `TcpServer` | sat_core's TCP server, and its start and shutdown | `Places` |
| `TcpServerProofs` | theorems about `TcpServer` | `TcpServer`, TLAPS |
| `MCTcpServer` | what the clients write in each run | `TcpServer` |
| `TelemetryFeed` | gateway broadcast, dashboard hook and store | |
| `TelemetryFeedProofs` | theorems about `TelemetryFeed` | `TelemetryFeed`, TLAPS |
| `GatewayLink` | TCP client and POST handler of the gateway | |
| `GatewayLinkProofs` | theorems about `GatewayLink` | `GatewayLink`, TLAPS |
| `MissionControl` | the chain from the protection logic to the operator's eyes: frame, datagram, parser, latest frame, REST status, WebSocket, store, panels | `SafeMode` |
| `MissionControlProofs` | theorems about `MissionControl` | `MissionControl`, TLAPS |
| `CycleReports` | the cycle statistics from their measurement to budget bar and timing chart | |
| `CycleReportsProofs` | theorems about `CycleReports` | `CycleReports`, TLAPS |
| `CommandPages` | command hook, console and fault lab, and their requests | `Places` |
| `CommandPagesProofs` | theorems about `CommandPages` | `CommandPages`, TLAPS |

Definitions whose comment calls them a seeded mistake are not part of any
specification: they are alternatives to the definition that follows them, and
each run's properties are known to fail when one of them takes its place.

### SatCore

Steps are the code between two accesses to an atomic that the watchdog shares,
where the order of the two could be observed.

| Action | Code |
|---|---|
| `StartCycle` | `main.cpp:109-126`, heartbeat stored |
| `TakeCommand`, `DiscardCommand`, `QueueDrained` | the loop condition at 127, the three ways it can come out, and the SAFE gate |
| `Exec...` | one per branch of the dispatcher; `ExecThrows` is `std::stod` throwing |
| `Work(over)` | 193-218: busy wait, snapshot of the bits, `Sensors::update`, attitude |
| `MeetDeadline` | 220-239, a cycle in time |
| `MissDeadline`, `ForceSafe` | 220-230 and 231-235: the bit and the mode are stored separately |
| `SampleMode`, `SendFrame` | 249 and 250: the frame loads mode and bits separately |
| `WatchdogRaises`, `WatchdogEntersSafe` | 88 and 89 |
| `Arrive` | the TCP thread pushes a command |

`faults` is the set of the bits that are set. Durations are the number of cycles
that find them positive, which is 0 for a duration that is not positive (or nan),
and `Endless` for one that is never used up: `std::stod` accepts `inf`, and numbers
from which `-= 0.1` takes nothing away. For the others its rounding only changes the
number. A gyro spike exceeding the threshold is a free choice per cycle, as are
missing a deadline and, once a heartbeat has been stored, the watchdog finding it
stale: `SatCore` holds for every timing and `LoopTiming` says which timings there
are. `last_command` stands both for the variable of that name and for the command
being dispatched. A cycle's statistics (`cycle_id`, `deadline_miss_total`), the
attitude and the rates decide nothing here; `CycleReports` and `MissionControl` say
what becomes of them.

### SafeMode

What the protection logic promises, by its own few variables: mode, latched alarms,
the alarms that have been raised and have not yet forced SAFE (`pending`), and the
command that has passed the gate (`order`). A command takes two steps, `Accept` and
the branch that carries it out, and the watchdog's stores may come in between; each
branch is tied to its command, so that no step but a SET_MODE ends SAFE and none but
a RESET_FAULTS clears an alarm. The deadline's alarm too takes two steps,
`RaiseDeadline` and `EnterSafe`, between which the control loop takes no command.

### LoopTiming

Times are relative: `due` is the time to `next`, `age` the time since the heartbeat's
clock reading. A cycle reads the clock (`StartCycle`), stores the reading after up
to `Preempt` (`StoreHeartbeat`), works for the injected load, capped as in the code,
plus anything in `Extras`, measures itself (`MeasureCycle`, `main.cpp:220`), spends
anything in `Reports` on logging, building and sending the frame, and only then
sleeps (`FinishCycle`, 275). `Missed` goes by the time up to the measurement, as
`deadline_miss` does. Delays of the loop while it works or reports are part of
`Extras` and `Reports`. `ResetFaults` is a RESET_FAULTS command, at any time between
the heartbeat and the busy wait. The watchdog loads the heartbeat (`WatchdogLoads`),
reads the clock at any time up to `Preempt` later and judges (`WatchdogJudges`).
`Tick` is time passing; it stops when a thread has been held up for as long as
`Latency` (waking), `Preempt` or `StartDelay` (process start) allow. The
heartbeat's age is an unsigned 64-bit difference in the code; `Unsigned` wraps a
negative one around `Word`, so that a clock read before a later heartbeat would give
an enormous age. The sleep is that of Linux (absolute grid). Two history variables:
`overran`, whether the cycle of the heartbeat the watchdog loaded misses its deadline,
and `quiet`, how long ago a RESET_FAULTS cleared an alarm.

### GatewayLink

Every Node callback is an action. `sock` is the phase of each socket object,
`dead` those whose peer is gone although the gateway has not been told. The
variable `reconnectTimer` (null or an object) is kept apart from `armed` (timeouts
that have yet to fire), which is what the reconnection bug is about. A body the
POST handler rejects is answered 400 and changes nothing. `SendCommand` contains
the branch that connects first, although the gate in front of it never lets it
run: that is what `AtMostOneConnection` rests on.

### TcpServer

One action per step of the server's thread (`EnterPoll`, `Poll`, `PollFails`,
`Accept`, `CheckRunning`, `Receive`, `CutLine`, `ReceiveEnd`) between two points
where the main thread matters, and per step of the main thread's shutdown. Once
`CheckRunning` has found `running_` set the thread counts as receiving: `stop()` may
clear the flag before the thread has entered `recv`, and nothing keeps it out.
`PollFails` is the thread's other end: after it no client is served, and the
shutdown still comes through. What a client writes is a sequence of bytes, some of
which are newlines or Nuls; `Receive` takes any part of what has arrived and appends
it to `line`, up to a Nul, where the code's C string ends. `CutLine` is one
iteration of the inner while loop: it cuts the first line off and pushes it unless
it is blank, and the loop does not look at `running_`. `pushed` is the history of
each client's pushed lines: popping is `SatCore`'s, and `Arrive` there stands for
any push here. The dispatcher's death on a garbled number is left to `SatCore` too.

### TelemetryFeed

`tab` is the browser side: the WebSockets, the runs of the hook's effect and the
refs of each hook instance. The hook's code is a set of functions on `tab`
(`Effect`, `Cleanup`, `Closed`, `OpenSocket`), because React runs several of them at
once: going to another page is the old page's cleanup and the new page's effect, and
a development build (`strict`, the documented `npm run dev`) runs the effect, the
cleanup and the effect again with the same refs. A WebSocket is `connecting`,
`accepted` by the gateway but not yet open in the browser, `open` or `closing`; one
whose gateway dies after accepting it opens, and then closes, like any other. Runs
of the effect add up: the close event of a WebSocket that a cleanup has closed
schedules a reconnection for a page that is gone, so each visit leaves a run behind
that keeps feeding the store. `OneSocketPerRun` says that no run becomes two. Frames
are numbered as the gateway parses them, so a lost or unparsable datagram has no
number. `latest` is the last entry of `history`.

### MissionControl

The composition, one action per event that the display depends on. sat_core's
side is `SafeMode` (which `SatCoreProofs` shows `SatCore` to implement), whose commands
here also decide what a frame needs besides: whether `last_command` holds a raw
control character (`to_json` escapes quote, backslash, newline and return only), which
`TakeCommand` stores before the gate, and whether attitude and rates are numbers (an
extreme rate turns the quaternion into nan, which no later cycle mends).
`SampleMode` and `SendFrame` are the two loads of the frame. Both defects make the
text no JSON, so `Ingest` drops the datagram (`parseTelemetryLine`). `cycle_id` and
`ts_monotonic_ns`, by which any two frames differ, are the frame's `stamp`: it
distinguishes `Stamps` frames in a row and then comes round again. `LinkOpens` is the
gateway's greeting, `SetLatest` the store. `HasFrame`, `ConnectionStatus`,
`ModeBadge`, `FaultsPanel` and `AttitudePanel` are what the page shows; `Status` and
`HasTelemetry` are the REST answers. `PageShowsStatus` asks that page and status
agree in mode, faults, text and attitude as long as frames keep coming (they are one
frame apart whenever one is on its way), and in the whole frame, stamp included,
when no further frame parses. `operated` is a history variable, and travels with
each frame: an operator commanded SAFE or reset the faults since sat_core's start.
There is one link, that of the mounted page, which `LiveAgain` of `TelemetryFeed` says
is connected again in the end. The streams that earlier visits leave behind are not
here: while frames keep coming they may put an older one on the page for a while, but
each of them is in order and ends with the gateway's latest frame
(`StreamHasNoGaps`). What several streams do to history and counters is the
subject of `CycleReports`.

### CycleReports

Times are in units of 0.1 microseconds, which is the least digit that
`std::ostringstream` prints of a time below 100 ms; `Printed` rounds to six
significant digits (both neighbours at a tie, which the binary value decides).
`RunCycle` is the measurement, the deadline block and the frame, which reaches the
gateway or is lost. The gateway sends it to all of `Streams`, the WebSockets of the
mounted page and of the runs that earlier visits have left behind. Each delivers in
order and at its own pace (`OnMessage`), so the store gets frames repeatedly and
older ones after newer ones. `run` numbers sat_core's starts, after which the
counters begin again. A greeting stores the gateway's latest frame once more.
`ChartPoint` has the field `miss` that `TimingChart.tsx:24` computes; the chart
draws only `cycleMs`.

### CommandPages

A user event and its handler are one action: React commits a handler's updates
before the next event. The console's effects on `lastAck` and `lastError` are the
exception: after an answer (no user event) they run later, `due` is what they will
log, and the next commit forces them first. `requests` is the history of all
requests, with the visit they came from; a promise of an earlier visit settles
unheard. A request meets the POST handler (`Handle`) and is answered, or fetch
throws (`NetworkFails`), whether the gateway has handled it or not. The gateway
sends no CORS headers (`gateway/src/index.ts` uses `express.json()` and nothing
else), so a browser that has the dashboard from another port takes the path of
`NetworkFails` for every command; no property depends on another. Blank input,
commands over 512 characters and repeated commands are distinguished, nothing else
of the text. Sliders move to an end of their range; `Param` is the parameter a
slider shows and sets, and `TypeOK` asks that each scenario's command stays within
the ranges of its own sliders. The code's `filter()` is `Entries` of `Places`: the
entries at the kept places, in order, without recursion.

## 3. Runs

| Run | Checks | Bounds |
|---|---|---|
| `satcore_safety` | `SustainedMissesForceSafe`, `SafeFrameBlocksInjection`, refinement of `SafeMode` | 8 commands: every way to set the mode, reset, one that SAFE refuses, garbled numbers; budget 2, threshold 2, 3 misses in a row, queue of 2 |
| `satcore_injections` | `FaultBitsAreActive`, `StatusMatchesFaults`, `DegradedGyroWasAnnounced`, `LoopMakesProgress`, `InjectionsDieOut` | reset and 3 injections, for 2 cycles or endless; budget 2, threshold 1, queue of 1 |
| `loop_timing` | `NoFalseAlarm`, `StallRaisesAlarm`, `CatchesUp` | a cycle of 6 ticks and the code's proportions (threshold 2.5 cycles, poll half a cycle), latency 1, preemption 1, work up to 28 ticks and reports up to 7, a backlog of 4 cycles |
| `gateway_link` | `AtMostOneConnection`, `ConnectedMeansOpen`, `RequestsAreAnswered` | 3 sockets, 2 requests, any number of restarts |
| `tcp_server` | `LinesArriveWhole`, `CompleteLinesArrive`, `ShutdownWaitsOnlyForClient` | 2 connections, texts of 4 or 5 bytes with blank, unfinished and Nul-damaged lines, a signal at any time |
| `telemetry_feed` | `StreamHasNoGaps`, `OneSocketPerRun`, `OneRunKeepsOrder`, `LiveAgain` | 4 WebSockets; up to 4 runs of the effect, 3 frames and 2 failures, 5 of these together; a history of 2 |
| `mission_control` | `SafeIsExplained`, `SafeIsShown`, `PageShowsStatus` | 3 commands, alarms, restarts or broken links, 2 frames on their way to the browser, 2 stamps |
| `cycle_reports` | `BudgetBarAgrees`, `MissesAddUp`, `StreakIsCharted` | cycle times 40 ms, exactly 100 ms, 0.4 and 0.5 microseconds above it, 1.23 s; threshold 2, 2 streams with up to 2 frames on their way, a history of 3, 4 cycles, 1 restart |
| `command_pages` | `AnswersMatchCommands`, `LoadingMeansWaiting`, `RecallInRange`, `CommandsSettle` | 2 typed commands (one too long) and a quick one, a log of 5, a history of 2, 3 requests, 2 visits, one slider moved |
| `shutdown_hangs` | violated: with a client connected, a signal does not end sat_core | 1 connection |
| `discarded_command` | violated: the sixth command of a cycle is popped and lost | the code's budget of 5 |
| `gateway_reconnect` | violated: after one lost connection commands are refused for ever | |

Why the bounds are enough. Arrivals at any moment give every sequence of commands,
including one that arrives when the budget is spent; a budget of two tells the first
command of a cycle from the others, and a queue of two lets both be there when the
cycle starts; durations of two outlast the cycle they start in and end in a later
one, a re-injection makes them longer, and an endless one stays; threshold 2 with up
to 3 misses shows a count below, at and past the threshold. The injections have a
run of their own since mode and misses decide nothing about them but what the gate
lets through, which SAFE after a single miss is enough to show. Three sockets leave
room for a second and a third connection that must not exist. In `loop_timing` both
margins are exact: 2 cycles + latency + 2 preemptions is the threshold, and so is a
cycle + the longest report + 2 preemptions; with a threshold one tick smaller, or a
report one tick longer, `NoFalseAlarm` fails. In `tcp_server` two connections are
enough for one to inherit what the other left, and every text can arrive in any
pieces. In `telemetry_feed` five events in all
are four runs with a frame or a failure, that is four visits in production, or two
in a development build, where the second visit's runs share refs with each other and
the first's cleanup has missed one of its WebSockets; or fewer runs with three
frames, where the history drops one, or with two failures, which break a WebSocket
and its successor; there is a WebSocket for each run. In `mission_control` three
events are enough for an alarm that an operator undoes while the watchdog is between
its stores, or for an alarm, a restart and a broken link around it; frames are not
bounded, and two stamps tell a frame from the one before. In `cycle_reports` 0.4
microseconds above the deadline are printed as 100 ms and 0.5 are a tie; two streams
with two frames on their way store each frame twice and put them two behind; a
history of three holds two neighbours and what was dropped before them, and four
cycles contain a streak past the threshold with a frame lost in it. In
`command_pages` two requests can be under way from different visits while a third
has settled, a history of two drops and reorders commands, and a log of five loses
its oldest entry. `satcore_safety` switches TLC's deadlock check off because the
process may terminate on a garbled number, the `TcpServer` runs because it may exit,
and the `TelemetryFeed` runs because frames, pages and failures are bounded.

Fairness. `SatCore!FairSpec` is weakly fair to the control loop, which is always
runnable in a preemptive scheduler, and to the watchdog's second store; stale
verdicts, deadline misses and arrivals are never owed. `InjectionsDieOut` excepts
what was injected for an endless duration, and the spike that an endless dropout
keeps from being counted down. `LoopTiming!FairSpec` says only that something
happens: time, or a thread that is due. `GatewayLink!FairSpec` is fair to the events
Node delivers for each socket, timer and write, and neither to requests nor to
restarts of sat_core. `TcpServer!FairSpec` is fair to the three threads, which the
kernel schedules preemptively, and to no client: whether a client writes or closes
is its own affair, and the properties that depend on it say so.
`TelemetryFeed!FairSpec` is fair to the browser's timers and to the events of each
WebSocket; `LiveAgain` assumes in its statement that the gateway stays up.
`MissionControl!FairSpec` is fair to the control loop, the opening of the link
(`LiveAgain` is why) and the browser's events, and strongly fair to `Ingest`: a
datagram that can arrive again and again is not lost every time. `SafeIsShown`
assumes that the gateway stays up and that frames are JSON in the end.
`CommandPages!FairSpec` is fair to React's effects, to the gateway's answer
(`RequestsAreAnswered` is why) and to its delivery; not to the operator, nor to
network failures.

## 4. Proofs

`SatCoreProofs` holds for every budget in Nat, every positive threshold, every
set of commands and all bounds; `BitsAreActive` and `StatusAgrees` also assume
`PositiveDurations`. Each theorem has an inductive invariant of its own on top of
`TypeOK`:

- `TypeCorrect`: `TypeOK` is inductive; it needs that sensor updates keep their
  type (`SensorTypes`) and that an update only touches its own bits
  (`UpdatedFaultsBounds`).
- `MissesForceSafe`: `SustainedMissesForceSafe` speaks of the head of a cycle
  only. `MissInv` says what holds at each location from the deadline block on:
  that the mode is SAFE when the frame samples it, which the watchdog cannot undo.
- `GyroAnnounced`: `GyroInv` adds that before the update no GYRO_SPIKE bit is set
  that the last frame did not show.
- `SafeFrameHolds`: `GateInv` carries "the frame said SAFE, so the mode is SAFE"
  from the sample to the first command of the next cycle.
- `BitsAreActive`: `ActiveInv` states the relation at every location, and that
  `frame` and `faults` agree about injection bits while the loop is at its head.
- `StatusAgrees`: `StatusInv` relates status and bits from the update on, and needs
  `ActiveInv` to know that a dropout that is over has left no bit.
- `ImplementsSafeMode`: initial states map to initial states and each action maps
  to an action of `SafeMode` or to a stutter, under `alarms` = the latched bits,
  `pending` = the watchdog, or the deadline block, between its two stores, and `order`
  = the command being dispatched. `GateRefined` is the gate, `BranchRefined` has each
  branch carry out its own command and no other; it needs `GateInv` to know that
  what is dispatched came from the queue.

`LoopTimingProofs` holds for all constants that satisfy `TimingAssumption`:

- `AlarmsAreTrue` (`NoFalseAlarm`) assumes `Margin`: two cycles, the wake-up
  latency and two preemptions (between the loop's clock reading and its store, and
  between the watchdog's load and its verdict) fit into the threshold, and so do one
  cycle, its report and two preemptions. With the code's 100 ms and 250 ms that
  leaves 50 ms for latency and preemptions, and 150 ms for a report and preemptions;
  a cycle in time whose report takes longer than that is alarmed about although its
  telemetry says it met its deadline. `GridInv` bounds heartbeat plus remaining work
  against the grid: a heartbeat is read at most one period ahead of its grid time and
  the next one at most a period and a latency behind it, or as soon as the report ends.
  Hence (`GridBoundsAge`) a heartbeat whose cycle meets its deadline is never older
  than the threshold less a preemption, and (`FreshInv`) neither is the one the
  watchdog has loaded; the other `Preempt` covers the time to its clock reading.
- `StallsAreSeen` (`StallRaisesAlarm`) assumes `Preempt <= Threshold`. Without a
  RESET_FAULTS a heartbeat older than the threshold and `Lookout` (the watchdog's way
  from a clock reading to its next verdict) is under alarm. A loop that is held up,
  is alarmed about and then carries out a RESET_FAULTS looks healthy until the
  watchdog's next verdict; the property excepts just that, for `Lookout` ticks after the
  reset. `StallInv` trades the heartbeat's age, or the time since the reset, against
  the watchdog's timer while there is no alarm, and between the two loads says that
  the heartbeat is the one loaded or was stored since.

`GatewayLinkProofs` holds for every set of sockets and of requests. `LinkInv` is
conservation: there is one socket object or one armed timeout, never two things
that could become a connection. `PostKeepsSockets` shows why a POST does not
disturb it: the gate leaves `SendCommand` no way into its connecting branch.
`OneConnection` and `GateIsHonest` follow from it.

`LoadIsHarmless` (in `LoopTimingProofs`) says of every load, however large, that a
cycle which misses its deadline has other work, and more of it than the cap on the
load leaves free (`LoadAloneMeetsDeadline`, which follows from the bound on the busy
wait in `TypeOK`).

`MissionControlProofs` holds for every number of events and every stream. The
invariant is `TypeOK`, `CoreExplained` and `FramesInv`: while nobody has operated,
the mode, the mode loaded for a frame and the watchdog's second store each have
their alarm in the bits; every frame on its way, at the gateway, in the stream and
in the store is explained by its own bits, and once parsed has numbers.
`SafeHasItsReason` (`SafeIsExplained`) and `PageSurvives` follow. `CoreStep` is
where the order of the watchdog's two stores is used, `BuiltFrame` where the order
of the frame's two loads is.

`CycleReportsProofs` holds for every set of cycle times, every threshold and every
length of the history. `PrintingKeepsDeadline` is the arithmetic: rounding to six
digits never crosses the deadline upwards for a time that meets it, and a miss it
hides is half a microsecond at most; `BarAndLabelAgree` rests on it. With several
streams the order in which the store got its frames says nothing, so the invariant
(`KnownInv`) is about a set: `Known`, the frames that are stored, on their way on any
stream or kept by the gateway. Any two of them `Agree` about the cycles between them,
whichever was stored first, and each is `BeforeNow`: it relates to sat_core's present
counters as a frame of the past must. A cycle adds one frame (`NewFrame`), which agrees
with all that are before now; deliveries, greetings, breaks and restarts of the gateway
add none (`NothingNew`), and a restart of sat_core makes all frames those of an earlier
start. `ChartedMissesAddUp` and `StreaksAreCharted` read it off, for any number of
streams.

`TelemetryFeedProofs` holds for every number of WebSockets from two on, of runs from
two on (a development build starts with two runs and two WebSockets), of frames and
failures, and every length of the history. Its invariant has three parts besides the
types. `TabInv` is about the hook: a WebSocket in use, or a pending timeout, has one
run as its owner, which owns nothing else, and a ref points to a WebSocket of its
own instance. `OneSocket` is the first half of that, but needs the second: `Cleanup`
of a development build acts on refs that it shares with the next run. As React runs
several of the hook's functions at once, there is one lemma for each of them, over
any tab that is `TabOK`, and a step of React is their composition. `StreamInv` says
of each WebSocket, a client or not, that what is on its way is consecutive, and of a
client that it reaches to the latest frame; `NoGaps` reads it off. `OrderInv`
compares the history with what is still on its way to any WebSocket, since the store
forgets where a frame came from (`OneRunOrder`).

`CommandPagesProofs` holds for every set of commands, every length of the log and
of the history, and every number of requests and visits, if null is no command,
scenario or error. The invariant has a part per mechanism. `Waits` and
`Addressed`: the request of this visit that waits is the only one, and those of
earlier visits cannot be mistaken for it (`OneRequestWaits`). `Settled`: while a
request waits both answers are cleared and nothing is due, and otherwise one entry at
most is due; without the clearing in `send()`, an answer equal to the last would trigger
no effect and the log would miss it. `Answers`: with what is due, the log's answers
fit its commands one by one, except that the last command is open while the console
waits, and the waiting request is for that command (`AnswersMatch`, for logs that have
not lost an entry). `Recall` adds to `RecallInRange` that the history has no
repeats, from which `RememberOK` concludes that it never gets shorter under the index.
`PagesTyped` contains the ranges of the sliders.

`TcpServerProofs` holds for every set of clients and every set of texts that are
sequences of bytes. `Framed` is the invariant: there is a newline up to which all
lines of the client's text have been pushed, and while the client is served `line`
is what has been received after it. `Receive` makes `line` longer, `CutLine` moves
the newline on by one (`CutsText`), `Accept` starts at 0, which is where the cleared
`line` is needed; closing, stopping and the signal leave it alone. `LinesWhole`
follows since the lines up to a place are a prefix of all (`LinesPrefix`). `Waits`
says that nothing has been received of a connection that is yet to be accepted, and
`Cuts` that the inner loop has a line to cut.

Two lemmas do what would otherwise take an induction over the data: the k-th of some
places exists, and so does the first newline, because a nonempty set of naturals has
a least element (`LeastNatural` and `FirstPlace`, from the library's
well-foundedness of < on Nat). The facts about counting places are stated in both
modules that use `Places`.

Only model-checked: the liveness properties (`LoopMakesProgress`, `InjectionsDieOut`,
`CatchesUp`, `RequestsAreAnswered`, `CompleteLinesArrive`, `ShutdownWaitsOnlyForClient`,
`LiveAgain`, `SafeIsShown`, `PageShowsStatus`, `CommandsSettle`), because fairness is
out of the prover's reach. Every other property of a passing run, the invariants and the
action properties, is a theorem.

## 5. Divergences

Three are runs of their own (`shutdown_hangs`, `discarded_command`,
`gateway_reconnect`, listed as findings in `PROJECT.json`). The models show these
too, by the definition named, without a run:

| Document | Code | Where in the models |
|---|---|---|
| `src/README.md:153`: 85 ms of CPU load lead to deadline misses and SAFE; `:155` 95 ms trigger the watchdog | the load is capped at 90 ms (`main.cpp:195`) and a deadline is missed above 100 ms | theorem `LoadIsHarmless` |
| `src/README.md:183`: `consecutive_miss` counts consecutive misses | it stays 0 until the threshold is reached (`main.cpp:232`) | `RunCycle` of `CycleReports`; why `StreakIsCharted` is one implication only |
| `src/README.md:185`: bitmask of active faults | RESET_FAULTS clears CPU_LOAD while the load goes on (`main.cpp:150`) | `ExecResetFaults`; why `FaultBitsAreActive` is one implication only |
| `src/README.md:190`: `telemetry_drops` counts dropped frames | nothing ever increments it | `DatagramLost` changes nothing else |
| `src/README.md:192`: `last_command` is the last executed command | it is stored before the SAFE gate (`main.cpp:130`) | `TakeCommand` of `SatCore` and `MissionControl` |
| `src/README.md:163`, `:173`: every frame is a JSON object | control characters go in raw (`telemetry.cpp:14`), nan and inf as words (`:38`) | `Parses` of `MissionControl`; why `SafeIsShown` assumes frames that parse |

## 6. Not modelled

- The value of the attitude (floating point; only whether it is a number matters to
  `MissionControl`), and the rendering of it.
- `SensorHealthPanel` and `TelemetryJsonPanel`: the first prints two booleans,
  which `StatusMatchesFaults` of `SatCore` is about, and an age; the second the whole
  frame, with a local toggle. `layout.tsx`, styles, time stamps and scrolling of the
  console's log have no behaviour a property could be about.
- Logger, build and generated files: no program logic.
- The store's single connected flag, which the late close event of an abandoned
  WebSocket clears while another one streams (`use-ws-telemetry.ts:36`), is modelled in
  `TelemetryFeed`; no property forbids it, since nothing in the repository does. The
  same holds for std::terminate when the UDP socket cannot be made (`UdpFails`), for a
  duration that is not positive (`main.cpp:159`), which strands a bit, for a report so
long that the watchdog takes a cycle in time for a stall (the second `Margin`), for the
  second client that waits for the first (`tcp_server.cpp:84`), and for ArrowUp, which
  recalls the newest command only (`console/page.tsx:87`).

Planned: that every push of `TcpServer` is an `Arrive` of `SatCore`, and every frame
`MissionControl` sends one that `SatCore` can build.
