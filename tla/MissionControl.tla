--------------------------- MODULE MissionControl --------------------------
(***************************************************************************)
(* From the flight software to the operator's eyes: the protection logic   *)
(* (module SafeMode, which SatCore implements), the telemetry frame that   *)
(* samples it and its JSON text, the datagram, the gateway's parser and    *)
(* latest frame, the browser's link and store (TelemetryFeed has their     *)
(* details), and the panels of the mission control page.  Frames carry     *)
(* what the panels and the properties tell apart; cycle_id and ts, which   *)
(* tell any two frames apart, are a stamp that comes round again.          *)
(***************************************************************************)
EXTENDS Command, Sequences

CONSTANTS Null,
          MaxEvents, \* bound: commands, alarms, restarts and breaks of the link
          StreamCap, \* bound: frames on their way to the browser
          Stamps     \* bound: frames in a row that have different stamps

ASSUME EventAssumption == MaxEvents \in Nat
ASSUME StreamAssumption == StreamCap \in Nat \ {0}
ASSUME StampAssumption == Stamps \in Nat \ {0}

\* Commands that differ for the mode, the alarms or the frames.
Orders == {SetMode("NOMINAL"), SetMode("SAFE"), Plain("RESET_FAULTS"),
           Plain("POWER_GLITCH"), Plain("SET_TARGET_RATE"), Plain("PING")}

VARIABLES
  mode, alarms, pending, order, \* sat_core's protection logic, see SafeMode
  text,        \* last_command: printable, or with a raw control character
  attitude,    \* attitude and rates: finite, or not a number
  operated,    \* history: since sat_core's start SAFE was commanded or faults reset
  stamp,       \* cycle_id and ts of the frame being built
  loaded,      \* the mode loaded for it, or Null
  wire,        \* the datagram on its way, or Null
  gateway,     \* up or down
  latestFrame, \* the gateway's latestFrame
  connected,   \* the store's flag: the WebSocket is open
  stream,      \* frames sent on it and not yet delivered
  latest,      \* the store's latest frame
  events       \* how much has happened

Core == INSTANCE SafeMode

ASSUME NullAssumption == Null \notin Core!Mode

core == <<mode, alarms, pending, order>>
content == <<text, attitude, operated, stamp>>
gatewayVars == <<gateway, latestFrame>>
browser == <<connected, stream, latest>>
vars == <<core, content, loaded, wire, gatewayVars, browser, events>>

Frame == [stamp : 0..(Stamps - 1), mode : Core!Mode, faults : SUBSET Core!Latched,
          text : {"clean", "control"}, attitude : {"finite", "nan"},
          operated : BOOLEAN] \* not in the code: `operated` as of this frame

TypeOK ==
  /\ Core!TypeOK
  /\ text \in {"clean", "control"}
  /\ attitude \in {"finite", "nan"}
  /\ operated \in BOOLEAN
  /\ stamp \in 0..(Stamps - 1)
  /\ loaded \in Core!Mode \union {Null}
  /\ wire \in Frame \union {Null}
  /\ gateway \in {"up", "down"}
  /\ latestFrame \in Frame \union {Null}
  /\ connected \in BOOLEAN
  /\ stream \in Seq(Frame) /\ Len(stream) <= StreamCap
  /\ latest \in Frame \union {Null}
  /\ events \in 0..MaxEvents

Init ==
  /\ Core!Init
  /\ text = "clean" /\ attitude = "finite" /\ operated = FALSE
  /\ stamp = 0 /\ loaded = Null /\ wire = Null
  /\ gateway \in {"up", "down"} /\ latestFrame = Null
  /\ connected = FALSE /\ stream = <<>> /\ latest = Null
  /\ events = 0

Happens == events < MaxEvents /\ events' = events + 1

----------------------------------------------------------------------------
(* sat_core.  Commands and overruns come before the frame is built, the    *)
(* watchdog whenever it likes, also between the gate and the branch.       *)

\* last_command is stored first, whatever then becomes of the command.
TakeCommand(cmd) ==
  /\ loaded = Null /\ Core!Ready
  /\ Happens
  /\ text' \in {"clean", "control"}
  /\ \/ Core!Accept(cmd)
     \/ Core!Refused(cmd) /\ UNCHANGED core
  /\ UNCHANGED <<attitude, operated, stamp, loaded, wire, gatewayVars, browser>>

ExecSetMode(cmd) ==
  /\ Core!OperatorSetsMode(cmd)
  /\ operated' = (operated \/ mode' = "SAFE")
  /\ UNCHANGED attitude

ExecResetFaults(cmd) ==
  /\ Core!OperatorResets(cmd)
  /\ operated' = TRUE
  /\ UNCHANGED attitude

ExecPowerGlitch(cmd) ==
  /\ Core!PowerGlitch(cmd)
  /\ UNCHANGED <<attitude, operated>>

\* A rate whose square overflows, or that is itself not finite: the quaternion
\* is not a number from this cycle on, for the normalisation keeps it so.
ExecSetTargetRate(cmd) ==
  /\ cmd.verb = "SET_TARGET_RATE"
  /\ Core!WithoutEffect(cmd)
  /\ attitude' \in {attitude, "nan"}
  /\ UNCHANGED operated

\* PING, and whatever the dispatcher does not know.
ExecWithoutEffect(cmd) ==
  /\ cmd.verb # "SET_TARGET_RATE"
  /\ Core!WithoutEffect(cmd)
  /\ UNCHANGED <<attitude, operated>>

Execute(cmd) ==
  /\ \/ ExecSetMode(cmd) \/ ExecResetFaults(cmd) \/ ExecPowerGlitch(cmd)
     \/ ExecSetTargetRate(cmd) \/ ExecWithoutEffect(cmd)
  /\ UNCHANGED <<text, stamp, loaded, wire, gatewayVars, browser, events>>

CarryOut == \E cmd \in Orders : Execute(cmd)

Overrun == /\ loaded = Null
           /\ Happens
           /\ Core!RaiseDeadline
           /\ UNCHANGED <<content, loaded, wire, gatewayVars, browser>>

DeadlineEntersSafe ==
  /\ Core!EnterSafe("DEADLINE")
  /\ UNCHANGED <<content, loaded, wire, gatewayVars, browser, events>>

WatchdogRaises == /\ Happens
                  /\ Core!RaiseWatchdog
                  /\ UNCHANGED <<content, loaded, wire, gatewayVars, browser>>

WatchdogEntersSafe ==
  /\ Core!EnterSafe("WATCHDOG")
  /\ UNCHANGED <<content, loaded, wire, gatewayVars, browser, events>>

\* The process ends, or dies, and is started again.
CoreRestarts ==
  /\ Happens
  /\ mode' = "NOMINAL" /\ alarms' = {} /\ pending' = {} /\ order' = <<>>
  /\ text' = "clean" /\ attitude' = "finite" /\ operated' = FALSE
  /\ loaded' = Null
  /\ UNCHANGED <<stamp, wire, gatewayVars, browser>>

\* The frame loads the mode, then the fault bits.
SampleMode ==
  /\ loaded = Null /\ Core!Ready
  /\ loaded' = mode
  /\ UNCHANGED <<core, content, wire, gatewayVars, browser, events>>

Built == [stamp |-> stamp, mode |-> loaded, faults |-> alarms, text |-> text,
          attitude |-> attitude, operated |-> operated]

\* Seeded mistakes: a frame sent before its mode is loaded; one frame object
\* for all cycles, its mode filled in once.
SendEarly ==
  /\ wire = Null
  /\ wire' = Built
  /\ loaded' = Null
  /\ UNCHANGED <<core, content, gatewayVars, browser, events>>

SendSameFrame ==
  /\ loaded # Null /\ wire = Null
  /\ wire' = Built
  /\ UNCHANGED <<core, content, loaded, gatewayVars, browser, events>>

SendFrame ==
  /\ loaded # Null /\ wire = Null
  /\ wire' = Built
  /\ loaded' = Null
  /\ stamp' = (stamp + 1) % Stamps
  /\ UNCHANGED <<core, text, attitude, operated, gatewayVars, browser, events>>

----------------------------------------------------------------------------
(* The gateway. *)

\* to_json escapes quote, backslash, newline and return only, and prints a
\* number that is none as nan or inf: JSON.parse takes neither.
Parses(f) == f.text = "clean" /\ f.attitude = "finite"

DatagramLost == /\ wire # Null
                /\ wire' = Null
                /\ UNCHANGED <<core, content, loaded, gatewayVars, browser, events>>

\* A datagram arrives: if it parses it becomes the latest frame and is sent on.
Ingest ==
  /\ gateway = "up"
  /\ wire # Null /\ Len(stream) < StreamCap
  /\ IF Parses(wire)
     THEN /\ latestFrame' = wire
          /\ stream' = IF connected THEN Append(stream, wire) ELSE stream
     ELSE UNCHANGED <<latestFrame, stream>>
  /\ wire' = Null
  /\ UNCHANGED <<core, content, loaded, gateway, connected, latest, events>>

GatewayStops ==
  /\ gateway = "up" /\ Happens
  /\ gateway' = "down" /\ latestFrame' = Null
  /\ connected' = FALSE /\ stream' = <<>>
  /\ UNCHANGED <<core, content, loaded, wire, latest>>

GatewayStarts ==
  /\ gateway = "down"
  /\ gateway' = "up"
  /\ UNCHANGED <<core, content, loaded, wire, latestFrame, browser, events>>

\* GET /api/status: the latest frame, or 503 when there is none.
Status == latestFrame

\* GET /api/health, has_telemetry.
HasTelemetry == Status # Null

----------------------------------------------------------------------------
(* The browser. *)

\* A seeded mistake: the new client is not sent the latest frame.
LinkOpensEmpty ==
  /\ ~connected /\ gateway = "up"
  /\ connected' = TRUE
  /\ UNCHANGED <<core, content, loaded, wire, gatewayVars, stream, latest, events>>

LinkOpens ==
  /\ ~connected /\ gateway = "up"
  /\ connected' = TRUE
  /\ stream' = IF HasTelemetry THEN <<latestFrame>> ELSE <<>>
  /\ UNCHANGED <<core, content, loaded, wire, gatewayVars, latest, events>>

LinkBreaks ==
  /\ connected /\ Happens
  /\ connected' = FALSE /\ stream' = <<>>
  /\ UNCHANGED <<core, content, loaded, wire, gatewayVars, latest>>

SetLatest ==
  /\ stream # <<>>
  /\ latest' = Head(stream)
  /\ stream' = Tail(stream)
  /\ UNCHANGED <<core, content, loaded, wire, gatewayVars, connected, events>>

\* What the page shows.  Until the first frame the panels say "No telemetry";
\* the last one stays on screen while the link is down.
HasFrame == latest # Null
ConnectionStatus == IF connected THEN "LIVE" ELSE "CONNECTING..."
ModeBadge == latest.mode
FaultsPanel == latest.faults
\* A rate that is no number could only come as null, which is how the gateway's
\* JSON.stringify writes it, and null has no toFixed: React takes the page down.
AttitudePanel == IF latest.attitude = "finite" THEN "angles" ELSE "throws"

----------------------------------------------------------------------------

SatCore == (\E cmd \in Orders : TakeCommand(cmd)) \/ CarryOut
             \/ Overrun \/ DeadlineEntersSafe \/ WatchdogRaises \/ WatchdogEntersSafe
             \/ CoreRestarts \/ SampleMode \/ SendFrame
Gateway == DatagramLost \/ Ingest \/ GatewayStops \/ GatewayStarts
Browser == LinkOpens \/ LinkBreaks \/ SetLatest

Next == SatCore \/ Gateway \/ Browser

Spec == Init /\ [][Next]_vars

\* The loop and the browser go on (LiveAgain of TelemetryFeed is why the link
\* opens again), and not every datagram is lost.
FairSpec == /\ Spec
            /\ WF_vars(CarryOut) /\ WF_vars(DeadlineEntersSafe)
            /\ WF_vars(SampleMode) /\ WF_vars(SendFrame)
            /\ SF_vars(Ingest)
            /\ WF_vars(LinkOpens) /\ WF_vars(SetLatest)

----------------------------------------------------------------------------

\* A SAFE badge that no operator has asked for comes with its reason: while
\* nobody has commanded SAFE or reset the faults, the faults panel lists the
\* watchdog or the deadline.  The watchdog stores bit and mode, the frame loads
\* mode and bits: the order of both is what makes it true.
SafeIsExplained ==
  HasFrame /\ ModeBadge = "SAFE" /\ ~latest.operated
    => FaultsPanel \intersect {"WATCHDOG", "DEADLINE"} # {}

\* No frame takes the page down: attitude and rates that are not numbers make
\* the frame unparsable, so they never reach the panels.
PageNeverThrows == HasFrame => AttitudePanel # "throws"

\* A SAFE that lasts is shown in the end, live, through lost datagrams, broken
\* links and restarts, and the page is up to show it, unless last_command or the
\* attitude spoils every frame.
SafeIsShown ==
  <>[](mode = "SAFE" /\ Parses(Built) /\ gateway = "up")
    => <>[](ConnectionStatus = "LIVE" /\ HasFrame /\ ModeBadge = "SAFE" /\ PageNeverThrows)

Content(f) == [mode |-> f.mode, faults |-> f.faults, text |-> f.text,
               attitude |-> f.attitude]

\* Page and GET /api/status agree in the end, whichever of gateway and link was
\* restarted last: while frames keep coming in what they say, and when no further
\* frame parses in being the very same frame, with its cycle_id and ts.
PageShowsStatus ==
  <>[](gateway = "up")
    => /\ <>[](HasTelemetry => HasFrame /\ Content(latest) = Content(Status))
       /\ <>[]~Parses(Built) => <>[](HasTelemetry => latest = Status)
=============================================================================
