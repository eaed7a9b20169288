---------------------------- MODULE TelemetryFeed --------------------------
(***************************************************************************)
(* Telemetry from the gateway to one browser tab: the latest frame and the *)
(* WebSocket broadcast of ws-broadcast.ts, the hook use-ws-telemetry.ts    *)
(* that every page of the dashboard mounts, and the store they share.  A   *)
(* run of the hook's effect opens a WebSocket and keeps reopening it; its  *)
(* cleanup runs when the user goes to another page.  Browser and gateway   *)
(* run one callback at a time, so each callback is one action.  Frames are *)
(* numbered as the gateway parses them: a datagram that is lost or does    *)
(* not parse never gets a number.                                          *)
(***************************************************************************)
EXTENDS Naturals, Sequences, FiniteSets, SequencesExt

CONSTANTS Sockets,     \* WebSocket objects alive at once (bound)
          Null,
          MaxRuns,     \* bound: runs of the effect, one or two per page visit
          MaxFrames,   \* bound: frames the gateway parses
          MaxFailures, \* bound: gateway stops and broken connections
          MaxEvents,   \* bound: runs, frames and failures together
          MAX_HISTORY

\* The first page of a development build has two runs, each with a WebSocket.
ASSUME FeedAssumption ==
  /\ Null \notin Sockets
  /\ IsFiniteSet(Sockets) /\ Cardinality(Sockets) >= 2
  /\ MaxRuns \in Nat \ {0, 1}
  /\ MaxFrames \in Nat /\ MaxFailures \in Nat /\ MaxEvents \in Nat
  /\ MAX_HISTORY \in Nat \ {0, 1}

VARIABLES
  strict,      \* a development build, where React runs each effect twice
  gateway,     \* up or down
  frame,       \* the last frame the gateway parsed
  latestFrame, \* the gateway's latestFrame; 0 is null
  clients,     \* wss.clients
  failures,    \* how often something has failed
  tab,         \* the hook and its WebSockets, see TabType
  pipe,        \* frames sent to each WebSocket and not yet delivered
  seen,        \* history: the last frame delivered on it
  connected, history \* the store; its `latest` is the last of `history`

gatewayVars == <<gateway, frame, latestFrame, clients>>
streamVars == <<pipe, seen>>
store == <<connected, history>>
vars == <<strict, gatewayVars, failures, tab, streamVars, store>>

Runs == 1..MaxRuns

\* There is room for n more events of a run.
RoomFor(n) == tab.runs + frame + failures + n <= MaxEvents

TabType ==
  [ws : [Sockets -> {"none", "connecting", "accepted", "open", "closing"}],
   owner : [Sockets -> Runs \union {0}], \* the run of the effect that made it
   runs : Runs,                          \* runs of the effect so far
   page : Runs,                          \* the mounted instance of the hook
   instance : [Runs -> Runs \union {0}], \* the instance of each run
   wsRef : [Runs -> Sockets \union {Null}],    \* refs, one per instance
   reconnectRef : [Runs -> Runs \union {0}],
   timers : SUBSET Runs]                 \* runs whose timeout is pending

TypeOK ==
  /\ strict \in BOOLEAN
  /\ gateway \in {"up", "down"}
  /\ frame \in 0..MaxFrames /\ latestFrame \in 0..frame
  /\ clients \subseteq Sockets
  /\ failures \in 0..MaxFailures
  /\ tab \in TabType
  /\ \A s \in Sockets : pipe[s] \in Seq(1..frame) /\ seen[s] \in 0..frame
  /\ connected \in BOOLEAN
  /\ history \in Seq(1..frame) /\ Len(history) <= MAX_HISTORY

----------------------------------------------------------------------------
(* What the hook does to the tab. *)

Free(t) == {s \in Sockets : t.ws[s] = "none"}

\* connect() of run e: a new WebSocket, kept in the instance's wsRef.
OpenSocket(t, e) ==
  LET s == CHOOSE s \in Free(t) : TRUE
  IN [t EXCEPT !.ws[s] = "connecting", !.owner[s] = e,
               !.wsRef[t.instance[e]] = s]

Effect(t, i) ==
  LET e == t.runs + 1
  IN OpenSocket([t EXCEPT !.runs = e, !.instance[e] = i], e)

\* The cleanup: clear the instance's last timeout, close its last WebSocket.
Cleanup(t, i) ==
  LET s == t.wsRef[i]
  IN [t EXCEPT !.timers = @ \ {t.reconnectRef[i]},
               !.ws = IF s = Null THEN @ ELSE [@ EXCEPT ![s] = "closing"],
               !.wsRef[i] = Null]

\* A new page.  In a development build its effect runs, is cleaned up and runs
\* again, with the same refs.
Mounted(t, i) ==
  LET first == Effect([t EXCEPT !.page = i], i)
  IN IF strict THEN Effect(Cleanup(first, i), i) ELSE first

\* Seeded mistakes: no reconnection; a reconnection at once and another later.
ClosedForGood(t, s) ==
  LET i == t.instance[t.owner[s]]
  IN [t EXCEPT !.ws[s] = "none", !.owner[s] = 0, !.wsRef[i] = Null]
ClosedTwice(t, s) ==
  LET e == t.owner[s]
      i == t.instance[e]
  IN OpenSocket([t EXCEPT !.ws[s] = "none", !.owner[s] = 0,
                          !.timers = @ \union {e}, !.reconnectRef[i] = e], e)

\* onclose: the instance forgets whichever WebSocket it holds and schedules a
\* reconnection, even when the page is gone.
Closed(t, s) ==
  LET e == t.owner[s]
      i == t.instance[e]
  IN [t EXCEPT !.ws[s] = "none", !.owner[s] = 0, !.wsRef[i] = Null,
               !.timers = @ \union {e}, !.reconnectRef[i] = e]

NoTab == [ws |-> [s \in Sockets |-> "none"], owner |-> [s \in Sockets |-> 0],
          runs |-> 0, page |-> 0, instance |-> [e \in Runs |-> 0],
          wsRef |-> [i \in Runs |-> Null],
          reconnectRef |-> [i \in Runs |-> 0], timers |-> {}]

\* The first page has been opened.
Init == /\ strict \in BOOLEAN
        /\ gateway \in {"up", "down"}
        /\ frame = 0 /\ latestFrame = 0 /\ clients = {} /\ failures = 0
        /\ tab = Mounted(NoTab, 1)
        /\ pipe = [s \in Sockets |-> <<>>] /\ seen = [s \in Sockets |-> 0]
        /\ connected = FALSE /\ history = <<>>

\* The user goes to another page: the cleanup of the old, then the new page.
Navigate ==
  LET left == Cleanup(tab, tab.page)
      needed == IF strict THEN 2 ELSE 1
  IN /\ tab.runs + needed <= MaxRuns /\ RoomFor(needed)
     /\ Cardinality(Free(left)) >= needed
     /\ tab' = Mounted(left, tab.page + 1)
     /\ connected' = FALSE
     /\ UNCHANGED <<strict, gatewayVars, failures, streamVars, history>>

TimerFires(e) ==
  /\ e \in tab.timers
  /\ Free(tab) # {}
  /\ tab' = OpenSocket([tab EXCEPT !.timers = @ \ {e}], e)
  /\ UNCHANGED <<strict, gatewayVars, failures, streamVars, store>>

----------------------------------------------------------------------------
(* The stream. *)

\* A seeded mistake: a new client waits for the next frame.
GreetNobody(s) ==
  /\ tab.ws[s] = "connecting"
  /\ gateway = "up"
  /\ clients' = clients \union {s}
  /\ tab' = [tab EXCEPT !.ws[s] = "accepted"]
  /\ UNCHANGED <<strict, gateway, frame, latestFrame, failures, streamVars, store>>

\* 'connection' at the gateway: a new client gets the latest frame, if any.
Greet(s) ==
  /\ tab.ws[s] = "connecting"
  /\ gateway = "up"
  /\ clients' = clients \union {s}
  /\ tab' = [tab EXCEPT !.ws[s] = "accepted"]
  /\ pipe' = [pipe EXCEPT ![s] = IF latestFrame = 0 THEN <<>> ELSE <<latestFrame>>]
  /\ UNCHANGED <<strict, gateway, frame, latestFrame, failures, seen, store>>

\* The gateway's answer reaches the page, perhaps after the gateway has stopped.
OnOpen(s) ==
  /\ tab.ws[s] = "accepted"
  /\ tab' = [tab EXCEPT !.ws[s] = "open"]
  /\ connected' = TRUE
  /\ UNCHANGED <<strict, gatewayVars, failures, streamVars, history>>

\* A datagram that parses: it becomes the latest frame and goes to everybody.
BroadcastFrame ==
  /\ gateway = "up"
  /\ frame < MaxFrames /\ RoomFor(1)
  /\ frame' = frame + 1
  /\ latestFrame' = frame + 1
  /\ pipe' = [s \in Sockets |-> IF s \in clients THEN Append(pipe[s], frame + 1)
                                ELSE pipe[s]]
  /\ UNCHANGED <<strict, gateway, clients, failures, tab, seen, store>>

\* A seeded mistake: slice(-MAX_HISTORY), then the frame.
AppendOneTooMany(h, f) ==
  LET from == IF Len(h) <= MAX_HISTORY THEN 1 ELSE Len(h) - MAX_HISTORY + 1
  IN Append(SubSeq(h, from, Len(h)), f)

\* setLatest: the last MAX_HISTORY - 1 frames, then the new one.
Remember(h, f) ==
  LET from == IF Len(h) < MAX_HISTORY THEN 1 ELSE Len(h) - MAX_HISTORY + 2
  IN Append(SubSeq(h, from, Len(h)), f)

\* onmessage; a WebSocket that is closing delivers nothing more.
OnMessage(s) ==
  /\ tab.ws[s] = "open"
  /\ pipe[s] # <<>>
  /\ history' = Remember(history, Head(pipe[s]))
  /\ seen' = [seen EXCEPT ![s] = Head(pipe[s])]
  /\ pipe' = [pipe EXCEPT ![s] = Tail(@)]
  /\ UNCHANGED <<strict, gatewayVars, failures, tab, connected>>

\* Its end is near: the page has closed it, the gateway is not there, or the
\* connection is broken.
IsEnding(s) == \/ tab.ws[s] = "closing"
               \/ tab.ws[s] = "connecting" /\ gateway = "down"
               \/ tab.ws[s] \in {"accepted", "open"} /\ s \notin clients

\* onclose, after the onerror of a WebSocket that failed.
OnClose(s) ==
  /\ IsEnding(s)
  /\ tab' = Closed(tab, s)
  /\ connected' = FALSE
  /\ clients' = clients \ {s}
  /\ pipe' = [pipe EXCEPT ![s] = <<>>]
  /\ seen' = [seen EXCEPT ![s] = 0]
  /\ UNCHANGED <<strict, gateway, frame, latestFrame, failures, history>>

GatewayStops ==
  /\ gateway = "up"
  /\ failures < MaxFailures /\ RoomFor(1)
  /\ failures' = failures + 1
  /\ gateway' = "down"
  /\ clients' = {} /\ latestFrame' = 0
  /\ UNCHANGED <<strict, frame, tab, streamVars, store>>

GatewayStarts ==
  /\ gateway = "down"
  /\ gateway' = "up"
  /\ UNCHANGED <<strict, frame, latestFrame, clients, failures, tab, streamVars, store>>

\* A send fails and the gateway terminates the client.
Terminate(s) ==
  /\ s \in clients /\ tab.ws[s] \in {"accepted", "open"}
  /\ failures < MaxFailures /\ RoomFor(1)
  /\ failures' = failures + 1
  /\ clients' = clients \ {s}
  /\ UNCHANGED <<strict, gateway, frame, latestFrame, tab, streamVars, store>>

SocketEvent(s) == Greet(s) \/ OnOpen(s) \/ OnMessage(s) \/ OnClose(s)

Next == \/ Navigate \/ BroadcastFrame \/ GatewayStops \/ GatewayStarts
        \/ \E s \in Sockets : SocketEvent(s) \/ Terminate(s)
        \/ \E e \in Runs : TimerFires(e)

Spec == Init /\ [][Next]_vars

\* Timers fire and the events of every WebSocket are delivered.
FairSpec == /\ Spec
            /\ \A s \in Sockets : WF_vars(SocketEvent(s))
            /\ \A e \in Runs : WF_vars(TimerFires(e))

----------------------------------------------------------------------------

\* Every client of the gateway is fed without a gap up to the latest frame,
\* from the moment it is connected: what it has been shown last and what is on
\* its way are consecutive, and end with that frame.
StreamHasNoGaps ==
  \A s \in clients :
    LET stream == (IF seen[s] = 0 THEN <<>> ELSE <<seen[s]>>) \o pipe[s]
    IN /\ latestFrame # 0 => stream # <<>> /\ Last(stream) = latestFrame
       /\ \A i \in 2..Len(stream) : stream[i] = stream[i - 1] + 1

\* A run of the effect has one WebSocket or one timeout at a time.  Runs do add
\* up, since each visit of a page leaves one behind that goes on reconnecting;
\* but no run ever splits in two, however its closes, timeouts and the cleanups
\* of a shared wsRef interleave.
OneSocketPerRun ==
  \A e \in Runs :
    Cardinality({s \in Sockets : tab.owner[s] = e})
      + (IF e \in tab.timers THEN 1 ELSE 0) <= 1

\* Until a second run of the effect the history is in the order of the frames,
\* through reconnections and restarts of the gateway.
OneRunKeepsOrder ==
  tab.runs = 1 => \A i \in 2..Len(history) : history[i - 1] <= history[i]

\* When the gateway stays up, the page that is mounted is connected in the end
\* and shown as connected, whatever the runs of pages before it do.
LiveAgain ==
  <>[](gateway = "up")
    => <>[](connected /\ \E s \in Sockets : tab.ws[s] = "open" /\ tab.owner[s] = tab.runs)
=============================================================================
