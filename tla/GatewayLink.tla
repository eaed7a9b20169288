---------------------------- MODULE GatewayLink ----------------------------
(***************************************************************************)
(* The gateway's command path: the TCP client of tcp-client.ts with its    *)
(* three module-level variables, and the POST /api/command handler of      *)
(* index.ts.  Node runs one callback at a time, so each callback is one    *)
(* action.  The Node socket and the sat_core process at the other end are  *)
(* environment: connections are refused or established, die, and the       *)
(* gateway notices later.                                                  *)
(***************************************************************************)
EXTENDS Naturals, FiniteSets

CONSTANTS Sockets,   \* net.Socket objects alive at once (bound)
          Requests,  \* HTTP requests in progress at once (bound)
          Null

ASSUME NullAssumption == Null \notin Sockets

VARIABLES
  server,         \* sat_core is listening or not
  sock,           \* each socket object: no object, or its phase
  dead,           \* sockets whose far end is gone
  socket,         \* the module's `socket`
  connected,      \* the module's `connected`
  reconnectTimer, \* the module's `reconnectTimer`: null, or a Timeout object
  armed,          \* timeouts that have yet to fire
  request,        \* each HTTP request: its last status, or waiting for the write
  via             \* the socket a waiting request was written to

vars == <<server, sock, dead, socket, connected, reconnectTimer, armed, request, via>>
timerVars == <<reconnectTimer, armed>>
httpVars == <<request, via>>

TypeOK ==
  /\ server \in {"up", "down"}
  /\ sock \in [Sockets -> {"none", "connecting", "open", "destroyed"}]
  /\ dead \subseteq Sockets
  /\ socket \in Sockets \union {Null}
  /\ connected \in BOOLEAN
  /\ reconnectTimer \in {"null", "timeout"}
  /\ armed \in Nat
  /\ request \in [Requests -> {"none", "waiting", "200", "502", "503"}]
  /\ via \in [Requests -> Sockets \union {Null}]

\* initTcpClient has run: the first socket is kept in `socket`.
Init == /\ server \in {"up", "down"}
        /\ \E s \in Sockets :
             /\ socket = s
             /\ sock = [t \in Sockets |-> IF t = s THEN "connecting" ELSE "none"]
        /\ dead = {}
        /\ connected = FALSE
        /\ reconnectTimer = "null"
        /\ armed = 0
        /\ request = [r \in Requests |-> "none"]
        /\ via = [r \in Requests |-> Null]

----------------------------------------------------------------------------
(* Callbacks of the sockets. *)

\* The connect callback, whichever socket it belongs to.
OnConnect(s) ==
  /\ sock[s] = "connecting"
  /\ server = "up"
  /\ sock' = [sock EXCEPT ![s] = "open"]
  /\ connected' = TRUE
  /\ reconnectTimer' = "null"
  /\ UNCHANGED <<server, dead, socket, armed, httpVars>>

\* 'error': refused while connecting, or reset by a dead peer.  Node destroys
\* the socket and emits 'close' later.
OnError(s) ==
  /\ \/ sock[s] = "connecting" /\ server = "down"
     \/ sock[s] = "open" /\ s \in dead
  /\ sock' = [sock EXCEPT ![s] = "destroyed"]
  /\ connected' = FALSE
  /\ UNCHANGED <<server, dead, socket, timerVars, httpVars>>

\* An orderly end of the peer destroys the socket without an 'error'.
OnEnd(s) ==
  /\ sock[s] = "open"
  /\ s \in dead
  /\ sock' = [sock EXCEPT ![s] = "destroyed"]
  /\ UNCHANGED <<server, dead, socket, connected, timerVars, httpVars>>

\* 'close', after the callbacks of the writes it fails.  A timeout that has
\* fired still is an object: only a connection resets the variable to null.
OnClose(s) ==
  /\ sock[s] = "destroyed"
  /\ \A r \in Requests : request[r] = "waiting" => via[r] # s
  /\ sock' = [sock EXCEPT ![s] = "none"]
  /\ dead' = dead \ {s}
  /\ connected' = FALSE
  /\ socket' = Null
  /\ armed' = IF reconnectTimer = "null" THEN armed + 1 ELSE armed
  /\ reconnectTimer' = "timeout"
  /\ UNCHANGED <<server, httpVars>>

\* A seeded mistake: a Timeout object is taken for one that has yet to fire.
ReconnectFiresAgain ==
  /\ reconnectTimer = "timeout"
  /\ armed' = armed - 1
  /\ \E s \in Sockets :
       /\ sock[s] = "none"
       /\ sock' = [sock EXCEPT ![s] = "connecting"]
  /\ UNCHANGED <<server, dead, socket, connected, reconnectTimer, httpVars>>

\* The timer's callback drops the socket that connect() returns.
ReconnectFires ==
  /\ armed > 0
  /\ armed' = armed - 1
  /\ \E s \in Sockets :
       /\ sock[s] = "none"
       /\ sock' = [sock EXCEPT ![s] = "connecting"]
  /\ UNCHANGED <<server, dead, socket, connected, reconnectTimer, httpVars>>

----------------------------------------------------------------------------
(* HTTP. *)

\* A seeded mistake: the flag alone, without looking at the socket.
FlagSaysConnected == connected

IsTcpConnected == connected /\ socket # Null /\ sock[socket] # "destroyed"

\* sendCommand: connect first if there is no connection, then write.
SendCommand(r) ==
  IF socket = Null \/ ~connected
  THEN \E s \in Sockets :
         /\ sock[s] = "none"
         /\ sock' = [sock EXCEPT ![s] = "connecting"]
         /\ socket' = s
         /\ via' = [via EXCEPT ![r] = s]
  ELSE /\ via' = [via EXCEPT ![r] = socket]
       /\ UNCHANGED <<sock, socket>>

\* POST /api/command with a valid body: gate, then send.
Post(r) ==
  /\ request[r] # "waiting"
  /\ IF IsTcpConnected
     THEN /\ SendCommand(r)
          /\ request' = [request EXCEPT ![r] = "waiting"]
     ELSE /\ request' = [request EXCEPT ![r] = "503"]
          /\ UNCHANGED <<sock, socket, via>>
  /\ UNCHANGED <<server, dead, connected, timerVars>>

\* The write reached the kernel, whatever has become of the peer.
WriteDone(r) ==
  /\ request[r] = "waiting"
  /\ sock[via[r]] = "open"
  /\ request' = [request EXCEPT ![r] = "200"]
  /\ via' = [via EXCEPT ![r] = Null]
  /\ UNCHANGED <<server, sock, dead, socket, connected, timerVars>>

\* A seeded mistake: the error of a write is swallowed and nobody answers.
WriteFailsSilently(r) ==
  /\ request[r] = "waiting"
  /\ sock[via[r]] = "destroyed"
  /\ UNCHANGED vars

WriteFails(r) ==
  /\ request[r] = "waiting"
  /\ sock[via[r]] = "destroyed"
  /\ request' = [request EXCEPT ![r] = "502"]
  /\ via' = [via EXCEPT ![r] = Null]
  /\ UNCHANGED <<server, sock, dead, socket, connected, timerVars>>

----------------------------------------------------------------------------
(* The sat_core process. *)

ServerStarts == /\ server = "down"
                /\ server' = "up"
                /\ UNCHANGED <<sock, dead, socket, connected, timerVars, httpVars>>

ServerStops == /\ server = "up"
               /\ server' = "down"
               /\ dead' = {s \in Sockets : sock[s] = "open"}
               /\ UNCHANGED <<sock, socket, connected, timerVars, httpVars>>

SocketEvent(s) == OnConnect(s) \/ OnError(s) \/ OnEnd(s) \/ OnClose(s)

Gateway == \/ \E s \in Sockets : SocketEvent(s)
           \/ ReconnectFires
           \/ \E r \in Requests : WriteDone(r) \/ WriteFails(r)

Next == \/ Gateway
        \/ \E r \in Requests : Post(r)
        \/ ServerStarts \/ ServerStops

Spec == Init /\ [][Next]_vars

\* Node delivers the events of every socket, timer and write; nobody has to
\* send a request or to restart sat_core.
FairSpec == /\ Spec
            /\ \A s \in Sockets : WF_vars(SocketEvent(s))
            /\ WF_vars(ReconnectFires)
            /\ \A r \in Requests : WF_vars(WriteDone(r) \/ WriteFails(r))

----------------------------------------------------------------------------

\* The gateway never holds two connections: sat_core serves one client at a
\* time, so commands on a second one would wait for the first to close.
AtMostOneConnection ==
  Cardinality({s \in Sockets : sock[s] \in {"connecting", "open"}}) <= 1

\* When the gateway believes it is connected, the socket it would write to is
\* established: the one flag, which callbacks of every socket set and clear,
\* never vouches for a socket that is still connecting or gone.
ConnectedMeansOpen == IsTcpConnected => socket # Null /\ sock[socket] = "open"

\* Every HTTP request that was written gets an answer, even when the connection
\* breaks before its write completes.
RequestsAreAnswered ==
  \A r \in Requests : request[r] = "waiting" ~> request[r] # "waiting"

\* tcp-client.ts logs "[TCP] Reconnecting..." and then "[TCP] Connected to
\* sat_core"; a connection so announced should accept commands again: if
\* sat_core stays up from some point on, so does the command path.
LinkRecovers == <>[](server = "up") => <>[]IsTcpConnected
=============================================================================
