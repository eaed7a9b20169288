------------------------------ MODULE TcpServer ----------------------------
(***************************************************************************)
(* The TCP command server of sat_core: its thread accepts one client at a  *)
(* time and cuts what it receives into lines, while the main thread starts *)
(* up, runs and, after a signal, shuts everything down.  What a line means *)
(* is left to Command, what is done with it to SatCore.                    *)
(***************************************************************************)
EXTENDS Integers, Sequences, FiniteSets, SequencesExt, Places

CONSTANTS Clients, \* connections clients may make (bound)
          Texts,   \* what a client may write before it closes
          Newline, \* the byte that ends a line
          Nul      \* the byte that ends a C string

Bytes == UNION {{t[i] : i \in DOMAIN t} : t \in Texts}

ASSUME BytesAssumption == Newline # Nul
ASSUME TextsAssumption == Texts \subseteq Seq(Bytes)

VARIABLES
  main,      \* where the main thread is
  g_running, \* cleared by SIGINT and SIGTERM
  running,   \* the server's running_
  listening, \* listen_fd_ is open
  thread,    \* where the server's thread is
  watchdog,  \* the watchdog's thread: running or done
  text,      \* what each client writes
  written,   \* how much of it has arrived at sat_core
  read,      \* how much of it has been received
  closed,    \* clients that have closed their end
  backlog,   \* connections waiting for accept
  served,    \* the connection being served, or <<>>
  line,      \* the unfinished line
  pushed     \* history: the lines of each client pushed to the queue

vars == <<main, g_running, running, listening, thread, watchdog, text, written,
          read, closed, backlog, served, line, pushed>>
mainVars == <<main, running, listening>>
clientVars == <<text, written, closed>>
serverVars == <<thread, read, served, line, pushed>>

TypeOK ==
  /\ main \in {"starting", "looping", "stopping", "closing", "joining",
               "joiningWatchdog", "exited", "aborted"}
  /\ g_running \in BOOLEAN /\ running \in BOOLEAN /\ listening \in BOOLEAN
  /\ thread \in {"head", "polling", "accepting", "check", "receiving",
                "cutting", "done"}
  /\ watchdog \in {"notStarted", "running", "done"}
  /\ text \in [Clients -> Texts]
  /\ read \in [Clients -> Nat] /\ written \in [Clients -> Nat]
  /\ \A c \in Clients : read[c] <= written[c] /\ written[c] <= Len(text[c])
  /\ closed \subseteq Clients
  /\ backlog \in Seq(Clients)
  /\ served \in {<<>>} \union {<<c>> : c \in Clients}
  /\ line \in Seq(Bytes)
  /\ pushed \in [Clients -> Seq(Seq(Bytes) \ {<<>>})]

\* start() has succeeded: the server's thread runs before the UDP socket is made.
Init == /\ main = "starting"
        /\ g_running = TRUE /\ running = TRUE /\ listening = TRUE
        /\ thread = "head" /\ watchdog = "notStarted"
        /\ text \in [Clients -> Texts]
        /\ written = [c \in Clients |-> 0]
        /\ read = [c \in Clients |-> 0]
        /\ closed = {}
        /\ backlog = <<>> /\ served = <<>>
        /\ line = <<>> /\ pushed = [c \in Clients |-> <<>>]

Alive == main \notin {"exited", "aborted"}

----------------------------------------------------------------------------
(* The main thread. *)

UdpReady == /\ main = "starting"
            /\ main' = "looping"
            /\ watchdog' = "running"
            /\ UNCHANGED <<g_running, running, listening, clientVars, backlog, serverVars>>

\* Without a UDP socket main returns, and the destructor of a thread that has
\* not been joined terminates the process.
UdpFails == /\ main = "starting"
            /\ main' = "aborted"
            /\ running' = FALSE /\ listening' = FALSE
            /\ UNCHANGED <<g_running, watchdog, clientVars, backlog, serverVars>>

Signal == /\ Alive
          /\ g_running
          /\ g_running' = FALSE
          /\ UNCHANGED <<mainVars, watchdog, clientVars, backlog, serverVars>>

\* The control loop looks at g_running once per cycle.
LeaveLoop == /\ main = "looping"
             /\ ~g_running
             /\ main' = "stopping"
             /\ UNCHANGED <<g_running, running, listening, watchdog, clientVars, backlog, serverVars>>

\* stop(): running_ first, then the listening socket, whose backlog is reset.
\* The client being served keeps its socket.
ClearRunning == /\ main = "stopping"
                /\ running' = FALSE
                /\ main' = "closing"
                /\ UNCHANGED <<g_running, listening, watchdog, clientVars, backlog, serverVars>>

CloseListener == /\ main = "closing"
                 /\ listening' = FALSE
                 /\ backlog' = <<>>
                 /\ main' = "joining"
                 /\ UNCHANGED <<g_running, running, watchdog, clientVars, serverVars>>

JoinServer == /\ main = "joining"
              /\ thread = "done"
              /\ main' = "joiningWatchdog"
              /\ UNCHANGED <<g_running, running, listening, watchdog, clientVars, backlog, serverVars>>

JoinWatchdog == /\ main = "joiningWatchdog"
                /\ watchdog = "done"
                /\ main' = "exited"
                /\ UNCHANGED <<g_running, running, listening, watchdog, clientVars, backlog, serverVars>>

Main == \/ UdpReady \/ UdpFails \/ LeaveLoop \/ ClearRunning \/ CloseListener
        \/ JoinServer \/ JoinWatchdog

WatchdogEnds == /\ Alive
                /\ watchdog = "running"
                /\ ~g_running
                /\ watchdog' = "done"
                /\ UNCHANGED <<mainVars, g_running, clientVars, backlog, serverVars>>

----------------------------------------------------------------------------
(* The server's thread.  listen_fd_ is a plain int that stop() overwrites: an *)
(* old value names a closed descriptor, which fails like -1 does.             *)

Unserved == <<mainVars, g_running, watchdog, clientVars, backlog, read, served, line, pushed>>

EnterPoll == /\ thread = "head"
             /\ thread' = IF running /\ listening THEN "polling" ELSE "done"
             /\ UNCHANGED Unserved

\* poll reports a connection, or its timeout or the end of the listener.
Poll == /\ thread = "polling"
        /\ thread' = IF backlog # <<>> THEN "accepting" ELSE "head"
        /\ UNCHANGED Unserved

\* poll is interrupted by a signal, or fails: then the thread ends, and no client
\* is ever served again.
PollFails == /\ thread = "polling"
             /\ thread' \in {"head", "done"}
             /\ UNCHANGED Unserved

\* A seeded mistake: the unfinished line of the client before is kept.
AcceptKeepingLine ==
  /\ thread = "accepting"
  /\ IF backlog # <<>>
     THEN /\ served' = <<Head(backlog)>>
          /\ backlog' = Tail(backlog)
          /\ thread' = "check"
     ELSE /\ thread' = "head"
          /\ UNCHANGED <<served, backlog>>
  /\ UNCHANGED <<mainVars, g_running, watchdog, clientVars, read, line, pushed>>

\* The listener may have been closed since poll; `line` is a new string.
Accept == /\ thread = "accepting"
          /\ IF backlog # <<>>
             THEN /\ served' = <<Head(backlog)>>
                  /\ backlog' = Tail(backlog)
                  /\ line' = <<>>
                  /\ thread' = "check"
             ELSE /\ thread' = "head"
                  /\ UNCHANGED <<served, backlog, line>>
          /\ UNCHANGED <<mainVars, g_running, watchdog, clientVars, read, pushed>>

\* The inner loop goes on while running_ is set; then the client is closed.
CloseClient == /\ served' = <<>>
               /\ thread' = "head"
               /\ UNCHANGED <<read, line, pushed>>

\* The load of running_.  From then on the thread counts as receiving: it may not
\* have reached recv yet when stop() clears running_, but nothing keeps it away.
CheckRunning == /\ thread = "check"
                /\ \/ /\ running
                      /\ thread' = "receiving"
                      /\ UNCHANGED <<read, served, line, pushed>>
                   \/ ~running /\ CloseClient
                /\ UNCHANGED <<mainVars, g_running, watchdog, clientVars, backlog>>

Positions(bytes, byte) == {i \in DOMAIN bytes : bytes[i] = byte}

\* The received bytes are appended as a C string: what follows a Nul is lost.
CString(chunk) == IF Positions(chunk, Nul) = {} THEN chunk
                  ELSE SubSeq(chunk, 1, Min(Positions(chunk, Nul)) - 1)

\* Whether `line` has a line to cut off, or the inner loop goes on.
CutOrCheck(bytes) == IF Positions(bytes, Newline) # {} THEN "cutting" ELSE "check"

\* recv returns some of what has arrived.
Receive(c) ==
  /\ thread = "receiving"
  /\ served = <<c>>
  /\ \E n \in (read[c] + 1)..written[c] :
       /\ read' = [read EXCEPT ![c] = n]
       /\ line' = line \o CString(SubSeq(text[c], read[c] + 1, n))
  /\ thread' = CutOrCheck(line')
  /\ UNCHANGED <<mainVars, g_running, watchdog, clientVars, backlog, served, pushed>>

\* A seeded mistake: `if` for `while`, one line per chunk.
CutOneLine(c) ==
  LET pos == Min(Positions(line, Newline))
  IN /\ thread = "cutting"
     /\ served = <<c>>
     /\ line' = SubSeq(line, pos + 1, Len(line))
     /\ pushed' = IF pos = 1 THEN pushed
                  ELSE [pushed EXCEPT ![c] = Append(@, SubSeq(line, 1, pos - 1))]
     /\ thread' = "check"
     /\ UNCHANGED <<mainVars, g_running, watchdog, clientVars, backlog, read, served>>

\* A seeded mistake: blank lines are commands.
CutKeepingBlanks(c) ==
  LET pos == Min(Positions(line, Newline))
  IN /\ thread = "cutting"
     /\ served = <<c>>
     /\ line' = SubSeq(line, pos + 1, Len(line))
     /\ pushed' = [pushed EXCEPT ![c] = Append(@, SubSeq(line, 1, pos - 1))]
     /\ thread' = CutOrCheck(line')
     /\ UNCHANGED <<mainVars, g_running, watchdog, clientVars, backlog, read, served>>

\* The first complete line is cut off and parsed; a blank one is dropped.  Trailing
\* blanks and carriage returns, which are trimmed, are no bytes of this model.
CutLine(c) ==
  LET pos == Min(Positions(line, Newline))
  IN /\ thread = "cutting"
     /\ served = <<c>>
     /\ line' = SubSeq(line, pos + 1, Len(line))
     /\ pushed' = IF pos = 1 THEN pushed
                  ELSE [pushed EXCEPT ![c] = Append(@, SubSeq(line, 1, pos - 1))]
     /\ thread' = CutOrCheck(line')
     /\ UNCHANGED <<mainVars, g_running, watchdog, clientVars, backlog, read, served>>

\* A seeded mistake: a result of 0 is not taken for the end.
ReceiveNothing(c) ==
  /\ thread = "receiving"
  /\ served = <<c>>
  /\ c \in closed /\ read[c] = written[c]
  /\ UNCHANGED vars

\* recv returns 0.
ReceiveEnd(c) ==
  /\ thread = "receiving"
  /\ served = <<c>>
  /\ c \in closed /\ read[c] = written[c]
  /\ CloseClient
  /\ UNCHANGED <<mainVars, g_running, watchdog, clientVars, backlog>>

\* The process ends with its main thread.
Server == /\ Alive
          /\ \/ EnterPoll \/ Poll \/ PollFails \/ Accept \/ CheckRunning
             \/ \E c \in Clients : Receive(c) \/ CutLine(c) \/ ReceiveEnd(c)

----------------------------------------------------------------------------
(* The clients. *)

Connect(c) == /\ listening
              /\ c \notin closed /\ read[c] = 0 /\ written[c] = 0
              /\ served # <<c>> /\ \A i \in DOMAIN backlog : backlog[i] # c
              /\ backlog' = Append(backlog, c)
              /\ UNCHANGED <<mainVars, g_running, watchdog, clientVars, serverVars>>

Connected(c) == served = <<c>> \/ \E i \in DOMAIN backlog : backlog[i] = c

\* The bytes of a write arrive in pieces of any size.
Write(c) == /\ Connected(c)
            /\ c \notin closed
            /\ \E n \in (written[c] + 1)..Len(text[c]) :
                 written' = [written EXCEPT ![c] = n]
            /\ UNCHANGED <<mainVars, g_running, watchdog, text, closed, backlog, serverVars>>

Close(c) == /\ Connected(c)
            /\ c \notin closed
            /\ closed' = closed \union {c}
            /\ UNCHANGED <<mainVars, g_running, watchdog, text, written, backlog, serverVars>>

Client(c) == Alive /\ (Connect(c) \/ Write(c) \/ Close(c))

Next == Main \/ Signal \/ WatchdogEnds \/ Server \/ \E c \in Clients : Client(c)

Spec == Init /\ [][Next]_vars

\* The three threads run; nobody has to send a signal, a byte or an end.
FairSpec == Spec /\ WF_vars(Main) /\ WF_vars(WatchdogEnds) /\ WF_vars(Server)

----------------------------------------------------------------------------

\* The places where a nonempty line of a text ends, and the line that ends there.
LineEnds(t) == {i \in 2..Len(t) : t[i] = Newline /\ t[i - 1] # Newline}

LineAt(t, end) ==
  LET start == CHOOSE s \in 1..end : /\ s = 1 \/ t[s - 1] = Newline
                                     /\ \A i \in s..end - 1 : t[i] # Newline
  IN SubSeq(t, start, end - 1)

LinesOf(t) ==
  [k \in 1..Cardinality(LineEnds(t)) |-> LineAt(t, Place(LineEnds(t), k))]

IsClean(c) == \A i \in DOMAIN text[c] : text[c][i] # Nul

\* A client that writes no Nul has its lines pushed whole, in order and once:
\* however its bytes are chunked, whatever other clients leave behind, and
\* whenever the server is stopped.
LinesArriveWhole ==
  \A c \in Clients : IsClean(c) => IsPrefix(pushed[c], LinesOf(text[c]))

\* Once a client is served, all the lines it has written arrive, unless the
\* process is told to stop or fails to start.
CompleteLinesArrive ==
  \A c \in Clients :
    served = <<c>> /\ IsClean(c) /\ written[c] = Len(text[c])
      ~> pushed[c] = LinesOf(text[c]) \/ ~g_running \/ main = "aborted"

\* Only the client being served can hold up a shutdown: if it closes, the
\* process exits, wherever the three threads were when the signal came.
ShutdownWaitsOnlyForClient ==
  ~g_running ~> \/ main \in {"exited", "aborted"}
                \/ \E c \in Clients : served = <<c>> /\ c \notin closed

\* main.cpp clears g_running in its signal handler and logs "sat_core shutdown"
\* before it returns: a signal should end the process.
SignalEndsProcess == ~g_running ~> main \in {"exited", "aborted"}
=============================================================================
