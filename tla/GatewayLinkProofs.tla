-------------------------- MODULE GatewayLinkProofs ------------------------
(***************************************************************************)
(* Proofs about GatewayLink for every number of socket objects and HTTP    *)
(* requests.                                                               *)
(***************************************************************************)
EXTENDS GatewayLink, FiniteSetTheorems, TLAPS

Exists(s) == sock[s] # "none"

\* One socket object or one armed timeout, never more: the close of a socket
\* arms the timeout, and the timeout makes the next socket.  The socket kept in
\* `socket` exists until its close, and `connected` is not set while the one
\* socket is connecting.
LinkInv ==
  /\ \A s, t \in Sockets : Exists(s) /\ Exists(t) => s = t
  /\ armed > 0 => \A s \in Sockets : ~Exists(s)
  /\ armed <= 1
  /\ socket # Null => Exists(socket)
  /\ connected => \E s \in Sockets : sock[s] \in {"open", "destroyed"}

\* A POST that passes the gate writes to the socket there is.
LEMMA PostKeepsSockets ==
  ASSUME NEW r \in Requests, Post(r)
  PROVE  UNCHANGED <<server, sock, dead, socket, connected, timerVars>>
BY DEF Post, SendCommand, IsTcpConnected, timerVars

\* GatewayLink's variables keep their types.
THEOREM LinkTypeCorrect == Spec => []TypeOK
<1> USE DEF TypeOK, timerVars, httpVars
<1>1. Init => TypeOK
  <2> SUFFICES ASSUME Init PROVE TypeOK
    OBVIOUS
  <2>1. connected \in BOOLEAN
    BY Zenon DEF Init
  <2> QED BY <2>1 DEF Init
<1>2. TypeOK /\ [Next]_vars => TypeOK'
  <2> SUFFICES ASSUME TypeOK, [Next]_vars PROVE TypeOK'
    OBVIOUS
  <2>1. ASSUME NEW s \in Sockets, OnConnect(s) PROVE TypeOK'
    BY <2>1 DEF OnConnect
  <2>2. ASSUME NEW s \in Sockets, OnError(s) PROVE TypeOK'
    BY <2>2 DEF OnError
  <2>3. ASSUME NEW s \in Sockets, OnEnd(s) PROVE TypeOK'
    BY <2>3 DEF OnEnd
  <2>4. ASSUME NEW s \in Sockets, OnClose(s) PROVE TypeOK'
    <3>1. armed' \in Nat /\ dead' \subseteq Sockets
      BY <2>4 DEF OnClose
    <3>2. connected' \in BOOLEAN
      BY <2>4, Zenon DEF OnClose
    <3> QED BY <2>4, <3>1, <3>2 DEF OnClose
  <2>5. CASE ReconnectFires
    BY <2>5 DEF ReconnectFires
  <2>6. ASSUME NEW r \in Requests, Post(r) PROVE TypeOK'
    BY <2>6 DEF Post, SendCommand
  <2>7. ASSUME NEW r \in Requests, WriteDone(r) \/ WriteFails(r) PROVE TypeOK'
    BY <2>7 DEF WriteDone, WriteFails
  <2>8. CASE ServerStarts \/ ServerStops
    BY <2>8 DEF ServerStarts, ServerStops
  <2>9. CASE UNCHANGED vars
    BY <2>9 DEF vars
  <2> QED BY <2>1, <2>2, <2>3, <2>4, <2>5, <2>6, <2>7, <2>8, <2>9
          DEF Next, Gateway, SocketEvent
<1> QED BY <1>1, <1>2, PTL DEF Spec

LEMMA LinkStep == TypeOK /\ LinkInv /\ [Next]_vars => LinkInv'
<1> SUFFICES ASSUME TypeOK, LinkInv, [Next]_vars PROVE LinkInv'
  OBVIOUS
<1> USE NullAssumption DEF TypeOK, LinkInv, Exists, timerVars, httpVars
<1>1. ASSUME NEW s \in Sockets, OnConnect(s) PROVE LinkInv'
  BY <1>1 DEF OnConnect
<1>2. ASSUME NEW s \in Sockets, OnError(s) PROVE LinkInv'
  BY <1>2 DEF OnError
<1>3. ASSUME NEW s \in Sockets, OnEnd(s) PROVE LinkInv'
  BY <1>3 DEF OnEnd
<1>4. ASSUME NEW s \in Sockets, OnClose(s) PROVE LinkInv'
  BY <1>4 DEF OnClose
<1>5. CASE ReconnectFires
  BY <1>5 DEF ReconnectFires
<1>6. ASSUME NEW r \in Requests, Post(r) PROVE LinkInv'
  BY <1>6, PostKeepsSockets
<1>7. ASSUME NEW r \in Requests, WriteDone(r) \/ WriteFails(r) PROVE LinkInv'
  BY <1>7 DEF WriteDone, WriteFails
<1>8. CASE ServerStarts \/ ServerStops
  BY <1>8 DEF ServerStarts, ServerStops
<1>9. CASE UNCHANGED vars
  BY <1>9 DEF vars
<1> QED BY <1>1, <1>2, <1>3, <1>4, <1>5, <1>6, <1>7, <1>8, <1>9
        DEF Next, Gateway, SocketEvent

LEMMA LinkAlways == Spec => [](TypeOK /\ LinkInv)
<1>1. Init => LinkInv
  BY NullAssumption DEF Init, LinkInv, Exists
<1> QED BY <1>1, LinkStep, LinkTypeCorrect, PTL DEF Spec

\* The gateway never holds two connections, whatever the callbacks do to the
\* one set of module variables.
THEOREM OneConnection == Spec => []AtMostOneConnection
<1>1. ASSUME LinkInv PROVE AtMostOneConnection
  <2> DEFINE Live == {s \in Sockets : sock[s] \in {"connecting", "open"}}
  <2>1. CASE Live = {}
    BY <2>1, FS_EmptySet DEF AtMostOneConnection
  <2>2. CASE Live # {}
    <3>1. PICK s \in Sockets : Live = {s}
      BY <1>1, <2>2 DEF LinkInv, Exists
    <3>2. Cardinality(Live) = 1
      BY <3>1, FS_Singleton
    <3> QED BY <3>2 DEF AtMostOneConnection
  <2> QED BY <2>1, <2>2
<1> QED BY <1>1, LinkAlways, PTL

\* A POST passes the gate only when the socket it is written to is open.
THEOREM GateIsHonest == Spec => []ConnectedMeansOpen
<1>1. ASSUME TypeOK, LinkInv PROVE ConnectedMeansOpen
  BY <1>1, NullAssumption DEF TypeOK, LinkInv, Exists, ConnectedMeansOpen, IsTcpConnected
<1> QED BY <1>1, LinkAlways, PTL
=============================================================================
