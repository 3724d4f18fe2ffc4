-------------------------- MODULE WebSocketProofs --------------------------
(***************************************************************************)
(* Proofs about WebSocket, for any sets of connections, handles and        *)
(* threads: its steps are steps of StreamSocket in which an upgraded       *)
(* connection brings a free handle, so the registry is exact here too, recv *)
(* returns what it returns there, and a connection in handshake is not     *)
(* reachable.                                                              *)
(***************************************************************************)
EXTENDS WebSocket, StreamSocketProofs

(***************************************************************************)
(* The handles of connections in handshake are distinct, and no session    *)
(* has them, not even one that is still in onWSDisconnected: its handle is *)
(* free, but nothing is accepted before the callback ends.                 *)
(***************************************************************************)
Unheld(h) == \A d \in Conn : phase[d] \in Holding => sid[d] # h
HandshakeInv ==
  /\ handshake \in [Conn -> Handle \union {NoHandle}]
  /\ \A c \in Conn : handshake[c] # NoHandle => phase[c] = "new" /\ Unheld(handshake[c])
  /\ \A c, d \in Conn : handshake[c] # NoHandle /\ handshake[c] = handshake[d] => c = d

WSInv == IInv /\ HandshakeInv

LEMMA WSInitInv == WSInit => WSInv
<1> SUFFICES ASSUME WSInit PROVE WSInv
  OBVIOUS
<1>1. IInv
  BY InitIInv DEF WSInit
<1>2. HandshakeInv
  BY SocketAssumption DEF WSInit, HandshakeInv, Unheld
<1> QED
  BY <1>1, <1>2 DEF WSInv

(* Every step of WebSocket is one that the lemmas of StreamSocket are about. *)
LEMMA StepsOfStreamSocket == WSInv /\ [WSNext]_wsVars => [AnyStep]_vars
<1> SUFFICES ASSUME WSInv, [WSNext]_wsVars PROVE [AnyStep]_vars
  OBVIOUS
<1> USE DEF AnyStep, Others, Control, Established, App
<1>1. CASE WSBind \/ WSClose \/ WSStopped
  BY <1>1 DEF WSBind, WSClose, WSStopped
<1>2. ASSUME NEW c \in Conn, WSIo(c) PROVE [AnyStep]_vars
  <2>1. CASE (\E h \in Handle : TcpAccept(c, h)) \/ HandshakeEnds(c)
    BY <2>1 DEF TcpAccept, HandshakeEnds
  <2>2. CASE OnWSConnected(c)
    <3>1. handshake[c] \in Handle /\ Unheld(handshake[c])
      BY <2>2 DEF OnWSConnected, WSInv, HandshakeInv
    <3>2. handshake[c] \in FreeHandles
      BY <3>1 DEF Unheld, FreeHandles, HasHandle, Holding
    <3> QED
      BY <2>2, <3>1, <3>2 DEF OnWSConnected
  <2>3. CASE OnWSRegistered(c) \/ OnWSReceived(c) \/ OnWSClosed(c) \/ OnWSDisconnected(c)
    BY <2>3 DEF OnWSRegistered, OnWSReceived, OnWSClosed, OnWSDisconnected
  <2> QED
    BY <1>2, <2>1, <2>2, <2>3 DEF WSIo
<1>3. ASSUME NEW t \in Thread, WSRecv(t) \/ WSSend(t) PROVE [AnyStep]_vars
  BY <1>3 DEF WSRecv, WSSend
<1>4. CASE UNCHANGED wsVars
  BY <1>4 DEF wsVars
<1> QED
  BY <1>1, <1>2, <1>3, <1>4 DEF WSNext

(* A step that accepts nothing takes no handle and starts no session.      *)
LEMMA OthersTakeNoHandle ==
  ASSUME IInv, Others
  PROVE  /\ \A h \in Handle : Unheld(h) => Unheld(h)'
         /\ \A c \in Conn : phase[c] = "new" => phase'[c] = "new"
<1> DEFINE Kept == \A c \in Conn : /\ sid'[c] = sid[c]
                                   /\ phase'[c] \in Holding => phase[c] \in Holding
                                   /\ phase[c] = "new" => phase'[c] = "new"
<1>1. Kept
  <2> USE DEF Holding, Connecting, Open, IInv, TypeOK, ReceivingInv, sessionVars, threadVars
  <2>1. CASE Control
    BY <2>1 DEF Control, Bind, StopServer, StopService
  <2>2. CASE ServerStopped \/ ServiceStopped
    BY <2>2 DEF ServerStopped, ServiceStopped
  <2>3. ASSUME NEW c \in Conn, AddSession(c) PROVE Kept
    BY <2>3 DEF AddSession
  <2>4. ASSUME NEW c \in Conn, Established(c), ~AddSession(c) PROVE Kept
    BY <2>4 DEF Established, PushConnect, Receive, PushMessage, Fail, CloseSocket,
                PushDisconnect, RemoveSession, SessionRemoved
  <2>5. ASSUME NEW t \in Thread, App(t) PROVE Kept
    BY <2>5 DEF App, Recv, Find, SendAsync
  <2> QED
    BY <2>1, <2>2, <2>3, <2>4, <2>5 DEF Others
<1> QED
  BY <1>1 DEF Unheld

LEMMA NextHandshake == WSInv /\ [WSNext]_wsVars => HandshakeInv'
<1> SUFFICES ASSUME WSInv, [WSNext]_wsVars PROVE HandshakeInv'
  OBVIOUS
<1> USE SocketAssumption DEF WSInv, HandshakeInv
<1>0. ASSUME Others, UNCHANGED handshake PROVE HandshakeInv'
  BY <1>0, OthersTakeNoHandle
<1>1. CASE WSBind
  BY <1>1 DEF WSBind
<1>2. CASE WSClose \/ WSStopped
  BY <1>0, <1>2 DEF WSClose, WSStopped, Others, Control
<1>3. ASSUME NEW c \in Conn, NEW h \in Handle, TcpAccept(c, h) PROVE HandshakeInv'
  <2>1. handshake' = [handshake EXCEPT ![c] = h] /\ phase' = phase /\ sid' = sid
    BY <1>3 DEF TcpAccept, vars
  <2>2. phase[c] = "new" /\ h \in FreeHandles /\ \A d \in Conn : handshake[d] # h
    BY <1>3 DEF TcpAccept, InHandshake
  <2>3. Unheld(h)
    BY <1>3, <2>2 DEF TcpAccept, IoIdle, Unheld, FreeHandles, HasHandle, Holding,
                      Disconnecting
  <2> QED
    BY <2>1, <2>2, <2>3 DEF Unheld
<1>4. ASSUME NEW c \in Conn, HandshakeEnds(c) PROVE HandshakeInv'
  <2>1. handshake' = [handshake EXCEPT ![c] = NoHandle] /\ phase' = phase /\ sid' = sid
    BY <1>4 DEF HandshakeEnds, vars
  <2> QED
    BY <2>1 DEF Unheld
<1>5. ASSUME NEW c \in Conn, OnWSConnected(c) PROVE HandshakeInv'
  <2> DEFINE h == handshake[c]
  <2>1. /\ h # NoHandle
        /\ handshake' = [handshake EXCEPT ![c] = NoHandle]
        /\ phase' = [phase EXCEPT ![c] = "accepted"]
        /\ sid' = [sid EXCEPT ![c] = h]
    BY <1>5 DEF OnWSConnected, OnConnected
  <2>2. ASSUME NEW d \in Conn, handshake'[d] # NoHandle
        PROVE  phase'[d] = "new" /\ Unheld(handshake[d])'
    <3>1. d # c /\ handshake'[d] = handshake[d] /\ handshake[d] # h
      BY <2>1, <2>2
    <3> QED
      BY <2>1, <2>2, <3>1 DEF IInv, TypeOK, Unheld
  <2> QED
    BY <2>1, <2>2
<1>6. ASSUME NEW c \in Conn,
             OnWSRegistered(c) \/ OnWSReceived(c) \/ OnWSClosed(c) \/ OnWSDisconnected(c)
      PROVE  HandshakeInv'
  <2>1. Established(c) /\ UNCHANGED handshake
    BY <1>6 DEF OnWSRegistered, OnWSReceived, OnWSClosed, OnWSDisconnected, Established
  <2> QED
    BY <1>0, <2>1 DEF Others
<1>7. ASSUME NEW t \in Thread, WSRecv(t) \/ WSSend(t) PROVE HandshakeInv'
  BY <1>0, <1>7 DEF WSRecv, WSSend, Others, App
<1>8. CASE UNCHANGED wsVars
  BY <1>8 DEF wsVars, vars, Unheld
<1> QED
  BY <1>1, <1>2, <1>3, <1>4, <1>5, <1>6, <1>7, <1>8 DEF WSNext, WSIo

LEMMA WSInductiveInv == WSSpec => []WSInv
<1>1. WSInv /\ [WSNext]_wsVars => WSInv'
  <2>1. WSInv /\ [WSNext]_wsVars => IInv'
    BY StepsOfStreamSocket, StepInv DEF WSInv
  <2> QED
    BY <2>1, NextHandshake DEF WSInv
<1> QED
  BY WSInitInv, <1>1, PTL DEF WSSpec

-----------------------------------------------------------------------------
(* Every variable has its type, the handles in handshake included.         *)
THEOREM WSTypeCorrect == WSSpec => []WSTypeOK
<1>1. WSInv => WSTypeOK
  BY DEF WSInv, IInv, HandshakeInv, WSTypeOK
<1> QED
  BY WSInductiveInv, <1>1, PTL

(***************************************************************************)
(* The registry of the WebSocket classes is exact as well: the upgrade     *)
(* always brings a handle no session has, and what send finds is governed  *)
(* by the same invariant.                                                  *)
(***************************************************************************)
THEOREM WSRegistryIsExact ==
  WSSpec => [](RegistryExact /\ AnswersOwner /\ NoSendAfterDisconnected)
<1>1. WSInv => RegistryExact /\ AnswersOwner /\ NoSendAfterDisconnected
  BY DEF WSInv, IInv, AccessorInv, NoSendAfterDisconnected, Open
<1> QED
  BY WSInductiveInv, <1>1, PTL

(***************************************************************************)
(* A connection that is not upgraded is not reachable by send, whatever    *)
(* session had its handle before.                                          *)
(***************************************************************************)
THEOREM HandshakeNotReachable == WSSpec => []HandshakeUnreachable
<1>1. WSInv => HandshakeUnreachable
  <2> SUFFICES ASSUME WSInv, NEW d \in Conn, handshake[d] # NoHandle,
                      sessions[handshake[d]] # NoConn
               PROVE  FALSE
    BY DEF HandshakeUnreachable, InHandshake
  <2> DEFINE h == handshake[d]
             c == sessions[h]
  <2>1. h \in Handle /\ Unheld(h)
    BY DEF WSInv, HandshakeInv
  <2>2. c \in Conn /\ Registered(c) /\ sid[c] = h
    BY <2>1 DEF WSInv, IInv, TypeOK, RegistryExact
  <2> QED
    BY <2>1, <2>2 DEF Unheld, Registered, Holding, Connecting, Open
<1> QED
  BY WSInductiveInv, <1>1, PTL

(***************************************************************************)
(* WebSocket implements SessionFeed: the messages of a handle are those of *)
(* one session at a time, although connections that never upgrade take     *)
(* handles in between.                                                     *)
(***************************************************************************)
THEOREM WSImplementsFeed == WSSpec => ImplementsSessionFeed
<1>1. WSInit => FeedInv /\ Feed!Init
  BY WSInitInv, InitRefines DEF WSInit, Init, WSInv, FeedInv, FreshInv
<1>2. WSInv /\ FeedInv /\ [WSNext]_wsVars => FeedInv'
  BY StepsOfStreamSocket, NextFeedInv
<1>3. WSInv /\ FeedInv /\ [WSNext]_wsVars => [Feed!Next]_Feed!feedVars
  BY StepsOfStreamSocket, StepRefines
<1> QED
  BY <1>1, <1>2, <1>3, WSInductiveInv, PTL DEF WSSpec, ImplementsSessionFeed, Feed!Spec

-----------------------------------------------------------------------------
(* The service ends between two callbacks, and none begins while it is     *)
(* down.                                                                   *)
DownInv == server = "down" => IoIdle

LEMMA QuietWhileDown ==
  ASSUME IInv, DownInv, server = "down", [AnyStep]_vars
  PROVE  /\ phase' = phase /\ parsed' = parsed /\ sessions' = sessions
         /\ Len(recvBuffer') <= Len(recvBuffer)
<1> DEFINE Quiet == /\ phase' = phase /\ parsed' = parsed /\ sessions' = sessions
                    /\ Len(recvBuffer') <= Len(recvBuffer)
<1>1. IoIdle /\ ~IoRuns /\ recvBuffer \in Seq(Messages)
  BY DEF DownInv, IoRuns, IInv, TypeOK
<1>2. Len(recvBuffer) \in Nat
  BY <1>1
<1>3. CASE UNCHANGED vars
  BY <1>2, <1>3 DEF vars
<1>4. CASE Bind
  BY <1>2, <1>4 DEF Bind, sessionVars
<1>5. ~StopServer /\ ~StopService /\ ~ServerStopped /\ ~ServiceStopped
  BY DEF StopServer, StopService, ServerStopped, ServiceStopped
<1>6. \A c \in Conn, h \in Handle : ~OnConnected(c, h)
  BY <1>1 DEF OnConnected
<1>7. ASSUME NEW c \in Conn, Established(c) PROVE FALSE
  <2>1. ~AddSession(c) /\ ~PushConnect(c)
    BY <1>1 DEF AddSession, PushConnect, IoIdle, Connecting
  <2>2. ~PushDisconnect(c) /\ ~RemoveSession(c) /\ ~SessionRemoved(c)
    BY <1>1 DEF PushDisconnect, RemoveSession, SessionRemoved, IoIdle, Disconnecting
  <2>3. ~PushMessage(c)
    BY <1>1 DEF PushMessage, IoIdle
  <2>4. ~Fail(c) /\ ~CloseSocket(c) /\ \A n \in 1..MaxMessages : ~Receive(c, n)
    BY <1>1 DEF Fail, CloseSocket, Receive
  <2> QED
    BY <1>7, <2>1, <2>2, <2>3, <2>4 DEF Established
<1>8. ASSUME NEW t \in Thread, Recv(t) PROVE Quiet
  <2>1. recvBuffer # <<>> /\ recvBuffer' = Tail(recvBuffer)
    BY <1>8 DEF Recv
  <2>2. Len(Tail(recvBuffer)) = Len(recvBuffer) - 1
    BY <1>1, <2>1
  <2>3. Len(recvBuffer') <= Len(recvBuffer)
    BY <1>2, <2>1, <2>2
  <2> QED
    BY <1>8, <2>3 DEF Recv, sessionVars
<1>9. ASSUME NEW t \in Thread, Find(t) \/ SendAsync(t) PROVE Quiet
  BY <1>2, <1>9 DEF Find, SendAsync, sessionVars
<1> QED
  BY <1>3, <1>4, <1>5, <1>6, <1>7, <1>8, <1>9 DEF AnyStep, Others, Control, App

LEMMA NextDown == IInv /\ DownInv /\ [AnyStep]_vars => DownInv'
<1> SUFFICES ASSUME IInv, DownInv, [AnyStep]_vars, server' = "down" PROVE IoIdle'
  BY DEF DownInv
<1>1. CASE server = "down"
  <2>1. phase' = phase /\ parsed' = parsed
    BY <1>1, QuietWhileDown
  <2> QED
    BY <1>1, <2>1 DEF DownInv, IoIdle
<1>2. CASE server # "down"
  <2>1. CASE ServiceStopped
    BY <2>1 DEF ServiceStopped, IoIdle, Open, Connecting, Disconnecting, IInv, TypeOK
  <2>2. ~Bind /\ ~StopServer /\ ~StopService /\ ~ServerStopped
    BY <1>2 DEF Bind, StopServer, StopService, ServerStopped
  <2>3. \A c \in Conn, h \in Handle : ~OnConnected(c, h)
    BY <1>2 DEF OnConnected, serverVars
  <2>4. ASSUME NEW c \in Conn, Established(c) PROVE FALSE
    BY <1>2, <2>4 DEF Established, AddSession, PushConnect, Receive, PushMessage, Fail,
                      CloseSocket, PushDisconnect, RemoveSession, SessionRemoved, serverVars
  <2>5. \A t \in Thread : ~App(t)
    BY <1>2 DEF App, Recv, Find, SendAsync, serverVars
  <2>6. ~UNCHANGED vars
    BY <1>2 DEF vars
  <2> QED
    BY <2>1, <2>2, <2>3, <2>4, <2>5, <2>6 DEF AnyStep, Others, Control
<1> QED
  BY <1>1, <1>2

(***************************************************************************)
(* Once close() has returned and until the next bind, no session begins,   *)
(* ends or queues a message, whatever was under way when it was called:    *)
(* close() joins an io thread that is in no callback (websocket.cpp:137-   *)
(* 145).                                                                   *)
(***************************************************************************)
THEOREM QuietAfterClose == WSSpec => CloseIsQuiet
<1>1. WSInit => DownInv
  BY DEF WSInit, Init, DownInv, IoIdle, Connecting, Disconnecting
<1>2. WSInv /\ DownInv /\ [WSNext]_wsVars => DownInv'
  BY StepsOfStreamSocket, NextDown DEF WSInv
<1>3. WSInv /\ DownInv /\ [WSNext]_wsVars
        => [server = "down"
              => UNCHANGED <<phase, sessions>> /\ Len(recvBuffer') <= Len(recvBuffer)]_wsVars
  BY StepsOfStreamSocket, QuietWhileDown DEF WSInv
<1> QED
  BY <1>1, <1>2, <1>3, WSInductiveInv, PTL DEF WSSpec, CloseIsQuiet

=============================================================================
