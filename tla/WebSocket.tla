------------------------------ MODULE WebSocket ------------------------------
(***************************************************************************)
(* Play::WSStreamSocket, WSStreamServer and WSSession (websocket.{hpp,cpp}).*)
(* The registry, the receive queue, send, recv, bind and close are those of *)
(* StreamSocket, statement for statement.  What differs is when a session   *)
(* begins and ends: CppServer accepts the TCP connection and reads its HTTP *)
(* upgrade, and the classes override the callbacks of the WebSocket only    *)
(* (onWSConnected, onWSDisconnected), not those of the connection below.    *)
(* Between the two the socket has its handle and the session has no _sid.   *)
(***************************************************************************)
EXTENDS StreamSocket

VARIABLE
  handshake  (* the handle of a connection that is not upgraded yet        *)

wsVars == <<vars, handshake>>

InHandshake == {handshake[c] : c \in Conn} \ {NoHandle}

WSInit == Init /\ handshake = [c \in Conn |-> NoHandle]

-----------------------------------------------------------------------------
(* bind: a new service and server.  Whether the connections that were in   *)
(* handshake are freed with the old ones or leak, no callback of theirs is *)
(* run any more.                                                           *)
WSBind == Bind /\ handshake' = [c \in Conn |-> NoHandle]

WSClose == (StopServer \/ StopService) /\ UNCHANGED handshake

(* The io thread stops the server and ends.  A connection in handshake gets *)
(* its posted Disconnect too, but an upgrade already received runs before.  *)
WSStopped == (ServerStopped \/ ServiceStopped) /\ UNCHANGED handshake

-----------------------------------------------------------------------------
(* Mutant: the TCP callback onConnected registers the session.             *)
TcpAcceptRegisters(c, h) ==
  /\ IoRuns /\ IoIdle /\ accepting
  /\ phase[c] = "new" /\ handshake[c] = NoHandle
  /\ h \in FreeHandles \ InHandshake
  /\ handshake' = [handshake EXCEPT ![c] = h]
  /\ sessions' = [sessions EXCEPT ![h] = c]
  /\ UNCHANGED <<sessionVars, recvBuffer, threadVars, serverVars>>

(* The server accepts a connection; CreateSession makes its session.       *)
TcpAccept(c, h) ==
  /\ IoRuns /\ IoIdle /\ accepting
  /\ phase[c] = "new" /\ handshake[c] = NoHandle
  /\ h \in FreeHandles \ InHandshake
  /\ handshake' = [handshake EXCEPT ![c] = h]
  /\ UNCHANGED vars

(* Mutant: onDisconnected is overridden instead of onWSDisconnected.       *)
HandshakeEndsAnnounced(c) ==
  /\ IoRuns /\ IoIdle
  /\ handshake[c] # NoHandle
  /\ handshake' = [handshake EXCEPT ![c] = NoHandle]
  /\ Push([sid |-> handshake[c], type |-> "DISCONNECT", num |-> 0, from |-> c])
  /\ UNCHANGED <<sessionVars, sessions, threadVars, serverVars>>

(* The connection is closed before its upgrade: no callback of WSSession   *)
(* runs but onError, whose Disconnect is the close.                        *)
HandshakeEnds(c) ==
  /\ IoRuns /\ IoIdle
  /\ handshake[c] # NoHandle
  /\ handshake' = [handshake EXCEPT ![c] = NoHandle]
  /\ UNCHANGED vars

(* onWSConnected: also when the server has stopped accepting since.        *)
OnWSConnected(c) ==
  /\ handshake[c] # NoHandle
  /\ OnConnected(c, handshake[c])
  /\ handshake' = [handshake EXCEPT ![c] = NoHandle]
OnWSRegistered(c) == (AddSession(c) \/ PushConnect(c)) /\ UNCHANGED handshake

OnWSReceived(c) ==
  /\ (\E n \in 1..MaxMessages : Receive(c, n)) \/ PushMessage(c) \/ Fail(c)
  /\ UNCHANGED handshake

(* The socket is closed, and onWSDisconnected runs.                        *)
OnWSClosed(c) == CloseSocket(c) /\ UNCHANGED handshake

(* Mutant: onWSDisconnected forgets removeSession.                         *)
OnWSDisconnectedOnly(c) ==
  /\ PushDisconnect(c) \/ RemoveSessionForgotten(c) \/ SessionRemoved(c)
  /\ UNCHANGED handshake

OnWSDisconnected(c) ==
  /\ PushDisconnect(c) \/ RemoveSession(c) \/ SessionRemoved(c)
  /\ UNCHANGED handshake

WSRecv(t) == Recv(t) /\ UNCHANGED handshake

WSSend(t) == (Find(t) \/ SendAsync(t)) /\ UNCHANGED handshake

-----------------------------------------------------------------------------
WSIo(c) ==
  \/ \E h \in Handle : TcpAccept(c, h)
  \/ HandshakeEnds(c) \/ OnWSConnected(c) \/ OnWSRegistered(c)
  \/ OnWSReceived(c) \/ OnWSClosed(c) \/ OnWSDisconnected(c)

WSNext ==
  \/ WSBind \/ WSClose \/ WSStopped
  \/ \E c \in Conn : WSIo(c)
  \/ \E t \in Thread : WSRecv(t) \/ WSSend(t)

WSSpec == WSInit /\ [][WSNext]_wsVars

-----------------------------------------------------------------------------
WSTypeOK == TypeOK /\ handshake \in [Conn -> Handle \union {NoHandle}]

(***************************************************************************)
(* A handle whose upgrade is not done leads to no session, though an ended *)
(* session may have had it before: an answer that comes too late does not  *)
(* reach a connection that is still speaking HTTP.                         *)
(***************************************************************************)
HandshakeUnreachable == \A h \in InHandshake : sessions[h] = NoConn

(***************************************************************************)
(* Once close() has returned, no session begins, ends or queues a message  *)
(* until the next bind: upgrades and ends that were under way when it was  *)
(* called have been carried out to the end of their callback, or never are. *)
(***************************************************************************)
CloseIsQuiet ==
  [][server = "down"
       => UNCHANGED <<phase, sessions>> /\ Len(recvBuffer') <= Len(recvBuffer)]_wsVars

=============================================================================
