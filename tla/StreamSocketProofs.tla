------------------------- MODULE StreamSocketProofs -------------------------
(***************************************************************************)
(* Proofs about StreamSocket, for any sets of connections, handles and     *)
(* threads: its variables have their types, the registry leads to exactly  *)
(* the registered sessions, no send outlives onDisconnected, an answer     *)
(* misses its session only when that one has ended, and the whole          *)
(* implements SessionFeed.                                                 *)
(***************************************************************************)
EXTENDS StreamSocket, SequenceTheorems, TLAPS

(***************************************************************************)
(* The registry is exact because no two sessions that occupy a handle, or  *)
(* are registered under it, have the same one.  A handle is free again     *)
(* when its socket is closed, before the session is unregistered; that is  *)
(* safe because nothing is accepted in the middle of onDisconnected.       *)
(***************************************************************************)
Holding ==
  Connecting \union Open \union {"released", "ended", "unlinked", "orphaned"}

HandlesUnique ==
  /\ \A c \in Conn : phase[c] \in Holding => sid[c] \in Handle
  /\ \A c, d \in Conn :
       phase[c] \in Holding /\ phase[d] \in Holding /\ sid[c] = sid[d] => c = d

(* A receive in progress is of an open session, and within the bound.      *)
ReceivingInv ==
  \A c \in Conn : /\ parsed[c] > 0 => phase[c] \in Open
                  /\ pushed[c] + parsed[c] <= MaxMessages

(* A send holds its accessor on a session that was registered, and has the *)
(* message it sends.                                                       *)
AccessorInv ==
  \A t \in Thread :
    accessor[t] # NoConn =>
      /\ message[t] # NoMessage
      /\ phase[accessor[t]] \in
           {"registered", "released", "ended", "unlinked", "orphaned"} \union Open

(* A message is of a session that was registered under its session id.     *)
OfBegun(m, ph, ids) ==
  /\ ph[m.from] \in {"registered", "released", "ended", "unlinked", "closed",
                     "orphaned"} \union Open
  /\ ids[m.from] = m.sid
MessageInv ==
  /\ \A i \in 1..Len(recvBuffer) : OfBegun(recvBuffer[i], phase, sid)
  /\ \A t \in Thread : message[t] # NoMessage => OfBegun(message[t], phase, sid)

(***************************************************************************)
(* The lemmas are about the steps of StreamSocket whatever decides when a  *)
(* connection is given its handle: the WebSocket classes use them too.     *)
(***************************************************************************)
AnyStep ==
  Others \/ \E c \in Conn, h \in Handle : h \in FreeHandles /\ OnConnected(c, h)

IInv ==
  /\ TypeOK /\ RegistryExact /\ HandlesUnique /\ ReceivingInv /\ AccessorInv
  /\ MessageInv /\ AnswersOwner

LEMMA InitIInv == Init => IInv
<1> SUFFICES ASSUME Init PROVE IInv
  OBVIOUS
<1> USE SocketAssumption DEF Init
<1>1. TypeOK
  <2>1. <<>> \in Seq(Messages)
    OBVIOUS
  <2>2. 0 \in 0..MaxMessages /\ 0 \in 0..MaxBinds
    OBVIOUS
  <2> QED
    BY <2>1, <2>2 DEF TypeOK, Phases
<1>2. RegistryExact
  BY DEF RegistryExact, Registered, Open
<1>3. HandlesUnique
  BY DEF HandlesUnique, Holding, Connecting, Open
<1>4. ReceivingInv
  <2> SUFFICES ASSUME NEW c \in Conn
               PROVE  (parsed[c] > 0 => phase[c] \in Open)
                        /\ pushed[c] + parsed[c] <= MaxMessages
    BY DEF ReceivingInv
  <2>1. parsed[c] = 0 /\ pushed[c] = 0
    OBVIOUS
  <2> QED
    BY <2>1
<1>5. AccessorInv /\ AnswersOwner
  BY DEF AccessorInv, AnswersOwner
<1>6. MessageInv
  BY DEF MessageInv
<1> QED
  BY <1>1, <1>2, <1>3, <1>4, <1>5, <1>6 DEF IInv

LEMMA NextTypeOK == IInv /\ [AnyStep]_vars => TypeOK'
<1> SUFFICES ASSUME IInv, [AnyStep]_vars PROVE TypeOK'
  OBVIOUS
<1> USE SocketAssumption DEF IInv, TypeOK, Phases, ReceivingInv, HandlesUnique, Holding, Connecting,
            Open, Disconnecting, sessionVars,
            threadVars, serverVars
<1>1. CASE Bind
  BY <1>1 DEF Bind
<1>2. CASE StopServer
  BY <1>2 DEF StopServer
<1>3. CASE StopService
  BY <1>3 DEF StopService
<1>4. CASE ServerStopped
  BY <1>4 DEF ServerStopped
<1>5. CASE ServiceStopped
  BY <1>5 DEF ServiceStopped
<1>6. ASSUME NEW c \in Conn, NEW h \in Handle, h \in FreeHandles, OnConnected(c, h)
      PROVE  TypeOK'
  BY <1>6 DEF OnConnected
<1>7. ASSUME NEW c \in Conn, AddSession(c)
      PROVE  TypeOK'
  <2>1. CASE SessionHasSocket
    <3>1. /\ phase' = [phase EXCEPT ![c] = "registered"]
          /\ sessions' = [sessions EXCEPT ![sid[c]] = IF @ = NoConn THEN c ELSE @]
          /\ UNCHANGED <<sid, parsed, pushed, recvBuffer, message, accessor, server,
                         accepting, binds>>
      BY <1>7, <2>1 DEF AddSession
    <3>2. sessions' \in [Handle -> Conn \union {NoConn}]
      BY <3>1
    <3>3. phase' \in [Conn -> Phases]
      BY <3>1
    <3> QED
      BY <3>1, <3>2, <3>3
  <2>2. CASE ~SessionHasSocket
    BY <1>7, <2>2 DEF AddSession
  <2> QED
    BY <2>1, <2>2
<1>8. ASSUME NEW c \in Conn, PushConnect(c)
      PROVE  TypeOK'
  <2>1. Msg(c, "CONNECT", 0) \in Messages
    BY <1>8 DEF PushConnect, Msg, Messages
  <2>2. recvBuffer' \in Seq(Messages)
    BY <1>8, <2>1 DEF PushConnect, Push
  <2> QED
    BY <1>8, <2>2 DEF PushConnect
<1>9. ASSUME NEW c \in Conn, NEW n \in 1..MaxMessages, Receive(c, n)
      PROVE  TypeOK'
  BY <1>9 DEF Receive
<1>10. ASSUME NEW c \in Conn, PushMessage(c)
      PROVE  TypeOK'
  <2>1. /\ pushed[c] + 1 \in 0..MaxMessages
        /\ parsed[c] - 1 \in 0..MaxMessages
    BY <1>10 DEF PushMessage
  <2>2. Msg(c, "NORMAL", pushed[c] + 1) \in Messages
    BY <1>10, <2>1 DEF PushMessage, Msg, Messages
  <2>3. recvBuffer' \in Seq(Messages)
    BY <1>10, <2>2 DEF PushMessage, Push
  <2> QED
    BY <1>10, <2>1, <2>3 DEF PushMessage
<1>11. ASSUME NEW c \in Conn, Fail(c)
      PROVE  TypeOK'
  BY <1>11 DEF Fail
<1>12. ASSUME NEW c \in Conn, CloseSocket(c)
      PROVE  TypeOK'
  BY <1>12 DEF CloseSocket
<1>13. ASSUME NEW c \in Conn, PushDisconnect(c)
      PROVE  TypeOK'
  <2>1. Msg(c, "DISCONNECT", 0) \in Messages
    BY <1>13 DEF PushDisconnect, Msg, Messages
  <2>2. recvBuffer' \in Seq(Messages)
    BY <1>13, <2>1 DEF PushDisconnect, Push
  <2> QED
    BY <1>13, <2>2 DEF PushDisconnect
<1>14. ASSUME NEW c \in Conn, RemoveSession(c)
      PROVE  TypeOK'
  BY <1>14 DEF RemoveSession
<1>15. ASSUME NEW c \in Conn, SessionRemoved(c)
      PROVE  TypeOK'
  BY <1>15 DEF SessionRemoved
<1>16. ASSUME NEW t \in Thread, Recv(t)
      PROVE  TypeOK'
  <2>1. Head(recvBuffer) \in Messages /\ Tail(recvBuffer) \in Seq(Messages)
    BY <1>16 DEF Recv
  <2> QED
    BY <1>16, <2>1 DEF Recv
<1>17. ASSUME NEW t \in Thread, Find(t)
      PROVE  TypeOK'
  <2>1. message[t].sid \in Handle
    BY <1>17 DEF Find, Messages
  <2> QED
    BY <1>17, <2>1 DEF Find
<1>18. ASSUME NEW t \in Thread, SendAsync(t)
      PROVE  TypeOK'
  BY <1>18 DEF SendAsync
<1>19. CASE UNCHANGED vars
  BY <1>19 DEF vars
<1> QED
  BY <1>1, <1>2, <1>3, <1>4, <1>5, <1>6, <1>7, <1>8, <1>9,
     <1>10, <1>11, <1>12, <1>13, <1>14, <1>15, <1>16, <1>17, <1>18, <1>19
     DEF AnyStep, Others, Control, Established, App

(* A new connection is accepted only when no session is disconnecting.      *)
LEMMA NextHandlesUnique == IInv /\ [AnyStep]_vars => HandlesUnique'
<1> SUFFICES ASSUME IInv, [AnyStep]_vars PROVE HandlesUnique'
  OBVIOUS
<1> USE SocketAssumption DEF IInv, HandlesUnique, Holding, Connecting, Disconnecting, Open, TypeOK,
            IoIdle, FreeHandles, HasHandle, sessionVars,
            threadVars, serverVars
<1>1. CASE Bind
  BY <1>1 DEF Bind
<1>2. CASE StopServer
  BY <1>2 DEF StopServer
<1>3. CASE StopService
  BY <1>3 DEF StopService
<1>4. CASE ServerStopped
  BY <1>4 DEF ServerStopped
<1>5. CASE ServiceStopped
  BY <1>5 DEF ServiceStopped
<1>6. ASSUME NEW c \in Conn, NEW h \in Handle, h \in FreeHandles, OnConnected(c, h)
      PROVE  HandlesUnique'
  BY <1>6 DEF OnConnected
<1>7. ASSUME NEW c \in Conn, AddSession(c)
      PROVE  HandlesUnique'
  <2>1. CASE SessionHasSocket
    BY <1>7, <2>1 DEF AddSession
  <2>2. CASE ~SessionHasSocket
    BY <1>7, <2>2 DEF AddSession
  <2> QED
    BY <2>1, <2>2
<1>8. ASSUME NEW c \in Conn, PushConnect(c)
      PROVE  HandlesUnique'
  BY <1>8 DEF PushConnect
<1>9. ASSUME NEW c \in Conn, NEW n \in 1..MaxMessages, Receive(c, n)
      PROVE  HandlesUnique'
  BY <1>9 DEF Receive
<1>10. ASSUME NEW c \in Conn, PushMessage(c)
      PROVE  HandlesUnique'
  BY <1>10 DEF PushMessage
<1>11. ASSUME NEW c \in Conn, Fail(c)
      PROVE  HandlesUnique'
  BY <1>11 DEF Fail
<1>12. ASSUME NEW c \in Conn, CloseSocket(c)
      PROVE  HandlesUnique'
  BY <1>12 DEF CloseSocket
<1>13. ASSUME NEW c \in Conn, PushDisconnect(c)
      PROVE  HandlesUnique'
  BY <1>13 DEF PushDisconnect
<1>14. ASSUME NEW c \in Conn, RemoveSession(c)
      PROVE  HandlesUnique'
  BY <1>14 DEF RemoveSession
<1>15. ASSUME NEW c \in Conn, SessionRemoved(c)
      PROVE  HandlesUnique'
  BY <1>15 DEF SessionRemoved
<1>16. ASSUME NEW t \in Thread, Recv(t)
      PROVE  HandlesUnique'
  BY <1>16 DEF Recv
<1>17. ASSUME NEW t \in Thread, Find(t)
      PROVE  HandlesUnique'
  BY <1>17 DEF Find
<1>18. ASSUME NEW t \in Thread, SendAsync(t)
      PROVE  HandlesUnique'
  BY <1>18 DEF SendAsync
<1>19. CASE UNCHANGED vars
  BY <1>19 DEF vars
<1> QED
  BY <1>1, <1>2, <1>3, <1>4, <1>5, <1>6, <1>7, <1>8, <1>9,
     <1>10, <1>11, <1>12, <1>13, <1>14, <1>15, <1>16, <1>17, <1>18, <1>19
     DEF AnyStep, Others, Control, Established, App

(* addSession finds the key free, and removeSession erases its own entry.   *)
LEMMA NextRegistry == IInv /\ [AnyStep]_vars => RegistryExact'
<1> SUFFICES ASSUME IInv, [AnyStep]_vars PROVE RegistryExact'
  OBVIOUS
<1> USE SocketAssumption DEF IInv, RegistryExact, Registered, HandlesUnique, Holding, Connecting,
            Disconnecting, Open, TypeOK, IoIdle, sessionVars,
            threadVars, serverVars
<1>1. CASE Bind
  BY <1>1 DEF Bind
<1>2. CASE StopServer
  BY <1>2 DEF StopServer
<1>3. CASE StopService
  BY <1>3 DEF StopService
<1>4. CASE ServerStopped
  BY <1>4 DEF ServerStopped
<1>5. CASE ServiceStopped
  BY <1>5 DEF ServiceStopped
<1>6. ASSUME NEW c \in Conn, NEW h \in Handle, h \in FreeHandles, OnConnected(c, h)
      PROVE  RegistryExact'
  BY <1>6 DEF OnConnected
<1>7. ASSUME NEW c \in Conn, AddSession(c)
      PROVE  RegistryExact'
  <2>1. CASE SessionHasSocket
    BY <1>7, <2>1 DEF AddSession
  <2>2. CASE ~SessionHasSocket
    BY <1>7, <2>2 DEF AddSession
  <2> QED
    BY <2>1, <2>2
<1>8. ASSUME NEW c \in Conn, PushConnect(c)
      PROVE  RegistryExact'
  BY <1>8 DEF PushConnect
<1>9. ASSUME NEW c \in Conn, NEW n \in 1..MaxMessages, Receive(c, n)
      PROVE  RegistryExact'
  BY <1>9 DEF Receive
<1>10. ASSUME NEW c \in Conn, PushMessage(c)
      PROVE  RegistryExact'
  BY <1>10 DEF PushMessage
<1>11. ASSUME NEW c \in Conn, Fail(c)
      PROVE  RegistryExact'
  BY <1>11 DEF Fail
<1>12. ASSUME NEW c \in Conn, CloseSocket(c)
      PROVE  RegistryExact'
  BY <1>12 DEF CloseSocket
<1>13. ASSUME NEW c \in Conn, PushDisconnect(c)
      PROVE  RegistryExact'
  BY <1>13 DEF PushDisconnect
<1>14. ASSUME NEW c \in Conn, RemoveSession(c)
      PROVE  RegistryExact'
  BY <1>14 DEF RemoveSession
<1>15. ASSUME NEW c \in Conn, SessionRemoved(c)
      PROVE  RegistryExact'
  BY <1>15 DEF SessionRemoved
<1>16. ASSUME NEW t \in Thread, Recv(t)
      PROVE  RegistryExact'
  BY <1>16 DEF Recv
<1>17. ASSUME NEW t \in Thread, Find(t)
      PROVE  RegistryExact'
  BY <1>17 DEF Find
<1>18. ASSUME NEW t \in Thread, SendAsync(t)
      PROVE  RegistryExact'
  BY <1>18 DEF SendAsync
<1>19. CASE UNCHANGED vars
  BY <1>19 DEF vars
<1> QED
  BY <1>1, <1>2, <1>3, <1>4, <1>5, <1>6, <1>7, <1>8, <1>9,
     <1>10, <1>11, <1>12, <1>13, <1>14, <1>15, <1>16, <1>17, <1>18, <1>19
     DEF AnyStep, Others, Control, Established, App

LEMMA NextReceiving == IInv /\ [AnyStep]_vars => ReceivingInv'
<1> SUFFICES ASSUME IInv, [AnyStep]_vars PROVE ReceivingInv'
  OBVIOUS
<1> USE SocketAssumption DEF IInv, ReceivingInv, Connecting, Disconnecting, Open, TypeOK, IoIdle, sessionVars,
            threadVars, serverVars
<1>1. CASE Bind
  BY <1>1 DEF Bind
<1>2. CASE StopServer
  BY <1>2 DEF StopServer
<1>3. CASE StopService
  BY <1>3 DEF StopService
<1>4. CASE ServerStopped
  BY <1>4 DEF ServerStopped
<1>5. CASE ServiceStopped
  BY <1>5 DEF ServiceStopped
<1>6. ASSUME NEW c \in Conn, NEW h \in Handle, h \in FreeHandles, OnConnected(c, h)
      PROVE  ReceivingInv'
  BY <1>6 DEF OnConnected
<1>7. ASSUME NEW c \in Conn, AddSession(c)
      PROVE  ReceivingInv'
  BY <1>7 DEF AddSession
<1>8. ASSUME NEW c \in Conn, PushConnect(c)
      PROVE  ReceivingInv'
  BY <1>8 DEF PushConnect
<1>9. ASSUME NEW c \in Conn, NEW n \in 1..MaxMessages, Receive(c, n)
      PROVE  ReceivingInv'
  BY <1>9 DEF Receive
<1>10. ASSUME NEW c \in Conn, PushMessage(c)
      PROVE  ReceivingInv'
  BY <1>10 DEF PushMessage
<1>11. ASSUME NEW c \in Conn, Fail(c)
      PROVE  ReceivingInv'
  BY <1>11 DEF Fail
<1>12. ASSUME NEW c \in Conn, CloseSocket(c)
      PROVE  ReceivingInv'
  BY <1>12 DEF CloseSocket
<1>13. ASSUME NEW c \in Conn, PushDisconnect(c)
      PROVE  ReceivingInv'
  BY <1>13 DEF PushDisconnect
<1>14. ASSUME NEW c \in Conn, RemoveSession(c)
      PROVE  ReceivingInv'
  BY <1>14 DEF RemoveSession
<1>15. ASSUME NEW c \in Conn, SessionRemoved(c)
      PROVE  ReceivingInv'
  BY <1>15 DEF SessionRemoved
<1>16. ASSUME NEW t \in Thread, Recv(t)
      PROVE  ReceivingInv'
  BY <1>16 DEF Recv
<1>17. ASSUME NEW t \in Thread, Find(t)
      PROVE  ReceivingInv'
  BY <1>17 DEF Find
<1>18. ASSUME NEW t \in Thread, SendAsync(t)
      PROVE  ReceivingInv'
  BY <1>18 DEF SendAsync
<1>19. CASE UNCHANGED vars
  BY <1>19 DEF vars
<1> QED
  BY <1>1, <1>2, <1>3, <1>4, <1>5, <1>6, <1>7, <1>8, <1>9,
     <1>10, <1>11, <1>12, <1>13, <1>14, <1>15, <1>16, <1>17, <1>18, <1>19
     DEF AnyStep, Others, Control, Established, App

(* removeSession waits for the accessors: the guard of SessionRemoved.      *)
LEMMA NextAccessor == IInv /\ [AnyStep]_vars => AccessorInv'
<1> SUFFICES ASSUME IInv, [AnyStep]_vars PROVE AccessorInv'
  OBVIOUS
<1> USE SocketAssumption DEF IInv, AccessorInv, RegistryExact, Registered, Connecting, Disconnecting,
            Open, TypeOK, IoIdle, sessionVars,
            threadVars, serverVars
<1>1. CASE Bind
  BY <1>1 DEF Bind
<1>2. CASE StopServer
  BY <1>2 DEF StopServer
<1>3. CASE StopService
  BY <1>3 DEF StopService
<1>4. CASE ServerStopped
  BY <1>4 DEF ServerStopped
<1>5. CASE ServiceStopped
  BY <1>5 DEF ServiceStopped
<1>6. ASSUME NEW c \in Conn, NEW h \in Handle, h \in FreeHandles, OnConnected(c, h)
      PROVE  AccessorInv'
  BY <1>6 DEF OnConnected
<1>7. ASSUME NEW c \in Conn, AddSession(c)
      PROVE  AccessorInv'
  <2>1. CASE SessionHasSocket
    BY <1>7, <2>1 DEF AddSession
  <2>2. CASE ~SessionHasSocket
    <3>1. \A t \in Thread : accessor[t] # NoConn => accessor[t] # c
      BY <1>7 DEF AddSession
    <3>2. phase' = [phase EXCEPT ![c] = "crashed"] /\ UNCHANGED <<message, accessor>>
      BY <1>7, <2>2 DEF AddSession
    <3> QED
      BY <3>1, <3>2
  <2> QED
    BY <2>1, <2>2
<1>8. ASSUME NEW c \in Conn, PushConnect(c)
      PROVE  AccessorInv'
  BY <1>8 DEF PushConnect
<1>9. ASSUME NEW c \in Conn, NEW n \in 1..MaxMessages, Receive(c, n)
      PROVE  AccessorInv'
  BY <1>9 DEF Receive
<1>10. ASSUME NEW c \in Conn, PushMessage(c)
      PROVE  AccessorInv'
  BY <1>10 DEF PushMessage
<1>11. ASSUME NEW c \in Conn, Fail(c)
      PROVE  AccessorInv'
  BY <1>11 DEF Fail
<1>12. ASSUME NEW c \in Conn, CloseSocket(c)
      PROVE  AccessorInv'
  BY <1>12 DEF CloseSocket
<1>13. ASSUME NEW c \in Conn, PushDisconnect(c)
      PROVE  AccessorInv'
  BY <1>13 DEF PushDisconnect
<1>14. ASSUME NEW c \in Conn, RemoveSession(c)
      PROVE  AccessorInv'
  BY <1>14 DEF RemoveSession
<1>15. ASSUME NEW c \in Conn, SessionRemoved(c)
      PROVE  AccessorInv'
  BY <1>15 DEF SessionRemoved
<1>16. ASSUME NEW t \in Thread, Recv(t)
      PROVE  AccessorInv'
  BY <1>16 DEF Recv
<1>17. ASSUME NEW t \in Thread, Find(t)
      PROVE  AccessorInv'
  <2>1. message[t].sid \in Handle
    BY <1>17 DEF Find, Messages
  <2> QED
    BY <1>17, <2>1 DEF Find
<1>18. ASSUME NEW t \in Thread, SendAsync(t)
      PROVE  AccessorInv'
  BY <1>18 DEF SendAsync
<1>19. CASE UNCHANGED vars
  BY <1>19 DEF vars
<1> QED
  BY <1>1, <1>2, <1>3, <1>4, <1>5, <1>6, <1>7, <1>8, <1>9,
     <1>10, <1>11, <1>12, <1>13, <1>14, <1>15, <1>16, <1>17, <1>18, <1>19
     DEF AnyStep, Others, Control, Established, App

(* A session keeps its id, and does not go back to before addSession.       *)
LEMMA BegunStable ==
  IInv /\ [AnyStep]_vars => \A m \in Messages : OfBegun(m, phase, sid) => OfBegun(m, phase', sid')
<1> SUFFICES ASSUME IInv, [AnyStep]_vars, NEW m \in Messages, OfBegun(m, phase, sid)
             PROVE  OfBegun(m, phase', sid')
  OBVIOUS
<1>0. m.from \in Conn
  BY DEF Messages
<1> USE <1>0 DEF IInv, TypeOK, OfBegun, Connecting, Disconnecting, Open, IoIdle, sessionVars,
            threadVars, serverVars
<1>1. CASE Bind
  BY <1>1 DEF Bind
<1>2. CASE StopServer
  BY <1>2 DEF StopServer
<1>3. CASE StopService
  BY <1>3 DEF StopService
<1>4. CASE ServerStopped
  BY <1>4 DEF ServerStopped
<1>5. CASE ServiceStopped
  BY <1>5 DEF ServiceStopped
<1>6. ASSUME NEW c \in Conn, NEW h \in Handle, h \in FreeHandles, OnConnected(c, h)
      PROVE  OfBegun(m, phase', sid')
  BY <1>6 DEF OnConnected
<1>7. ASSUME NEW c \in Conn, AddSession(c)
      PROVE  OfBegun(m, phase', sid')
  BY <1>7 DEF AddSession
<1>8. ASSUME NEW c \in Conn, PushConnect(c)
      PROVE  OfBegun(m, phase', sid')
  BY <1>8 DEF PushConnect
<1>9. ASSUME NEW c \in Conn, NEW n \in 1..MaxMessages, Receive(c, n)
      PROVE  OfBegun(m, phase', sid')
  BY <1>9 DEF Receive
<1>10. ASSUME NEW c \in Conn, PushMessage(c)
      PROVE  OfBegun(m, phase', sid')
  BY <1>10 DEF PushMessage
<1>11. ASSUME NEW c \in Conn, Fail(c)
      PROVE  OfBegun(m, phase', sid')
  BY <1>11 DEF Fail
<1>12. ASSUME NEW c \in Conn, CloseSocket(c)
      PROVE  OfBegun(m, phase', sid')
  BY <1>12 DEF CloseSocket
<1>13. ASSUME NEW c \in Conn, PushDisconnect(c)
      PROVE  OfBegun(m, phase', sid')
  BY <1>13 DEF PushDisconnect
<1>14. ASSUME NEW c \in Conn, RemoveSession(c)
      PROVE  OfBegun(m, phase', sid')
  BY <1>14 DEF RemoveSession
<1>15. ASSUME NEW c \in Conn, SessionRemoved(c)
      PROVE  OfBegun(m, phase', sid')
  BY <1>15 DEF SessionRemoved
<1>16. ASSUME NEW t \in Thread, Recv(t)
      PROVE  OfBegun(m, phase', sid')
  BY <1>16 DEF Recv
<1>17. ASSUME NEW t \in Thread, Find(t)
      PROVE  OfBegun(m, phase', sid')
  BY <1>17 DEF Find
<1>18. ASSUME NEW t \in Thread, SendAsync(t)
      PROVE  OfBegun(m, phase', sid')
  BY <1>18 DEF SendAsync
<1>19. CASE UNCHANGED vars
  BY <1>19 DEF vars
<1> QED
  BY <1>1, <1>2, <1>3, <1>4, <1>5, <1>6, <1>7, <1>8, <1>9,
     <1>10, <1>11, <1>12, <1>13, <1>14, <1>15, <1>16, <1>17, <1>18, <1>19
     DEF AnyStep, Others, Control, Established, App

(* What a session that has its handle pushes is a message.                 *)
LEMMA PushedAreMessages ==
  ASSUME IInv, NEW c \in Conn, phase[c] \in Holding
  PROVE  /\ Msg(c, "CONNECT", 0) \in Messages
         /\ Msg(c, "DISCONNECT", 0) \in Messages
         /\ parsed[c] > 0 => Msg(c, "NORMAL", pushed[c] + 1) \in Messages
<1>1. sid[c] \in Handle
  BY DEF IInv, HandlesUnique
<1>2. 0 \in 0..MaxMessages
  BY SocketAssumption
<1>3. parsed[c] > 0 => pushed[c] + 1 \in 0..MaxMessages
  BY SocketAssumption DEF IInv, TypeOK, ReceivingInv
<1> QED
  BY <1>1, <1>2, <1>3 DEF Msg, Messages

(* Appending a message of a begun session keeps the queue as it should be.  *)
LEMMA PushBegun ==
  ASSUME IInv, [AnyStep]_vars, NEW m \in Messages, OfBegun(m, phase', sid'), Push(m)
  PROVE  \A i \in 1..Len(recvBuffer') : OfBegun(recvBuffer'[i], phase', sid')
<1> SUFFICES ASSUME NEW i \in 1..Len(recvBuffer')
             PROVE  OfBegun(recvBuffer'[i], phase', sid')
  OBVIOUS
<1>1. recvBuffer \in Seq(Messages) /\ recvBuffer' = Append(recvBuffer, m)
  BY DEF IInv, TypeOK, Push
<1>2. CASE i = Len(recvBuffer) + 1
  <2>1. recvBuffer'[i] = m
    BY <1>1, <1>2
  <2> QED
    BY <2>1
<1>3. CASE i \in 1..Len(recvBuffer)
  <2>1. recvBuffer'[i] = recvBuffer[i] /\ recvBuffer[i] \in Messages
    BY <1>1, <1>3
  <2>2. OfBegun(recvBuffer[i], phase, sid)
    BY <1>3 DEF IInv, MessageInv
  <2>3. OfBegun(recvBuffer[i], phase', sid')
    BY <2>1, <2>2, BegunStable
  <2> QED
    BY <2>1, <2>3
<1> QED
  BY <1>1, <1>2, <1>3

(* Only a registered session pushes, and send takes what recv returned.     *)
LEMMA NextMessage == IInv /\ [AnyStep]_vars => MessageInv'
<1> SUFFICES ASSUME IInv, [AnyStep]_vars PROVE MessageInv'
  OBVIOUS
<1> DEFINE Buffer == \A i \in 1..Len(recvBuffer) : OfBegun(recvBuffer[i], phase, sid)
<1> DEFINE Answers == \A t \in Thread : message[t] # NoMessage => OfBegun(message[t], phase, sid)
<1>a. recvBuffer \in Seq(Messages) /\ message \in [Thread -> Messages \union {NoMessage}]
  BY DEF IInv, TypeOK
<1>b. Buffer /\ Answers
  BY DEF IInv, MessageInv
<1>c. recvBuffer' = recvBuffer => Buffer'
  BY <1>a, <1>b, BegunStable
<1>d. message' = message => Answers'
  BY <1>a, <1>b, BegunStable
<1> USE DEF sessionVars, threadVars, serverVars
<1>1. CASE Bind
  BY <1>1, <1>c, <1>d DEF Bind, MessageInv
<1>2. CASE StopServer
  BY <1>2, <1>c, <1>d DEF StopServer, MessageInv
<1>3. CASE StopService
  BY <1>3, <1>c, <1>d DEF StopService, MessageInv
<1>4. CASE ServerStopped
  BY <1>4, <1>c, <1>d DEF ServerStopped, MessageInv
<1>5. CASE ServiceStopped
  BY <1>5, <1>c, <1>d DEF ServiceStopped, MessageInv
<1>6. ASSUME NEW c \in Conn, NEW h \in Handle, h \in FreeHandles, OnConnected(c, h)
      PROVE  MessageInv'
  BY <1>6, <1>c, <1>d DEF OnConnected, MessageInv
<1>7. ASSUME NEW c \in Conn, AddSession(c)
      PROVE  MessageInv'
  BY <1>7, <1>c, <1>d DEF AddSession, MessageInv
<1>8. ASSUME NEW c \in Conn, PushConnect(c)
      PROVE  MessageInv'
  <2>1. Msg(c, "CONNECT", 0) \in Messages
    BY <1>8, PushedAreMessages DEF PushConnect, Holding, Connecting, Open, IInv, ReceivingInv
  <2>2. OfBegun(Msg(c, "CONNECT", 0), phase', sid')
    BY <1>8 DEF PushConnect, Msg, OfBegun, Open, IInv, TypeOK, ReceivingInv
  <2>3. Push(Msg(c, "CONNECT", 0)) /\ message' = message
    BY <1>8 DEF PushConnect
  <2>4. Buffer'
    BY <2>1, <2>2, <2>3, PushBegun
  <2> QED
    BY <1>d, <2>3, <2>4 DEF MessageInv
<1>9. ASSUME NEW c \in Conn, NEW n \in 1..MaxMessages, Receive(c, n)
      PROVE  MessageInv'
  BY <1>9, <1>c, <1>d DEF Receive, MessageInv
<1>10. ASSUME NEW c \in Conn, PushMessage(c)
      PROVE  MessageInv'
  <2>1. Msg(c, "NORMAL", pushed[c] + 1) \in Messages
    BY <1>10, PushedAreMessages DEF PushMessage, Holding, Connecting, Open, IInv, ReceivingInv
  <2>2. OfBegun(Msg(c, "NORMAL", pushed[c] + 1), phase', sid')
    BY <1>10 DEF PushMessage, Msg, OfBegun, Open, IInv, TypeOK, ReceivingInv
  <2>3. Push(Msg(c, "NORMAL", pushed[c] + 1)) /\ message' = message
    BY <1>10 DEF PushMessage
  <2>4. Buffer'
    BY <2>1, <2>2, <2>3, PushBegun
  <2> QED
    BY <1>d, <2>3, <2>4 DEF MessageInv
<1>11. ASSUME NEW c \in Conn, Fail(c)
      PROVE  MessageInv'
  BY <1>11, <1>c, <1>d DEF Fail, MessageInv
<1>12. ASSUME NEW c \in Conn, CloseSocket(c)
      PROVE  MessageInv'
  BY <1>12, <1>c, <1>d DEF CloseSocket, MessageInv
<1>13. ASSUME NEW c \in Conn, PushDisconnect(c)
      PROVE  MessageInv'
  <2>1. Msg(c, "DISCONNECT", 0) \in Messages
    BY <1>13, PushedAreMessages DEF PushDisconnect, Holding, Connecting, Open, IInv, ReceivingInv
  <2>2. OfBegun(Msg(c, "DISCONNECT", 0), phase', sid')
    BY <1>13 DEF PushDisconnect, Msg, OfBegun, Open, IInv, TypeOK, ReceivingInv
  <2>3. Push(Msg(c, "DISCONNECT", 0)) /\ message' = message
    BY <1>13 DEF PushDisconnect
  <2>4. Buffer'
    BY <2>1, <2>2, <2>3, PushBegun
  <2> QED
    BY <1>d, <2>3, <2>4 DEF MessageInv
<1>14. ASSUME NEW c \in Conn, RemoveSession(c)
      PROVE  MessageInv'
  BY <1>14, <1>c, <1>d DEF RemoveSession, MessageInv
<1>15. ASSUME NEW c \in Conn, SessionRemoved(c)
      PROVE  MessageInv'
  BY <1>15, <1>c, <1>d DEF SessionRemoved, MessageInv
<1>16. ASSUME NEW t \in Thread, Recv(t)
      PROVE  MessageInv'
  <2>1. /\ Len(recvBuffer) \in Nat \ {0} /\ Head(recvBuffer) = recvBuffer[1]
        /\ Len(recvBuffer') = Len(recvBuffer) - 1
        /\ \A i \in 1..Len(recvBuffer') : recvBuffer'[i] = recvBuffer[i + 1]
    BY <1>16, <1>a DEF Recv
  <2>2. \A i \in 1..Len(recvBuffer) : OfBegun(recvBuffer[i], phase', sid')
    BY <1>a, <1>b, BegunStable
  <2>3. Buffer'
    BY <2>1, <2>2
  <2>4. Answers'
    <3> SUFFICES ASSUME NEW u \in Thread, message'[u] # NoMessage
                 PROVE  OfBegun(message'[u], phase', sid')
      OBVIOUS
    <3>1. CASE message'[u] = recvBuffer[1]
      BY <2>1, <2>2, <3>1
    <3>2. CASE message'[u] = message[u]
      BY <1>a, <1>b, <3>2, BegunStable
    <3> QED
      BY <1>16, <1>a, <2>1, <3>1, <3>2 DEF Recv
  <2> QED
    BY <2>3, <2>4 DEF MessageInv
<1>17. ASSUME NEW t \in Thread, Find(t)
      PROVE  MessageInv'
  <2>1. Answers'
    <3> SUFFICES ASSUME NEW u \in Thread, message'[u] # NoMessage
                 PROVE  OfBegun(message'[u], phase', sid')
      OBVIOUS
    <3>1. message'[u] = message[u]
      BY <1>17, <1>a DEF Find
    <3> QED
      BY <1>a, <1>b, <3>1, BegunStable
  <2> QED
    BY <1>17, <1>c, <2>1 DEF Find, MessageInv
<1>18. ASSUME NEW t \in Thread, SendAsync(t)
      PROVE  MessageInv'
  <2>1. Answers'
    <3> SUFFICES ASSUME NEW u \in Thread, message'[u] # NoMessage
                 PROVE  OfBegun(message'[u], phase', sid')
      OBVIOUS
    <3>1. message'[u] = message[u]
      BY <1>18, <1>a DEF SendAsync
    <3> QED
      BY <1>a, <1>b, <3>1, BegunStable
  <2> QED
    BY <1>18, <1>c, <2>1 DEF SendAsync, MessageInv
<1>19. CASE UNCHANGED vars
  BY <1>19, <1>c, <1>d DEF vars, MessageInv
<1> QED
  BY <1>1, <1>2, <1>3, <1>4, <1>5, <1>6, <1>7, <1>8, <1>9,
     <1>10, <1>11, <1>12, <1>13, <1>14, <1>15, <1>16, <1>17, <1>18, <1>19
     DEF AnyStep, Others, Control, Established, App

(* find returns another session only when the handle was reused.            *)
LEMMA NextAnswers == IInv /\ [AnyStep]_vars => AnswersOwner'
<1> SUFFICES ASSUME IInv, [AnyStep]_vars PROVE AnswersOwner'
  OBVIOUS
<1> USE SocketAssumption DEF IInv, AnswersOwner, MessageInv, OfBegun, AccessorInv, RegistryExact,
            Registered, HandlesUnique, Holding, Connecting, Disconnecting, Open,
            TypeOK, IoIdle, Messages, sessionVars,
            threadVars, serverVars
<1>1. CASE Bind
  BY <1>1 DEF Bind
<1>2. CASE StopServer
  BY <1>2 DEF StopServer
<1>3. CASE StopService
  BY <1>3 DEF StopService
<1>4. CASE ServerStopped
  BY <1>4 DEF ServerStopped
<1>5. CASE ServiceStopped
  BY <1>5 DEF ServiceStopped
<1>6. ASSUME NEW c \in Conn, NEW h \in Handle, h \in FreeHandles, OnConnected(c, h)
      PROVE  AnswersOwner'
  BY <1>6 DEF OnConnected
<1>7. ASSUME NEW c \in Conn, AddSession(c)
      PROVE  AnswersOwner'
  BY <1>7 DEF AddSession
<1>8. ASSUME NEW c \in Conn, PushConnect(c)
      PROVE  AnswersOwner'
  BY <1>8 DEF PushConnect
<1>9. ASSUME NEW c \in Conn, NEW n \in 1..MaxMessages, Receive(c, n)
      PROVE  AnswersOwner'
  BY <1>9 DEF Receive
<1>10. ASSUME NEW c \in Conn, PushMessage(c)
      PROVE  AnswersOwner'
  BY <1>10 DEF PushMessage
<1>11. ASSUME NEW c \in Conn, Fail(c)
      PROVE  AnswersOwner'
  BY <1>11 DEF Fail
<1>12. ASSUME NEW c \in Conn, CloseSocket(c)
      PROVE  AnswersOwner'
  BY <1>12 DEF CloseSocket
<1>13. ASSUME NEW c \in Conn, PushDisconnect(c)
      PROVE  AnswersOwner'
  BY <1>13 DEF PushDisconnect
<1>14. ASSUME NEW c \in Conn, RemoveSession(c)
      PROVE  AnswersOwner'
  BY <1>14 DEF RemoveSession
<1>15. ASSUME NEW c \in Conn, SessionRemoved(c)
      PROVE  AnswersOwner'
  BY <1>15 DEF SessionRemoved
<1>16. ASSUME NEW t \in Thread, Recv(t)
      PROVE  AnswersOwner'
  <2>1. accessor' = accessor /\ phase' = phase /\ accessor[t] = NoConn
    BY <1>16 DEF Recv
  <2>2. \A u \in Thread \ {t} : message'[u] = message[u]
    BY <1>16 DEF Recv
  <2> QED
    BY <2>1, <2>2
<1>17. ASSUME NEW t \in Thread, Find(t)
      PROVE  AnswersOwner'
  <2> DEFINE c == message[t].from
             d == sessions[message[t].sid]
  <2>1. /\ message[t] \in Messages /\ c \in Conn /\ message[t].sid \in Handle
        /\ OfBegun(message[t], phase, sid)
    BY <1>17 DEF Find
  <2>2. ASSUME d # NoConn, d # c PROVE phase[c] = "closed"
    <3>1. d \in Conn /\ phase[d] \in Holding /\ sid[d] = message[t].sid /\ ~Registered(c)
      BY <2>1, <2>2
    <3> QED
      BY <2>1, <2>2, <3>1
  <2>3. phase' = phase
    BY <1>17 DEF Find
  <2> SUFFICES ASSUME NEW u \in Thread, accessor'[u] # NoConn,
                      accessor'[u] # message'[u].from
               PROVE  phase[message'[u].from] = "closed"
    BY <2>3
  <2>4. CASE u = t
    <3>1. message' = message /\ accessor'[t] = d
      BY <1>17, <2>4 DEF Find
    <3> QED
      BY <2>2, <2>4, <3>1
  <2>5. CASE u # t
    <3>1. message'[u] = message[u] /\ accessor'[u] = accessor[u]
      BY <1>17, <2>5 DEF Find
    <3> QED
      BY <3>1
  <2> QED
    BY <2>4, <2>5
<1>18. ASSUME NEW t \in Thread, SendAsync(t)
      PROVE  AnswersOwner'
  BY <1>18 DEF SendAsync
<1>19. CASE UNCHANGED vars
  BY <1>19 DEF vars
<1> QED
  BY <1>1, <1>2, <1>3, <1>4, <1>5, <1>6, <1>7, <1>8, <1>9,
     <1>10, <1>11, <1>12, <1>13, <1>14, <1>15, <1>16, <1>17, <1>18, <1>19
     DEF AnyStep, Others, Control, Established, App

-----------------------------------------------------------------------------
LEMMA StepInv == IInv /\ [AnyStep]_vars => IInv'
BY NextTypeOK, NextHandlesUnique, NextRegistry, NextReceiving, NextAccessor,
   NextMessage, NextAnswers DEF IInv

LEMMA InductiveInv == Spec => []IInv
<1>1. [Next]_vars => [AnyStep]_vars
  BY DEF Next, AnyStep, Accept
<1> QED
  BY InitIInv, StepInv, <1>1, PTL DEF Spec

(* Every variable has its type.                                            *)
THEOREM TypeCorrect == Spec => []TypeOK
<1>1. IInv => TypeOK
  BY DEF IInv
<1> QED
  BY InductiveInv, <1>1, PTL

(***************************************************************************)
(* The registry leads from a handle to a session exactly while that        *)
(* session is between addSession and removeSession.                        *)
(***************************************************************************)
THEOREM RegistryIsExact == Spec => []RegistryExact
<1>1. IInv => RegistryExact
  BY DEF IInv
<1> QED
  BY InductiveInv, <1>1, PTL

(***************************************************************************)
(* While a thread is in SendAsync on a session, the onDisconnected of the  *)
(* session has not returned: removeSession waits for the accessor.         *)
(***************************************************************************)
THEOREM SendsEndBeforeDisconnected == Spec => []NoSendAfterDisconnected
<1>1. IInv => NoSendAfterDisconnected
  BY DEF IInv, AccessorInv, NoSendAfterDisconnected, Open
<1> QED
  BY InductiveInv, <1>1, PTL

(***************************************************************************)
(* An answer goes to the session its message came from as long as that     *)
(* session has not completely ended.                                       *)
(***************************************************************************)
THEOREM AnswersGoToOwner == Spec => []AnswersOwner
<1>1. IInv => AnswersOwner
  BY DEF IInv
<1> QED
  BY InductiveInv, <1>1, PTL

(***************************************************************************)
(* send finds no session only when the one the message came from has       *)
(* pushed its DISCONNECT.                                                  *)
(***************************************************************************)
THEOREM MissesMeanEnded == Spec => []MissedMeansEnded
<1>1. IInv => MissedMeansEnded
  <2> SUFFICES ASSUME IInv, NEW t \in Thread, message[t] # NoMessage,
                      sessions[message[t].sid] = NoConn
               PROVE  phase[message[t].from] \in {"unlinked", "closed"}
    BY DEF MissedMeansEnded
  <2> DEFINE c == message[t].from
  <2>1. message[t] \in Messages /\ OfBegun(message[t], phase, sid)
    BY DEF IInv, TypeOK, MessageInv
  <2>2. c \in Conn /\ message[t].sid \in Handle /\ sid[c] = message[t].sid
    BY <2>1 DEF Messages, OfBegun
  <2>3. ~Registered(c)
    BY <2>2, SocketAssumption DEF IInv, RegistryExact
  <2> QED
    BY <2>1, <2>3 DEF OfBegun, Registered
<1> QED
  BY InductiveInv, <1>1, PTL

-----------------------------------------------------------------------------
(***************************************************************************)
(* StreamSocket implements SessionFeed: what recv returns for a handle are *)
(* CONNECT, the messages of one session and DISCONNECT, although several   *)
(* sessions take the handle in turn.                                       *)
(*                                                                         *)
(* The refinement mapping, part by part:                                   *)
(***************************************************************************)
Strip(m) == [sid |-> m.sid, type |-> m.type, num |-> m.num]
StripAll(s) == [i \in DOMAIN s |-> Strip(s[i])]

Count(A, s, p) ==
  [h \in Handle |-> IF \E c \in A : s[c] = h THEN p[CHOOSE c \in A : s[c] = h] ELSE 0]
Handles(A, s) == {s[c] : c \in A}
OneEach(A, s) ==
  /\ \A c \in A : s[c] \in Handle
  /\ \A c, d \in A : s[c] = s[d] => c = d

-----------------------------------------------------------------------------
(* A handle that one session of A has counts what that session has pushed.  *)
LEMMA CountValue ==
  ASSUME NEW A, NEW s, NEW p, OneEach(A, s)
  PROVE  /\ \A c \in A : Count(A, s, p)[s[c]] = p[c]
         /\ \A h \in Handle : h \notin Handles(A, s) => Count(A, s, p)[h] = 0
         /\ DOMAIN Count(A, s, p) = Handle
<1>1. ASSUME NEW c \in A PROVE Count(A, s, p)[s[c]] = p[c]
  <2>1. s[c] \in Handle
    BY DEF OneEach
  <2>2. (CHOOSE d \in A : s[d] = s[c]) = c
    BY DEF OneEach
  <2> QED
    BY <2>1, <2>2 DEF Count
<1> QED
  BY <1>1 DEF Count, Handles

(* A session is announced, pushes a message, ends.                         *)
LEMMA CountAdd ==
  ASSUME NEW A, NEW s, NEW p, NEW c, OneEach(A \union {c}, s), c \notin A, p[c] = 0
  PROVE  Count(A \union {c}, s, p) = [Count(A, s, p) EXCEPT ![s[c]] = 0]
<1> DEFINE B == A \union {c}
<1>1. OneEach(A, s)
  BY DEF OneEach
<1>2. ASSUME NEW h \in Handle
      PROVE  Count(B, s, p)[h] = [Count(A, s, p) EXCEPT ![s[c]] = 0][h]
  <2>1. CASE h = s[c]
    BY <1>1, <2>1, CountValue
  <2>2. CASE h # s[c] /\ h \in Handles(A, s)
    <3>1. PICK d \in A : h = s[d]
      BY <2>2 DEF Handles
    <3> QED
      BY <1>1, <2>2, <3>1, CountValue
  <2>3. CASE h # s[c] /\ h \notin Handles(A, s)
    <3>1. h \notin Handles(B, s)
      BY <2>3 DEF Handles
    <3> QED
      BY <1>1, <2>3, <3>1, CountValue
  <2> QED
    BY <2>1, <2>2, <2>3
<1> QED
  BY <1>2 DEF Count

LEMMA CountBump ==
  ASSUME NEW A, NEW s, NEW p, NEW q, NEW c, OneEach(A, s), c \in A,
         q[c] = p[c] + 1, \A d \in A : d # c => q[d] = p[d]
  PROVE  Count(A, s, q) = [Count(A, s, p) EXCEPT ![s[c]] = @ + 1]
<1>1. q[c] = p[c] + 1 /\ \A d \in A : d # c => q[d] = p[d]
  OBVIOUS
<1>2. ASSUME NEW h \in Handle
      PROVE  Count(A, s, q)[h] = [Count(A, s, p) EXCEPT ![s[c]] = @ + 1][h]
  <2>1. CASE h = s[c]
    <3>1. Count(A, s, q)[s[c]] = p[c] + 1 /\ Count(A, s, p)[s[c]] = p[c]
      BY <1>1, CountValue
    <3> QED
      BY <2>1, <3>1, CountValue
  <2>2. CASE h # s[c] /\ h \in Handles(A, s)
    <3>1. PICK d \in A : h = s[d]
      BY <2>2 DEF Handles
    <3>2. Count(A, s, q)[h] = q[d] /\ Count(A, s, p)[h] = p[d] /\ d # c
      BY <2>2, <3>1, CountValue
    <3> QED
      BY <1>1, <2>2, <3>2, CountValue
  <2>3. CASE h # s[c] /\ h \notin Handles(A, s)
    BY <2>3, CountValue
  <2> QED
    BY <2>1, <2>2, <2>3
<1> QED
  BY <1>2 DEF Count

LEMMA CountRemove ==
  ASSUME NEW A, NEW s, NEW p, NEW c, OneEach(A, s), c \in A
  PROVE  Count(A \ {c}, s, p) = [Count(A, s, p) EXCEPT ![s[c]] = 0]
<1> DEFINE B == A \ {c}
<1>1. OneEach(B, s) /\ A = B \union {c}
  BY DEF OneEach
<1>2. Handles(B, s) = Handles(A, s) \ {s[c]}
  BY DEF Handles, OneEach
<1>3. ASSUME NEW h \in Handle
      PROVE  Count(B, s, p)[h] = [Count(A, s, p) EXCEPT ![s[c]] = 0][h]
  <2>1. CASE h = s[c]
    BY <1>1, <1>2, <2>1, CountValue
  <2>2. CASE h # s[c] /\ h \in Handles(A, s)
    <3>1. PICK d \in B : h = s[d]
      BY <2>2 DEF Handles
    <3>2. Count(B, s, p)[h] = p[d] /\ Count(A, s, p)[h] = p[d]
      BY <1>1, <3>1, CountValue
    <3> QED
      BY <2>2, <3>2, CountValue
  <2>3. CASE h # s[c] /\ h \notin Handles(A, s)
    <3>1. h \notin Handles(B, s)
      BY <1>2, <2>3
    <3>2. Count(B, s, p)[h] = 0 /\ Count(A, s, p)[h] = 0
      BY <1>1, <2>3, <3>1, CountValue
    <3> QED
      BY <2>3, <3>2, CountValue
  <2> QED
    BY <2>1, <2>2, <2>3
<1> QED
  BY <1>3 DEF Count

(* What is not of an announced session does not count.                     *)
LEMMA CountSame ==
  ASSUME NEW A, NEW s, NEW p, NEW z, NEW q, OneEach(A, s),
         \A c \in A : z[c] = s[c] /\ q[c] = p[c]
  PROVE  Count(A, z, q) = Count(A, s, p) /\ Handles(A, z) = Handles(A, s)
<1>1. OneEach(A, z) /\ Handles(A, z) = Handles(A, s)
  BY DEF OneEach, Handles
<1>2. ASSUME NEW h \in Handle PROVE Count(A, z, q)[h] = Count(A, s, p)[h]
  <2>1. CASE h \in Handles(A, s)
    <3>1. PICK d \in A : h = s[d]
      BY <2>1 DEF Handles
    <3> QED
      BY <1>1, <3>1, CountValue
  <2>2. CASE h \notin Handles(A, s)
    BY <1>1, <2>2, CountValue
  <2> QED
    BY <2>1, <2>2
<1> QED
  BY <1>1, <1>2 DEF Count

(* The queue without the sessions its messages are from: what appending   *)
(* and taking a message do to it.                                          *)
Stripped == {Strip(m) : m \in Messages}

LEMMA StripValues ==
  ASSUME NEW s \in Seq(Messages)
  PROVE  /\ StripAll(s) \in Seq(Stripped)
         /\ Len(StripAll(s)) = Len(s)
         /\ \A i \in 1..Len(s) : StripAll(s)[i] = Strip(s[i])
<1>1. DOMAIN s = 1..Len(s) /\ Len(s) \in Nat /\ \A i \in 1..Len(s) : s[i] \in Messages
  OBVIOUS
<1>2. StripAll(s) = [i \in 1..Len(s) |-> Strip(s[i])]
  BY <1>1 DEF StripAll
<1>3. \A i \in 1..Len(s) : Strip(s[i]) \in Stripped
  BY <1>1 DEF Stripped
<1> QED
  BY <1>1, <1>2, <1>3

LEMMA StripAppend ==
  ASSUME NEW s \in Seq(Messages), NEW m \in Messages
  PROVE  StripAll(Append(s, m)) = Append(StripAll(s), Strip(m))
<1> DEFINE t == Append(s, m)
           u == Append(StripAll(s), Strip(m))
<1>1. /\ t \in Seq(Messages) /\ Len(t) = Len(s) + 1
      /\ \A i \in 1..Len(s) : t[i] = s[i]
      /\ t[Len(s) + 1] = m
  BY AppendProperties
<1>2. Strip(m) \in Stripped
  BY DEF Stripped
<1>3. /\ u \in Seq(Stripped) /\ Len(u) = Len(s) + 1
      /\ \A i \in 1..Len(s) : u[i] = StripAll(s)[i]
      /\ u[Len(s) + 1] = Strip(m)
  BY <1>2, StripValues, AppendProperties
<1> HIDE DEF t, u
<1>4. ASSUME NEW i \in 1..Len(s) + 1 PROVE StripAll(t)[i] = u[i]
  <2>1. StripAll(t)[i] = Strip(t[i])
    BY <1>1, StripValues
  <2>2. CASE i = Len(s) + 1
    BY <1>1, <1>3, <2>1, <2>2
  <2>3. CASE i \in 1..Len(s)
    <3>1. StripAll(s)[i] = Strip(s[i])
      BY <2>3, StripValues
    <3> QED
      BY <1>1, <1>3, <2>1, <2>3, <3>1
  <2> QED
    BY <2>2, <2>3
<1>5. StripAll(t) \in Seq(Stripped) /\ Len(StripAll(t)) = Len(s) + 1
  BY <1>1, StripValues
<1>6. StripAll(t) = u
  BY <1>3, <1>4, <1>5, SeqEqual
<1> QED
  BY <1>6 DEF t, u

LEMMA StripTail ==
  ASSUME NEW s \in Seq(Messages), s # <<>>
  PROVE  StripAll(s) # <<>> /\ StripAll(Tail(s)) = Tail(StripAll(s))
<1> DEFINE t == Tail(s)
           u == Tail(StripAll(s))
<1>1. /\ t \in Seq(Messages) /\ Len(t) = Len(s) - 1 /\ Len(s) \in Nat \ {0}
      /\ \A i \in 1..Len(t) : t[i] = s[i + 1]
  BY HeadTailProperties
<1>2. StripAll(s) \in Seq(Stripped) /\ Len(StripAll(s)) = Len(s)
  BY StripValues
<1>3. StripAll(s) # <<>>
  BY <1>1, <1>2
<1>4. /\ u \in Seq(Stripped) /\ Len(u) = Len(s) - 1
      /\ \A i \in 1..Len(s) - 1 : u[i] = StripAll(s)[i + 1]
  BY <1>2, <1>3, HeadTailProperties
<1>5. StripAll(t) \in Seq(Stripped) /\ Len(StripAll(t)) = Len(s) - 1
  BY <1>1, StripValues
<1>6. ASSUME NEW i \in 1..Len(s) - 1 PROVE StripAll(t)[i] = u[i]
  <2>1. StripAll(t)[i] = Strip(s[i + 1])
    BY <1>1, StripValues
  <2>2. i + 1 \in 1..Len(s)
    BY <1>1
  <2>3. StripAll(s)[i + 1] = Strip(s[i + 1])
    BY <2>2, StripValues
  <2> QED
    BY <1>4, <2>1, <2>3
<1> HIDE DEF t, u
<1>7. StripAll(t) = u
  BY <1>1, <1>4, <1>5, <1>6, SeqEqual
<1> QED
  BY <1>3, <1>7 DEF t, u

-----------------------------------------------------------------------------
(* A session that is not announced has pushed nothing.                     *)
FreshInv == \A c \in Conn : phase[c] \in {"new"} \union Connecting => pushed[c] = 0

FeedInv == IInv /\ FreshInv

LEMMA NextFeedInv == FeedInv /\ [AnyStep]_vars => FeedInv'
<1> SUFFICES ASSUME FeedInv, [AnyStep]_vars PROVE FeedInv'
  OBVIOUS
<1>0. IInv'
  BY StepInv DEF FeedInv
<1> USE DEF FeedInv, FreshInv, Connecting, sessionVars
<1>t. /\ phase \in [Conn -> Phases] /\ pushed \in [Conn -> 0..MaxMessages]
      /\ \A c \in Conn : parsed[c] > 0 => phase[c] \in Open
  BY DEF IInv, TypeOK, ReceivingInv
<1>1. CASE Control
  BY <1>0, <1>1 DEF Control, Bind, StopServer, StopService
<1>2. CASE ServerStopped \/ ServiceStopped
  BY <1>0, <1>2, <1>t DEF ServerStopped, ServiceStopped
<1>3. ASSUME NEW c \in Conn, NEW h \in Handle, OnConnected(c, h) PROVE FeedInv'
  BY <1>0, <1>3, <1>t DEF OnConnected
<1>4. ASSUME NEW c \in Conn, PushMessage(c) PROVE FeedInv'
  <2>1. phase[c] \in Open /\ phase' = phase /\ pushed' = [pushed EXCEPT ![c] = @ + 1]
    BY <1>4, <1>t DEF PushMessage
  <2> QED
    BY <1>0, <1>t, <2>1 DEF Open
<1>5. ASSUME NEW c \in Conn, Established(c), ~PushMessage(c) PROVE FeedInv'
  <2>1. pushed' = pushed
    BY <1>5 DEF Established, AddSession, PushConnect, Receive, Fail, CloseSocket,
                PushDisconnect, RemoveSession, SessionRemoved
  <2>2. \A d \in Conn : phase'[d] \in {"new"} \union Connecting
                         => phase[d] \in {"new"} \union Connecting
    BY <1>5, <1>t DEF Established, AddSession, PushConnect, Receive, Fail, CloseSocket,
                PushDisconnect, RemoveSession, SessionRemoved
  <2> QED
    BY <1>0, <2>1, <2>2
<1>6. ASSUME NEW t \in Thread, App(t) PROVE FeedInv'
  BY <1>0, <1>6 DEF App, Recv, Find, SendAsync
<1>7. CASE UNCHANGED vars
  BY <1>0, <1>7 DEF vars
<1> QED
  BY <1>1, <1>2, <1>3, <1>4, <1>5, <1>6, <1>7 DEF AnyStep, Others

-----------------------------------------------------------------------------
FeedNow == StripAll(recvBuffer)
AnnouncedNow == Handles(Announced, sid)
CountNow == Count(Announced, sid, pushed)

(* The steps of SessionFeed under the mapping.                             *)
LEMMA FeedSteps ==
  /\ \A h \in Handle :
       \/ /\ h \notin AnnouncedNow
          /\ AnnouncedNow' = AnnouncedNow \union {h}
          /\ CountNow' = [CountNow EXCEPT ![h] = 0]
          /\ FeedNow' = Append(FeedNow, [sid |-> h, type |-> "CONNECT", num |-> 0])
       \/ /\ h \in AnnouncedNow
          /\ AnnouncedNow' = AnnouncedNow
          /\ FeedNow' = Append(FeedNow, [sid |-> h, type |-> "NORMAL", num |-> CountNow[h] + 1])
          /\ CountNow' = [CountNow EXCEPT ![h] = @ + 1]
       \/ /\ h \in AnnouncedNow
          /\ AnnouncedNow' = AnnouncedNow \ {h}
          /\ CountNow' = [CountNow EXCEPT ![h] = 0]
          /\ FeedNow' = Append(FeedNow, [sid |-> h, type |-> "DISCONNECT", num |-> 0])
       => Feed!Next
  /\ /\ FeedNow # <<>> /\ FeedNow' = Tail(FeedNow)
     /\ UNCHANGED <<AnnouncedNow, CountNow>>
     => Feed!Next
  /\ UNCHANGED <<FeedNow, AnnouncedNow, CountNow>> => UNCHANGED Feed!feedVars
<1> USE DEF FeedNow, AnnouncedNow, CountNow, Handles, Count, StripAll, Strip
<1> QED
  BY DEF Feed!Next, Feed!Announce, Feed!Deliver, Feed!End, Feed!Take, Feed!Connect,
         Feed!Normal, Feed!Disconnect, Feed!feedVars

LEMMA InitRefines == Init => Feed!Init
<1> SUFFICES ASSUME Init PROVE Feed!Init
  OBVIOUS
<1>1. Announced = {} /\ recvBuffer = <<>>
  BY DEF Init, Announced, Open
<1> QED
  BY <1>1 DEF Feed!Init

(* The announced sessions have different handles.                          *)
LEMMA AnnouncedOneEach ==
  ASSUME IInv, NEW C \in SUBSET Conn, \A c \in C : phase[c] \in Holding
  PROVE  OneEach(C, sid)
BY DEF IInv, HandlesUnique, OneEach

(* A step that announces, ends and counts nothing, and pushes nothing.     *)
LEMMA Unnoticed ==
  ASSUME FeedInv, FeedNow' = FeedNow, Announced' = Announced,
         \A c \in Announced : sid'[c] = sid[c] /\ pushed'[c] = pushed[c]
  PROVE  UNCHANGED Feed!feedVars
<1>1. OneEach(Announced, sid)
  BY AnnouncedOneEach DEF FeedInv, Announced, Holding, Open
<1>2. UNCHANGED <<AnnouncedNow, CountNow>>
  BY <1>1, CountSame DEF AnnouncedNow, CountNow
<1> QED
  BY <1>2, FeedSteps

(***************************************************************************)
(* Three steps push a message, one takes one; each is a step of the feed.  *)
(***************************************************************************)
LEMMA AnnounceRefines ==
  ASSUME FeedInv, NEW c \in Conn, PushConnect(c)
  PROVE  Feed!Next
<1> DEFINE A == Announced
           h == sid[c]
<1>1. /\ phase[c] = "registered" /\ phase' = [phase EXCEPT ![c] = "open"]
      /\ sid' = sid /\ pushed' = pushed /\ Push(Msg(c, "CONNECT", 0))
  BY DEF PushConnect
<1>2. phase \in [Conn -> Phases] /\ recvBuffer \in Seq(Messages)
  BY DEF FeedInv, IInv, TypeOK
<1>3. Announced' = A \union {c} /\ c \notin A
  BY <1>1, <1>2 DEF Announced, Open
<1>4. OneEach(A \union {c}, sid) /\ h \in Handle
  <2>1. A \union {c} \in SUBSET Conn
    BY DEF Announced
  <2>2. \A d \in A \union {c} : phase[d] \in Holding
    BY <1>1 DEF Announced, Open, Holding, Connecting
  <2> QED
    BY <2>1, <2>2, AnnouncedOneEach DEF FeedInv, OneEach
<1>5. pushed[c] = 0
  BY <1>1 DEF FeedInv, FreshInv, Connecting
<1>6. CountNow' = [CountNow EXCEPT ![h] = 0]
  <2>1. CountNow' = Count(A \union {c}, sid, pushed)
    BY <1>1, <1>3 DEF CountNow
  <2> QED
    BY <1>3, <1>4, <1>5, <2>1, CountAdd DEF CountNow
<1>7. AnnouncedNow' = AnnouncedNow \union {h} /\ h \notin AnnouncedNow
  <2>1. AnnouncedNow' = Handles(A \union {c}, sid)
    BY <1>1, <1>3 DEF AnnouncedNow
  <2> QED
    BY <1>3, <1>4, <2>1 DEF AnnouncedNow, Handles, OneEach
<1>8. FeedNow' = Append(FeedNow, [sid |-> h, type |-> "CONNECT", num |-> 0])
  <2>1. Msg(c, "CONNECT", 0) \in Messages
    BY <1>1, PushedAreMessages DEF FeedInv, Holding, Connecting
  <2>2. FeedNow' = Append(FeedNow, Strip(Msg(c, "CONNECT", 0)))
    BY <1>1, <1>2, <2>1, StripAppend DEF FeedNow, Push
  <2> QED
    BY <2>2 DEF Strip, Msg
<1> QED
  BY <1>4, <1>6, <1>7, <1>8, FeedSteps

LEMMA DeliverRefines ==
  ASSUME FeedInv, NEW c \in Conn, PushMessage(c)
  PROVE  Feed!Next
<1> DEFINE A == Announced
           h == sid[c]
<1>1. /\ parsed[c] > 0 /\ phase' = phase /\ sid' = sid
      /\ pushed' = [pushed EXCEPT ![c] = @ + 1]
      /\ Push(Msg(c, "NORMAL", pushed[c] + 1))
  BY DEF PushMessage, sessionVars
<1>2. /\ phase[c] \in Open /\ recvBuffer \in Seq(Messages)
      /\ pushed \in [Conn -> Nat]
  BY <1>1, SocketAssumption DEF FeedInv, IInv, TypeOK, ReceivingInv
<1>3. Announced' = A /\ c \in A /\ A \subseteq Conn
  BY <1>1, <1>2 DEF Announced
<1>4. OneEach(A, sid) /\ h \in Handle
  <2>1. \A d \in A : phase[d] \in Holding
    BY DEF Announced, Open, Holding
  <2> QED
    BY <1>3, <2>1, AnnouncedOneEach DEF FeedInv, OneEach
<1>5. CountNow' = [CountNow EXCEPT ![h] = @ + 1]
  <2>1. CountNow' = Count(A, sid, pushed')
    BY <1>1, <1>3 DEF CountNow
  <2>2. pushed'[c] = pushed[c] + 1 /\ \A d \in A : d # c => pushed'[d] = pushed[d]
    BY <1>1, <1>2, <1>3
  <2>3. Count(A, sid, pushed') = [Count(A, sid, pushed) EXCEPT ![sid[c]] = @ + 1]
    BY <1>3, <1>4, <2>2, CountBump
  <2> QED
    BY <2>1, <2>3 DEF CountNow
<1>6. AnnouncedNow' = AnnouncedNow /\ h \in AnnouncedNow
  BY <1>1, <1>3 DEF AnnouncedNow, Handles
<1>7. FeedNow' = Append(FeedNow, [sid |-> h, type |-> "NORMAL", num |-> CountNow[h] + 1])
  <2>1. Msg(c, "NORMAL", pushed[c] + 1) \in Messages
    BY <1>1, <1>2, PushedAreMessages DEF FeedInv, Holding
  <2>2. FeedNow' = Append(FeedNow, Strip(Msg(c, "NORMAL", pushed[c] + 1)))
    BY <1>1, <1>2, <2>1, StripAppend DEF FeedNow, Push
  <2>3. CountNow[h] = pushed[c]
    BY <1>3, <1>4, CountValue DEF CountNow
  <2> QED
    BY <2>2, <2>3 DEF Strip, Msg
<1> QED
  BY <1>4, <1>5, <1>6, <1>7, FeedSteps

LEMMA EndRefines ==
  ASSUME FeedInv, NEW c \in Conn, PushDisconnect(c)
  PROVE  Feed!Next
<1> DEFINE A == Announced
           h == sid[c]
<1>1. /\ phase[c] = "released" /\ phase' = [phase EXCEPT ![c] = "ended"]
      /\ sid' = sid /\ pushed' = pushed /\ Push(Msg(c, "DISCONNECT", 0))
  BY DEF PushDisconnect
<1>2. phase \in [Conn -> Phases] /\ recvBuffer \in Seq(Messages)
  BY DEF FeedInv, IInv, TypeOK
<1>3. Announced' = A \ {c} /\ c \in A /\ A \subseteq Conn
  BY <1>1, <1>2 DEF Announced, Open
<1>4. OneEach(A, sid) /\ h \in Handle
  <2>1. \A d \in A : phase[d] \in Holding
    BY DEF Announced, Open, Holding
  <2> QED
    BY <1>3, <2>1, AnnouncedOneEach DEF FeedInv, OneEach
<1>5. CountNow' = [CountNow EXCEPT ![h] = 0] /\ AnnouncedNow' = AnnouncedNow \ {h}
  <2>1. CountNow' = Count(A \ {c}, sid, pushed) /\ AnnouncedNow' = Handles(A \ {c}, sid)
    BY <1>1, <1>3 DEF CountNow, AnnouncedNow
  <2>2. Count(A \ {c}, sid, pushed) = [Count(A, sid, pushed) EXCEPT ![sid[c]] = 0]
    BY <1>3, <1>4, CountRemove
  <2>3. Handles(A \ {c}, sid) = Handles(A, sid) \ {h}
    BY <1>3, <1>4 DEF Handles, OneEach
  <2> QED
    BY <2>1, <2>2, <2>3 DEF CountNow, AnnouncedNow
<1>6. h \in AnnouncedNow
  BY <1>3 DEF AnnouncedNow, Handles
<1>7. FeedNow' = Append(FeedNow, [sid |-> h, type |-> "DISCONNECT", num |-> 0])
  <2>1. Msg(c, "DISCONNECT", 0) \in Messages
    BY <1>1, PushedAreMessages DEF FeedInv, Holding
  <2>2. FeedNow' = Append(FeedNow, Strip(Msg(c, "DISCONNECT", 0)))
    BY <1>1, <1>2, <2>1, StripAppend DEF FeedNow, Push
  <2> QED
    BY <2>2 DEF Strip, Msg
<1> QED
  BY <1>4, <1>5, <1>6, <1>7, FeedSteps

LEMMA TakeRefines ==
  ASSUME FeedInv, NEW t \in Thread, Recv(t)
  PROVE  Feed!Next
<1>1. /\ recvBuffer # <<>> /\ recvBuffer' = Tail(recvBuffer)
      /\ phase' = phase /\ sid' = sid /\ pushed' = pushed
  BY DEF Recv, sessionVars
<1>2. FeedNow # <<>> /\ FeedNow' = Tail(FeedNow)
  BY <1>1, StripTail DEF FeedNow, FeedInv, IInv, TypeOK
<1>3. UNCHANGED <<AnnouncedNow, CountNow>>
  BY <1>1 DEF AnnouncedNow, CountNow, Announced
<1> QED
  BY <1>2, <1>3, FeedSteps

-----------------------------------------------------------------------------
LEMMA StepRefines == FeedInv /\ [AnyStep]_vars => [Feed!Next]_Feed!feedVars
<1> SUFFICES ASSUME FeedInv, [AnyStep]_vars PROVE [Feed!Next]_Feed!feedVars
  OBVIOUS
<1> DEFINE Silent ==
      /\ recvBuffer' = recvBuffer /\ Announced' = Announced
      /\ \A c \in Announced : sid'[c] = sid[c] /\ pushed'[c] = pushed[c]
<1>s. ASSUME Silent PROVE UNCHANGED Feed!feedVars
  BY <1>s, Unnoticed DEF FeedNow
<1>t. phase \in [Conn -> Phases] /\ sid \in [Conn -> Handle \union {NoHandle}]
  BY DEF FeedInv, IInv, TypeOK
<1> USE DEF Announced, Open, sessionVars
<1>1. CASE Control
  BY <1>1, <1>s DEF Control, Bind, StopServer, StopService
<1>2. CASE ServerStopped \/ ServiceStopped
  <2>1. Silent
    BY <1>2, <1>t DEF ServerStopped, ServiceStopped
  <2> QED
    BY <2>1, <1>s
<1>3. ASSUME NEW c \in Conn, NEW h \in Handle, OnConnected(c, h)
      PROVE  UNCHANGED Feed!feedVars
  <2>1. Silent
    BY <1>3, <1>t DEF OnConnected
  <2> QED
    BY <2>1, <1>s
<1>4. ASSUME NEW c \in Conn, Established(c) PROVE [Feed!Next]_Feed!feedVars
  <2>1. CASE PushConnect(c) \/ PushMessage(c) \/ PushDisconnect(c)
    BY <2>1, AnnounceRefines, DeliverRefines, EndRefines
  <2>2. CASE AddSession(c) \/ (\E n \in 1..MaxMessages : Receive(c, n)) \/ Fail(c)
               \/ CloseSocket(c) \/ RemoveSession(c) \/ SessionRemoved(c)
    <3>1. Silent
      BY <2>2, <1>t DEF AddSession, Receive, Fail, CloseSocket, RemoveSession, SessionRemoved
    <3> QED
      BY <3>1, <1>s
  <2> QED
    BY <1>4, <2>1, <2>2 DEF Established
<1>5. ASSUME NEW t \in Thread, App(t) PROVE [Feed!Next]_Feed!feedVars
  <2>1. CASE Recv(t)
    BY <2>1, TakeRefines
  <2>2. CASE Find(t) \/ SendAsync(t)
    BY <2>2, <1>s DEF Find, SendAsync
  <2> QED
    BY <1>5, <2>1, <2>2 DEF App
<1>6. CASE UNCHANGED vars
  BY <1>6, <1>s DEF vars
<1> QED
  BY <1>1, <1>2, <1>3, <1>4, <1>5, <1>6 DEF AnyStep, Others

(***************************************************************************)
(* StreamSocket implements SessionFeed: for every handle recv returns      *)
(* CONNECT, the messages of one session in order, and DISCONNECT, before   *)
(* the next session with that handle is announced.                         *)
(***************************************************************************)
THEOREM SocketImplementsFeed == Spec => ImplementsSessionFeed
<1>1. Init => FeedInv
  BY InitIInv DEF Init, FeedInv, FreshInv
<1>2. [Next]_vars => [AnyStep]_vars
  BY DEF Next, AnyStep, Accept
<1>3. FeedInv /\ [Next]_vars => FeedInv'
  BY <1>2, NextFeedInv
<1>4. FeedInv /\ [Next]_vars => [Feed!Next]_Feed!feedVars
  BY <1>2, StepRefines
<1> QED
  BY <1>1, <1>3, <1>4, InitRefines, PTL DEF Spec, ImplementsSessionFeed, Feed!Spec

=============================================================================
