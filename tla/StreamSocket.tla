---------------------------- MODULE StreamSocket ----------------------------
(***************************************************************************)
(* Play::StreamSocket, StreamServer and Session (stream_socket.{hpp,cpp}): *)
(* the sessions of a server, their registry by socket handle, and the      *)
(* queue of messages the application reads.                                *)
(*                                                                         *)
(* Three kinds of threads run at once: the io thread of the service (one:  *)
(* bind makes a default Service), which runs every callback of a session;  *)
(* the threads of the application, which call recv and send; and the one   *)
(* that calls bind and close.  A callback is a sequence of steps of the io *)
(* thread, one per access to shared state.  The asio server (CppServer)    *)
(* and the TBB containers are external: accepting, receiving, closing and  *)
(* the locks of concurrent_hash_map are modelled as the code uses them.    *)
(*                                                                         *)
(* What onReceived parses is in StreamParser; here a receive yields a      *)
(* number of messages or an exception, which by StreamParser!NothingLost   *)
(* has no message with it.                                                 *)
(***************************************************************************)
EXTENDS Naturals, Sequences

CONSTANTS
  Conn,        (* the connections accepted, one Session object each: bound *)
  Handle,      (* the native handles of the operating system               *)
  Thread,      (* the application's threads                                *)
  MaxMessages, (* messages one connection sends: bounds the model          *)
  MaxBinds,    (* calls of bind: bounds the model                          *)
  SessionHasSocket, (* CreateSession gives the session its _socket         *)
  NoHandle, NoConn, NoMessage

ASSUME SocketAssumption ==
  /\ MaxMessages \in Nat /\ MaxBinds \in Nat
  /\ SessionHasSocket \in BOOLEAN
  /\ NoHandle \notin Handle /\ NoConn \notin Conn

VARIABLES
  phase,     (* where each session is in its life, and the io thread in it *)
  sid,       (* Session::_sid                                              *)
  parsed,    (* messages parsed by onReceived and not pushed yet           *)
  pushed,    (* messages of the session pushed to _recvBuffer so far       *)
  sessions,  (* _sessions: the session of a handle, or NoConn              *)
  recvBuffer,(* _recvBuffer                                                *)
  message,   (* the message an application thread is answering             *)
  accessor,  (* the session its const_accessor is on, in send              *)
  server,    (* the calls of bind and close                                *)
  accepting, (* the acceptor of the server is open                         *)
  binds      (* calls of bind so far                                       *)

sessionVars == <<phase, sid, parsed, pushed>>
threadVars == <<message, accessor>>
serverVars == <<server, accepting, binds>>
vars == <<phase, sid, parsed, pushed, sessions, recvBuffer, message, accessor,
          server, accepting, binds>>

-----------------------------------------------------------------------------
(***************************************************************************)
(* The phases of a session, in order.  "closing": Disconnect() is posted.  *)
(* "orphaned": the service stopped before the session was disconnected.    *)
(***************************************************************************)
Connecting == {"accepted", "registered"}            \* in onConnected
Open == {"open", "closing"}                         \* between callbacks
Disconnecting == {"released", "ended", "unlinked"}  \* in onDisconnected
Phases == {"new", "closed", "orphaned", "crashed"} \union Connecting \union Open
            \union Disconnecting

(* The io thread is in no callback.                                        *)
IoIdleAlways == TRUE          \* mutant: a service with several io threads
IoIdle ==
  \A c \in Conn :
    /\ phase[c] \notin {"crashed"} \union Connecting \union Disconnecting
    /\ parsed[c] = 0
IoRuns == server # "down"

(* The operating system gives a handle to one open socket at a time.       *)
HasHandle(c) == phase[c] \in Connecting \union Open \union {"orphaned"}
FreeHandles == Handle \ {sid[c] : c \in {d \in Conn : HasHandle(d)}}

Push(m) == recvBuffer' = Append(recvBuffer, m)
MsgUnset(c, type, n) ==       \* mutant: _sid is read before it is set
  [sid |-> NoHandle, type |-> type, num |-> n, from |-> c]
Msg(c, type, n) == [sid |-> sid[c], type |-> type, num |-> n, from |-> c]

Init ==
  /\ phase = [c \in Conn |-> "new"]
  /\ sid = [c \in Conn |-> NoHandle]
  /\ parsed = [c \in Conn |-> 0]
  /\ pushed = [c \in Conn |-> 0]
  /\ sessions = [h \in Handle |-> NoConn]
  /\ recvBuffer = <<>>
  /\ message = [t \in Thread |-> NoMessage]
  /\ accessor = [t \in Thread |-> NoConn]
  /\ server = "down"
  /\ accepting = FALSE
  /\ binds = 0

-----------------------------------------------------------------------------
(* bind(port), after a close or for the first time.                        *)
Bind ==
  /\ server = "down"
  /\ binds < MaxBinds
  /\ server' = "up"
  /\ accepting' = TRUE
  /\ binds' = binds + 1
  /\ UNCHANGED <<sessionVars, sessions, recvBuffer, threadVars>>

(* close(): _server->Stop() posts the stop of the server to the io thread, *)
(* _service->Stop() posts the stop of the service behind it and joins.     *)
StopServer ==
  /\ server = "up"
  /\ server' = "stopping"
  /\ UNCHANGED <<sessionVars, sessions, recvBuffer, threadVars, accepting, binds>>

StopService ==
  /\ server = "stopping"
  /\ server' = "joining"
  /\ UNCHANGED <<sessionVars, sessions, recvBuffer, threadVars, accepting, binds>>

(* The io thread stops the server, and posts a Disconnect to each session. *)
ServerStopped ==
  /\ server \in {"stopping", "joining"}
  /\ IoIdle
  /\ accepting
  /\ accepting' = FALSE
  /\ phase' = [c \in Conn |-> IF phase[c] = "open" THEN "closing" ELSE phase[c]]
  /\ UNCHANGED <<sid, parsed, pushed, sessions, recvBuffer, threadVars, server, binds>>

(* Mutant: close() does not join, and a callback still runs after it.      *)
ServiceStoppedAtOnce ==
  /\ server = "joining"
  /\ ~accepting
  /\ server' = "down"
  /\ phase' = [c \in Conn |-> IF phase[c] \in Open THEN "orphaned" ELSE phase[c]]
  /\ UNCHANGED <<sid, parsed, pushed, sessions, recvBuffer, threadVars, accepting, binds>>

(* The io thread ends.  Disconnects still posted are never run.            *)
ServiceStopped ==
  /\ server = "joining"
  /\ IoIdle
  /\ ~accepting
  /\ server' = "down"
  /\ phase' = [c \in Conn |-> IF phase[c] \in Open THEN "orphaned" ELSE phase[c]]
  /\ UNCHANGED <<sid, parsed, pushed, sessions, recvBuffer, threadVars, accepting, binds>>

-----------------------------------------------------------------------------
(* CreateSession has made the session of a connection, and onConnected      *)
(* takes the handle of its socket as session id ...                         *)
OnConnected(c, h) ==
  /\ IoRuns /\ IoIdle
  /\ phase[c] = "new"
  /\ phase' = [phase EXCEPT ![c] = "accepted"]
  /\ sid' = [sid EXCEPT ![c] = h]
  /\ UNCHANGED <<parsed, pushed, sessions, recvBuffer, threadVars, serverVars>>

(* ... as soon as the server has accepted the connection.                   *)
Accept(c, h) == accepting /\ h \in FreeHandles /\ OnConnected(c, h)

(* _socket->addSession: insert leaves the entry of a key it finds.  Without *)
(* a _socket the call dereferences a null pointer, and no callback returns. *)
AddSession(c) ==
  /\ phase[c] = "accepted"
  /\ IF SessionHasSocket
     THEN /\ sessions' = [sessions EXCEPT ![sid[c]] = IF @ = NoConn THEN c ELSE @]
          /\ phase' = [phase EXCEPT ![c] = "registered"]
     ELSE /\ phase' = [phase EXCEPT ![c] = "crashed"]
          /\ UNCHANGED sessions
  /\ UNCHANGED <<sid, parsed, pushed, recvBuffer, threadVars, serverVars>>

PushConnect(c) ==
  /\ phase[c] = "registered"
  /\ Push(Msg(c, "CONNECT", 0))
  /\ phase' = [phase EXCEPT ![c] = "open"]
  /\ UNCHANGED <<sid, parsed, pushed, sessions, threadVars, serverVars>>

(* onReceived: the buffer is written and parsed ...                        *)
Receive(c, n) ==
  /\ IoRuns /\ IoIdle
  /\ phase[c] \in Open
  /\ pushed[c] + n <= MaxMessages
  /\ parsed' = [parsed EXCEPT ![c] = n]
  /\ UNCHANGED <<phase, sid, pushed, sessions, recvBuffer, threadVars, serverVars>>

(* ... and the messages are pushed one after the other ...                 *)
PushMessage(c) ==
  /\ parsed[c] > 0
  /\ Push(Msg(c, "NORMAL", pushed[c] + 1))
  /\ pushed' = [pushed EXCEPT ![c] = @ + 1]
  /\ parsed' = [parsed EXCEPT ![c] = @ - 1]
  /\ UNCHANGED <<phase, sid, sessions, threadVars, serverVars>>

(* Mutant: onError unregisters the session before it has ended.            *)
FailErases(c) ==
  /\ IoRuns /\ IoIdle
  /\ phase[c] = "open"
  /\ phase' = [phase EXCEPT ![c] = "closing"]
  /\ sessions' = [sessions EXCEPT ![sid[c]] = NoConn]
  /\ UNCHANGED <<sid, parsed, pushed, recvBuffer, threadVars, serverVars>>

(* ... or an exception is caught, as onError does: Disconnect().           *)
Fail(c) ==
  /\ IoRuns /\ IoIdle
  /\ phase[c] = "open"
  /\ phase' = [phase EXCEPT ![c] = "closing"]
  /\ UNCHANGED <<sid, parsed, pushed, sessions, recvBuffer, threadVars, serverVars>>

(* The socket is closed, by a posted Disconnect or because the client      *)
(* closed it: the operating system may reuse the handle from here on.      *)
CloseSocket(c) ==
  /\ IoRuns /\ IoIdle
  /\ phase[c] \in Open
  /\ phase' = [phase EXCEPT ![c] = "released"]
  /\ UNCHANGED <<sid, parsed, pushed, sessions, recvBuffer, threadVars, serverVars>>

(* onDisconnected ...                                                      *)
PushDisconnect(c) ==
  /\ phase[c] = "released"
  /\ Push(Msg(c, "DISCONNECT", 0))
  /\ phase' = [phase EXCEPT ![c] = "ended"]
  /\ UNCHANGED <<sid, parsed, pushed, sessions, threadVars, serverVars>>

(* Mutant: onDisconnected forgets removeSession.                           *)
RemoveSessionForgotten(c) ==
  /\ phase[c] = "ended"
  /\ phase' = [phase EXCEPT ![c] = "unlinked"]
  /\ UNCHANGED <<sid, parsed, pushed, sessions, recvBuffer, threadVars, serverVars>>

(* ... and removeSession: erase takes the entry out of the table ...       *)
RemoveSession(c) ==
  /\ phase[c] = "ended"
  /\ sessions' = [sessions EXCEPT ![sid[c]] = NoConn]
  /\ phase' = [phase EXCEPT ![c] = "unlinked"]
  /\ UNCHANGED <<sid, parsed, pushed, recvBuffer, threadVars, serverVars>>

(* Mutant: send keeps the session after its accessor.                      *)
SessionRemovedAtOnce(c) ==
  /\ phase[c] = "unlinked"
  /\ phase' = [phase EXCEPT ![c] = "closed"]
  /\ UNCHANGED <<sid, parsed, pushed, sessions, recvBuffer, threadVars, serverVars>>

(* ... and waits until no thread has an accessor on it.                    *)
SessionRemoved(c) ==
  /\ phase[c] = "unlinked"
  /\ \A t \in Thread : accessor[t] # c
  /\ phase' = [phase EXCEPT ![c] = "closed"]
  /\ UNCHANGED <<sid, parsed, pushed, sessions, recvBuffer, threadVars, serverVars>>

-----------------------------------------------------------------------------
(* recv(): the application answers the message, or only notes it.           *)
Recv(t) ==
  /\ message[t] = NoMessage
  /\ recvBuffer # <<>>
  /\ recvBuffer' = Tail(recvBuffer)
  /\ message' \in {message, [message EXCEPT ![t] = Head(recvBuffer)]}
  /\ UNCHANGED <<sessionVars, sessions, accessor, serverVars>>

(* send(message): find takes the accessor of the session, or fails ...     *)
Find(t) ==
  /\ message[t] # NoMessage
  /\ accessor[t] = NoConn
  /\ IF sessions[message[t].sid] # NoConn
     THEN /\ accessor' = [accessor EXCEPT ![t] = sessions[message[t].sid]]
          /\ UNCHANGED message
     ELSE /\ message' = [message EXCEPT ![t] = NoMessage]
          /\ UNCHANGED accessor
  /\ UNCHANGED <<sessionVars, sessions, recvBuffer, serverVars>>

(* Mutant: the send is synchronous, done by the io thread.                 *)
SendByIo(t) ==
  /\ accessor[t] # NoConn
  /\ IoRuns => IoIdle
  /\ message' = [message EXCEPT ![t] = NoMessage]
  /\ accessor' = [accessor EXCEPT ![t] = NoConn]
  /\ UNCHANGED <<sessionVars, sessions, recvBuffer, serverVars>>

(* ... and SendAsync queues the bytes; the accessor is released on return. *)
SendAsync(t) ==
  /\ accessor[t] # NoConn
  /\ message' = [message EXCEPT ![t] = NoMessage]
  /\ accessor' = [accessor EXCEPT ![t] = NoConn]
  /\ UNCHANGED <<sessionVars, sessions, recvBuffer, serverVars>>

-----------------------------------------------------------------------------
Control == Bind \/ StopServer \/ StopService
Established(c) ==
  \/ AddSession(c) \/ PushConnect(c)
  \/ \E n \in 1..MaxMessages : Receive(c, n)
  \/ PushMessage(c) \/ Fail(c) \/ CloseSocket(c)
  \/ PushDisconnect(c) \/ RemoveSession(c) \/ SessionRemoved(c)
App(t) == Recv(t) \/ Find(t) \/ SendAsync(t)

Others ==    \* every step but the accepting of a connection
  \/ Control
  \/ ServerStopped
  \/ ServiceStopped
  \/ \E c \in Conn : Established(c)
  \/ \E t \in Thread : App(t)

Next == Others \/ \E c \in Conn, h \in Handle : Accept(c, h)

Spec == Init /\ [][Next]_vars

(***************************************************************************)
(* The io thread runs its callback to the end and the tasks posted to it,  *)
(* a close goes on to stop the service, and a send that was called goes    *)
(* on.  Nothing makes a client connect, send or leave, nor the application *)
(* call recv, bind or close.                                               *)
(***************************************************************************)
Callback(c) ==
  \/ AddSession(c) \/ PushConnect(c) \/ PushMessage(c)
  \/ PushDisconnect(c) \/ RemoveSession(c) \/ SessionRemoved(c)

Fairness ==
  /\ \A c \in Conn : WF_vars(Callback(c))
  /\ \A c \in Conn : WF_vars(phase[c] = "closing" /\ CloseSocket(c))
  /\ WF_vars(StopService) /\ WF_vars(ServerStopped) /\ WF_vars(ServiceStopped)
  /\ \A t \in Thread : WF_vars(Find(t) \/ SendAsync(t))

FairSpec == Spec /\ Fairness

-----------------------------------------------------------------------------
Messages == [sid : Handle, type : {"CONNECT", "NORMAL", "DISCONNECT"},
             num : 0..MaxMessages, from : Conn]

TypeOK ==
  /\ phase \in [Conn -> Phases]
  /\ sid \in [Conn -> Handle \union {NoHandle}]
  /\ parsed \in [Conn -> 0..MaxMessages]
  /\ pushed \in [Conn -> 0..MaxMessages]
  /\ sessions \in [Handle -> Conn \union {NoConn}]
  /\ recvBuffer \in Seq(Messages)
  /\ message \in [Thread -> Messages \union {NoMessage}]
  /\ accessor \in [Thread -> Conn \union {NoConn}]
  /\ server \in {"down", "up", "stopping", "joining"}
  /\ accepting \in BOOLEAN
  /\ binds \in 0..MaxBinds

(***************************************************************************)
(* A handle leads to a session exactly while the session is registered:    *)
(* from addSession in onConnected to removeSession in onDisconnected, also *)
(* when the operating system gives the handle of a closed socket to the    *)
(* next connection.  In particular insert never finds the key taken.       *)
(***************************************************************************)
Registered(c) ==
  phase[c] \in {"registered", "released", "ended", "orphaned"} \union Open
RegistryExact ==
  \A c \in Conn, h \in Handle :
    sessions[h] = c <=> Registered(c) /\ sid[c] = h

(***************************************************************************)
(* "session is not exist" (stream_socket.cpp:155) is the answer only when  *)
(* the DISCONNECT of the session the message came from is in the queue or  *)
(* was read: the application can know.                                     *)
(***************************************************************************)
MissedMeansEnded ==
  \A t \in Thread :
    message[t] # NoMessage /\ sessions[message[t].sid] = NoConn =>
      phase[message[t].from] \in {"unlinked", "closed"}

(***************************************************************************)
(* An answer goes to the session its message came from, unless that one    *)
(* has ended and its handle was reused: then send finds the new session.   *)
(***************************************************************************)
AnswersOwner ==
  \A t \in Thread :
    accessor[t] # NoConn /\ accessor[t] # message[t].from =>
      phase[message[t].from] = "closed"

(* onDisconnected does not return while a thread is in SendAsync on its    *)
(* session.                                                                *)
NoSendAfterDisconnected ==
  \A t \in Thread : accessor[t] # NoConn => phase[accessor[t]] # "closed"

(***************************************************************************)
(* For every handle the application reads CONNECT, the messages of one     *)
(* session in their order, DISCONNECT, and only then the next CONNECT.     *)
(***************************************************************************)
Announced == {c \in Conn : phase[c] \in {"released", "orphaned"} \union Open}
Feed == INSTANCE SessionFeed WITH
  feed <- [i \in DOMAIN recvBuffer |->
             [sid |-> recvBuffer[i].sid, type |-> recvBuffer[i].type,
              num |-> recvBuffer[i].num]],
  announced <- {sid[c] : c \in Announced},
  count <- [h \in Handle |->
              IF \E c \in Announced : sid[c] = h
              THEN pushed[CHOOSE c \in Announced : sid[c] = h] ELSE 0]

ImplementsSessionFeed == Feed!Spec

(* A session that failed or that the server disconnects ends, unless the   *)
(* service stops before.                                                   *)
SessionsEnd ==
  \A c \in Conn : phase[c] = "closing" ~> phase[c] \in {"closed", "orphaned"}

(* close() returns: the io thread waits for the sends, but not they for it. *)
CloseReturns == server = "stopping" ~> server = "down"

(* No session is made without its socket.                                  *)
NoNullSocket == \A c \in Conn : phase[c] # "crashed"

=============================================================================
