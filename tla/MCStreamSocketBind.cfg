\* The session that CreateSession makes: the inherited constructor gives it
\* the server only.
SPECIFICATION Spec
CONSTANTS
  Conn = {c1, c2}
  Handle = {h1, h2}
  Thread = {t1}
  MaxMessages = 1
  MaxBinds = 1
  SessionHasSocket = FALSE
  NoHandle = NoHandle
  NoConn = NoConn
  NoMessage = NoMessage
INVARIANT NoNullSocket
CHECK_DEADLOCK FALSE
