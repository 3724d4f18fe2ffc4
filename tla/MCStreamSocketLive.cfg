\* Two connections over two handles, one thread, two messages each.
SPECIFICATION FairSpec
CONSTANTS
  Conn = {c1, c2}
  Handle = {h1, h2}
  Thread = {t1}
  MaxMessages = 2
  MaxBinds = 2
  SessionHasSocket = TRUE
  NoHandle = NoHandle
  NoConn = NoConn
  NoMessage = NoMessage
PROPERTIES
  ImplementsSessionFeed
  SessionsEnd
  CloseReturns
CHECK_DEADLOCK FALSE
