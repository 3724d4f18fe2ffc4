\* Two connections over two handles, one thread; the server is bound twice, and
\* an upgrade comes before, during and after its stop.
SPECIFICATION WSSpec
CONSTANTS
  Conn = {c1, c2}
  Handle = {h1, h2}
  Thread = {t1}
  MaxMessages = 1
  MaxBinds = 2
  SessionHasSocket = TRUE
  NoHandle = NoHandle
  NoConn = NoConn
  NoMessage = NoMessage
INVARIANTS
  WSTypeOK
  RegistryExact
  HandshakeUnreachable
PROPERTIES
  ImplementsSessionFeed
  CloseIsQuiet
CHECK_DEADLOCK FALSE
