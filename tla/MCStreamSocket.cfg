\* Three connections over two handles: a handle is reused while another
\* session lives.  Two threads answer; the server is bound twice.
SPECIFICATION Spec
CONSTANTS
  Conn = {c1, c2, c3}
  Handle = {h1, h2}
  Thread = {t1, t2}
  MaxMessages = 1
  MaxBinds = 2
  SessionHasSocket = TRUE
  NoHandle = NoHandle
  NoConn = NoConn
  NoMessage = NoMessage
SYMMETRY Symmetry
INVARIANTS
  TypeOK
  RegistryExact
  MissedMeansEnded
  AnswersOwner
  NoSendAfterDisconnected
CHECK_DEADLOCK FALSE
