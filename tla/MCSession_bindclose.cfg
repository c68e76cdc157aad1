CONSTANTS
  c1 = c1
  c2 = c2
  NoConn = NoConn
  Conns <- MCConns
  BasePort = 1080
  MutexKind = "blocking"
  Hellos <- PlainHello
  AuthFrames <- MCAuthFrames
  Requests <- BindRequests
SPECIFICATION FairSpec
PROPERTIES BindCloses
CHECK_DEADLOCK FALSE
