CONSTANTS
  c1 = c1
  c2 = c2
  NoConn = NoConn
  Conns <- MCConns
  BasePort = 1080
  MutexKind = "errorcheck"
  Hellos <- PlainHello
  AuthFrames <- MCAuthFrames
  Requests <- BindRequests
SPECIFICATION FairSpec
INVARIANTS PortSerial OneListener
PROPERTIES QuietBindReleases
CHECK_DEADLOCK FALSE
