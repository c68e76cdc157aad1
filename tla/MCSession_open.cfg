\* No "remote": negotiation, CONNECT, UDP, and BIND that cannot listen.
CONSTANTS
  c1 = c1
  c2 = c2
  NoConn = NoConn
  Conns <- MCConns
  BasePort = 0
  MutexKind = "blocking"
  Hellos <- MCHellos
  AuthFrames <- MCAuthFrames
  Requests <- MCRequests
SPECIFICATION FairSpec
INVARIANTS TypeOK AuthGate Dialogue Released
PROPERTIES DoneIsLast ClientGoneEnds QuietEnds Serves
CHECK_DEADLOCK FALSE
