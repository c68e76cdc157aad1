CONSTANTS
  c1 = c1
  c2 = c2
  NoConn = NoConn
  Conns <- MCConns
  BasePort = 0
  MutexKind = "blocking"
  Hellos <- MCHellos
  AuthFrames <- MCAuthFrames
  Requests <- OnlyConnect
SPECIFICATION Spec
INVARIANTS OnlySupportedMethods
CHECK_DEADLOCK FALSE
