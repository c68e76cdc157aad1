CONSTANTS
  LinkCap = 1
  Loads <- MCLoads
SPECIFICATION FairSpec
INVARIANTS TypeOK  NoMutualBlock
PROPERTIES EndsTogether  PeerFollowsProxy ProxyFollowsPeer
CHECK_DEADLOCK FALSE
