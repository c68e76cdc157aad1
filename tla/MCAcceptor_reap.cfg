CONSTANTS
  c1 = c1
  c2 = c2
  c3 = c3
  NoTid = NoTid
  Conns <- MCConns
  Tids <- MCTids
SPECIFICATION FairSpec
INVARIANTS TypeOK NoUseAfterFree TableComplete SweepNeverEmpty
PROPERTIES Serves JoinReturns ReapingProgress
