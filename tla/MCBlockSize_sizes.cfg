CONSTANTS
  BuffSize = 256
  ShortMax = 32767
  RsaSize = 256
  Users <- MCUsers
  LinkCap = 1
  ReadSizes <- MCReadSizes
  TornSizes <- MCTornSizes
SPECIFICATION Spec
INVARIANTS TypeOK StreamLengths NoGrowth GrowthBounded OverrunBounded
CHECK_DEADLOCK FALSE
