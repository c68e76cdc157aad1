\* The claim that run waits for its child threads.
CONSTANTS
  c1 = c1
  Conns <- MCConns
  Files <- Complete
  Sections <- MCSections
  Names <- MCNames
  Values <- MCValues
  Refused <- MCRefused
  Commands <- MCCommands
  MaxEvents = 1
SPECIFICATION Spec
INVARIANT ChildrenEnded
CHECK_DEADLOCK FALSE
