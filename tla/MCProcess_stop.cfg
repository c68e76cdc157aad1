\* Both programs, from the configuration file to the end.
CONSTANTS
  c1 = c1
  Conns <- MCConns
  Files <- MCFiles
  Sections <- MCSections
  Names <- MCNames
  Values <- MCValues
  Refused <- MCRefused
  Commands <- MCCommands
  MaxEvents = 2
SPECIFICATION FairSpec
INVARIANTS TypeOK MapIsFile StartsAsConfigured TornDownOnce EndsForAReason
PROPERTIES SigintEnds QuitEnds
CHECK_DEADLOCK FALSE
