CONSTANTS
  x = x
  y = y
  NoName = NoName
  Name <- MCName
  Heaps <- MCHeaps
SPECIFICATION Spec
CHECK_DEADLOCK FALSE
INVARIANTS
  TypeOK
  FirstWins
  LeaksExplained
  FreedOnce
  UsesExplained
  LookupExplained
