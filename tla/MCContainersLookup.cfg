CONSTANTS
  x = x
  y = y
  NoName = NoName
  Name <- MCName
  Heaps <- MCHeaps
SPECIFICATION Spec
INVARIANT RuleOfRole
CHECK_DEADLOCK FALSE
