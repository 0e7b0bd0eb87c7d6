CONSTANTS
  Trees <- MCTrees
  Later <- MCLater
  MaxPrints = 2
SPECIFICATION Spec
INVARIANT TypeOK
INVARIANT LinesInOrder
INVARIANT NestingShown
INVARIANT BracketsMatch
INVARIANT StopsExplained
CHECK_DEADLOCK FALSE
