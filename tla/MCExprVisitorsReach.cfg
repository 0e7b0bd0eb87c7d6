CONSTANTS
  Names <- MCNames
  Exprs <- MCExprs
  Ranges <- MCRanges
  HasVar <- has_var
  HasLog <- has_log
  Width = 5
  MaxInt = 15
SPECIFICATION Spec
INVARIANT InvertReachesVar
