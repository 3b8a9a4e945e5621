SPECIFICATION FairSpec
CONSTANTS
  Last = 3
  Fixed = {3}
  Sets <- BothSignals
  Options <- TwoOptions
  Ref = {1, 2, 3, 4}
  NoRef = 0
  MaxLeaked = 1
  MaxSent = 2
INVARIANTS
  TypeOK
  NoneForgotten
  RefsOwned
  NoSpuriousCall
PROPERTY
  Handled
CHECK_DEADLOCK FALSE
