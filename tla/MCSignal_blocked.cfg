SPECIFICATION Spec
CONSTANTS
  Last = 3
  Fixed = {3}
  Sets <- BothSignals
  Options <- TwoOptions
  Ref = {1, 2, 3, 4}
  NoRef = 0
  MaxLeaked = 1
  MaxSent = 1
PROPERTY
  BlockedDuringHandler
CHECK_DEADLOCK FALSE
