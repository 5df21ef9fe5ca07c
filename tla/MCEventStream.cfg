SPECIFICATION FairSpec
CONSTANTS
  Writers = {w1, w2}
  PageSize = 1
  MaxRows = 3
  MaxLosses = 2
INVARIANTS
  TypeOK
  ShownIsPrefix
  EndsComplete
PROPERTIES
  Follows
CHECK_DEADLOCK FALSE
