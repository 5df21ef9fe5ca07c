SPECIFICATION Spec
CONSTANTS
  Writers = {w1}
  PageSize = 2
  MaxRows = 4
  MaxLosses = 1
INVARIANTS
  FinalStatusShown
CHECK_DEADLOCK FALSE
