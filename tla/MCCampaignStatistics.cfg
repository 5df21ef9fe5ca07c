SPECIFICATION Spec
CONSTANTS
  planned_trials = 4
  Ks = {1, 2, 3, 4, 5}
  selected_fault_ids = {"f1", "f2"}
  Observations <- MCObservations
  SmallSample = 3
INVARIANTS
  ReliabilityExact
  PairsExact
CHECK_DEADLOCK FALSE
