SPECIFICATION Spec
SYMMETRY Symmetry
CONSTANTS
  Executors = {e1, e2}
  Requests <- MCRequests
  Turns <- RefundTurns
  Mutations <- MCMutations
  Key <- MCKey
  Policy <- MCPolicy
  AfterCommit = {}
  Overruns = {}
  MaxSteps = 2
  MaxToolCalls = 3
  MaxPerLease = 1
  MaxClaims = 2
INVARIANTS
  EvaluatingRestarts
CHECK_DEADLOCK FALSE
