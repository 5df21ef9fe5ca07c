SPECIFICATION Spec
SYMMETRY Symmetry
CONSTANTS
  Executors = {e1, e2}
  Requests <- MCRequests
  Turns <- RefundTurns
  Mutations <- MCMutations
  Key <- MCKey
  Policy <- MCPolicy
  AfterCommit = {"update", "clash", "refund"}
  Overruns = {}
  MaxSteps = 2
  MaxToolCalls = 3
  MaxPerLease = 2
  MaxClaims = 2
INVARIANTS
  AttemptsOnce
CHECK_DEADLOCK FALSE
