SPECIFICATION FairSpec
CONSTANTS
  Executors = {e1, e2}
  Requests <- MCRequests
  Turns <- RefundTurns
  Mutations <- MCMutations
  Key <- MCKey
  Policy <- MCPolicy
  AfterCommit = {}
  Overruns = {}
  MaxSteps = 2
  MaxToolCalls = 3
  MaxPerLease = 2
  MaxClaims = 1
INVARIANTS
  AttemptsOnce
  StepsOnce
PROPERTIES
  Returns
CHECK_DEADLOCK FALSE
