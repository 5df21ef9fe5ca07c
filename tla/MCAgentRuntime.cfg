SPECIFICATION Spec
SYMMETRY Symmetry
CONSTANTS
  Executors = {e1, e2}
  Requests <- MCRequests
  Turns <- UpdateTurns
  Mutations <- MCMutations
  Key <- MCKey
  Policy <- MCPolicy
  AfterCommit = {"update", "clash", "refund"}
  Overruns = {"wall"}
  MaxSteps = 2
  MaxToolCalls = 3
  MaxPerLease = 1
  MaxClaims = 2
INVARIANTS
  TypeOK
  Resumable
  AttemptsOnce
  WithinBudgets
  ApprovalBeforeEffect
  EffectsAnnounced
  EvaluatedWhenDone
PROPERTIES
  ProgressOnlyExtends
  EndedIsQuiet
CHECK_DEADLOCK FALSE
