SPECIFICATION Spec
CONSTANTS
  Requests <- MCRequests
  ToolOf <- MCToolOf
  Mutations <- MCMutations
  NeedsApproval = {"refund"}
  Plans <- ContradictingPlans
  MaxTools = 3
INVARIANTS
  ContradictionTolerated
CHECK_DEADLOCK FALSE
