SPECIFICATION Spec
CONSTANTS
  Requests <- MCRequests
  ToolOf <- MCToolOf
  Mutations <- MCMutations
  NeedsApproval = {"refund"}
  Plans <- MCPlans
  MaxTools = 3
INVARIANTS
  TypeOK
  AppliedAsDeclared
  HistoryAuthentic
  Recoverable
  FaultsFelt
CHECK_DEADLOCK FALSE
