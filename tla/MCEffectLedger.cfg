SPECIFICATION Spec
SYMMETRY Symmetry
CONSTANTS
  Sessions = {s1, s2}
  Keys = {k1, k2}
  p1 = p1
  t1 = t1
  Captured <- MCCaptured
  FixtureStatus <- MCFixtureStatus
  FixtureRefunds <- MCFixtureRefunds
  Amounts = {1, 2}
  Tickets <- MCTickets
  TicketStatuses = {"open", "closed"}
  Missing = Missing
  MaxCalls = 3
INVARIANTS
  TypeOK
  PaymentsCovered
  LedgerVerifies
  EvidenceTellsOnce
PROPERTIES
  ReplayNeverReverts
CHECK_DEADLOCK FALSE
