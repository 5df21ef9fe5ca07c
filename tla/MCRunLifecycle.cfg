SPECIFICATION Spec
SYMMETRY Symmetry
CONSTANTS
  Runs = {r1}
  Workers = {w1, w2}
  Operators = {o1}
  Nobody = Nobody
  LeaseDuration = 2
  MaxClaims = 3
  MaxClock = 3
  MaxVersion = 4
  MaxEvents = 4
INVARIANTS
  TypeOK
  EvidenceFenced
  LifecycleChain
  VersionIdentifiesRow
PROPERTIES
  LiveLeaseNotRevoked
  TerminalIsFinal
  OwnershipSpec
CHECK_DEADLOCK FALSE
