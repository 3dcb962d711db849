CONSTANTS
  Clients = {c1, c2, c3}
  Limit = 2
  Window = 3
  PerSecond = 2
  MaxClients = 2
  MaxTime = 6
SPECIFICATION Spec
INVARIANTS TypeOK Bounded WindowBound RetryAfterSuffices
SYMMETRY Symmetry
CHECK_DEADLOCK FALSE
