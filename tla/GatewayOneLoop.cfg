CONSTANTS
  p1 = p1
  p2 = p2
  p3 = p3
  d1 = d1
  d2 = d2
  g1 = g1
  g2 = g2
  Puts = {p1, p2}
  Deletes = {d1, d2}
  Loops = {g1}
  LoopOf <- OneLoop
  Expected <- Mixed
  AnyVersion = AnyVersion
  Nodes = {n1, n2}
  Factor = 2
  Quorum = 1
  NoVersion = NoVersion
  NoRequest = NoRequest
SPECIFICATION Spec
INVARIANTS TypeOK ActiveReadable NumbersDistinct CurrentIsNewest DeletedIsEmpty
PROPERTIES CommitsOnCheckedRow HistoryKept ImplementsVersionedObject
CHECK_DEADLOCK FALSE
