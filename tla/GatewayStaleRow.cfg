CONSTANTS
  p1 = p1
  p2 = p2
  p3 = p3
  d1 = d1
  d2 = d2
  g1 = g1
  g2 = g2
  Puts = {p1, p2, p3}
  Deletes = {}
  Loops = {g1, g2}
  LoopOf <- TwoLoops
  Expected <- Conditional
  AnyVersion = AnyVersion
  Nodes = {n1}
  Factor = 1
  Quorum = 1
  NoVersion = NoVersion
  NoRequest = NoRequest
SPECIFICATION Spec
PROPERTY CommitsOnCheckedRow
CHECK_DEADLOCK FALSE
