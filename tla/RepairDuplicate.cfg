CONSTANTS
  Nodes = {n1, n2, n3}
  Jobs = {j1}
  Tasks = {t1, t2}
  Workers = 2
  Checks = {c1}
  Factor = 2
  Quorum = 1
  MaxAttempts = 2
  MaxErrors = 0
  MaxRot = 0
  NoNode = NoNode
  NoJob = NoJob
SPECIFICATION Spec
INVARIANT HealthyStored
CHECK_DEADLOCK FALSE
