CONSTANTS
  Nodes = {n1, n2, n3}
  Jobs = {j1, j2}
  Tasks = {t1, t2}
  Workers = 1
  Checks = {c1, c2}
  Factor = 2
  Quorum = 1
  MaxAttempts = 2
  MaxErrors = 1
  MaxRot = 1
  NoNode = NoNode
  NoJob = NoJob
SPECIFICATION Spec
INVARIANTS TypeOK PutCopiesSurvive HealthyStored
SYMMETRY Symmetry
CHECK_DEADLOCK FALSE
