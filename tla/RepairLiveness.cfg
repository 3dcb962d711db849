CONSTANTS
  Nodes = {n1, n2, n3}
  Jobs = {j1, j2}
  Tasks = {t1, t2}
  Workers = 1
  Checks = {c1}
  Factor = 2
  Quorum = 1
  MaxAttempts = 3
  MaxErrors = 2
  MaxRot = 0
  NoNode = NoNode
  NoJob = NoJob
SPECIFICATION TransientSpec
PROPERTY ReplicationRestored
CHECK_DEADLOCK FALSE
