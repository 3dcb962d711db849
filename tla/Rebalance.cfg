CONSTANTS
  Nodes = {n1, n2, n3}
  Jobs = {j1, j2}
  Tasks = {t1, t2}
  Workers = 1
  Factor = 2
  Quorum = 1
  MaxAttempts = 2
  MaxFaults = 1
  NoNode = NoNode
  NoJob = NoJob
  Chunks = 2
  MaxReadErrors = 1
SPECIFICATION ReadSpec
INVARIANTS TypeOK ReadTypeOK CopiesSurvive ReadsWhole UnservedOnlyIfGone
SYMMETRY Symmetry
CHECK_DEADLOCK FALSE
