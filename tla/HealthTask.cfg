CONSTANTS
  Nodes = {n1, n2, n3}
  Watched = {n1}
  Factor = 2
  SuspectAfter = 1
  UnavailableAfter = 2
  MaxAnswers = 1
  MaxReconciling = 1
  MaxOutages = 1
  MaxDamage = 0
SPECIFICATION TaskSpec
PROPERTY FailureRecorded
