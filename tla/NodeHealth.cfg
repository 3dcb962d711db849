CONSTANTS
  Nodes = {n1, n2, n3}
  Watched = {n1}
  Factor = 2
  SuspectAfter = 2
  UnavailableAfter = 3
  MaxAnswers = 2
  MaxReconciling = 2
  MaxOutages = 2
  MaxDamage = 1
SPECIFICATION FairSpec
INVARIANTS TypeOK StatusMatchesSilence UnreachableNotCorrupted
PROPERTIES SuspicionEndsByHeartbeat SilenceNoticed LossRepaired
