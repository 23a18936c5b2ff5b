SPECIFICATION FairSpec
CONSTANTS
  s1 = s1
  s2 = s2
  Workers <- MCWorkers
  AxisOf <- MCAxisOf
  Operators = {o1}
  TripThreshold = 3
  ClassesSeen = {"parse", "authQuota"}
  SummaryProvider = "p"
  EmbedProvider = "p"
  MaxLateCalls = 1
  MaxResumes = 1
INVARIANTS
  NoLostWakeup
  RunningBelowThresholds
  TallyMatchesWindow
  StormOverrunBounded
PROPERTY
  CancelDrainsWorkers
