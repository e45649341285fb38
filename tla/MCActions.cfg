SPECIFICATION Spec
CONSTANTS
  MaxPods = 2
  HasMetrics = TRUE
  Duration = 1
  Nodes = {n1, n2, n3}
  MaxGeneration = 3
  Deployments = {d1, d2}
  MetricNames = {"desired", "ready"}
  MaxReplicas = 1
  Events = {e1, e2}
  Second = 2
  Lag = TRUE
  Order <- MCOrder
  MaxInstance = 2
  Durations = {0, 2}
  RolloutTime = 1
  LastTick = 4
CHECK_DEADLOCK FALSE
INVARIANTS
  VerdictIsEarned
  WaitedMeansRolledOut
  MissesOnlyOvertaken
  SentAtMostTwice
  HitsWhatWasPrepared
PROPERTIES
  WidgetIsCurrent
  ReachesVerdict
  MeetsOnlyLaterRollouts
  KeepsCrashing
