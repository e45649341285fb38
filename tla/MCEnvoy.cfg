SPECIFICATION Spec
CONSTANTS
  e1 = e1
  e2 = e2
  route = route
  ruleA = ruleA
  Executions = {e1, e2}
  Users = {u}
  Routes = {route}
  Sections = {ruleA, ruleB}
  Whole = Whole
  TargetOf <- MCTargetOf
  Faults = TRUE
  StopMayOverlapStart = FALSE
CHECK_DEADLOCK FALSE
INVARIANTS
  NotShadowed
  BothRunOnlyByRace
  StoppedMeansGone
