SPECIFICATION Spec
CONSTANTS
  e1 = e1
  e2 = e2
  Executions = {e1, e2}
  Gone = Gone
  Values <- MCValues
  Initial = 2
  Settings <- MCDrainSettings
CHECK_DEADLOCK FALSE
INVARIANTS
  Restored
