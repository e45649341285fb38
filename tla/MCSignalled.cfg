SPECIFICATION FairSpec
CONSTANTS
  e1 = e1
  e2 = e2
  Executions = {e1, e2}
  Gone = Gone
  Values <- MCValues
  Initial = 2
  Settings <- MCSignalSettings
CHECK_DEADLOCK FALSE
PROPERTIES
  EndIsReported
