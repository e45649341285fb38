SPECIFICATION Spec
CONSTANTS
  Events = {e1, e2}
  Second = 2
  Durations = {0, 3}
  MaxTime = 5
  Lag = FALSE
CHECK_DEADLOCK FALSE
INVARIANTS
  LastMessagesSent
