SPECIFICATION Spec
CONSTANTS
  Configs <- SmallConfigs
  Grants  <- SmallGrants
INVARIANT KeepsRunning
CHECK_DEADLOCK FALSE
