SPECIFICATION FairSpec
CONSTANTS
  Configs <- MCConfigs
  Grants  <- MCGrants
INVARIANTS NoMissingStore SyncedBeforeUse
PROPERTY StartsUp
CHECK_DEADLOCK FALSE
