SPECIFICATION Spec
CONSTANTS
  Configs <- MCConfigs
  Sync = TRUE
  RetryLimit = 2
  MaxRecords = 3
INVARIANT RetryNeverEndsRun
CHECK_DEADLOCK FALSE
