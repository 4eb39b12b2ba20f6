SPECIFICATION Spec
CONSTANTS
  Configs <- MCConfigs
  ErrorTexts <- SpokenOrEmpty
  SyncWrite = TRUE
  MaxRecords = 3
  MaxRequest = 2
  MaxWire = 2
INVARIANT AckedOnlyIfDurable
CHECK_DEADLOCK FALSE
