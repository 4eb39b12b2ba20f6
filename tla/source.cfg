SPECIFICATION Spec
CONSTANTS
  Configs <- MCConfigs
  Sync = TRUE
  RetryLimit = 2
  MaxRecords = 3
INVARIANTS
  TypeOK
  EveryReadIsDelivered
  ReportedIsLast
  DrainedIsQuiet
PROPERTIES
  StopAnswers
  ConfirmedIsAcked
  AckOnlyWhenConfirmed
CHECK_DEADLOCK FALSE
