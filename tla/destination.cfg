SPECIFICATION Spec
CONSTANTS
  Configs <- MCConfigs
  ErrorTexts <- Spoken
  SyncWrite = TRUE
  MaxRecords = 4
  MaxRequest = 2
  MaxWire = 2
INVARIANTS
  TypeOK
  AckedOnlyIfDurable
  EndedRunAnsweredAll
  DrainedIsQuiet
PROPERTIES
  ImplementsAckStream
  DrainTerminates
CHECK_DEADLOCK FALSE
