SPECIFICATION Spec
CONSTANTS
  Configs <- MCConfigs
  MaxItems = 5
INVARIANTS
  TypeOK
  NothingLostInOrder
  BatchWithinSize
  TimerBelongsToBatch
PROPERTY EveryItemEmitted
CHECK_DEADLOCK FALSE
