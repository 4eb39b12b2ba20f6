SPECIFICATION Spec
CONSTANT MaxSignals = 2
INVARIANTS
  TypeOK
  TeardownIsExclusive
  SigtermDrainsFirst
  CleanExitIsComplete
PROPERTY SigtermEndsProcess
CHECK_DEADLOCK FALSE
