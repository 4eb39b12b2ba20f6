SPECIFICATION Spec
CONSTANTS
  Hosts = {h1, h2}
  Ports = {p1, p2}
INVARIANTS
  CachedIsProgram
  NothingLeftBehind
  EngineDoesNotOutliveHost
  ReadyIsOwnEngine
PROPERTIES
  LocalReturns
  StopEndsEngine
CHECK_DEADLOCK FALSE
