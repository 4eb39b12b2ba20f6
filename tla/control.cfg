SPECIFICATION Spec
CONSTANTS
  MaxConnectors = 2
  MaxProcessors = 1
INVARIANTS
  TypeOK
  ErrorNamesPipeline
  StartedIsComplete
PROPERTY CallsEnd
CHECK_DEADLOCK FALSE
