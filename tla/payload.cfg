SPECIFICATION Spec
CONSTANTS
  Originals <- MCOriginals
  NamedSchemas <- MCNamedSchemas
  Single = 2
  Double = 4
  IntMax = 14
  LongMax = 62
  Octets <- MCOctets
INVARIANT DeliveredIsSent
CHECK_DEADLOCK FALSE
