SPECIFICATION Spec
CONSTANTS
  Zeros = 2
  Sixty = 6
  MaxDuration = 1000000
  Bits = 3
  MaxCalls = 2
  Classes <- MCClasses
  Requests <- MCRequests
INVARIANTS
  
  RejectionIsActionable
PROPERTY RefusedChangesNothing
CHECK_DEADLOCK FALSE
