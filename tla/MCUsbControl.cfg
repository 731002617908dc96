SPECIFICATION Spec
CONSTANTS
  Requests <- MCRequests
  MaxRequests = 3
  MaxPacket = 2
  Prompt = TRUE
INVARIANT ControlInvariant
PROPERTY ImplementsPipe
CHECK_DEADLOCK FALSE
