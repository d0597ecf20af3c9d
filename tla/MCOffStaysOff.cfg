SPECIFICATION Spec
CONSTANTS
  Capacity = 2
  Relayed = 1
  MaxInputs = 3
  None = None
INVARIANT OffStaysOff
CHECK_DEADLOCK FALSE
