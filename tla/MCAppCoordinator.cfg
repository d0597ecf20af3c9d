SPECIFICATION Spec
CONSTANTS
  Capacity = 2
  Relayed = 1
  MaxInputs = 3
  None = None
INVARIANTS ViewIsTrue WishIsKept ProxyFollowsCore
CHECK_DEADLOCK FALSE
