SPECIFICATION Spec
CONSTANTS
  a = a
  b = b
  work = work
  home = home
  None = None
  Nodes = {a, b}
  Profiles <- TwoProfiles
  Offers <- SharedNode
  Stored <- Unavailable
  Modes = {"sidecar"}
  Pages = {"home", "connections"}
  Calls = {"select"}
  MaxConnections = 1
  Kept = 2
  Capacity = 2
  MaxInputs = 3
CONSTRAINT Bound
INVARIANTS
  ClosedOnceAndForAll
  ActivationIsFollowed
  WindowIsTrue
CHECK_DEADLOCK FALSE
