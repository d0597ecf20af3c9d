\* Two channels and up to three requests outstanding at the service.
SPECIFICATION Spec
CONSTANTS
  None = None
  Channels = {stable, alpha}
  MaxRequests = 3
INVARIANTS
  OneCore
