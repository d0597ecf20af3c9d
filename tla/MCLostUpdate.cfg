SPECIFICATION Spec
CONSTANTS
  Profiles = {work, home}
  Settings = {plain, tun}
  Stopped = Stopped
  Broken = Broken
  None = None
INVARIANTS FilesAgreeDespiteOverlap
