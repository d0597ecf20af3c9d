\* Two profiles and two settings, both workers, any number of jobs and restarts.
SPECIFICATION Spec
CONSTANTS
  Profiles = {work, home}
  Settings = {plain, tun}
  Stopped = Stopped
  Broken = Broken
  None = None
SYMMETRY Symmetry
CONSTRAINT Compensated
INVARIANTS OnlyValidatedRuns NoOrphanJournal FilesAndCoreAgree
