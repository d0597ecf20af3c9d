SPECIFICATION Spec
CONSTANTS
  FileCount = 2
  Versions = {v1, v2}
  Absent = Absent
  MaxJournals = 2
INVARIANTS RecoversOnlyUnfinished
