\* Proxy: two endpoints and a PAC URL beside none, any number of launches, operations,
\* kills and changes by the user.  Store: three profiles' files, two versions, two journals.
\* Import: a bundle of three files, a script among two profiles, six inputs.
SPECIFICATION JournalsSpec
CONSTANTS
  Endpoints = {e1, e2}
  Urls = {pac}
  None = None
  FileCount = 3
  Versions = {v1, v2}
  Absent = Absent
  MaxJournals = 2
  BundleSize = 3
  Items = {p, s}
  Scripts = {s}
  MaxInputs = 6
SYMMETRY Symmetry
CONSTRAINT Bound
INVARIANTS
  UserSettingsAreSafe
  CommitsAreTrue
  ImportIsWhole
PROPERTIES
  CleanShutdownRestores
  OneCommitPoint
CHECK_DEADLOCK FALSE
