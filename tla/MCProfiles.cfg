\* Four uids beside the global enhancement, two contents, one of them rejected; the pipeline
\* has twelve profiles, three global layers, two settings and four chains.
SPECIFICATION ProfilesSpec
CONSTANTS
  Uids = {u1, u2, u3, u4}
  Global = Merge
  LinkedKinds <- MCLinkedKinds
  Contents = {good, bad}
  Template = good
  Rejected = {bad}
  Blank = Blank
  Intervals <- MCIntervals
  None = None
  Profiles <- SomeProfiles
  Globals <- SomeGlobals
  Settings <- SomeSettings
  Chains <- SomeChains
SYMMETRY Symmetry
INVARIANTS
  RuntimeFollowsCatalogue
  LinksAreExact
  ActivationIsStable
  RuntimeIsUsable
PROPERTIES
  FailureLeavesNoTrace
