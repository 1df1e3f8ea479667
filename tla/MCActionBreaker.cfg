CONSTANTS
  Handlers = {h1, h2, h3}
  FailureThreshold = 2
  MaxConcurrency = 2
  MaxGeneration = 4
SPECIFICATION FairSpec
INVARIANTS
  TypeOK
  ProbeAccounted
  StreakMatchesState
  SlotsAccounted
  OpenIsUnpermitted
PROPERTIES
  ProbeDecides
  ProbesHappen
CHECK_DEADLOCK FALSE
