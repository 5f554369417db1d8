SPECIFICATION MCSpec
CONSTANTS
  N = 3
  NewKinds = {}
  Sections <- MCSections
  Kinds <- MCKinds
  Unknown <- MCUnknown
  Objects <- MCObjects
  Typed = {"A", "a"}
  NewMaps <- MCNewMaps
  MaxFds = 6
  MaxLog = 4
  LogSizes <- MCLogSizes
INVARIANTS
  NeverInconsistent
  RemovesExactly
  SameGraph
  NamesFixed
  LookupsRight
  RelocatedRight
  NoDescriptorLost
  LoadOutcome
PROPERTIES
  WalkEnds
  LoadCallReturns
CHECK_DEADLOCK FALSE
