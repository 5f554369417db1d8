SPECIFICATION MCSpec
CONSTANTS
  N = 1
  NewKinds = {"DeclTag"}
  Sections <- MCSections
  Kinds <- MCKinds
  Unknown <- MCUnknown
  Objects <- MCObjects
  Typed = {"A", "a"}
  NewMaps <- MCNewMaps
  MaxFds = 6
  MaxLog = 4
  LogSizes <- MCLogSizes
INVARIANTS
  NewKindsRefused
CHECK_DEADLOCK FALSE
