SPECIFICATION MCSpec
CONSTANTS
  Procs = {p1, p2}
  Slots = {s1, s2}
  Paths = {f1, f2}
  NoPath = NoPath
  MaxMaps = 2
  NumKeys = 4
  BucketOf <- MCBucketOf
  MaxEntries = 3
INVARIANTS
  PinFileTrue
  StableReturned
  PerCpuExact
PROPERTIES
  PinNeverReplaces
  PinsOutliveMaps
  IterationEnds
CHECK_DEADLOCK FALSE
