SPECIFICATION MCSpec
CONSTANTS
  Threads = {t1, i1, i2}
  IdleTasks = {i1, i2}
  IdleId = 0
  Parms = {p1, p2}
  Capacity = 1
  MaxDepth = 2
  NoParms = NoParms
  Cpus = {1, 2}
  Sizes = {1, 2}
  MaxCalls = 5
  TopCpus = {c1, c2}
  Reqs = {1, 2}
  Pids = {1, 2}
  MaxIo = 3
  MaxEnt = 1
  MaxKeys = 2
SYMMETRY MCSymmetry
INVARIANTS
  ParmsOriginal
  SkippedForReason
  CountsRight
  IotopNeverOvercounts
CHECK_DEADLOCK FALSE
