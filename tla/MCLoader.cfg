SPECIFICATION LoaderSpec
CONSTANTS
  Cpus <- MCCpus
  PerfMaps = {1, 2}
  Entries <- MCEntries
  NumProgs = 2
  MaxEvents = 2
INVARIANTS
  NothingLostOrLeft
CHECK_DEADLOCK FALSE
PROPERTIES
  AllReceived
