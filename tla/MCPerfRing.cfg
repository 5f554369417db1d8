SPECIFICATION FairSpec
CONSTANTS
  RingCells = 8
  SampleSizes <- MCSampleSizes
  LostCells = 3
  MaxSamples = 4
INVARIANTS
  RingInv
  CopyIsWholeRecord
  DeliveredInOrder
PROPERTIES
  ImplementsEventStream
  StreamProgress
CHECK_DEADLOCK FALSE
