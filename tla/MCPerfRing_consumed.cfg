SPECIFICATION Spec
CONSTANTS
  RingCells = 8
  SampleSizes <- MCSampleSizes
  LostCells = 3
  MaxSamples = 6
INVARIANT AllMessagesConsumed
CHECK_DEADLOCK FALSE
