SPECIFICATION MCSpec
CONSTANTS
  CPUs <- MCCPUs
  Sources = {1, 2, 3}
  Ports = {11, 12}
  Target = 22
  TargetSeq <- MCSeq
  MAX_SEQ_LEN = 4
  MaxEntries = 2
  MaxPackets = 4
  Packets <- MCPackets
  Types <- MCTypes
  Lens = {0, 1, 54, 60}
  OptionLens = {2, 3, 4, 10, 12, 18}
  Conns = {c1, c2, c3}
  Addrs = {a1, a2, a3}
  SockMax = 2
  IdxMax = 2
INVARIANTS
  ParallelRight
  SerialRight
  PointersInside
  PayloadRight
  ParserInside
  EchoesToSender
CHECK_DEADLOCK FALSE
