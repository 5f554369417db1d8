SPECIFICATION MCSpec
CONSTANTS
  None = None
  Progs <- MCProgs
  Modules <- MCModules
  Kind <- MCKind
  Points = {"open", "read"}
  Ifaces = {"eth0", "lo"}
  NativeIfaces = {"eth0"}
  FlagSet = {"Unset"}
  MaxFds = 4
  MaxOther = 1
  MaxXdpAttach = 2
INVARIANTS
  OwnedFdsRight
  DetachComplete
  ProbeAtFunction
CHECK_DEADLOCK FALSE
