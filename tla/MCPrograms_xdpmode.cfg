SPECIFICATION MCSpec
CONSTANTS
  None = None
  Progs <- MCProgs
  Modules <- MCXdpModules
  Kind <- MCKind
  Points = {"open", "read"}
  Ifaces = {"eth0", "lo"}
  NativeIfaces = {"eth0"}
  FlagSet = {"Unset", "UpdateIfNoExist", "SkbMode"}
  MaxFds = 4
  MaxOther = 1
  MaxXdpAttach = 2
INVARIANTS
  XdpDetachComplete
CHECK_DEADLOCK FALSE
