SPECIFICATION MCSpec
CONSTANTS
  a = a
  b = b
  dashed = dashed
  Programs = {a, b, dashed}
  IdentOf <- MCIdentOf
  Insts <- MCInsts
  Bitcodes <- MCBitcodes
  MapAlign <- MCMapAlign
  Linked <- MCLinked
  RustcLLVM <- MCRustcLLVM
  MaxEdits = 1
  MaxStops = 1
SYMMETRY Names
INVARIANTS
  BuildResultTrue
  ElfsSound
  AddsConsistent
  BindingsRight
